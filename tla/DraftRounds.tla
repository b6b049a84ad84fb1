---------------------------- MODULE DraftRounds ----------------------------
(***************************************************************************)
(* A draft's way through review (DraftWorkflow) and the windows of its     *)
(* rounds (DraftWindows), side by side.                                    *)
(***************************************************************************)
EXTENDS DraftWorkflow

CONSTANTS Windows, MaxTime, Skew

VARIABLES now, template, row, due, began

windowVars == <<now, template, row, due, began>>

Win == INSTANCE DraftWindows

\* A review that is marked as over is over by the sweep's clock, not by a list read before the
\* policy changed or a mark of the round before, and the mark and the mode readers see agree.
MarksAreTrue == Win!MarksAreTrue
=============================================================================
