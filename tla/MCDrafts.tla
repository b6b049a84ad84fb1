------------------------------ MODULE MCDrafts ------------------------------
(***************************************************************************)
(* A draft's way through review, routes and cases, and the windows of its  *)
(* rounds, for one run of TLC; `part' says what a behaviour is of:         *)
(*   routes  two requests at a time on a draft with two cases, two rounds  *)
(*           and three versions (DraftWorkflow, the constants of the cfg); *)
(*   marks   windows of one to three minutes, a policy that lengthens,     *)
(*           shortens and makes the entry manual, a sweep whose clock may  *)
(*           be ahead (DraftWindows);                                      *)
(*   sweeps  the same with exact clocks, in fairness.                      *)
(* The other variables stay as they began.                                 *)
(***************************************************************************)
EXTENDS DraftRounds

CONSTANTS c1, c2

VARIABLE part

all == <<part, vars, windowVars>>

ThreeTemplates == {[drafting |-> 1, review |-> 2, auto |-> TRUE],
                   [drafting |-> 2, review |-> 3, auto |-> TRUE],
                   [drafting |-> 1, review |-> 3, auto |-> FALSE]}

Sweeps == INSTANCE DraftWindows WITH MaxTime <- 5, Skew <- 0

ASSUME TemplatesArePositive == Win!WindowsArePositive /\ Sweeps!WindowsArePositive

MCInit ==
    /\ part \in {"routes", "marks", "sweeps"}
    /\ Init
    /\ Sweeps!Init /\ (part = "routes" => template.drafting = 2)

InSweeps(A) == part = "sweeps" /\ A /\ UNCHANGED <<part, vars>>

MCNext ==
    \/ part = "routes" /\ BoundedNext /\ UNCHANGED <<part, windowVars>>
    \/ part = "marks" /\ Win!Next /\ UNCHANGED <<part, vars>>
    \/ InSweeps(Sweeps!Next)

MCSpec ==
    /\ MCInit /\ [][MCNext]_all
    /\ WF_all(InSweeps(Sweeps!SweepLists)) /\ SF_all(InSweeps(Sweeps!SweepLocks))
    /\ SF_all(InSweeps(Sweeps!SweepMarks)) /\ WF_all(InSweeps(Sweeps!Tick))

\* A draft whose window ended does not stay in drafting unless the policy gave it more time.
DueDraftsAreLocked == part = "sweeps" => Sweeps!DueIsLocked
=============================================================================
