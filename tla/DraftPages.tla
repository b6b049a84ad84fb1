----------------------------- MODULE DraftPages -----------------------------
(***************************************************************************)
(* The editing of a draft's working copy (DraftEditing) under a name of    *)
(* its own, to stand beside the draft's way through review.                *)
(***************************************************************************)
CONSTANTS Pages, NoHash, Documents, Happens, LoadMayFail, MaxTyped, MaxFaults

VARIABLES server, edits, typed, dropped, page, flow, post, fetch, faults

Ed == INSTANCE DraftEditing WITH MaxEdits <- MaxTyped

\* What was typed on a page does not go from it before it is saved, unless the user agreed.
WorkIsKept == Ed!WorkIsKept
=============================================================================
