---------------------------- MODULE DraftWindows ----------------------------
(***************************************************************************)
(* The times of one draft (workflowState.ts): the drafting window after    *)
(* which the sweep locks the draft into review, the review window after    *)
(* which the sweep marks the review as over, the change of both windows by *)
(* policy, and the repairs of skewed times that every read of the state    *)
(* carries out.                                                            *)
(*                                                                         *)
(* The sweep lists what is due and works the list off; policy and people   *)
(* may come between.  Its clock may be ahead of the others' by Skew.       *)
(* The statuses other than drafting and review are one, "other".           *)
(***************************************************************************)
EXTENDS Integers

CONSTANTS
    Windows,    \* templates: [drafting, review: minutes, auto: BOOLEAN]
    MaxRounds,  \* template.maxRevisionRounds
    MaxTime,    \* bound: the last minute
    Skew        \* how far the clock of the sweep may be ahead

\* The minutes of a template and the rounds are positive numbers.
WindowsArePositive ==
    /\ Windows \subseteq [drafting : Nat \ {0}, review : Nat \ {0}, auto : BOOLEAN]
    /\ MaxRounds \in Nat \ {0}
    /\ MaxTime \in Nat /\ Skew \in Nat

\* The draft was accepted at minute 0.
Seed == 0

Nil == 0 - 1

Modes == {"seeded", "auto_lock", "manual_lock", "manual_extend", "review_window_elapsed",
          "rollback_to_review", "other"}

VARIABLES
    now,       \* the clock
    template,  \* the circle's draftLifecycleTemplate
    row,       \* draft_workflow_state
    due,       \* the sweep's list: is the draft on it, and the reviewEndsAt it was listed with
    began      \* when the round or the review the draft is in was begun by somebody

vars == <<now, template, row, due, began>>

\* The windows of a round that starts at t; no review yet.
DraftingFrom(t, w, mode, round) ==
    [status |-> "drafting", mode |-> mode, round |-> round, auto |-> w.auto,
     draftStart |-> t, draftEnds |-> t + w.drafting,
     revStart |-> Nil, revEnds |-> Nil, expired |-> FALSE]

InReview(r, t, w, mode) ==
    [r EXCEPT !.status = "review", !.mode = mode, !.revStart = t, !.revEnds = t + w.review,
              !.expired = FALSE]

\* repairAutoLockReviewWorkflowStateIfSkewed
RepairAutoLock(r) ==
    LET start == Seed + template.drafting
        ends  == start + template.review
    IN  IF /\ r.status = "review" /\ r.mode = "auto_lock" /\ r.revEnds # Nil
           /\ r.revStart # start \/ r.revEnds # ends \/ r.draftStart # Seed
        THEN [r EXCEPT !.draftStart = Seed, !.draftEnds = start, !.revStart = start, !.revEnds = ends]
        ELSE r

\* repairPrematureReviewWindowElapsedState
RepairPremature(r) ==
    IF r.status = "review" /\ r.mode = "review_window_elapsed" /\ r.revEnds > now
    THEN [r EXCEPT !.expired = FALSE,
                   !.mode = IF r.revStart = r.draftEnds THEN "auto_lock" ELSE "manual_lock"]
    ELSE r

\* resolveDraftWorkflowState; the repair of a seeded row has nothing to repair
\* here, the draft's seed does not move.
Resolved == RepairPremature(RepairAutoLock(row))

Init ==
    /\ now = 0
    /\ template \in Windows
    /\ row = DraftingFrom(Seed, template, "seeded", 1)
    /\ due = [draft |-> FALSE, review |-> Nil]
    /\ began = 0

Tick ==
    /\ now < MaxTime
    /\ now' = now + 1
    /\ UNCHANGED <<template, row, due, began>>

Read ==
    /\ Resolved # row
    /\ row' = Resolved
    /\ UNCHANGED <<now, template, due, began>>

\* Defect: only drafts in their first round are looked for.
SweepListsSeeded ==
    LET t == now + Skew
        d == row.status = "drafting" /\ row.mode = "seeded" /\ row.auto /\ row.draftEnds <= t
        e == row.status = "review" /\ row.revEnds # Nil /\ row.revEnds <= t /\ ~row.expired
    IN  /\ due = [draft |-> FALSE, review |-> Nil]
        /\ d \/ e
        /\ due' = [draft |-> d, review |-> IF e THEN row.revEnds ELSE Nil]
        /\ UNCHANGED <<now, template, row, began>>

\* loadDueDraftWorkflowStateRows, loadDueReviewWindowExpiredRows
SweepLists ==
    LET t == now + Skew
        d == row.status = "drafting" /\ row.auto /\ row.draftEnds <= t
        e == row.status = "review" /\ row.revEnds # Nil /\ row.revEnds <= t /\ ~row.expired
    IN  /\ due = [draft |-> FALSE, review |-> Nil]
        /\ d \/ e
        /\ due' = [draft |-> d, review |-> IF e THEN row.revEnds ELSE Nil]
        /\ UNCHANGED <<now, template, row, began>>

\* The row is read again; only its status is compared.
SweepLocks ==
    /\ due.draft
    /\ due' = [due EXCEPT !.draft = FALSE]
    /\ row' = IF row.status = "drafting"
              THEN InReview(row, row.draftEnds, template, "auto_lock") ELSE row
    /\ UNCHANGED <<now, template, began>>

\* Defect: the update does not compare the end of the review.
ListedOnly(listed) == row.status = "review" /\ ~row.expired

StillOver(listed) ==
    row.status = "review" /\ row.revEnds # Nil /\ row.revEnds <= listed /\ ~row.expired

\* markDraftWorkflowReviewWindowExpired
SweepMarks ==
    /\ due.review # Nil
    /\ due' = [due EXCEPT !.review = Nil]
    /\ row' = IF StillOver(due.review)
              THEN [row EXCEPT !.expired = TRUE, !.mode = "review_window_elapsed"] ELSE row
    /\ UNCHANGED <<now, template, began>>

\* A process that sweeps dies with its list.
SweepDies ==
    /\ due # [draft |-> FALSE, review |-> Nil]
    /\ due' = [draft |-> FALSE, review |-> Nil]
    /\ UNCHANGED <<now, template, row, began>>

\* enterDraftLifecycleReview
ManualLock ==
    /\ row.status = "drafting"
    /\ row' = InReview(row, now, template, "manual_lock")
    /\ UNCHANGED <<now, template, due, began>>

\* advanceDraftLifecycleFromReview
Advance ==
    /\ row.status = "review"
    /\ row.round < MaxRounds
    /\ row' = [DraftingFrom(now, template, "manual_extend", row.round + 1) EXCEPT !.auto = row.auto]
    /\ began' = now
    /\ UNCHANGED <<now, template, due>>

\* Archive and crystallization ...
Leave ==
    /\ row.status \in {"drafting", "review"}
    /\ row' = [row EXCEPT !.status = "other", !.mode = "other", !.expired = FALSE]
    /\ UNCHANGED <<now, template, due, began>>

\* ... and rollbackDraftLifecycleCrystallizationFailure.
Return ==
    /\ row.status = "other"
    /\ row' = InReview(row, now, template, "rollback_to_review")
    /\ began' = now
    /\ UNCHANGED <<now, template, due>>

ReviewReconciled(w) ==
    LET ends == row.revStart + w.review
    IN  [row EXCEPT !.revEnds = ends,
                    !.expired = ends <= now,
                    !.mode = IF ends <= now THEN "review_window_elapsed"
                             ELSE IF @ = "review_window_elapsed" THEN "manual_lock" ELSE @]

\* A policy change and reconcileActiveDraftWorkflowStates
ChangePolicy(w) ==
    /\ w # template
    /\ template' = w
    /\ row' = CASE row.status = "drafting" ->
                      [row EXCEPT !.auto = w.auto, !.draftEnds = row.draftStart + w.drafting]
                [] row.status = "review" -> ReviewReconciled(w)
                [] OTHER -> row
    /\ UNCHANGED <<now, due, began>>

Sweep == SweepLists \/ SweepLocks \/ SweepMarks

Next ==
    \/ Tick \/ Read \/ Sweep \/ SweepDies
    \/ ManualLock \/ Advance \/ Leave \/ Return
    \/ \E w \in Windows : ChangePolicy(w)

Spec == Init /\ [][Next]_vars

\* The sweep runs every minute, and a list is worked off unless its process dies.
FairSpec ==
    /\ Spec
    /\ WF_vars(SweepLists) /\ SF_vars(SweepLocks) /\ SF_vars(SweepMarks) /\ WF_vars(Tick)

-----------------------------------------------------------------------------
TypeOK ==
    /\ now \in 0 .. MaxTime
    /\ template \in Windows
    /\ row.status \in {"drafting", "review", "other"}
    /\ row.mode \in Modes
    /\ row.round \in 1 .. MaxRounds
    /\ row.status = "review" => row.revStart # Nil /\ row.revEnds > row.revStart
    /\ row.draftEnds > row.draftStart
    /\ began <= now

\* A review marked as over is over, by the sweep's clock: not by a list that was
\* read before the policy extended it, nor by a mark of the round before.
MarkedIsOver ==
    row.expired => row.status = "review" /\ row.revEnds <= now + Skew

\* The mark and the mode that readers show for it come and go together.
MarkAndModeAgree == row.expired <=> row.mode = "review_window_elapsed"

\* A review that is marked as over is over by the sweep's clock, and the mark and the mode
\* readers see agree.
MarksAreTrue == TypeOK /\ MarkedIsOver /\ MarkAndModeAgree

\* A draft whose drafting window has ended does not stay in drafting, unless
\* the policy gives it more time or takes the automatic entry away.
DueIsLocked ==
    (row.status = "drafting" /\ row.auto /\ row.draftEnds <= now)
        ~> (row.status # "drafting" \/ ~row.auto \/ row.draftEnds > now)
=============================================================================
