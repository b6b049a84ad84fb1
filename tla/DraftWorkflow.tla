--------------------------- MODULE DraftWorkflow ---------------------------
(***************************************************************************)
(* The lifecycle of one draft (workflowState.ts): drafting and review      *)
(* rounds, the stable snapshot a review is bound to, crystallization by    *)
(* the ordinary route or by a governance case, failure and retry, archive  *)
(* and restore - together with the cases that take the draft as their      *)
(* brief (governanceCaseWorkflow.ts, bindGovernanceCaseBrief).             *)
(*                                                                         *)
(* A handler is taken apart where other requests can come between: it      *)
(* reads the row and checks it (Ask...), then opens a transaction that     *)
(* takes the lock of the draft's Post, and looks for a case that holds the *)
(* draft (LockAndLook), and then writes and commits (Write...).  The row   *)
(* of a review entry is read in its transaction, but before the lock.      *)
(*                                                                         *)
(* Two cases: Manual is opened by people, Native by a request to accept a  *)
(* revision of this draft; it starts with its decision.  Times, policies,  *)
(* anchors and who asks are left out; DraftWindows has the times.          *)
(***************************************************************************)
EXTENDS Integers

CONSTANTS
    Clients,      \* requests and sweeps under way at the same time
    Free,         \* nobody holds the lock
    MaxRounds,    \* template.maxRevisionRounds
    MaxVersion,   \* bound: versions of the draft
    MaxEdits      \* bound: edits of the working copy

ASSUME FreeAssumption == Free \notin Clients
ASSUME BoundsAssumption == /\ MaxRounds \in Nat \ {0}
                           /\ MaxVersion \in Nat \ {0, 1}
                           /\ MaxEdits \in Nat

Statuses == {"drafting", "review", "crystallization_active",
             "crystallization_failed", "crystallized", "archived"}

Cases == {"Manual", "Native"}

\* casePhase: intake and proposal_drafting; evidence_review; the phases from
\* ready_for_decision to outcome_review; closed and archived.
Phases == {"proposal", "evidence", "decision", "closed"}

BRIEF_ACTIVE_REVIEW_PHASES == {"evidence", "decision"}

BRIEF_CONSUMED_PHASES == BRIEF_ACTIVE_REVIEW_PHASES \cup {"closed"}

BRIEF_OPEN_PHASES == {"proposal"} \cup BRIEF_ACTIVE_REVIEW_PHASES

Versions == 1 .. MaxVersion

NoSnapshot == [exists |-> FALSE, text |-> 0, receipt |-> "none"]

Receipts == {"none", "ordinary", "governed"}

Ops == {"idle", "materialize", "advance", "archive", "restore", "crystallize", "retry", "evidence"}

\* What takes the lock of the Post and looks for a case before it writes.
Locking == {"advance", "archive", "restore", "crystallize", "retry"}

VARIABLES
    draft,     \* draft_workflow_state: status, version, round, and the version
               \* whose crystallization it holds an authorization for (0: none)
    text,      \* posts.text, the working copy
    snapshot,  \* draft_version_snapshots, by version
    case,      \* the cases: phase and the version bound as brief (0: none)
    req,       \* what each client is doing, what it read, whether it has looked
    lock       \* who holds the row lock of the Post

vars == <<draft, text, snapshot, case, req, lock>>

Idle == [op |-> "idle", status |-> "drafting", version |-> 0, looked |-> FALSE]

\* findBriefLockingGovernanceCase
HeldBy(phases) == \E k \in Cases : case[k].brief # 0 /\ case[k].phase \in phases

Init ==
    /\ draft = [status |-> "drafting", version |-> 1, round |-> 1, authorized |-> 0]
    /\ text = 0
    /\ snapshot = [v \in Versions |-> NoSnapshot]
    /\ case = [k \in Cases |-> [phase |-> IF k = "Native" THEN "decision" ELSE "proposal",
                                brief |-> 0]]
    /\ req = [c \in Clients |-> Idle]
    /\ lock = Free

Starts(c, op) ==
    /\ req[c].op = "idle"
    /\ req' = [req EXCEPT ![c] = [op |-> op, status |-> draft.status,
                                  version |-> draft.version, looked |-> FALSE]]
    /\ UNCHANGED <<draft, text, snapshot, case, lock>>

-----------------------------------------------------------------------------
\* The working copy is edited while the draft is in drafting.
Edit ==
    /\ draft.status = "drafting"
    /\ text < MaxEdits
    /\ text' = text + 1
    /\ UNCHANGED <<draft, snapshot, case, req, lock>>

\* enterDraftLifecycleReview, and the sweep over drafts that are due
AskReview(c) ==
    /\ draft.status = "drafting"
    /\ Starts(c, "materialize")

\* createDraftVersionSnapshot: ON CONFLICT DO NOTHING
WriteSnapshot(v) ==
    snapshot' = [snapshot EXCEPT ![v] = IF @.exists THEN @
                                        ELSE [exists |-> TRUE, text |-> text, receipt |-> "none"]]

\* materializeReviewSnapshotAndEnterState: the version is the one read before
\* the lock, plus one.
Materialize(c) ==
    LET next == req[c].version + 1
    IN  /\ req[c].op = "materialize"
        /\ lock = Free
        /\ next \in Versions
        /\ WriteSnapshot(next)
        /\ draft' = IF draft.status = "drafting"
                    THEN [draft EXCEPT !.status = "review", !.version = next]
                    ELSE draft
        /\ req' = [req EXCEPT ![c] = Idle]
        /\ UNCHANGED <<text, case, lock>>

AskAdvance(c) ==
    /\ draft.status = "review"
    /\ draft.round < MaxRounds
    /\ ~HeldBy(BRIEF_CONSUMED_PHASES)
    /\ Starts(c, "advance")

AskArchive(c) ==
    /\ draft.status \in {"drafting", "review", "crystallization_active", "crystallization_failed"}
    /\ ~HeldBy(BRIEF_ACTIVE_REVIEW_PHASES)
    /\ Starts(c, "archive")

AskRestore(c) ==
    /\ draft.status = "archived"
    /\ Starts(c, "restore")

\* The anchor of the snapshot is there, or the request ends before its transaction.
AskCrystallize(c) ==
    /\ draft.status \in {"review", "crystallization_failed", "crystallization_active"}
    /\ ~HeldBy(BRIEF_OPEN_PHASES)
    /\ snapshot[draft.version].exists
    /\ Starts(c, "crystallize")

\* retryDraftLifecycleCrystallization of a governed draft; the retry of an
\* ordinary one is AskCrystallize again.
AskRetry(c) ==
    /\ draft.status = "crystallization_failed"
    /\ ~HeldBy(BRIEF_OPEN_PHASES)
    /\ snapshot[draft.version].receipt = "governed"
    /\ Starts(c, "retry")

BlockedBy(op) ==
    CASE op \in {"advance", "restore"}    -> BRIEF_CONSUMED_PHASES
      [] op = "archive"                   -> BRIEF_ACTIVE_REVIEW_PHASES
      [] OTHER                            -> BRIEF_OPEN_PHASES

\* Defect: the case was looked for before the transaction, not under the lock.
LookedBefore(c) ==
    /\ req[c].op \in Locking
    /\ ~req[c].looked
    /\ lock = Free
    /\ lock' = c
    /\ req' = [req EXCEPT ![c].looked = TRUE]
    /\ UNCHANGED <<draft, text, snapshot, case>>

\* The transaction: lock the Post, then look for a case that holds the draft.
LockAndLook(c) ==
    /\ req[c].op \in Locking
    /\ ~req[c].looked
    /\ lock = Free
    /\ IF HeldBy(BlockedBy(req[c].op))
       THEN lock' = lock /\ req' = [req EXCEPT ![c] = Idle]
       ELSE lock' = c /\ req' = [req EXCEPT ![c].looked = TRUE]
    /\ UNCHANGED <<draft, text, snapshot, case>>

Commit(c) ==
    /\ lock' = Free
    /\ req' = [req EXCEPT ![c] = Idle]

Writes(c, op) == req[c].op = op /\ req[c].looked

Back == [draft EXCEPT !.status = "drafting", !.round = @ + 1, !.authorized = 0]

\* transitionDraftWorkflowStateToDrafting, from review
WriteAdvance(c) ==
    /\ Writes(c, "advance")
    /\ draft' = IF draft.status = "review" THEN Back ELSE draft
    /\ Commit(c)
    /\ UNCHANGED <<text, snapshot, case>>

\* transitionDraftWorkflowStateToDrafting with allowRestoreFromArchive
WriteRestore(c) ==
    /\ Writes(c, "restore")
    /\ draft' = IF draft.status \in {"review", "archived"} THEN Back ELSE draft
    /\ Commit(c)
    /\ UNCHANGED <<text, snapshot, case>>

\* transitionDraftWorkflowStateToArchived
WriteArchive(c) ==
    /\ Writes(c, "archive")
    /\ draft' = IF draft.status \in {"drafting", "review", "crystallization_active",
                                     "crystallization_failed"}
                THEN [draft EXCEPT !.status = "archived", !.authorized = 0]
                ELSE draft
    /\ Commit(c)
    /\ UNCHANGED <<text, snapshot, case>>

Activated(v) == [draft EXCEPT !.status = "crystallization_active", !.authorized = v]

\* recordOrdinaryCrystallizationRoutingReceipt throws draft_crystallization_routing_conflict
OrdinaryRouteFree(v) == snapshot[v].receipt # "governed"

\* enterDraftLifecycleCrystallization: the receipt of the version that was
\* read, and the transition of the row as it is now.
WriteCrystallize(c) ==
    LET v == req[c].version
        from == {"review"} \cup (IF req[c].status = "crystallization_failed"
                                 THEN {"crystallization_failed"} ELSE {})
    IN  /\ Writes(c, "crystallize")
        /\ IF OrdinaryRouteFree(v)
           THEN /\ snapshot' = [snapshot EXCEPT ![v].receipt = "ordinary"]
                /\ draft' = IF req[c].status # "crystallization_active" /\ draft.status \in from
                            THEN Activated(v) ELSE draft
           ELSE UNCHANGED <<snapshot, draft>>
        /\ Commit(c)
        /\ UNCHANGED <<text, case>>

WriteRetry(c) ==
    /\ Writes(c, "retry")
    /\ draft' = IF draft.status \in {"review", "crystallization_failed"}
                THEN Activated(req[c].version) ELSE draft
    /\ Commit(c)
    /\ UNCHANGED <<text, snapshot, case>>

-----------------------------------------------------------------------------
\* Single conditional updates.
Finalize ==
    /\ draft.status = "crystallization_active"
    /\ draft' = [draft EXCEPT !.status = "crystallized"]
    /\ UNCHANGED <<text, snapshot, case, req, lock>>

Fail ==
    /\ draft.status = "crystallization_active"
    /\ draft' = [draft EXCEPT !.status = "crystallization_failed"]
    /\ UNCHANGED <<text, snapshot, case, req, lock>>

Rollback ==
    /\ draft.status = "crystallization_failed"
    /\ draft' = [draft EXCEPT !.status = "review", !.authorized = 0]
    /\ UNCHANGED <<text, snapshot, case, req, lock>>

-----------------------------------------------------------------------------
\* bindGovernanceCaseBrief, under the lock of the Post
BindBrief ==
    /\ case["Manual"].phase \in {"proposal", "evidence"}
    /\ lock = Free
    /\ draft.status = "review"
    /\ snapshot[draft.version].exists
    /\ case["Manual"].brief # draft.version
    /\ case' = [case EXCEPT !["Manual"] = [phase |-> "proposal", brief |-> draft.version]]
    /\ UNCHANGED <<draft, text, snapshot, req, lock>>

GovernedRouteFree(v) == snapshot[v].receipt # "ordinary"

\* routeDraftLifecycleToGovernanceCase: one transaction that binds the native
\* case, writes the receipt and the authorization.
RouteGoverned ==
    LET v == draft.version
    IN  /\ case["Native"] = [phase |-> "decision", brief |-> 0]
        /\ ~HeldBy(BRIEF_OPEN_PHASES)
        /\ lock = Free
        /\ draft.status = "review"
        /\ snapshot[v].exists
        /\ GovernedRouteFree(v)
        /\ case' = [case EXCEPT !["Native"].brief = v]
        /\ snapshot' = [snapshot EXCEPT ![v].receipt = "governed"]
        /\ draft' = [draft EXCEPT !.authorized = v]
        /\ UNCHANGED <<text, req, lock>>

OfItsBrief == /\ case["Native"].brief = draft.version
              /\ snapshot[draft.version].receipt = "governed"
              /\ draft.authorized # 0

\* activateGovernedDraftCrystallization, when the native case's request is executed
ActivateGoverned ==
    /\ case["Native"].phase = "decision"
    /\ OfItsBrief
    /\ lock = Free
    /\ draft.status = "review"
    /\ draft' = Activated(draft.version)
    /\ UNCHANGED <<text, snapshot, case, req, lock>>

\* transitionGovernanceCasePhase to evidence_review reads the draft, without its lock ...
AskEvidence(c) ==
    /\ case["Manual"].phase = "proposal"
    /\ draft.status = "review"
    /\ case["Manual"].brief = draft.version
    /\ Starts(c, "evidence")

\* ... and then updates the case, if its version is still the same.
WriteEvidence(c) ==
    /\ req[c].op = "evidence"
    /\ case' = IF case["Manual"] = [phase |-> "proposal", brief |-> req[c].version]
               THEN [case EXCEPT !["Manual"].phase = "evidence"]
               ELSE case
    /\ req' = [req EXCEPT ![c] = Idle]
    /\ UNCHANGED <<draft, text, snapshot, lock>>

\* The decision and its execution, and the end of a case.
MoveOn(k) ==
    /\ \/ case[k].phase = "evidence" /\ case' = [case EXCEPT ![k].phase = "decision"]
       \/ case[k].phase = "decision" /\ case' = [case EXCEPT ![k].phase = "closed"]
    /\ UNCHANGED <<draft, text, snapshot, req, lock>>

Request(c) ==
    \/ AskReview(c) \/ Materialize(c)
    \/ AskAdvance(c) \/ WriteAdvance(c)
    \/ AskArchive(c) \/ WriteArchive(c)
    \/ AskRestore(c) \/ WriteRestore(c)
    \/ AskCrystallize(c) \/ WriteCrystallize(c)
    \/ AskRetry(c) \/ WriteRetry(c)
    \/ LockAndLook(c)
    \/ AskEvidence(c) \/ WriteEvidence(c)

Next ==
    \/ Edit \/ Finalize \/ Fail \/ Rollback
    \/ BindBrief \/ RouteGoverned \/ ActivateGoverned
    \/ \E k \in Cases : MoveOn(k)
    \/ \E c \in Clients : Request(c)

\* Bound: what restores and stale requests may add to the rounds.
BoundedNext == Next /\ draft'.round <= MaxRounds + 1

Spec == Init /\ [][BoundedNext]_vars

-----------------------------------------------------------------------------
DraftRow == [status : Statuses, version : Versions, round : 1 .. MaxRounds + 1,
             authorized : Versions \cup {0}]
Snapshot == [exists : BOOLEAN, text : 0 .. MaxEdits, receipt : Receipts]
Case == [phase : Phases, brief : Versions \cup {0}]
Asked == [op : Ops, status : Statuses, version : Versions \cup {0}, looked : BOOLEAN]

\* Types: a route is confirmed for a snapshot, a bound brief is a version that has one,
\* and who looked under the lock holds it.
TypeOK ==
    /\ draft \in DraftRow
    /\ text \in 0 .. MaxEdits
    /\ snapshot \in [Versions -> Snapshot]
    /\ case \in [Cases -> Case]
    /\ req \in [Clients -> Asked]
    /\ lock \in Clients \cup {Free}
    /\ \A v \in Versions : snapshot[v].receipt # "none" => snapshot[v].exists
    /\ \A k \in Cases : case[k].brief # 0 => snapshot[case[k].brief].exists
    /\ \A c \in Clients : req[c].looked <=> lock = c

\* What was once put before reviewers stays as it was: the text of a snapshot
\* never changes, and the route that was confirmed for it never becomes the other one.
SnapshotStands ==
    [][\A v \in Versions :
          snapshot[v].exists => /\ snapshot'[v].exists
                                /\ snapshot'[v].text = snapshot[v].text
                                /\ snapshot[v].receipt # "none" =>
                                      snapshot'[v].receipt = snapshot[v].receipt]_vars

\* No draft enters crystallization by the ordinary route while a case has it
\* as brief and is under way, whichever of the two came first
\* ("prevents either path from committing after it observed the other path as absent").
OrdinaryRouteExcludesBriefs ==
    (draft.status = "crystallization_active" /\ snapshot[draft.version].receipt = "ordinary")
        => ~HeldBy(BRIEF_OPEN_PHASES)

\* An authorization to crystallize does not outlive the round it was given in.
NoAuthorizationOutsideReview ==
    draft.status \in {"drafting", "archived"} => draft.authorized = 0

\* A draft crystallizes by the ordinary route only while no case that is under way has it as
\* its brief, whichever came first, an authorization does not outlive its round, and what a
\* round was decided on stays as it was.
DecisionsStand ==
    /\ [](TypeOK /\ OrdinaryRouteExcludesBriefs /\ NoAuthorizationOutsideReview)
    /\ SnapshotStands
=============================================================================
