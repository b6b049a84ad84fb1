---------------------------- MODULE DraftProofs ----------------------------
(***************************************************************************)
(* What holds of a draft for every number of requests, rounds, versions    *)
(* and edits: a draft crystallizes by the ordinary route only while no     *)
(* case that is under way has it as its brief, an authorization does not   *)
(* outlive its round, and neither the text nor the route of a snapshot     *)
(* ever changes.                                                           *)
(*                                                                         *)
(* None of this is inductive alone: the lock of the Post and the look for  *)
(* a case under it come a step before the write.  RequestInv says what a   *)
(* request may rely on while others take their steps: that there is a      *)
(* snapshot of the version it read, and that no case took the draft as its *)
(* brief since it looked for one under the lock.                           *)
(***************************************************************************)
EXTENDS DraftRounds, DraftPages, TLAPS

\* The types of the stored rows, and how they refer to each other.
RowsTyped ==
    /\ draft \in DraftRow
    /\ text \in 0 .. MaxEdits
    /\ snapshot \in [Versions -> Snapshot]
    /\ case \in [Cases -> Case]
    /\ \A v \in Versions : snapshot[v].receipt # "none" => snapshot[v].exists
    /\ \A k \in Cases : case[k].brief # 0 => snapshot[case[k].brief].exists

\* The types of what is under way: who looked under the lock holds it, and only those
\* that look at all.
RequestsTyped ==
    /\ req \in [Clients -> Asked]
    /\ lock \in Clients \cup {Free}
    /\ \A c \in Clients : /\ req[c].looked <=> lock = c
                          /\ req[c].looked => req[c].op \in Locking

\* What a request read is still there: snapshots are never removed.
ReadIsThere ==
    \A c \in Clients :
        /\ req[c].op # "idle" => req[c].version \in Versions
        /\ req[c].op = "crystallize" => snapshot[req[c].version].exists

\* No case takes the draft as its brief while a request that looked for one holds the lock.
LookHolds ==
    \A c \in Clients : (req[c].op \in {"crystallize", "retry"} /\ req[c].looked)
        => ~HeldBy(BRIEF_OPEN_PHASES)

RequestInv == RequestsTyped /\ ReadIsThere /\ LookHolds

RowInv == RowsTyped /\ OrdinaryRouteExcludesBriefs /\ NoAuthorizationOutsideReview

DraftInv == RowInv /\ RequestInv

\* What a step leaves of the snapshots: the body of SnapshotStands.
SnapshotsKept ==
    \A v \in Versions :
        snapshot[v].exists => /\ snapshot'[v].exists
                              /\ snapshot'[v].text = snapshot[v].text
                              /\ snapshot[v].receipt # "none" =>
                                    snapshot'[v].receipt = snapshot[v].receipt

\* No case becomes the draft's in a step.
NoNewBrief == HeldBy(BRIEF_OPEN_PHASES)' => HeldBy(BRIEF_OPEN_PHASES)

LEMMA InvIsTyped == ASSUME DraftInv PROVE TypeOK
  BY DEF DraftInv, RowInv, RowsTyped, RequestInv, RequestsTyped, TypeOK

LEMMA InitInv == ASSUME Init PROVE DraftInv
<1> USE DEF Init
<1>1. 0 \in 0 .. MaxEdits /\ 1 \in Versions /\ 1 \in 1 .. MaxRounds + 1
  BY BoundsAssumption DEF Versions
<1>2. draft \in DraftRow /\ draft.status = "drafting" /\ draft.authorized = 0
  BY <1>1 DEF DraftRow, Statuses
<1>3. NoSnapshot \in Snapshot /\ NoSnapshot.receipt = "none"
  BY <1>1 DEF NoSnapshot, Snapshot, Receipts
<1>4. \A k \in Cases : case[k] \in Case /\ case[k].brief = 0
  BY DEF Case, Phases
<1>5. Idle \in Asked /\ Idle.op = "idle" /\ Idle.looked = FALSE
  BY DEF Idle, Asked, Ops, Statuses
<1>6. RowsTyped
  BY <1>1, <1>2, <1>3, <1>4 DEF RowsTyped
<1>7. RequestInv
  BY <1>5, FreeAssumption DEF RequestInv, RequestsTyped, ReadIsThere, LookHolds
<1>8. RowInv
  BY <1>2, <1>6 DEF RowInv, OrdinaryRouteExcludesBriefs, NoAuthorizationOutsideReview
<1> QED BY <1>7, <1>8 DEF DraftInv

-----------------------------------------------------------------------------
(* How the requests stand after a step: one begins, looks, ends, or waits. *)

LEMMA RequestStarts ==
    ASSUME DraftInv, NEW c \in Clients, NEW op \in Ops, Starts(c, op), op # "idle",
           op = "crystallize" => snapshot[draft.version].exists
    PROVE  DraftInv'
<1> USE DEF DraftInv, RequestInv, RowInv
<1> DEFINE Now == [op |-> op, status |-> draft.status, version |-> draft.version, looked |-> FALSE]
<1>1. Now \in Asked /\ draft.version \in Versions
  BY DEF Asked, RowsTyped, DraftRow
<1>2. /\ Now.op = op /\ Now.version = draft.version /\ Now.looked = FALSE
      /\ req' = [req EXCEPT ![c] = Now]
      /\ UNCHANGED <<draft, text, snapshot, case, lock>>
      /\ req[c].op = "idle"
  BY DEF Starts
<1> HIDE DEF Now
<1>3. req' \in [Clients -> Asked] /\ req'[c] = Now /\ \A d \in Clients \ {c} : req'[d] = req[d]
  BY <1>1, <1>2 DEF RequestsTyped
<1>4. ~req[c].looked
  BY <1>2 DEF RequestsTyped, Locking
<1>5. RequestsTyped'
  BY <1>2, <1>3, <1>4 DEF RequestsTyped
<1>6. ReadIsThere'
  BY <1>1, <1>2, <1>3 DEF ReadIsThere
<1>7. LookHolds'
  BY <1>2, <1>3 DEF LookHolds, HeldBy
<1>8. RowInv'
  BY <1>2 DEF RowsTyped, OrdinaryRouteExcludesBriefs, NoAuthorizationOutsideReview, HeldBy
<1> QED BY <1>5, <1>6, <1>7, <1>8

\* Idle is what every request ends as.
LEMMA IdleIsAsked == Idle \in Asked /\ Idle.op = "idle" /\ Idle.looked = FALSE
  BY BoundsAssumption DEF Idle, Asked, Ops, Statuses, Versions

\* A request that ends gives the lock back, if it has it.
LEMMA RequestEnds ==
    ASSUME RequestInv, NEW c \in Clients, req' = [req EXCEPT ![c] = Idle],
           lock' = IF req[c].looked THEN Free ELSE lock,
           SnapshotsKept,
           req[c].looked \/ NoNewBrief
    PROVE  RequestInv'
<1> USE DEF RequestInv
<1>1. req' \in [Clients -> Asked] /\ req'[c] = Idle /\ \A d \in Clients \ {c} : req'[d] = req[d]
  BY IdleIsAsked DEF RequestsTyped
<1>2. \A d \in Clients \ {c} : req[d].looked => ~req[c].looked
  BY DEF RequestsTyped
<1>3. RequestsTyped'
  BY <1>1, <1>2, IdleIsAsked, FreeAssumption DEF RequestsTyped
<1>4. ReadIsThere'
  BY <1>1, IdleIsAsked DEF ReadIsThere, SnapshotsKept
<1>5. LookHolds'
  BY <1>1, <1>2, IdleIsAsked DEF LookHolds, NoNewBrief
<1> QED BY <1>3, <1>4, <1>5

\* A step that is no request's: it needs the lock, or no case takes the draft in it.
LEMMA RequestsWait ==
    ASSUME RequestInv, UNCHANGED <<req, lock>>, SnapshotsKept, lock = Free \/ NoNewBrief
    PROVE  RequestInv'
<1> USE DEF RequestInv
<1>1. RequestsTyped'
  BY DEF RequestsTyped
<1>2. ReadIsThere'
  BY DEF ReadIsThere, SnapshotsKept
<1>3. lock = Free => \A c \in Clients : ~req[c].looked
  BY FreeAssumption DEF RequestsTyped
<1>4. LookHolds'
  BY <1>3 DEF LookHolds, NoNewBrief
<1> QED BY <1>1, <1>2, <1>4

\* What the look for a case leaves true.
LEMMA RequestLooks ==
    ASSUME DraftInv, NEW c \in Clients, LockAndLook(c)
    PROVE  DraftInv'
<1> USE DEF DraftInv, RequestInv, RowInv
<1>1. /\ UNCHANGED <<draft, text, snapshot, case>>
      /\ req[c].op \in Locking /\ ~req[c].looked /\ lock = Free
  BY DEF LockAndLook
<1>2. RowInv' /\ SnapshotsKept /\ NoNewBrief
  BY <1>1 DEF RowsTyped, OrdinaryRouteExcludesBriefs, NoAuthorizationOutsideReview, HeldBy,
              SnapshotsKept, NoNewBrief
<1>3. CASE HeldBy(BlockedBy(req[c].op))
  <2>1. req' = [req EXCEPT ![c] = Idle] /\ lock' = lock
    BY <1>3 DEF LockAndLook
  <2> QED BY <2>1, <1>1, <1>2, RequestEnds
<1>4. CASE ~HeldBy(BlockedBy(req[c].op))
  <2> DEFINE Looked == [req[c] EXCEPT !.looked = TRUE]
  <2>1. req' = [req EXCEPT ![c] = Looked] /\ lock' = c
    BY <1>4 DEF LockAndLook, RequestsTyped
  <2>2. /\ Looked \in Asked /\ Looked.looked = TRUE
        /\ Looked.op = req[c].op /\ Looked.version = req[c].version
    BY DEF RequestsTyped, Asked
  <2> HIDE DEF Looked
  <2>3. /\ req' \in [Clients -> Asked] /\ req'[c] = Looked
        /\ \A d \in Clients \ {c} : req'[d] = req[d]
    BY <2>1, <2>2 DEF RequestsTyped
  <2>4. RequestsTyped'
    BY <1>1, <2>1, <2>2, <2>3, FreeAssumption DEF RequestsTyped
  <2>5. ReadIsThere'
    BY <1>1, <2>2, <2>3 DEF ReadIsThere
  <2>6. req[c].op \in {"crystallize", "retry"} => BlockedBy(req[c].op) = BRIEF_OPEN_PHASES
    BY DEF BlockedBy
  <2>7. \A d \in Clients \ {c} : ~req[d].looked
    BY <1>1, FreeAssumption DEF RequestsTyped
  <2>8. LookHolds'
    BY <1>1, <1>4, <2>2, <2>3, <2>6, <2>7 DEF LookHolds, HeldBy
  <2> QED BY <1>2, <2>4, <2>5, <2>8
<1> QED BY <1>3, <1>4

-----------------------------------------------------------------------------
(* What the steps do to the draft and its snapshots.                       *)

\* A status of its own, a round or an authorization that ends, and a next version.
LEMMA DraftMoves ==
    ASSUME draft \in DraftRow, NEW s \in Statuses, NEW v \in Versions \cup {0}
    PROVE  /\ [draft EXCEPT !.status = s] \in DraftRow
           /\ [draft EXCEPT !.status = s, !.authorized = v] \in DraftRow
           /\ v # 0 => [draft EXCEPT !.status = s, !.version = v] \in DraftRow
           /\ Back.round <= MaxRounds + 1 => Back \in DraftRow
           /\ [draft EXCEPT !.authorized = v] \in DraftRow
<1>1. draft.status \in Statuses /\ draft.version \in Versions
      /\ draft.round \in 1 .. MaxRounds + 1 /\ draft.authorized \in Versions \cup {0}
  BY DEF DraftRow
<1>2. [draft EXCEPT !.status = s] \in DraftRow
  BY <1>1 DEF DraftRow
<1>3. [draft EXCEPT !.status = s, !.authorized = v] \in DraftRow
  BY <1>1 DEF DraftRow
<1>4. v # 0 => [draft EXCEPT !.status = s, !.version = v] \in DraftRow
  BY <1>1 DEF DraftRow
<1>5. ASSUME Back.round <= MaxRounds + 1 PROVE Back \in DraftRow
  <2>1. Back.round = draft.round + 1
    BY DEF Back, DraftRow
  <2>2. draft.round + 1 \in 1 .. MaxRounds + 1
    BY <1>1, <1>5, <2>1, BoundsAssumption
  <2>3. "drafting" \in Statuses /\ 0 \in Versions \cup {0}
    BY DEF Statuses
  <2> QED BY <1>1, <2>2, <2>3 DEF Back, DraftRow
<1>6. [draft EXCEPT !.authorized = v] \in DraftRow
  BY <1>1 DEF DraftRow
<1> QED BY <1>2, <1>3, <1>4, <1>5, <1>6

\* A step that moves nothing but the draft: what it has to say for the rest to stay true.
LEMMA RowsMove ==
    ASSUME RowInv, draft' \in DraftRow, text' \in 0 .. MaxEdits, UNCHANGED <<snapshot, case>>,
           draft'.status \in {"drafting", "archived"} => draft'.authorized = 0,
           draft'.status = "crystallization_active" =>
               \/ draft' = draft
               \/ ~HeldBy(BRIEF_OPEN_PHASES)
               \/ snapshot[draft'.version].receipt # "ordinary"
    PROVE  RowInv' /\ SnapshotsKept /\ NoNewBrief
<1> USE DEF RowInv
<1>1. RowsTyped'
  BY DEF RowsTyped
<1>2. OrdinaryRouteExcludesBriefs'
  BY DEF OrdinaryRouteExcludesBriefs, HeldBy
<1>3. NoAuthorizationOutsideReview'
  BY DEF NoAuthorizationOutsideReview
<1>4. SnapshotsKept /\ NoNewBrief
  BY DEF SnapshotsKept, NoNewBrief, HeldBy
<1> QED BY <1>1, <1>2, <1>3, <1>4

\* A snapshot that is written: it is new, or it stays and has its route confirmed.
LEMMA SnapshotWritten ==
    ASSUME RowsTyped, NEW v \in Versions, NEW s \in Snapshot,
           snapshot' = [snapshot EXCEPT ![v] = s],
           s.exists,
           snapshot[v].exists => s.text = snapshot[v].text
                                 /\ (snapshot[v].receipt # "none" => s.receipt = snapshot[v].receipt),
           draft' \in DraftRow, text' = text, case' \in [Cases -> Case],
           \A k \in Cases : case'[k].brief # 0 => case'[k].brief = case[k].brief
                                                 \/ case'[k].brief = v
    PROVE  RowsTyped' /\ SnapshotsKept /\ snapshot'[v] = s
           /\ \A w \in Versions \ {v} : snapshot'[w] = snapshot[w]
<1>1. /\ snapshot' \in [Versions -> Snapshot] /\ snapshot'[v] = s
      /\ \A w \in Versions \ {v} : snapshot'[w] = snapshot[w]
  BY DEF RowsTyped
<1>2. \A w \in Versions : snapshot[w].exists => snapshot'[w].exists
  BY <1>1
<1>3. \A w \in Versions : snapshot'[w].receipt # "none" => snapshot'[w].exists
  BY <1>1 DEF RowsTyped
<1>4. ASSUME NEW k \in Cases, case'[k].brief # 0 PROVE snapshot'[case'[k].brief].exists
  <2>1. CASE case'[k].brief = v
    BY <2>1, <1>1
  <2>2. CASE case'[k].brief = case[k].brief
    <3>1. case[k].brief \in Versions /\ snapshot[case[k].brief].exists
      BY <1>4, <2>2 DEF RowsTyped, Case
    <3> QED BY <3>1, <2>2, <1>2
  <2> QED BY <2>1, <2>2, <1>4
<1>5. RowsTyped'
  BY <1>1, <1>3, <1>4 DEF RowsTyped
<1>6. SnapshotsKept
  BY <1>1 DEF SnapshotsKept
<1> QED BY <1>1, <1>5, <1>6

-----------------------------------------------------------------------------
(* The steps that write, one lemma for each action or for those alike.     *)

\* What a step keeps: the invariant, and the snapshots as they were.
Kept == DraftInv' /\ SnapshotsKept

LEMMA EditKeeps == ASSUME DraftInv, Edit PROVE Kept
<1> USE DEF DraftInv, RowInv
<1>1. text' \in 0 .. MaxEdits
  BY BoundsAssumption DEF Edit, RowsTyped
<1>2. UNCHANGED <<draft, snapshot, case, req, lock>>
  BY DEF Edit
<1>3. RowInv' /\ SnapshotsKept /\ NoNewBrief
  BY <1>1, <1>2, RowsMove DEF RowsTyped, NoAuthorizationOutsideReview
<1> QED BY <1>2, <1>3, RequestsWait DEF Kept

LEMMA FinalizeFailRollbackKeep == ASSUME DraftInv, Finalize \/ Fail \/ Rollback PROVE Kept
<1> USE DEF DraftInv, RowInv
<1>1. UNCHANGED <<text, snapshot, case, req, lock>>
  BY DEF Finalize, Fail, Rollback
<1>2. /\ draft' \in DraftRow
      /\ draft'.status \in {"crystallized", "crystallization_failed", "review"}
  <2>1. {"crystallized", "crystallization_failed", "review"} \subseteq Statuses
    BY DEF Statuses
  <2>2. draft \in DraftRow
    BY DEF RowsTyped
  <2>3. CASE Finalize
    BY <2>1, <2>2, <2>3, DraftMoves DEF Finalize, DraftRow
  <2>4. CASE Fail
    BY <2>1, <2>2, <2>4, DraftMoves DEF Fail, DraftRow
  <2>5. CASE Rollback
    BY <2>1, <2>2, <2>5, DraftMoves DEF Rollback, DraftRow
  <2> QED BY <2>3, <2>4, <2>5
<1>3. RowInv' /\ SnapshotsKept /\ NoNewBrief
  BY <1>1, <1>2, RowsMove DEF RowsTyped
<1> QED BY <1>1, <1>3, RequestsWait DEF Kept

\* A request that wrote under the lock and commits.
LEMMA Commits ==
    ASSUME DraftInv, NEW c \in Clients, req[c].looked, Commit(c), RowInv', SnapshotsKept
    PROVE  Kept
BY RequestEnds DEF DraftInv, Commit, Kept

LEMMA WriteAdvanceKeeps ==
    ASSUME DraftInv, NEW c \in Clients, WriteAdvance(c), draft'.round <= MaxRounds + 1
    PROVE  Kept
<1> USE DEF DraftInv, RowInv
<1>1. UNCHANGED <<text, snapshot, case>> /\ req[c].looked /\ Commit(c)
  BY DEF WriteAdvance, Writes
<1>2. draft' = draft \/ draft' = Back
  BY DEF WriteAdvance
<1>3. Back.status = "drafting" /\ Back.authorized = 0
  BY DEF Back, RowsTyped, DraftRow
<1>4. draft' \in DraftRow
  BY <1>2, DraftMoves DEF RowsTyped, Statuses
<1>5. RowInv' /\ SnapshotsKept
  BY <1>1, <1>2, <1>3, <1>4, RowsMove DEF RowsTyped, NoAuthorizationOutsideReview
<1> QED BY <1>1, <1>5, Commits

LEMMA WriteRestoreKeeps ==
    ASSUME DraftInv, NEW c \in Clients, WriteRestore(c), draft'.round <= MaxRounds + 1
    PROVE  Kept
<1> USE DEF DraftInv, RowInv
<1>1. UNCHANGED <<text, snapshot, case>> /\ req[c].looked /\ Commit(c)
  BY DEF WriteRestore, Writes
<1>2. draft' = draft \/ draft' = Back
  BY DEF WriteRestore
<1>3. Back.status = "drafting" /\ Back.authorized = 0
  BY DEF Back, RowsTyped, DraftRow
<1>4. draft' \in DraftRow
  BY <1>2, DraftMoves DEF RowsTyped, Statuses
<1>5. RowInv' /\ SnapshotsKept
  BY <1>1, <1>2, <1>3, <1>4, RowsMove DEF RowsTyped, NoAuthorizationOutsideReview
<1> QED BY <1>1, <1>5, Commits

LEMMA WriteArchiveKeeps == ASSUME DraftInv, NEW c \in Clients, WriteArchive(c) PROVE Kept
<1> USE DEF DraftInv, RowInv
<1>1. UNCHANGED <<text, snapshot, case>> /\ req[c].looked /\ Commit(c)
  BY DEF WriteArchive, Writes
<1> DEFINE Archived == [draft EXCEPT !.status = "archived", !.authorized = 0]
<1>2. draft' = draft \/ draft' = Archived
  BY DEF WriteArchive
<1>3. Archived \in DraftRow /\ Archived.status = "archived" /\ Archived.authorized = 0
  <2>1. "archived" \in Statuses /\ 0 \in Versions \cup {0}
    BY DEF Statuses
  <2> QED BY <2>1, DraftMoves DEF RowsTyped, DraftRow
<1> HIDE DEF Archived
<1>4. RowInv' /\ SnapshotsKept
  BY <1>1, <1>2, <1>3, RowsMove DEF RowsTyped, NoAuthorizationOutsideReview
<1> QED BY <1>1, <1>4, Commits

\* A draft whose crystallization is authorized for a version.
LEMMA ActivatedRow ==
    ASSUME draft \in DraftRow, NEW v \in Versions
    PROVE  /\ Activated(v) \in DraftRow /\ Activated(v).status = "crystallization_active"
           /\ Activated(v).version = draft.version
<1>1. "crystallization_active" \in Statuses
  BY DEF Statuses
<1> QED BY <1>1, DraftMoves DEF Activated, DraftRow

LEMMA WriteRetryKeeps == ASSUME DraftInv, NEW c \in Clients, WriteRetry(c) PROVE Kept
<1> USE DEF DraftInv, RowInv
<1>1. UNCHANGED <<text, snapshot, case>> /\ req[c].looked /\ Commit(c) /\ req[c].op = "retry"
  BY DEF WriteRetry, Writes
<1>2. req[c].version \in Versions
  BY <1>1 DEF RequestInv, ReadIsThere
<1>3. draft' = draft \/ draft' = Activated(req[c].version)
  BY DEF WriteRetry
<1>4. ~HeldBy(BRIEF_OPEN_PHASES)
  BY <1>1 DEF RequestInv, LookHolds
<1>5. RowInv' /\ SnapshotsKept
  BY <1>1, <1>2, <1>3, <1>4, ActivatedRow, RowsMove DEF RowsTyped, NoAuthorizationOutsideReview
<1> QED BY <1>1, <1>5, Commits

\* Materialize leaves a snapshot that was there as it is, and no draft active that was not.
LEMMA MaterializeKeeps == ASSUME DraftInv, NEW c \in Clients, Materialize(c) PROVE Kept
<1> USE DEF DraftInv, RowInv
<1> DEFINE next == req[c].version + 1
           entered == [draft EXCEPT !.status = "review", !.version = next]
           stored == IF snapshot[next].exists THEN snapshot[next]
                     ELSE [exists |-> TRUE, text |-> text, receipt |-> "none"]
<1>1. /\ req[c].op = "materialize" /\ next \in Versions
      /\ snapshot' = [snapshot EXCEPT ![next] = stored]
      /\ draft' = IF draft.status = "drafting" THEN entered ELSE draft
      /\ req' = [req EXCEPT ![c] = Idle] /\ UNCHANGED <<text, case, lock>>
  BY DEF Materialize, WriteSnapshot, RowsTyped
<1>2. entered \in DraftRow /\ entered.status = "review"
  <2>1. "review" \in Statuses /\ next # 0
    BY <1>1 DEF Statuses, Versions
  <2> QED BY <1>1, <2>1, DraftMoves DEF RowsTyped, DraftRow
<1>3. stored \in Snapshot /\ stored.exists
      /\ (snapshot[next].exists => stored = snapshot[next])
      /\ (~snapshot[next].exists => stored.receipt = "none")
  BY <1>1 DEF RowsTyped, Snapshot, Receipts
<1> HIDE DEF entered, stored
<1>4. /\ RowsTyped' /\ SnapshotsKept /\ snapshot'[next] = stored
      /\ \A w \in Versions \ {next} : snapshot'[w] = snapshot[w]
  <2>1. draft' \in DraftRow
    BY <1>1, <1>2 DEF RowsTyped
  <2>2. snapshot[next].exists => stored.text = snapshot[next].text
           /\ (snapshot[next].receipt # "none" => stored.receipt = snapshot[next].receipt)
    BY <1>3
  <2>3. case' \in [Cases -> Case] /\ \A k \in Cases : case'[k].brief = case[k].brief
    BY <1>1 DEF RowsTyped
  <2> HIDE DEF next
  <2> QED BY <1>1, <1>3, <2>1, <2>2, <2>3, SnapshotWritten
<1>5. NoNewBrief
  BY <1>1 DEF NoNewBrief, HeldBy
<1>6. RequestInv'
  <2>1. ~req[c].looked
    BY <1>1 DEF RequestInv, RequestsTyped, Locking
  <2> QED BY <1>1, <1>4, <1>5, <2>1, RequestEnds
<1>7. NoAuthorizationOutsideReview'
  BY <1>1, <1>2 DEF NoAuthorizationOutsideReview
<1>8. OrdinaryRouteExcludesBriefs'
  <2> SUFFICES ASSUME draft'.status = "crystallization_active",
                      snapshot'[draft'.version].receipt = "ordinary"
               PROVE  ~HeldBy(BRIEF_OPEN_PHASES)'
    BY DEF OrdinaryRouteExcludesBriefs
  <2>1. draft' = draft /\ draft.version \in Versions
    BY <1>1, <1>2 DEF RowsTyped, DraftRow
  <2>2. snapshot[draft.version].receipt = "ordinary"
    BY <1>3, <1>4, <2>1
  <2> QED BY <2>1, <2>2, <1>5 DEF OrdinaryRouteExcludesBriefs, NoNewBrief
<1> QED BY <1>4, <1>6, <1>7, <1>8 DEF Kept

\* WriteCrystallize confirms the ordinary route while no case holds the draft.
LEMMA WriteCrystallizeKeeps ==
    ASSUME DraftInv, NEW c \in Clients, WriteCrystallize(c)
    PROVE  Kept
<1> USE DEF DraftInv, RowInv
<1> DEFINE v == req[c].version
           confirmed == [snapshot[v] EXCEPT !.receipt = "ordinary"]
<1>1. /\ req[c].op = "crystallize" /\ req[c].looked /\ Commit(c) /\ UNCHANGED <<text, case>>
  BY DEF WriteCrystallize, Writes
<1>2. v \in Versions /\ snapshot[v].exists /\ ~HeldBy(BRIEF_OPEN_PHASES)
  BY <1>1 DEF RequestInv, ReadIsThere, LookHolds
<1>3. CASE ~OrdinaryRouteFree(v)
  <2>1. UNCHANGED <<snapshot, draft>>
    BY <1>3 DEF WriteCrystallize
  <2>2. RowInv' /\ SnapshotsKept
    BY <1>1, <2>1, RowsMove DEF RowsTyped, NoAuthorizationOutsideReview
  <2> QED BY <1>1, <2>2, Commits
<1>4. CASE OrdinaryRouteFree(v)
  <2>1. /\ snapshot' = [snapshot EXCEPT ![v] = confirmed]
        /\ draft' = draft \/ draft' = Activated(v)
    BY <1>2, <1>4 DEF WriteCrystallize, RowsTyped
  <2>2. snapshot[v] \in Snapshot /\ snapshot[v].receipt \in {"none", "ordinary"}
    BY <1>2, <1>4 DEF OrdinaryRouteFree, RowsTyped, Snapshot, Receipts
  <2>3. confirmed \in Snapshot /\ confirmed.exists /\ confirmed.text = snapshot[v].text
        /\ confirmed.receipt = "ordinary"
    BY <1>2, <2>2 DEF Snapshot, Receipts
  <2>4. draft' \in DraftRow /\ (draft' = draft \/ draft'.status = "crystallization_active")
    BY <1>2, <2>1, ActivatedRow DEF RowsTyped
  <2>5. case' \in [Cases -> Case] /\ \A k \in Cases : case'[k].brief = case[k].brief
    BY <1>1 DEF RowsTyped
  <2>6. text' = text
    BY <1>1
  <2> HIDE DEF v, confirmed
  <2>7. RowsTyped' /\ SnapshotsKept
    BY <1>2, <2>1, <2>2, <2>3, <2>4, <2>5, <2>6, SnapshotWritten
  <2>8. ~HeldBy(BRIEF_OPEN_PHASES)'
    BY <1>1, <1>2 DEF HeldBy
  <2>9. RowInv'
    BY <2>4, <2>7, <2>8 DEF OrdinaryRouteExcludesBriefs, NoAuthorizationOutsideReview
  <2> QED BY <1>1, <2>7, <2>9, Commits
<1> QED BY <1>3, <1>4

\* A step that moves a case: what it has to say for the rest to stay true.
LEMMA CaseMoves ==
    ASSUME DraftInv, UNCHANGED <<draft, text, snapshot>>, case' \in [Cases -> Case],
           \A k \in Cases : case'[k].brief # 0 => snapshot[case'[k].brief].exists,
           NoNewBrief \/ draft.status # "crystallization_active"
    PROVE  RowInv' /\ SnapshotsKept
<1> USE DEF DraftInv, RowInv
<1>1. RowsTyped'
  BY DEF RowsTyped
<1>2. OrdinaryRouteExcludesBriefs'
  BY DEF OrdinaryRouteExcludesBriefs, NoNewBrief
<1>3. NoAuthorizationOutsideReview' /\ SnapshotsKept
  BY DEF NoAuthorizationOutsideReview, SnapshotsKept
<1> QED BY <1>1, <1>2, <1>3

LEMMA BindBriefKeeps == ASSUME DraftInv, BindBrief PROVE Kept
<1> USE DEF DraftInv, RowInv
<1> DEFINE bound == [phase |-> "proposal", brief |-> draft.version]
<1>1. /\ case' = [case EXCEPT !["Manual"] = bound] /\ lock = Free /\ draft.status = "review"
      /\ snapshot[draft.version].exists /\ UNCHANGED <<draft, text, snapshot, req, lock>>
  BY DEF BindBrief
<1>2. bound \in Case /\ bound.brief = draft.version
  BY DEF RowsTyped, DraftRow, Case, Phases
<1> HIDE DEF bound
<1>3. case' \in [Cases -> Case] /\ \A k \in Cases : case'[k] = bound \/ case'[k] = case[k]
  BY <1>1, <1>2 DEF RowsTyped, Cases
<1>4. \A k \in Cases : case'[k].brief # 0 => snapshot[case'[k].brief].exists
  BY <1>1, <1>2, <1>3 DEF RowsTyped
<1>5. RowInv' /\ SnapshotsKept
  BY <1>1, <1>3, <1>4, CaseMoves
<1> QED BY <1>1, <1>5, RequestsWait DEF Kept

LEMMA RouteGovernedKeeps == ASSUME DraftInv, RouteGoverned PROVE Kept
<1> USE DEF DraftInv, RowInv
<1> DEFINE v == draft.version
           confirmed == [snapshot[v] EXCEPT !.receipt = "governed"]
           bound == [case["Native"] EXCEPT !.brief = v]
<1>1. /\ lock = Free /\ draft.status = "review" /\ snapshot[v].exists /\ GovernedRouteFree(v)
      /\ UNCHANGED <<text, req, lock>> /\ draft' = [draft EXCEPT !.authorized = v]
  BY DEF RouteGoverned
<1>2. v \in Versions /\ draft \in DraftRow
  BY DEF RowsTyped, DraftRow
<1>3. snapshot' = [snapshot EXCEPT ![v] = confirmed] /\ case' = [case EXCEPT !["Native"] = bound]
  BY <1>2 DEF RouteGoverned, RowsTyped, Cases
<1>4. snapshot[v] \in Snapshot /\ snapshot[v].receipt \in {"none", "governed"}
  BY <1>1, <1>2 DEF GovernedRouteFree, RowsTyped, Snapshot, Receipts
<1>5. confirmed \in Snapshot /\ confirmed.exists /\ confirmed.text = snapshot[v].text
      /\ confirmed.receipt = "governed"
  BY <1>1, <1>4 DEF Snapshot, Receipts
<1>6. bound \in Case /\ bound.brief = v
  BY <1>2 DEF RowsTyped, Case, Cases
<1>7. draft' \in DraftRow /\ draft'.status = "review"
  <2>1. "review" \in Statuses /\ draft.version \in Versions \cup {0}
    BY <1>2 DEF Statuses
  <2>2. [draft EXCEPT !.authorized = draft.version] \in DraftRow
    BY <1>2, <2>1, DraftMoves
  <2> QED BY <1>1, <1>2, <2>2 DEF DraftRow
<1> HIDE DEF v, confirmed, bound
<1>8. case' \in [Cases -> Case] /\ \A k \in Cases : case'[k] = bound \/ case'[k] = case[k]
  BY <1>3, <1>6 DEF RowsTyped, Cases
<1>9. RowsTyped' /\ SnapshotsKept
  <2>1. \A k \in Cases : case'[k].brief = case[k].brief \/ case'[k].brief = v
    BY <1>6, <1>8
  <2>2. snapshot[v].exists =>
          confirmed.text = snapshot[v].text
          /\ (snapshot[v].receipt # "none" => confirmed.receipt = snapshot[v].receipt)
    BY <1>4, <1>5
  <2>3. snapshot' = [snapshot EXCEPT ![v] = confirmed] /\ text' = text /\ draft' \in DraftRow
    BY <1>1, <1>3, <1>7
  <2>4. RowsTyped
    OBVIOUS
  <2> HIDE DEF DraftInv, RowInv
  <2> QED BY <1>2, <1>5, <1>8, <2>1, <2>2, <2>3, <2>4, SnapshotWritten
<1>10. RowInv'
  BY <1>7, <1>9 DEF OrdinaryRouteExcludesBriefs, NoAuthorizationOutsideReview
<1> QED BY <1>1, <1>9, <1>10, RequestsWait DEF Kept

\* The version that is activated by a case has the route of a case.
LEMMA ActivateGovernedKeeps == ASSUME DraftInv, ActivateGoverned PROVE Kept
<1> USE DEF DraftInv, RowInv
<1>1. /\ lock = Free /\ snapshot[draft.version].receipt = "governed"
      /\ draft' = Activated(draft.version) /\ UNCHANGED <<text, snapshot, case, req, lock>>
  BY DEF ActivateGoverned, OfItsBrief
<1>2. draft \in DraftRow /\ draft.version \in Versions
  BY DEF RowsTyped, DraftRow
<1>3. RowInv' /\ SnapshotsKept
  BY <1>1, <1>2, ActivatedRow, RowsMove DEF RowsTyped
<1> QED BY <1>1, <1>3, RequestsWait DEF Kept

\* A case moves on within the phases in which it holds its brief, or out of them.
LEMMA WriteEvidenceKeeps ==
    ASSUME DraftInv, NEW c \in Clients, WriteEvidence(c)
    PROVE  Kept
<1> USE DEF DraftInv, RowInv
<1>1. /\ req[c].op = "evidence" /\ UNCHANGED <<draft, text, snapshot, lock>>
      /\ req' = [req EXCEPT ![c] = Idle]
      /\ case' = case \/ (case["Manual"].phase = "proposal"
                          /\ case' = [case EXCEPT !["Manual"].phase = "evidence"])
  BY DEF WriteEvidence
<1>2. /\ case' \in [Cases -> Case]
      /\ \A k \in Cases : /\ case'[k].brief = case[k].brief
                          /\ case'[k].phase = case[k].phase \/ case[k].phase = "proposal"
  BY <1>1 DEF RowsTyped, Case, Cases, Phases
<1>3. NoNewBrief
  BY <1>2 DEF NoNewBrief, HeldBy, BRIEF_OPEN_PHASES
<1>4. RowInv' /\ SnapshotsKept
  BY <1>1, <1>2, <1>3, CaseMoves DEF RowsTyped
<1>5. ~req[c].looked
  BY <1>1 DEF RequestInv, RequestsTyped, Locking
<1> QED BY <1>1, <1>3, <1>4, <1>5, RequestEnds DEF Kept

LEMMA MoveOnKeeps == ASSUME DraftInv, NEW k \in Cases, MoveOn(k) PROVE Kept
<1> USE DEF DraftInv, RowInv
<1>1. /\ UNCHANGED <<draft, text, snapshot, req, lock>>
      /\ case[k].phase \in {"evidence", "decision"}
      /\ \/ case' = [case EXCEPT ![k].phase = "decision"]
         \/ case' = [case EXCEPT ![k].phase = "closed"]
  BY DEF MoveOn
<1>2. /\ case' \in [Cases -> Case]
      /\ \A j \in Cases : /\ case'[j].brief = case[j].brief
                          /\ case'[j].phase = case[j].phase \/ j = k
  BY <1>1 DEF RowsTyped, Case, Phases
<1>3. NoNewBrief
  BY <1>1, <1>2 DEF NoNewBrief, HeldBy, BRIEF_OPEN_PHASES, BRIEF_ACTIVE_REVIEW_PHASES
<1>4. RowInv' /\ SnapshotsKept
  BY <1>1, <1>2, <1>3, CaseMoves DEF RowsTyped
<1> QED BY <1>1, <1>3, <1>4, RequestsWait DEF Kept

-----------------------------------------------------------------------------
LEMMA RequestKeeps ==
    ASSUME DraftInv, NEW c \in Clients, Request(c), draft'.round <= MaxRounds + 1
    PROVE  Kept
<1>1. ASSUME NEW op \in Ops \ {"idle"}, Starts(c, op),
             op = "crystallize" => snapshot[draft.version].exists
      PROVE  Kept
  <2>1. SnapshotsKept
    BY <1>1 DEF Starts, SnapshotsKept
  <2> QED BY <1>1, <2>1, RequestStarts DEF Kept
<1>2. CASE AskReview(c) \/ AskAdvance(c) \/ AskArchive(c) \/ AskRestore(c) \/ AskCrystallize(c)
           \/ AskRetry(c) \/ AskEvidence(c)
  BY <1>1, <1>2 DEF AskReview, AskAdvance, AskArchive, AskRestore, AskCrystallize, AskRetry,
                    AskEvidence, Ops
<1>3. CASE LockAndLook(c)
  <2>1. SnapshotsKept
    BY <1>3 DEF LockAndLook, SnapshotsKept
  <2> QED BY <1>3, <2>1, RequestLooks DEF Kept
<1>4. CASE Materialize(c)
  BY <1>4, MaterializeKeeps
<1>5. CASE WriteAdvance(c)
  BY <1>5, WriteAdvanceKeeps
<1>6. CASE WriteArchive(c)
  BY <1>6, WriteArchiveKeeps
<1>7. CASE WriteRestore(c)
  BY <1>7, WriteRestoreKeeps
<1>8. CASE WriteCrystallize(c)
  BY <1>8, WriteCrystallizeKeeps
<1>9. CASE WriteRetry(c)
  BY <1>9, WriteRetryKeeps
<1>10. CASE WriteEvidence(c)
  BY <1>10, WriteEvidenceKeeps
<1> QED BY <1>2, <1>3, <1>4, <1>5, <1>6, <1>7, <1>8, <1>9, <1>10 DEF Request

LEMMA NextKeeps == ASSUME DraftInv, [BoundedNext]_vars PROVE Kept
<1>1. CASE UNCHANGED vars
  <2>1. RowInv' /\ RequestInv' /\ SnapshotsKept
    BY <1>1 DEF vars, DraftInv, RowInv, RowsTyped, OrdinaryRouteExcludesBriefs, HeldBy,
                NoAuthorizationOutsideReview, RequestInv, RequestsTyped, ReadIsThere, LookHolds,
                SnapshotsKept
  <2> QED BY <2>1 DEF Kept, DraftInv
<1>2. CASE BoundedNext
  <2>1. CASE Edit
    BY <2>1, EditKeeps
  <2>2. CASE Finalize \/ Fail \/ Rollback
    BY <2>2, FinalizeFailRollbackKeep
  <2>3. CASE BindBrief
    BY <2>3, BindBriefKeeps
  <2>4. CASE RouteGoverned
    BY <2>4, RouteGovernedKeeps
  <2>5. CASE ActivateGoverned
    BY <2>5, ActivateGovernedKeeps
  <2>6. CASE \E k \in Cases : MoveOn(k)
    BY <2>6, MoveOnKeeps
  <2>7. CASE \E c \in Clients : Request(c)
    BY <1>2, <2>7, RequestKeeps DEF BoundedNext
  <2> QED BY <1>2, <2>1, <2>2, <2>3, <2>4, <2>5, <2>6, <2>7 DEF BoundedNext, Next
<1> QED BY <1>1, <1>2

\* The types of a draft's rows and of the requests on it, for every number of requests,
\* rounds, versions and edits.
THEOREM DraftTyped == Spec => []TypeOK
<1>1. DraftInv /\ [BoundedNext]_vars => DraftInv'
  BY NextKeeps DEF Kept
<1> QED BY <1>1, InitInv, InvIsTyped, PTL DEF Spec

\* The ordinary route and the cases exclude each other ("prevents either path from committing
\* after it observed the other path as absent"), an authorization ends with its round, and
\* neither the text nor the route of a snapshot changes: whatever requests, cases and sweeps
\* come between the lock of the Post, the look for a case and the write.
THEOREM DraftDecisionsStand == Spec => DecisionsStand
<1>1. DraftInv /\ [BoundedNext]_vars => DraftInv'
  BY NextKeeps DEF Kept
<1>2. DraftInv => TypeOK /\ OrdinaryRouteExcludesBriefs /\ NoAuthorizationOutsideReview
  BY InvIsTyped DEF DraftInv, RowInv
<1>3. DraftInv /\ [BoundedNext]_vars => [SnapshotsKept]_vars
  BY NextKeeps DEF Kept
<1>4. Spec => []DraftInv
  BY <1>1, InitInv, PTL DEF Spec
<1>5. Spec => [][SnapshotsKept]_vars
  BY <1>3, <1>4, PTL DEF Spec
<1> QED BY <1>2, <1>4, <1>5, PTL DEF DecisionsStand, SnapshotStands, SnapshotsKept
-----------------------------------------------------------------------------
(***************************************************************************)
(* The windows (DraftWindows).  A mark is true because what the sweep's    *)
(* list compares is the end of a review that was over when it was listed,  *)
(* and whoever moves that end either settles the mark again or takes it    *)
(* back together with the mode.                                            *)
(***************************************************************************)
WindowRow ==
    [status : {"drafting", "review", "other"}, mode : Win!Modes, round : 1 .. MaxRounds,
     auto : BOOLEAN, draftStart : Nat, draftEnds : Nat \ {0},
     revStart : Nat \cup {Win!Nil}, revEnds : Nat \cup {Win!Nil}, expired : BOOLEAN]

\* What a row is after each way it is written.
RowSound(r) ==
    /\ r \in WindowRow
    /\ r.draftEnds > r.draftStart
    /\ r.status = "review" => r.revStart \in Nat /\ r.revEnds > r.revStart
    /\ r.expired => r.status = "review" /\ r.revEnds <= now + Skew
    /\ r.expired <=> r.mode = "review_window_elapsed"

\* What is on the sweep's list was over when it was listed.
ListIsOver == due.review <= now + Skew

WindowInv ==
    /\ now \in 0 .. MaxTime
    /\ template \in Windows
    /\ began \in Nat /\ began <= now
    /\ due \in [draft : BOOLEAN, review : Nat \cup {Win!Nil}]
    /\ ListIsOver
    /\ RowSound(row)

LEMMA TemplateFields ==
    ASSUME Win!WindowsArePositive, NEW w \in Windows
    PROVE  w.drafting \in Nat \ {0} /\ w.review \in Nat \ {0} /\ w.auto \in BOOLEAN
  BY DEF Win!WindowsArePositive

LEMMA ReviewBegins ==
    ASSUME Win!WindowsArePositive, NEW r, RowSound(r), NEW t \in Nat, NEW w \in Windows,
           NEW m \in Win!Modes \ {"review_window_elapsed"}
    PROVE  RowSound(Win!InReview(r, t, w, m))
<1> DEFINE n == Win!InReview(r, t, w, m)
<1>1. t + w.review \in Nat /\ t + w.review > t
  BY TemplateFields
<1>2. r \in WindowRow /\ n = [r EXCEPT !.status = "review", !.mode = m, !.revStart = t,
                                        !.revEnds = t + w.review, !.expired = FALSE]
  BY DEF RowSound, Win!InReview
<1>3. n \in WindowRow
  BY <1>1, <1>2 DEF WindowRow
<1>4. /\ n.status = "review" /\ n.mode = m /\ n.revStart = t /\ n.revEnds = t + w.review
      /\ n.expired = FALSE /\ n.draftEnds = r.draftEnds /\ n.draftStart = r.draftStart
  BY <1>2 DEF WindowRow
<1> QED BY <1>1, <1>3, <1>4 DEF RowSound

LEMMA RoundBegins ==
    ASSUME Win!WindowsArePositive, NEW t \in Nat, NEW w \in Windows, NEW k \in 1 .. MaxRounds,
           NEW m \in Win!Modes \ {"review_window_elapsed"}
    PROVE  RowSound(Win!DraftingFrom(t, w, m, k))
<1> DEFINE d == Win!DraftingFrom(t, w, m, k)
<1>1. t + w.drafting \in Nat \ {0} /\ t + w.drafting > t /\ w.auto \in BOOLEAN
  BY TemplateFields
<1>2. /\ d \in WindowRow /\ d.status = "drafting" /\ d.mode = m /\ d.expired = FALSE
      /\ d.draftStart = t /\ d.draftEnds = t + w.drafting
  BY <1>1 DEF Win!DraftingFrom, WindowRow
<1>3. RowSound(d)
  <2> HIDE DEF d
  <2> QED BY <1>1, <1>2 DEF RowSound
<1> QED BY <1>3

LEMMA EntryKeeps ==
    ASSUME NEW d, RowSound(d), NEW a \in BOOLEAN
    PROVE  RowSound([d EXCEPT !.auto = a])
<1> DEFINE n == [d EXCEPT !.auto = a]
<1>1. /\ n \in WindowRow /\ n.status = d.status /\ n.mode = d.mode /\ n.expired = d.expired
      /\ n.draftStart = d.draftStart /\ n.draftEnds = d.draftEnds
      /\ n.revStart = d.revStart /\ n.revEnds = d.revEnds
  BY DEF WindowRow, RowSound
<1>2. RowSound(n)
  <2> HIDE DEF n
  <2> QED BY <1>1 DEF RowSound
<1> QED BY <1>2

LEMMA WindowInit == ASSUME Win!WindowsArePositive, Win!Init PROVE WindowInv
<1>1. template \in Windows /\ now = 0 /\ began = 0 /\ due = [draft |-> FALSE, review |-> Win!Nil]
  BY DEF Win!Init
<1>2. row = Win!DraftingFrom(0, template, "seeded", 1)
  BY DEF Win!Init, Win!Seed
<1>3. RowSound(row)
  <2>1. 1 \in 1 .. MaxRounds /\ "seeded" \in Win!Modes \ {"review_window_elapsed"}
    BY DEF Win!WindowsArePositive, Win!Modes
  <2> QED BY <1>1, <1>2, <2>1, RoundBegins
<1> QED BY <1>1, <1>3 DEF WindowInv, ListIsOver, Win!WindowsArePositive, Win!Nil

\* The repairs of a read: the skewed row of an automatic lock, and a mark set too early.
LEMMA RepairsAreSound ==
    ASSUME Win!WindowsArePositive, WindowInv PROVE RowSound(Win!Resolved)
<1> DEFINE s == template.drafting
           e == template.drafting + template.review
           r == Win!RepairAutoLock(row)
<1>1. s \in Nat \ {0} /\ e \in Nat /\ e > s
  BY TemplateFields DEF WindowInv
<1>2. RowSound(row) /\ now \in Nat /\ Skew \in Nat
  BY DEF WindowInv, Win!WindowsArePositive
<1>3. RowSound(r)
  <2>1. CASE r = row
    BY <1>2, <2>1
  <2>2. CASE r # row
    <3>1. /\ row.status = "review" /\ row.mode = "auto_lock"
          /\ r = [row EXCEPT !.draftStart = 0, !.draftEnds = s, !.revStart = s, !.revEnds = e]
      <4>1. Win!Seed + template.drafting = s /\ (Win!Seed + template.drafting) + template.review = e
        BY <1>1, TemplateFields DEF Win!Seed, WindowInv
      <4>2. row.status = "review" /\ row.mode = "auto_lock"
        BY <2>2 DEF Win!RepairAutoLock
      <4>3. r = [row EXCEPT !.draftStart = Win!Seed, !.draftEnds = Win!Seed + template.drafting,
                            !.revStart = Win!Seed + template.drafting,
                            !.revEnds = (Win!Seed + template.drafting) + template.review]
        BY <2>2 DEF Win!RepairAutoLock
      <4> QED BY <4>1, <4>2, <4>3 DEF Win!Seed
    <3> HIDE DEF r, s, e
    <3>2. r \in WindowRow
      BY <1>1, <1>2, <3>1 DEF WindowRow, RowSound
    <3>3. /\ r.status = "review" /\ r.mode = "auto_lock" /\ r.draftStart = 0 /\ r.draftEnds = s
          /\ r.revStart = s /\ r.revEnds = e /\ r.expired = row.expired
      BY <1>2, <3>1 DEF WindowRow, RowSound
    <3> QED BY <1>1, <1>2, <3>1, <3>2, <3>3 DEF RowSound
  <2> QED BY <2>1, <2>2
<1>4. RowSound(Win!RepairPremature(r))
  <2> DEFINE p == Win!RepairPremature(r)
  <2>1. CASE p = r
    BY <1>3, <2>1
  <2>2. CASE p # r
    <3> DEFINE m == IF r.revStart = r.draftEnds THEN "auto_lock" ELSE "manual_lock"
    <3>1. m \in {"auto_lock", "manual_lock"} /\ p = [r EXCEPT !.expired = FALSE, !.mode = m]
      BY <2>2 DEF Win!RepairPremature
    <3> HIDE DEF r, p, m
    <3>2. p \in WindowRow
      BY <1>3, <3>1 DEF WindowRow, RowSound, Win!Modes
    <3>3. /\ p.status = r.status /\ p.mode = m /\ p.draftStart = r.draftStart
          /\ p.draftEnds = r.draftEnds /\ p.revStart = r.revStart /\ p.revEnds = r.revEnds
          /\ p.expired = FALSE
      BY <1>3, <3>1 DEF WindowRow, RowSound
    <3>4. RowSound(p)
      BY <1>3, <3>1, <3>2, <3>3 DEF RowSound
    <3> QED BY <3>4 DEF p
  <2> QED BY <2>1, <2>2
<1> QED BY <1>4 DEF Win!Resolved

\* The sweep: its list names reviews that are over, and a mark goes by the list.
LEMMA SweepsAreSound ==
    ASSUME Win!WindowsArePositive, WindowInv, Win!Sweep \/ Win!SweepDies PROVE WindowInv'
<1>1. RowSound(row) /\ now \in Nat /\ Skew \in Nat /\ row \in WindowRow
  BY DEF WindowInv, Win!WindowsArePositive, RowSound
<1>2. CASE Win!SweepLists
  <2>1. due' \in [draft : BOOLEAN, review : Nat \cup {Win!Nil}] /\ due'.review <= now + Skew
    BY <1>1, <1>2 DEF Win!SweepLists, WindowRow, Win!Nil
  <2>2. UNCHANGED <<now, template, row, began>>
    BY <1>2 DEF Win!SweepLists
  <2> QED BY <2>1, <2>2 DEF WindowInv, ListIsOver, RowSound
<1>3. CASE Win!SweepLocks
  <2>1. due' = [due EXCEPT !.draft = FALSE] /\ UNCHANGED <<now, template, began>>
    BY <1>3 DEF Win!SweepLocks
  <2>2. RowSound(row')
    BY <1>1, <1>3, ReviewBegins DEF Win!SweepLocks, WindowInv, WindowRow, Win!Modes
  <2> QED BY <2>1, <2>2 DEF WindowInv, ListIsOver, RowSound
<1>4. CASE Win!SweepMarks
  <2>1. due' = [due EXCEPT !.review = Win!Nil] /\ UNCHANGED <<now, template, began>>
    BY <1>4 DEF Win!SweepMarks
  <2>2. RowSound(row')
    <3>1. CASE ~Win!StillOver(due.review)
      BY <1>1, <1>4, <3>1 DEF Win!SweepMarks
    <3>2. CASE Win!StillOver(due.review)
      <4>1. row' = [row EXCEPT !.expired = TRUE, !.mode = "review_window_elapsed"]
        BY <1>4, <3>2 DEF Win!SweepMarks
      <4>2. row' \in WindowRow
        BY <1>1, <4>1 DEF WindowRow, Win!Modes
      <4>3. /\ row'.status = row.status /\ row'.mode = "review_window_elapsed"
            /\ row'.draftStart = row.draftStart /\ row'.draftEnds = row.draftEnds
            /\ row'.revStart = row.revStart /\ row'.revEnds = row.revEnds /\ row'.expired = TRUE
        BY <1>1, <4>1 DEF WindowRow
      <4>4. row.status = "review" /\ row.revEnds <= now + Skew
        BY <1>1, <3>2 DEF Win!StillOver, WindowInv, ListIsOver, WindowRow, Win!Nil
      <4> QED BY <1>1, <4>2, <4>3, <4>4 DEF RowSound
    <3> QED BY <3>1, <3>2
  <2> QED BY <1>1, <2>1, <2>2 DEF WindowInv, ListIsOver, RowSound, Win!Nil
<1>5. CASE Win!SweepDies
  BY <1>1, <1>5 DEF Win!SweepDies, WindowInv, ListIsOver, RowSound, Win!Nil
<1> QED BY <1>2, <1>3, <1>4, <1>5 DEF Win!Sweep

\* A policy that moves the end of a review decides again whether it is over.
LEMMA PolicyIsSound ==
    ASSUME Win!WindowsArePositive, WindowInv, NEW w \in Windows, Win!ChangePolicy(w)
    PROVE  WindowInv'
<1>1. RowSound(row) /\ now \in Nat /\ Skew \in Nat /\ row \in WindowRow
  BY DEF WindowInv, Win!WindowsArePositive, RowSound
<1>2. template' = w /\ UNCHANGED <<now, due, began>>
  BY DEF Win!ChangePolicy
<1>3. RowSound(row')
  <2>1. CASE row.status = "drafting"
    <3>1. row' = [row EXCEPT !.auto = w.auto, !.draftEnds = row.draftStart + w.drafting]
      BY <2>1 DEF Win!ChangePolicy
    <3>2. row' \in WindowRow
      <4>1. row.draftStart + w.drafting \in Nat \ {0} /\ w.auto \in BOOLEAN
        BY <1>1, TemplateFields DEF WindowRow
      <4> QED BY <1>1, <3>1, <4>1 DEF WindowRow
    <3>3. /\ row'.status = row.status /\ row'.mode = row.mode /\ row'.expired = row.expired
          /\ row'.draftStart = row.draftStart /\ row'.draftEnds = row.draftStart + w.drafting
          /\ row'.revStart = row.revStart /\ row'.revEnds = row.revEnds
      BY <1>1, <3>1 DEF WindowRow
    <3> QED BY <1>1, <3>2, <3>3, TemplateFields DEF RowSound, WindowRow
  <2>2. CASE row.status = "review"
    <3> DEFINE e == row.revStart + w.review
    <3>1. row.revStart \in Nat /\ e \in Nat /\ e > row.revStart
      BY <1>1, <2>2, TemplateFields DEF RowSound
    <3> DEFINE over == e <= now
               m == IF over THEN "review_window_elapsed"
                    ELSE IF row.mode = "review_window_elapsed" THEN "manual_lock" ELSE row.mode
    <3>2. row' = [row EXCEPT !.revEnds = e, !.expired = over, !.mode = m]
      BY <2>2 DEF Win!ChangePolicy, Win!ReviewReconciled
    <3>5. over \in BOOLEAN /\ m \in Win!Modes /\ (over => e <= now)
          /\ (m = "review_window_elapsed" <=> over)
      BY <1>1 DEF WindowRow, Win!Modes
    <3> HIDE DEF e, over, m
    <3>3. row' \in WindowRow
      BY <1>1, <3>1, <3>2, <3>5 DEF WindowRow
    <3>4. /\ row'.status = row.status /\ row'.mode = m /\ row'.expired = over
          /\ row'.draftStart = row.draftStart /\ row'.draftEnds = row.draftEnds
          /\ row'.revStart = row.revStart /\ row'.revEnds = e
      BY <1>1, <3>2 DEF WindowRow
    <3> QED BY <1>1, <2>2, <3>1, <3>3, <3>4, <3>5 DEF RowSound
  <2>3. CASE row.status \notin {"drafting", "review"}
    BY <1>1, <2>3 DEF Win!ChangePolicy
  <2> QED BY <2>1, <2>2, <2>3
<1> QED BY <1>2, <1>3 DEF WindowInv, ListIsOver, RowSound

LEMMA WindowStep == ASSUME Win!WindowsArePositive, WindowInv, Win!Next PROVE WindowInv'
<1>1. RowSound(row) /\ now \in Nat /\ Skew \in Nat /\ row \in WindowRow
  BY DEF WindowInv, Win!WindowsArePositive, RowSound
<1>2. CASE Win!Tick
  <2>1. now' = now + 1 /\ now < MaxTime /\ UNCHANGED <<template, row, due, began>>
    BY <1>2 DEF Win!Tick
  <2>2. row.revEnds \in Int /\ due.review \in Int /\ MaxTime \in Nat
    BY <1>1 DEF WindowRow, WindowInv, Win!Nil, Win!WindowsArePositive
  <2> QED BY <1>1, <2>1, <2>2 DEF WindowInv, ListIsOver, RowSound
<1>3. CASE Win!Read
  <2>1. RowSound(row') /\ UNCHANGED <<now, template, due, began>>
    BY <1>3, RepairsAreSound DEF Win!Read
  <2> QED BY <2>1 DEF WindowInv, ListIsOver, RowSound
<1>4. CASE Win!ManualLock
  <2>1. RowSound(row') /\ UNCHANGED <<now, template, due, began>>
    BY <1>1, <1>4, ReviewBegins DEF Win!ManualLock, WindowInv, Win!Modes
  <2> QED BY <2>1 DEF WindowInv, ListIsOver, RowSound
<1>5. CASE Win!Advance
  <2>1. RowSound(row') /\ began' = now /\ UNCHANGED <<now, template, due>>
    <3>1. /\ now \in Nat /\ template \in Windows /\ row.auto \in BOOLEAN
          /\ row.round + 1 \in 1 .. MaxRounds
          /\ "manual_extend" \in Win!Modes \ {"review_window_elapsed"}
      BY <1>1, <1>5 DEF Win!Advance, WindowInv, WindowRow, Win!WindowsArePositive, Win!Modes
    <3>2. RowSound(Win!DraftingFrom(now, template, "manual_extend", row.round + 1))
      BY <3>1, RoundBegins
    <3> QED BY <1>5, <3>1, <3>2, EntryKeeps DEF Win!Advance
  <2> QED BY <1>1, <2>1 DEF WindowInv, ListIsOver, RowSound
<1>6. CASE Win!Leave
  <2>1. row' = [row EXCEPT !.status = "other", !.mode = "other", !.expired = FALSE]
    BY <1>6 DEF Win!Leave
  <2>2. RowSound(row')
    <3>1. row' \in WindowRow
      BY <1>1, <2>1 DEF WindowRow, Win!Modes
    <3>2. /\ row'.status = "other" /\ row'.mode = "other" /\ row'.expired = FALSE
          /\ row'.draftStart = row.draftStart /\ row'.draftEnds = row.draftEnds
      BY <1>1, <2>1 DEF WindowRow
    <3> QED BY <1>1, <3>1, <3>2 DEF RowSound
  <2>3. UNCHANGED <<now, template, due, began>>
    BY <1>6 DEF Win!Leave
  <2> QED BY <2>2, <2>3 DEF WindowInv, ListIsOver, RowSound
<1>7. CASE Win!Return
  <2>1. RowSound(row') /\ began' = now /\ UNCHANGED <<now, template, due>>
    BY <1>1, <1>7, ReviewBegins DEF Win!Return, WindowInv, Win!Modes
  <2> QED BY <1>1, <2>1 DEF WindowInv, ListIsOver, RowSound
<1> QED BY <1>2, <1>3, <1>4, <1>5, <1>6, <1>7, SweepsAreSound, PolicyIsSound DEF Win!Next

\* Whatever the policy makes of the windows while a list is worked off, and however far the
\* sweep's clock is ahead: a review that is marked as over is over by that clock, and readers
\* see the mark and the mode agree.
THEOREM ReviewMarksAreTrue ==
    ASSUME Win!WindowsArePositive
    PROVE  Win!Spec => []MarksAreTrue
<1>1. Win!Init => WindowInv
  BY WindowInit
<1>2. WindowInv /\ [Win!Next]_Win!vars => WindowInv'
  <2>1. CASE UNCHANGED Win!vars
    BY <2>1 DEF Win!vars, WindowInv, ListIsOver, RowSound
  <2> QED BY <2>1, WindowStep
<1>3. WindowInv => MarksAreTrue
  BY DEF WindowInv, RowSound, WindowRow, MarksAreTrue, Win!MarksAreTrue, Win!TypeOK, Win!Nil,
         Win!MarkedIsOver, Win!MarkAndModeAgree, Win!WindowsArePositive
<1> QED BY <1>1, <1>2, <1>3, PTL DEF Win!Spec

-----------------------------------------------------------------------------
(***************************************************************************)
(* The editing of a draft's working copy on the pages: what is saved stays *)
(* in the draft and what is typed stays on its page, whatever saves and    *)
(* refreshes are under way.  EditInv says what each page may rely on: the  *)
(* hashes it knows name texts it has read, an autosave under way carries   *)
(* nothing that its page does not have, and a refresh has read all that    *)
(* the page does not call unsaved.                                         *)
(***************************************************************************)

\* People who wait for what they clicked, pages that refresh at once, and a content that loads:
\* what the other cases do to a draft is for the runs.
Quiet == Ed!EditingConstants /\ Happens = {} /\ ~LoadMayFail

PageRecord ==
    [ready : BOOLEAN, content : Ed!Texts, auto : Ed!Texts, unsaved : BOOLEAN,
     editing : {"no", "paragraph", "document"}, hash : Ed!Hashes, life : Ed!Hashes,
     timer : [on : BOOLEAN, hash : Ed!Hashes], doc : [open : BOOLEAN, text : Ed!Texts],
     conflict : BOOLEAN]
PostRecord == [at : {"none", "sent", "saved", "refused"}, text : Ed!Texts, base : Ed!Hashes]
FetchRecord == [at : {"none", "read", "replacing"}, text : Ed!Texts, forced : BOOLEAN]

EditTyped ==
    /\ server \in Ed!Texts /\ dropped \in Ed!Texts
    /\ edits \in 0 .. MaxTyped /\ faults \in 0 .. MaxFaults
    /\ typed \in [Pages -> Ed!Texts]
    /\ page \in [Pages -> PageRecord]
    /\ flow \in [Pages -> Ed!Flows]
    /\ post \in [Pages -> [Ed!Channels -> PostRecord]]
    /\ fetch \in [Pages -> FetchRecord]

Saving == {"openFlush", "appendFlush", "appendSave", "documentSave"}

\* Everything of S is in T, but for what its user agreed to lose.
Within(S, T, lost) == S \subseteq T \cup lost

\* Nothing was done on a page that has not been loaded.
NewPage(p, f, po, fe) ==
    ~p.ready => p = Ed!Blank /\ f = "idle" /\ fe.at = "none" /\ \A k \in Ed!Channels : po[k].at = "none"

\* The hash a page knows and the one its timer remembers name texts the draft once had, and
\* the page has read all of them; what a page does not call unsaved is in the draft.
TextsKept(p, f, held, lost) ==
    /\ p.ready => p.hash # NoHash /\ Within(p.hash, p.content, lost) /\ Within(p.hash, held, lost)
    /\ ~p.unsaved => Within(p.content, held, lost) /\ Within(p.auto, held, lost)
    /\ p.unsaved => p.auto = p.content
    /\ p.timer.on => /\ f = "idle" /\ ~p.doc.open
                     /\ p.timer.hash # NoHash
                     /\ Within(p.timer.hash, held, lost)
                     /\ Within(p.timer.hash, p.auto, lost)
                     /\ Within(p.auto, p.content, lost)
    /\ p.doc.open => /\ p.ready /\ ~p.unsaved /\ p.editing = "document"
                     /\ f \in {"idle", "documentSave"}
                     /\ Within(p.content, p.doc.text, lost)

\* A click sends what the page has, and waits with nothing unsaved once that is saved.
FlowKept(p, f, po, lost) ==
    /\ po["flow"].at # "none" <=> f \in Saving
    /\ f = "documentSave" => p.doc.open /\ p.doc.text = po["flow"].text
    /\ f \in {"openRead", "appendRead", "appendSave"} => ~p.unsaved
    /\ f \in {"openFlush", "appendFlush"} =>
        /\ Within(po["flow"].text, p.content, lost)
        /\ p.unsaved => po["flow"].text = p.auto

\* A request carries all of the text it names; an autosave under way carries nothing that the
\* page, or the click that was made meanwhile, does not have.
PostsKept(p, f, po, held, lost) ==
    /\ \A k \in Ed!Channels :
        /\ po[k].at = "sent" => po[k].base # NoHash /\ Within(po[k].base, po[k].text, lost)
        /\ po[k].at = "saved" => Within(po[k].text, held, lost)
    /\ po["autosave"].at # "none" =>
        /\ Within(po["autosave"].text, p.content, lost)
        /\ f \in Saving => Within(po["autosave"].text, po["flow"].text, lost)
        /\ f \in {"openRead", "appendRead"} => Within(po["autosave"].text, held, lost)

\* A refresh has read all that the page has and does not call unsaved.
FetchKept(p, fe, held, lost) ==
    fe.at # "none" =>
        /\ Within(fe.text, held, lost)
        /\ p.timer.on => Within(p.timer.hash, fe.text, lost)
        /\ ~p.unsaved => Within(p.content, fe.text, lost) /\ Within(p.auto, fe.text, lost)
        /\ fe.forced => ~p.doc.open
        /\ fe.at = "replacing" => fe.forced \/ (~p.unsaved /\ p.editing = "no")

PageKept(p, f, po, fe, held, lost) ==
    /\ NewPage(p, f, po, fe)
    /\ TextsKept(p, f, held, lost)
    /\ FlowKept(p, f, po, lost)
    /\ PostsKept(p, f, po, held, lost)
    /\ FetchKept(p, fe, held, lost)

EditInv ==
    EditTyped /\ \A c \in Pages : PageKept(page[c], flow[c], post[c], fetch[c], server, dropped)

\* What a step does to the draft and to what people see.
StepKeeps ==
    /\ EditInv'
    /\ Within(server, server', dropped)
    /\ \A c \in Pages : Within(Ed!OnPage(page[c]), Ed!OnPage(page'[c]) \cup server', dropped')

-----------------------------------------------------------------------------
LEMMA EditConstants ==
    ASSUME Quiet
    PROVE  /\ MaxTyped \in Nat /\ MaxFaults \in Nat
           /\ \A t \in Ed!Texts : t # NoHash
           /\ Documents \subseteq Pages
  BY DEF Quiet, Ed!EditingConstants

LEMMA TextFacts ==
    ASSUME Quiet
    PROVE  /\ {} \in Ed!Texts /\ {0} \in Ed!Texts
           /\ \A S, T \in Ed!Texts : S \cup T \in Ed!Texts /\ S \ T \in Ed!Texts
           /\ \A S \in Ed!Texts : edits \in 0 .. MaxTyped /\ edits < MaxTyped
                    => S \cup {edits + 1} \in Ed!Texts /\ edits + 1 \in 0 .. MaxTyped
           /\ Ed!Texts \subseteq Ed!Hashes /\ NoHash \in Ed!Hashes
           /\ \A h \in Ed!Hashes : h # NoHash => h \in Ed!Texts
<1>1. MaxTyped \in Nat /\ \A t \in Ed!Texts : t # NoHash
  BY EditConstants
<1>2. {} \in Ed!Texts /\ {0} \in Ed!Texts
  BY <1>1 DEF Ed!Texts
<1>3. \A S, T \in Ed!Texts : S \cup T \in Ed!Texts /\ S \ T \in Ed!Texts
  BY DEF Ed!Texts
<1>4. ASSUME NEW S \in Ed!Texts, edits \in 0 .. MaxTyped, edits < MaxTyped
      PROVE  S \cup {edits + 1} \in Ed!Texts /\ edits + 1 \in 0 .. MaxTyped
  <2>1. edits + 1 \in 0 .. MaxTyped
    BY <1>1, <1>4
  <2> QED BY <2>1, <1>4 DEF Ed!Texts
<1>5. Ed!Texts \subseteq Ed!Hashes /\ NoHash \in Ed!Hashes /\ \A h \in
          Ed!Hashes : h # NoHash => h \in Ed!Texts
  BY DEF Ed!Hashes
<1> QED BY <1>2, <1>3, <1>4, <1>5

\* What a page has stays kept when the draft grows.
LEMMA KeptWhenGrown ==
    ASSUME NEW p, NEW f, NEW po, NEW fe, NEW held, NEW lost, NEW held2, NEW lost2,
           PageKept(p, f, po, fe, held, lost),
           held \subseteq held2 \cup lost2, lost \subseteq lost2
    PROVE  PageKept(p, f, po, fe, held2, lost2)
<1>1. NewPage(p, f, po, fe)
  BY DEF PageKept
<1>2. TextsKept(p, f, held2, lost2)
  <2>1. TextsKept(p, f, held, lost)
    BY DEF PageKept
  <2> QED BY <2>1 DEF TextsKept, Within
<1>3. FlowKept(p, f, po, lost2)
  <2>1. FlowKept(p, f, po, lost)
    BY DEF PageKept
  <2> QED BY <2>1 DEF FlowKept, Within
<1>4. PostsKept(p, f, po, held2, lost2)
  <2>1. PostsKept(p, f, po, held, lost)
    BY DEF PageKept
  <2> QED BY <2>1 DEF PostsKept, Within
<1>5. FetchKept(p, fe, held2, lost2)
  <2>1. FetchKept(p, fe, held, lost)
    BY DEF PageKept
  <2> QED BY <2>1 DEF FetchKept, Within
<1> QED BY <1>1, <1>2, <1>3, <1>4, <1>5 DEF PageKept

\* A step of one page that keeps it, and lets the draft grow, keeps the invariant.
LEMMA OnePage ==
    ASSUME EditInv, NEW c \in Pages,
           page' = page \/ page' = [page EXCEPT ![c] = page'[c]], page'[c] \in PageRecord,
           flow' = flow \/ flow' = [flow EXCEPT ![c] = flow'[c]], flow'[c] \in Ed!Flows,
           post' = post \/ post' = [post EXCEPT ![c] = post'[c]],
           post'[c] \in [Ed!Channels -> PostRecord],
           fetch' = fetch \/ fetch' = [fetch EXCEPT ![c] = fetch'[c]], fetch'[c] \in FetchRecord,
           server' \in Ed!Texts, dropped' \in Ed!Texts,
           edits' \in 0 .. MaxTyped, faults' \in 0 .. MaxFaults,
           typed' \in [Pages -> Ed!Texts],
           Within(server, server', dropped), dropped \subseteq dropped',
           Within(Ed!OnPage(page[c]), Ed!OnPage(page'[c]) \cup server', dropped'),
           PageKept(page'[c], flow'[c], post'[c], fetch'[c], server', dropped')
    PROVE  StepKeeps
<1>1. EditTyped
  BY DEF EditInv
<1>2. EditTyped'
  BY <1>1 DEF EditTyped
<1>3. ASSUME NEW d \in Pages, d # c
      PROVE  /\ page'[d] = page[d]
             /\ PageKept(page'[d], flow'[d], post'[d], fetch'[d], server', dropped')
  <2>1. /\ page'[d] = page[d] /\ flow'[d] = flow[d]
        /\ post'[d] = post[d] /\ fetch'[d] = fetch[d]
    BY <1>1, <1>3 DEF EditTyped
  <2>2. PageKept(page[d], flow[d], post[d], fetch[d], server, dropped)
    BY DEF EditInv
  <2>3. server \subseteq server' \cup dropped' /\ dropped \subseteq dropped'
    BY DEF Within
  <2>4. PageKept(page[d], flow[d], post[d], fetch[d], server', dropped')
    BY <2>2, <2>3, KeptWhenGrown
  <2> QED BY <2>1, <2>4
<1>4. EditInv'
  BY <1>2, <1>3 DEF EditInv
<1>5. \A d \in Pages : Within(Ed!OnPage(page[d]), Ed!OnPage(page'[d]) \cup server', dropped')
  BY <1>3 DEF Within
<1> QED BY <1>4, <1>5 DEF StepKeeps

LEMMA EditInit == ASSUME Quiet, Ed!Init PROVE EditInv
<1>1. EditTyped
  BY TextFacts, EditConstants DEF Ed!Init, EditTyped, PageRecord, PostRecord, FetchRecord,
     Ed!Blank, Ed!NoTimer,
     Ed!NoDoc, Ed!NoPost, Ed!NoFetch, Ed!Flows, Ed!Channels
<1>2. ASSUME NEW c \in Pages
      PROVE  PageKept(page[c], flow[c], post[c], fetch[c], server, dropped)
  BY DEF Ed!Init, PageKept, NewPage, TextsKept, FlowKept, PostsKept, FetchKept, Within, Saving,
     Ed!Blank, Ed!NoTimer, Ed!NoDoc, Ed!NoPost, Ed!NoFetch, Ed!Channels
<1> QED BY <1>1, <1>2 DEF EditInv

-----------------------------------------------------------------------------
\* What the invariant says of one page.
LEMMA PageFacts ==
    ASSUME Quiet, EditInv, NEW c \in Pages
    PROVE  /\ page[c] \in PageRecord /\ flow[c] \in Ed!Flows /\ fetch[c] \in FetchRecord
           /\ post[c] \in [Ed!Channels -> PostRecord]
           /\ server \in Ed!Texts /\ dropped \in Ed!Texts
           /\ edits \in 0 .. MaxTyped /\ faults \in 0 .. MaxFaults
           /\ typed \in [Pages -> Ed!Texts]
           /\ server # NoHash
           /\ NewPage(page[c], flow[c], post[c], fetch[c])
           /\ TextsKept(page[c], flow[c], server, dropped)
           /\ FlowKept(page[c], flow[c], post[c], dropped)
           /\ PostsKept(page[c], flow[c], post[c], server, dropped)
           /\ FetchKept(page[c], fetch[c], server, dropped)
  BY EditConstants DEF EditInv, EditTyped, PageKept

LEMMA PageTypes ==
    ASSUME EditInv, NEW c \in Pages
    PROVE  /\ page[c] \in PageRecord
           /\ page[c].content \in Ed!Texts /\ page[c].auto \in Ed!Texts
           /\ page[c].hash \in Ed!Hashes /\ page[c].life \in Ed!Hashes
           /\ page[c].timer \in [on : BOOLEAN, hash : Ed!Hashes]
           /\ page[c].doc \in [open : BOOLEAN, text : Ed!Texts]
           /\ page[c].ready \in BOOLEAN /\ page[c].unsaved \in BOOLEAN /\ page[c].conflict \in BOOLEAN
           /\ page[c].editing \in {"no", "paragraph", "document"}
  BY DEF EditInv, EditTyped, PageRecord

LEMMA NothingTypes ==
    ASSUME Quiet
    PROVE  /\ Ed!NoTimer \in [on : BOOLEAN, hash : Ed!Hashes] /\ ~Ed!NoTimer.on
           /\ Ed!NoDoc \in [open : BOOLEAN, text : Ed!Texts] /\ ~Ed!NoDoc.open
           /\ Ed!NoPost \in PostRecord /\ Ed!NoPost.at = "none"
           /\ Ed!NoFetch \in FetchRecord /\ Ed!NoFetch.at = "none"
  BY TextFacts DEF Ed!NoTimer, Ed!NoDoc, Ed!NoPost, Ed!NoFetch, PostRecord, FetchRecord

LEMMA PostUpdate ==
    ASSUME NEW po \in [Ed!Channels -> PostRecord], NEW k \in Ed!Channels, NEW r \in PostRecord
    PROVE  /\ [po EXCEPT ![k] = r] \in [Ed!Channels -> PostRecord]
           /\ [po EXCEPT ![k] = r][k] = r
           /\ \A j \in Ed!Channels \ {k} : [po EXCEPT ![k] = r][j] = po[j]
  OBVIOUS

\* While a refresh is under way the page does nothing else.
LEMMA FreeFacts ==
    ASSUME Quiet, NEW c \in Pages, Ed!Free(c)
    PROVE  fetch[c].at = "none"
  BY DEF Quiet, Ed!Free

\* A page that is not waiting takes what is typed; one that has been loaded knows a hash.
LEMMA MayTypeFacts ==
    ASSUME Quiet, NEW c \in Pages, Ed!MayType(c)
    PROVE  flow[c] = "idle"
  BY DEF Quiet, Ed!MayType, Ed!Busy

LEMMA KnownFacts ==
    ASSUME Quiet, EditInv, NEW c \in Pages, page[c].ready
    PROVE  /\ Ed!Known(page[c]) = page[c].hash /\ page[c].hash # NoHash /\ page[c].hash \in Ed!Texts
           /\ Within(page[c].hash, page[c].content, dropped) /\ Within(page[c].hash, server, dropped)
<1>1. page[c].hash \in Ed!Hashes
  BY PageFacts DEF PageRecord
<1> QED BY <1>1, PageFacts, TextFacts DEF Ed!Known, TextsKept

LEMMA LoadKeeps ==
    ASSUME Quiet, EditInv, NEW c \in Pages, Ed!Free(c), Ed!Load(c)
    PROVE  StepKeeps
<1>1. /\ flow[c] = "idle" /\ ~page[c].timer.on /\ ~page[c].doc.open /\ page[c].content = {}
      /\ page[c].auto = {} /\ \A k \in Ed!Channels : post[c][k].at = "none" /\ fetch[c].at = "none"
  BY FreeFacts, PageFacts DEF Ed!Load, TextsKept, NewPage, Ed!Blank, Ed!NoTimer, Ed!NoDoc
<1>2. /\ server \in Ed!Texts /\ server \in Ed!Hashes
  BY <1>1, PageFacts, PageTypes, TextFacts, KnownFacts DEF PageRecord, FetchRecord, PostRecord
<1>3. /\ page' = [page EXCEPT ![c] = page'[c]]
      /\ page'[c] = [page[c] EXCEPT !.content = server, !.auto = server, !.unsaved = FALSE,
                                    !.hash = server, !.ready = TRUE]
  BY <1>1, PageTypes DEF Ed!Load, Ed!Shows, EditInv, EditTyped
<1>4. /\ page'[c].ready = TRUE /\ page'[c].content = server /\ page'[c].auto = server
      /\ page'[c].unsaved = FALSE /\ page'[c].editing = page[c].editing /\ page'[c].hash = server
      /\ page'[c].timer = page[c].timer /\ page'[c].doc = page[c].doc
  BY <1>3, PageTypes DEF PageRecord
<1>5. page'[c] \in PageRecord
  BY <1>2, <1>3, PageTypes DEF PageRecord
<1>6. UNCHANGED <<flow, post, fetch, server, dropped, edits, typed, faults>>
  BY DEF Ed!Load
<1>7. PageKept(page'[c], flow'[c], post'[c], fetch'[c], server', dropped')
  <2>1. NewPage(page'[c], flow'[c], post'[c], fetch'[c])
    BY <1>1, <1>4, <1>6, PageFacts DEF NewPage
  <2>2. TextsKept(page'[c], flow'[c], server', dropped')
    BY <1>1, <1>4, <1>6, PageFacts DEF TextsKept, Within
  <2>3. FlowKept(page'[c], flow'[c], post'[c], dropped')
    BY <1>1, <1>4, <1>6, PageFacts DEF FlowKept, Within, Saving, Ed!Channels
  <2>4. PostsKept(page'[c], flow'[c], post'[c], server', dropped')
    BY <1>1, <1>4, <1>6, PageFacts DEF PostsKept, Within, Saving, Ed!Channels
  <2>5. FetchKept(page'[c], fetch'[c], server', dropped')
    BY <1>1, <1>4, <1>6, PageFacts DEF NewPage, FetchKept, Within, Saving, Ed!Channels
  <2> QED BY <2>1, <2>2, <2>3, <2>4, <2>5 DEF PageKept
<1>8. Within(Ed!OnPage(page[c]), Ed!OnPage(page'[c]) \cup server', dropped')
  BY <1>1, <1>4, <1>6 DEF Within, Ed!OnPage
<1>9. /\ Within(server, server', dropped) /\ dropped \subseteq dropped'
  BY <1>6 DEF Within
<1> QED BY <1>3, <1>5, <1>6, <1>7, <1>8, <1>9, PageFacts, OnePage

LEMMA FocusKeeps ==
    ASSUME Quiet, EditInv, NEW c \in Pages, Ed!Free(c), Ed!Focus(c)
    PROVE  StepKeeps
<1>1. /\ page[c].ready /\ ~page[c].doc.open /\ fetch[c].at = "none"
  BY FreeFacts, PageFacts DEF Ed!Focus, TextsKept
<1>2. /\ page' = [page EXCEPT ![c] = page'[c]] /\ page'[c] = [page[c] EXCEPT !.editing = "paragraph"]
  BY <1>1, PageTypes DEF Ed!Focus, EditInv, EditTyped
<1>3. /\ page'[c].ready = page[c].ready /\ page'[c].content = page[c].content
      /\ page'[c].auto = page[c].auto /\ page'[c].unsaved = page[c].unsaved
      /\ page'[c].editing = "paragraph" /\ page'[c].hash = page[c].hash
      /\ page'[c].timer = page[c].timer /\ page'[c].doc = page[c].doc
  BY <1>2, PageTypes DEF PageRecord
<1>4. page'[c] \in PageRecord
  BY <1>2, PageTypes DEF PageRecord
<1>5. UNCHANGED <<flow, post, fetch, server, dropped, edits, typed, faults>>
  BY DEF Ed!Focus
<1>6. PageKept(page'[c], flow'[c], post'[c], fetch'[c], server', dropped')
  <2>1. NewPage(page'[c], flow'[c], post'[c], fetch'[c])
    BY <1>1, <1>3, <1>5, PageFacts DEF NewPage
  <2>2. TextsKept(page'[c], flow'[c], server', dropped')
    BY <1>1, <1>3, <1>5, PageFacts DEF TextsKept, Within
  <2>3. FlowKept(page'[c], flow'[c], post'[c], dropped')
    BY <1>1, <1>3, <1>5, PageFacts DEF FlowKept, Within
  <2>4. PostsKept(page'[c], flow'[c], post'[c], server', dropped')
    BY <1>1, <1>3, <1>5, PageFacts DEF PostsKept, Within
  <2>5. FetchKept(page'[c], fetch'[c], server', dropped')
    BY <1>1, <1>3, <1>5, PageFacts DEF FetchKept, Within
  <2> QED BY <2>1, <2>2, <2>3, <2>4, <2>5 DEF PageKept
<1>7. Within(Ed!OnPage(page[c]), Ed!OnPage(page'[c]) \cup server', dropped')
  BY <1>1, <1>3, <1>5 DEF Within, Ed!OnPage
<1>8. /\ Within(server, server', dropped) /\ dropped \subseteq dropped'
  BY <1>5 DEF Within
<1> QED BY <1>2, <1>4, <1>5, <1>6, <1>7, <1>8, PageFacts, OnePage

LEMMA LeaveKeeps ==
    ASSUME Quiet, EditInv, NEW c \in Pages, Ed!Free(c), Ed!Leave(c)
    PROVE  StepKeeps
<1>1. /\ page[c].ready /\ ~page[c].doc.open /\ fetch[c].at = "none"
  BY FreeFacts, PageFacts DEF Ed!Leave, TextsKept, NewPage, Ed!Blank
<1>2. /\ page' = [page EXCEPT ![c] = page'[c]] /\ page'[c] = [page[c] EXCEPT !.editing = "no"]
  BY <1>1, PageTypes DEF Ed!Leave, EditInv, EditTyped
<1>3. /\ page'[c].ready = page[c].ready /\ page'[c].content = page[c].content
      /\ page'[c].auto = page[c].auto /\ page'[c].unsaved = page[c].unsaved /\ page'[c].editing = "no"
      /\ page'[c].hash = page[c].hash /\ page'[c].timer = page[c].timer /\ page'[c].doc = page[c].doc
  BY <1>2, PageTypes DEF PageRecord
<1>4. page'[c] \in PageRecord
  BY <1>2, PageTypes DEF PageRecord
<1>5. UNCHANGED <<flow, post, fetch, server, dropped, edits, typed, faults>>
  BY DEF Ed!Leave
<1>6. PageKept(page'[c], flow'[c], post'[c], fetch'[c], server', dropped')
  <2>1. NewPage(page'[c], flow'[c], post'[c], fetch'[c])
    BY <1>1, <1>3, <1>5, PageFacts DEF NewPage
  <2>2. TextsKept(page'[c], flow'[c], server', dropped')
    BY <1>1, <1>3, <1>5, PageFacts DEF TextsKept, Within
  <2>3. FlowKept(page'[c], flow'[c], post'[c], dropped')
    BY <1>1, <1>3, <1>5, PageFacts DEF FlowKept, Within
  <2>4. PostsKept(page'[c], flow'[c], post'[c], server', dropped')
    BY <1>1, <1>3, <1>5, PageFacts DEF PostsKept, Within
  <2>5. FetchKept(page'[c], fetch'[c], server', dropped')
    BY <1>1, <1>3, <1>5, PageFacts DEF FetchKept, Within
  <2> QED BY <2>1, <2>2, <2>3, <2>4, <2>5 DEF PageKept
<1>7. Within(Ed!OnPage(page[c]), Ed!OnPage(page'[c]) \cup server', dropped')
  BY <1>1, <1>3, <1>5 DEF Within, Ed!OnPage
<1>8. /\ Within(server, server', dropped) /\ dropped \subseteq dropped'
  BY <1>5 DEF Within
<1> QED BY <1>2, <1>4, <1>5, <1>6, <1>7, <1>8, PageFacts, OnePage

LEMMA KeepLocalKeeps ==
    ASSUME Quiet, EditInv, NEW c \in Pages, Ed!Free(c), Ed!KeepLocal(c)
    PROVE  StepKeeps
<1>1. /\ page[c].ready /\ fetch[c].at = "none"
  BY FreeFacts, PageFacts DEF Ed!KeepLocal, TextsKept, NewPage, Ed!Blank
<1>2. /\ page' = [page EXCEPT ![c] = page'[c]] /\ page'[c] = [page[c] EXCEPT !.conflict = FALSE]
  BY <1>1, PageTypes DEF Ed!KeepLocal, EditInv, EditTyped
<1>3. /\ page'[c].ready = page[c].ready /\ page'[c].content = page[c].content
      /\ page'[c].auto = page[c].auto /\ page'[c].unsaved = page[c].unsaved
      /\ page'[c].editing = page[c].editing /\ page'[c].hash = page[c].hash
      /\ page'[c].timer = page[c].timer /\ page'[c].doc = page[c].doc
  BY <1>2, PageTypes DEF PageRecord
<1>4. page'[c] \in PageRecord
  BY <1>2, PageTypes DEF PageRecord
<1>5. UNCHANGED <<flow, post, fetch, server, dropped, edits, typed, faults>>
  BY DEF Ed!KeepLocal
<1>6. PageKept(page'[c], flow'[c], post'[c], fetch'[c], server', dropped')
  <2>1. NewPage(page'[c], flow'[c], post'[c], fetch'[c])
    BY <1>1, <1>3, <1>5, PageFacts DEF NewPage
  <2>2. TextsKept(page'[c], flow'[c], server', dropped')
    BY <1>1, <1>3, <1>5, PageFacts DEF TextsKept, Within
  <2>3. FlowKept(page'[c], flow'[c], post'[c], dropped')
    BY <1>1, <1>3, <1>5, PageFacts DEF FlowKept, Within
  <2>4. PostsKept(page'[c], flow'[c], post'[c], server', dropped')
    BY <1>1, <1>3, <1>5, PageFacts DEF PostsKept, Within
  <2>5. FetchKept(page'[c], fetch'[c], server', dropped')
    BY <1>1, <1>3, <1>5, PageFacts DEF FetchKept, Within
  <2> QED BY <2>1, <2>2, <2>3, <2>4, <2>5 DEF PageKept
<1>7. Within(Ed!OnPage(page[c]), Ed!OnPage(page'[c]) \cup server', dropped')
  BY <1>1, <1>3, <1>5 DEF Within, Ed!OnPage
<1>8. /\ Within(server, server', dropped) /\ dropped \subseteq dropped'
  BY <1>5 DEF Within
<1> QED BY <1>2, <1>4, <1>5, <1>6, <1>7, <1>8, PageFacts, OnePage

LEMMA EditParagraphKeeps ==
    ASSUME Quiet, EditInv, NEW c \in Pages, Ed!Free(c), Ed!Edit(c)
    PROVE  StepKeeps
<1>1. /\ page[c].ready /\ ~page[c].doc.open /\ flow[c] = "idle" /\ edits < MaxTyped
      /\ (page[c].auto = page[c].content \/ Within(page[c].auto, server, dropped))
      /\ fetch[c].at = "none"
  BY FreeFacts, PageFacts, MayTypeFacts, TextFacts DEF Ed!Edit, TextsKept
<1>2. /\ page[c].content \cup {edits + 1} \in Ed!Texts
      /\ [on |-> TRUE, hash |-> page[c].hash] \in [on : BOOLEAN, hash : Ed!Hashes]
  BY <1>1, PageFacts, PageTypes, TextFacts, KnownFacts DEF PageRecord, FetchRecord, PostRecord
<1>3. /\ page' = [page EXCEPT ![c] = page'[c]]
      /\ page'[c] = [page[c] EXCEPT !.content = page[c].content \cup {edits + 1},
                        !.auto = page[c].content \cup {edits + 1}, !.unsaved = TRUE,
                        !.timer = [on |-> TRUE, hash |-> page[c].hash]]
  BY <1>1, PageTypes, KnownFacts DEF Ed!Edit, Ed!NewEdit, Ed!Shows, EditInv, EditTyped
<1>4. /\ page'[c].ready = page[c].ready /\ page'[c].content = page[c].content \cup {edits + 1}
      /\ page'[c].auto = page[c].content \cup {edits + 1} /\ page'[c].unsaved = TRUE
      /\ page'[c].editing = page[c].editing /\ page'[c].hash = page[c].hash
      /\ page'[c].timer = [on |-> TRUE, hash |-> page[c].hash] /\ page'[c].doc = page[c].doc
  BY <1>3, PageTypes DEF PageRecord
<1>5. page'[c] \in PageRecord
  <2> DEFINE words == page[c].content \cup {edits + 1}
             timer == [on |-> TRUE, hash |-> page[c].hash]
  <2>1. words \in Ed!Texts /\ timer \in [on : BOOLEAN, hash : Ed!Hashes] /\ page[c] \in PageRecord
    BY <1>2, PageTypes
  <2>2. page'[c] = [page[c] EXCEPT !.content = words, !.auto = words, !.unsaved = TRUE, !.timer = timer]
    BY <1>3
  <2> HIDE DEF words, timer
  <2> QED BY <2>1, <2>2 DEF PageRecord
<1>6. /\ edits' \in 0 .. MaxTyped /\ typed' \in [Pages -> Ed!Texts]
  BY PageFacts, TextFacts DEF Ed!Edit, Ed!NewEdit
<1>7. UNCHANGED <<flow, post, fetch, server, dropped, faults>>
  BY DEF Ed!Edit
<1>8. PageKept(page'[c], flow'[c], post'[c], fetch'[c], server', dropped')
  <2>1. NewPage(page'[c], flow'[c], post'[c], fetch'[c])
    BY <1>1, <1>4, <1>7, <1>6, PageFacts, KnownFacts DEF NewPage
  <2>2. TextsKept(page'[c], flow'[c], server', dropped')
    BY <1>1, <1>4, <1>7, <1>6, PageFacts, KnownFacts DEF TextsKept, Within
  <2>3. FlowKept(page'[c], flow'[c], post'[c], dropped')
    BY <1>1, <1>4, <1>7, <1>6, PageFacts, KnownFacts DEF FlowKept, Within
  <2>4. PostsKept(page'[c], flow'[c], post'[c], server', dropped')
    BY <1>1, <1>4, <1>7, <1>6, PageFacts, KnownFacts DEF PostsKept, Within
  <2>5. FetchKept(page'[c], fetch'[c], server', dropped')
    BY <1>1, <1>4, <1>7, <1>6, PageFacts, KnownFacts DEF FetchKept, Within
  <2> QED BY <2>1, <2>2, <2>3, <2>4, <2>5 DEF PageKept
<1>9. Within(Ed!OnPage(page[c]), Ed!OnPage(page'[c]) \cup server', dropped')
  BY <1>1, <1>4, <1>7, <1>6 DEF Within, Ed!OnPage
<1>10. /\ Within(server, server', dropped) /\ dropped \subseteq dropped'
  BY <1>7, <1>6 DEF Within
<1> QED BY <1>3, <1>5, <1>6, <1>7, <1>8, <1>9, <1>10, PageFacts, OnePage

LEMMA EditDocumentKeeps ==
    ASSUME Quiet, EditInv, NEW c \in Pages, Ed!Free(c), Ed!EditDocument(c)
    PROVE  StepKeeps
<1>1. /\ page[c].ready /\ page[c].doc.open /\ flow[c] = "idle" /\ edits < MaxTyped
      /\ fetch[c].at = "none"
  BY FreeFacts, PageFacts, MayTypeFacts, TextFacts, PageTypes DEF Ed!EditDocument, TextsKept
<1>2. /\ page[c].doc.text \cup {edits + 1} \in Ed!Texts
      /\ [page[c].doc EXCEPT !.text = page[c].doc.text \cup {edits + 1}] \in [open : BOOLEAN,
          text : Ed!Texts]
  <2>1. page[c].doc.text \in Ed!Texts /\ edits \in 0 .. MaxTyped
    BY PageFacts, PageTypes
  <2>2. page[c].doc.text \cup {edits + 1} \in Ed!Texts
    BY <1>1, <2>1, TextFacts
  <2> QED BY <2>2, PageTypes
<1>3. /\ page' = [page EXCEPT ![c] = page'[c]]
      /\ page'[c] = [page[c] EXCEPT !.doc = [page[c].doc EXCEPT !.text =
          page[c].doc.text \cup {edits + 1}]]
  BY <1>1, PageTypes DEF Ed!EditDocument, Ed!NewEdit, EditInv, EditTyped
<1>4. /\ page'[c].ready = page[c].ready /\ page'[c].content = page[c].content
      /\ page'[c].auto = page[c].auto /\ page'[c].unsaved = page[c].unsaved
      /\ page'[c].editing = page[c].editing /\ page'[c].hash = page[c].hash
      /\ page'[c].timer = page[c].timer
      /\ page'[c].doc = [page[c].doc EXCEPT !.text = page[c].doc.text \cup {edits + 1}]
  BY <1>3, PageTypes DEF PageRecord
<1>5. page'[c] \in PageRecord
  BY <1>2, <1>3, PageTypes DEF PageRecord
<1>6. /\ edits' \in 0 .. MaxTyped /\ typed' \in [Pages -> Ed!Texts]
  BY PageFacts, TextFacts DEF Ed!EditDocument, Ed!NewEdit
<1>7. UNCHANGED <<flow, post, fetch, server, dropped, faults>>
  BY DEF Ed!EditDocument
<1>8. PageKept(page'[c], flow'[c], post'[c], fetch'[c], server', dropped')
  <2>1. NewPage(page'[c], flow'[c], post'[c], fetch'[c])
    BY <1>1, <1>4, <1>7, <1>6, PageFacts DEF NewPage
  <2>2. TextsKept(page'[c], flow'[c], server', dropped')
    BY <1>1, <1>4, <1>7, <1>6, PageFacts DEF TextsKept, Within
  <2>3. FlowKept(page'[c], flow'[c], post'[c], dropped')
    BY <1>1, <1>4, <1>7, <1>6, PageFacts DEF FlowKept, Within
  <2>4. PostsKept(page'[c], flow'[c], post'[c], server', dropped')
    BY <1>1, <1>4, <1>7, <1>6, PageFacts DEF PostsKept, Within
  <2>5. FetchKept(page'[c], fetch'[c], server', dropped')
    BY <1>1, <1>4, <1>7, <1>6, PageFacts DEF FetchKept, Within
  <2> QED BY <2>1, <2>2, <2>3, <2>4, <2>5 DEF PageKept
<1>9. Within(Ed!OnPage(page[c]), Ed!OnPage(page'[c]) \cup server', dropped')
  BY <1>1, <1>4, <1>7, <1>6 DEF Within, Ed!OnPage
<1>10. /\ Within(server, server', dropped) /\ dropped \subseteq dropped'
  BY <1>7, <1>6 DEF Within
<1> QED BY <1>3, <1>5, <1>6, <1>7, <1>8, <1>9, <1>10, PageFacts, OnePage

LEMMA PollKeeps ==
    ASSUME Quiet, EditInv, NEW c \in Pages, Ed!Poll(c)
    PROVE  StepKeeps
<1>1. /\ page[c].ready /\ fetch[c].at = "none"
  BY PageFacts DEF Ed!Poll, TextsKept
<1>2. page' = page
  BY <1>1 DEF Ed!Poll
<1>3. page'[c] \in PageRecord
  BY <1>2, PageTypes
<1>4. /\ fetch' = [fetch EXCEPT ![c] = fetch'[c]]
      /\ fetch'[c] = [at |-> "read", text |-> server, forced |-> FALSE]
  BY <1>1, PageFacts DEF Ed!Poll, Ed!Reads, EditInv, EditTyped
<1>5. fetch'[c] \in FetchRecord
  BY PageFacts, <1>4 DEF FetchRecord
<1>6. UNCHANGED <<flow, post, server, dropped, edits, typed, faults>>
  BY DEF Ed!Poll
<1>7. PageKept(page'[c], flow'[c], post'[c], fetch'[c], server', dropped')
  <2>1. NewPage(page'[c], flow'[c], post'[c], fetch'[c])
    BY <1>1, <1>2, <1>6, <1>4, <1>5, PageFacts DEF NewPage
  <2>2. TextsKept(page'[c], flow'[c], server', dropped')
    BY <1>1, <1>2, <1>6, <1>4, <1>5, PageFacts DEF TextsKept, Within
  <2>3. FlowKept(page'[c], flow'[c], post'[c], dropped')
    BY <1>1, <1>2, <1>6, <1>4, <1>5, PageFacts DEF FlowKept, Within
  <2>4. PostsKept(page'[c], flow'[c], post'[c], server', dropped')
    BY <1>1, <1>2, <1>6, <1>4, <1>5, PageFacts DEF PostsKept, Within
  <2>5. FetchKept(page'[c], fetch'[c], server', dropped')
    BY <1>1, <1>2, <1>6, <1>4, <1>5, PageFacts DEF TextsKept, FetchKept, Within
  <2> QED BY <2>1, <2>2, <2>3, <2>4, <2>5 DEF PageKept
<1>8. Within(Ed!OnPage(page[c]), Ed!OnPage(page'[c]) \cup server', dropped')
  BY <1>1, <1>2, <1>6, <1>4, <1>5 DEF Within, Ed!OnPage
<1>9. /\ Within(server, server', dropped) /\ dropped \subseteq dropped'
  BY <1>6, <1>4, <1>5 DEF Within
<1> QED BY <1>2, <1>3, <1>4, <1>5, <1>6, <1>7, <1>8, <1>9, PageFacts, OnePage

LEMMA RefreshToLatestKeeps ==
    ASSUME Quiet, EditInv, NEW c \in Pages, Ed!RefreshToLatest(c)
    PROVE  StepKeeps
<1>1. /\ page[c].ready /\ ~page[c].doc.open /\ fetch[c].at = "none"
  BY PageFacts DEF Ed!RefreshToLatest, TextsKept, NewPage, Ed!Blank, Quiet
<1>2. page' = page
  BY <1>1 DEF Ed!RefreshToLatest
<1>3. page'[c] \in PageRecord
  BY <1>2, PageTypes
<1>4. /\ fetch' = [fetch EXCEPT ![c] = fetch'[c]]
      /\ fetch'[c] = [at |-> "read", text |-> server, forced |-> TRUE]
  BY <1>1, PageFacts DEF Ed!RefreshToLatest, Ed!Reads, EditInv, EditTyped
<1>5. fetch'[c] \in FetchRecord
  BY PageFacts, <1>4 DEF FetchRecord
<1>6. UNCHANGED <<flow, post, server, dropped, edits, typed, faults>>
  BY DEF Ed!RefreshToLatest
<1>7. PageKept(page'[c], flow'[c], post'[c], fetch'[c], server', dropped')
  <2>1. NewPage(page'[c], flow'[c], post'[c], fetch'[c])
    BY <1>1, <1>2, <1>6, <1>4, <1>5, PageFacts DEF NewPage
  <2>2. TextsKept(page'[c], flow'[c], server', dropped')
    BY <1>1, <1>2, <1>6, <1>4, <1>5, PageFacts DEF TextsKept, Within
  <2>3. FlowKept(page'[c], flow'[c], post'[c], dropped')
    BY <1>1, <1>2, <1>6, <1>4, <1>5, PageFacts DEF FlowKept, Within
  <2>4. PostsKept(page'[c], flow'[c], post'[c], server', dropped')
    BY <1>1, <1>2, <1>6, <1>4, <1>5, PageFacts DEF PostsKept, Within
  <2>5. FetchKept(page'[c], fetch'[c], server', dropped')
    BY <1>1, <1>2, <1>6, <1>4, <1>5, PageFacts DEF TextsKept, FetchKept, Within
  <2> QED BY <2>1, <2>2, <2>3, <2>4, <2>5 DEF PageKept
<1>8. Within(Ed!OnPage(page[c]), Ed!OnPage(page'[c]) \cup server', dropped')
  BY <1>1, <1>2, <1>6, <1>4, <1>5 DEF Within, Ed!OnPage
<1>9. /\ Within(server, server', dropped) /\ dropped \subseteq dropped'
  BY <1>6, <1>4, <1>5 DEF Within
<1> QED BY <1>2, <1>3, <1>4, <1>5, <1>6, <1>7, <1>8, <1>9, PageFacts, OnePage

LEMMA TimerFiresKeeps ==
    ASSUME Quiet, EditInv, NEW c \in Pages, Ed!Free(c), Ed!TimerFires(c)
    PROVE  StepKeeps
<1>1. /\ page[c].ready /\ page[c].timer.on /\ flow[c] = "idle" /\ ~page[c].doc.open
      /\ page[c].timer.hash # NoHash /\ page[c].timer.hash \in Ed!Hashes
      /\ post[c]["autosave"].at = "none" /\ fetch[c].at = "none"
  BY FreeFacts, PageFacts, PageTypes DEF Ed!TimerFires, TextsKept, NewPage, Ed!Blank, Ed!NoTimer
<1>2. /\ Ed!NoTimer \in [on : BOOLEAN, hash : Ed!Hashes]
      /\ [at |-> "sent", text |-> page[c].auto, base |-> page[c].timer.hash] \in PostRecord
  BY <1>1, PageFacts, PageTypes, TextFacts, KnownFacts, NothingTypes DEF PageRecord, FetchRecord,
     PostRecord
<1>3. /\ page' = [page EXCEPT ![c] = page'[c]] /\ page'[c] = [page[c] EXCEPT !.timer = Ed!NoTimer]
  BY <1>1, PageTypes DEF Ed!TimerFires, Ed!Asked, EditInv, EditTyped
<1>4. /\ page'[c].ready = page[c].ready /\ page'[c].content = page[c].content
      /\ page'[c].auto = page[c].auto /\ page'[c].unsaved = page[c].unsaved
      /\ page'[c].editing = page[c].editing /\ page'[c].hash = page[c].hash
      /\ page'[c].timer = Ed!NoTimer /\ page'[c].doc = page[c].doc
  BY <1>3, PageTypes DEF PageRecord
<1>5. page'[c] \in PageRecord
  BY <1>2, <1>3, PageTypes DEF PageRecord
<1>6. /\ post' = [post EXCEPT ![c] = post'[c]]
      /\ post'[c] = [post[c] EXCEPT !["autosave"] =
                      [at |-> "sent", text |-> page[c].auto, base |-> page[c].timer.hash]]
  BY <1>1, PageTypes, PageFacts DEF Ed!TimerFires, Ed!Sends, EditInv, EditTyped
<1>7. post'[c] \in [Ed!Channels -> PostRecord]
  BY <1>2, <1>6, PostUpdate, PageFacts DEF Ed!Channels
<1>8. /\ post'[c]["autosave"] = [at |-> "sent", text |-> page[c].auto, base |-> page[c].timer.hash]
      /\ post'[c]["flow"] = post[c]["flow"]
  BY <1>6, PageFacts DEF Ed!Channels
<1>9. UNCHANGED <<flow, fetch, server, dropped, edits, typed, faults>>
  BY DEF Ed!TimerFires
<1>10. PageKept(page'[c], flow'[c], post'[c], fetch'[c], server', dropped')
  <2>1. NewPage(page'[c], flow'[c], post'[c], fetch'[c])
    BY <1>1, <1>4, <1>9, <1>6, <1>7, <1>8, PageFacts DEF NewPage, Ed!NoTimer
  <2>2. TextsKept(page'[c], flow'[c], server', dropped')
    BY <1>1, <1>4, <1>9, <1>6, <1>7, <1>8, PageFacts DEF TextsKept, Within, Ed!NoTimer
  <2>3. FlowKept(page'[c], flow'[c], post'[c], dropped')
    BY <1>1, <1>4, <1>9, <1>6, <1>7, <1>8, PageFacts DEF FlowKept, Within, Ed!NoTimer,
       Ed!Channels, Saving
  <2>4. PostsKept(page'[c], flow'[c], post'[c], server', dropped')
    <3>1. ASSUME NEW j \in Ed!Channels
          PROVE  /\ post'[c][j].at = "sent" => /\ post'[c][j].base # NoHash
                                               /\ Within(post'[c][j].base, post'[c][j].text, dropped')
                 /\ post'[c][j].at = "saved" => Within(post'[c][j].text, server', dropped')
      <4>1. CASE j = "flow"
        BY <1>8, <1>9, <4>1, PageFacts DEF PostsKept
      <4>2. CASE j = "autosave"
        BY <1>1, <1>8, <1>9, <4>2, PageFacts DEF TextsKept
      <4> QED BY <4>1, <4>2 DEF Ed!Channels
    <3>2. post'[c]["autosave"].at # "none" =>
            /\ Within(post'[c]["autosave"].text, page'[c].content, dropped')
            /\ flow'[c] \in Saving =>
                 Within(post'[c]["autosave"].text, post'[c]["flow"].text, dropped')
            /\ flow'[c] \in {"openRead", "appendRead"} =>
                 Within(post'[c]["autosave"].text, server', dropped')
      BY <1>1, <1>4, <1>8, <1>9, PageFacts DEF TextsKept, Saving
    <3> QED BY <3>1, <3>2 DEF PostsKept
  <2>5. FetchKept(page'[c], fetch'[c], server', dropped')
    BY <1>1, <1>4, <1>9, <1>6, <1>7, <1>8, PageFacts DEF FetchKept, Within, Ed!NoTimer
  <2> QED BY <2>1, <2>2, <2>3, <2>4, <2>5 DEF PageKept
<1>11. Within(Ed!OnPage(page[c]), Ed!OnPage(page'[c]) \cup server', dropped')
  BY <1>1, <1>4, <1>9, <1>6, <1>7, <1>8 DEF Within, Ed!OnPage
<1>12. /\ Within(server, server', dropped) /\ dropped \subseteq dropped'
  BY <1>9, <1>6, <1>7, <1>8 DEF Within
<1> QED BY <1>3, <1>5, <1>6, <1>7, <1>8, <1>9, <1>10, <1>11, <1>12, PageFacts, OnePage

LEMMA RefreshWaitsKeeps ==
    ASSUME Quiet, EditInv, NEW c \in Pages, Ed!RefreshArrives(c), Ed!KeepsLocal(c)
    PROVE  StepKeeps
<1>1. page[c].ready
  BY PageFacts DEF Ed!RefreshArrives, TextsKept, NewPage
<1>2. (page[c].conflict \/ Ed!Changed(c)) \in BOOLEAN
  BY <1>1, PageFacts, PageTypes, TextFacts, KnownFacts DEF PageRecord, FetchRecord, PostRecord
<1>3. /\ page' = [page EXCEPT ![c] = page'[c]]
      /\ page'[c] = [page[c] EXCEPT !.conflict = page[c].conflict \/ Ed!Changed(c)]
  BY <1>1, PageTypes DEF Ed!RefreshArrives, EditInv, EditTyped
<1>4. /\ page'[c].ready = page[c].ready /\ page'[c].content = page[c].content
      /\ page'[c].auto = page[c].auto /\ page'[c].unsaved = page[c].unsaved
      /\ page'[c].editing = page[c].editing /\ page'[c].hash = page[c].hash
      /\ page'[c].timer = page[c].timer /\ page'[c].doc = page[c].doc
  BY <1>3, PageTypes DEF PageRecord
<1>5. page'[c] \in PageRecord
  BY <1>2, <1>3, PageTypes DEF PageRecord
<1>6. /\ fetch' = [fetch EXCEPT ![c] = fetch'[c]] /\ fetch'[c] = Ed!NoFetch
  BY <1>1, PageFacts DEF Ed!RefreshArrives, EditInv, EditTyped
<1>7. /\ fetch'[c] \in FetchRecord /\ fetch'[c].at = "none"
  BY <1>6, NothingTypes
<1>8. UNCHANGED <<flow, post, server, dropped, edits, typed, faults>>
  BY DEF Ed!RefreshArrives
<1>9. PageKept(page'[c], flow'[c], post'[c], fetch'[c], server', dropped')
  <2>1. NewPage(page'[c], flow'[c], post'[c], fetch'[c])
    BY <1>1, <1>4, <1>8, <1>6, <1>7, PageFacts DEF NewPage
  <2>2. TextsKept(page'[c], flow'[c], server', dropped')
    BY <1>1, <1>4, <1>8, <1>6, <1>7, PageFacts DEF TextsKept, Within
  <2>3. FlowKept(page'[c], flow'[c], post'[c], dropped')
    BY <1>1, <1>4, <1>8, <1>6, <1>7, PageFacts DEF FlowKept, Within
  <2>4. PostsKept(page'[c], flow'[c], post'[c], server', dropped')
    BY <1>1, <1>4, <1>8, <1>6, <1>7, PageFacts DEF PostsKept, Within
  <2>5. FetchKept(page'[c], fetch'[c], server', dropped')
    BY <1>1, <1>4, <1>8, <1>6, <1>7, PageFacts DEF FetchKept, Within
  <2> QED BY <2>1, <2>2, <2>3, <2>4, <2>5 DEF PageKept
<1>10. Within(Ed!OnPage(page[c]), Ed!OnPage(page'[c]) \cup server', dropped')
  BY <1>1, <1>4, <1>8, <1>6, <1>7 DEF Within, Ed!OnPage
<1>11. /\ Within(server, server', dropped) /\ dropped \subseteq dropped'
  BY <1>8, <1>6, <1>7 DEF Within
<1> QED BY <1>3, <1>5, <1>6, <1>7, <1>8, <1>9, <1>10, <1>11, PageFacts, OnePage

LEMMA RefreshReadsKeeps ==
    ASSUME Quiet, EditInv, NEW c \in Pages, Ed!RefreshArrives(c), ~Ed!KeepsLocal(c)
    PROVE  StepKeeps
<1>1. /\ page[c].ready /\ (fetch[c].forced \/ (~page[c].unsaved /\ page[c].editing = "no"))
      /\ fetch[c].at = "read"
  BY PageFacts DEF Ed!RefreshArrives, TextsKept, NewPage, Ed!KeepsLocal, Ed!HasLocalWork
<1>2. page' = page
  BY <1>1 DEF Ed!RefreshArrives
<1>3. page'[c] \in PageRecord
  BY <1>2, PageTypes
<1>4. /\ fetch' = [fetch EXCEPT ![c] = fetch'[c]]
      /\ (fetch'[c] = [fetch[c] EXCEPT !.at = "replacing"] \/ fetch'[c] = Ed!NoFetch)
  BY <1>1, PageFacts DEF Ed!RefreshArrives, EditInv, EditTyped
<1>5. /\ fetch'[c] \in FetchRecord
      /\ (fetch'[c].at = "none" \/ (fetch'[c].at = "replacing" /\ fetch'[c].text =
          fetch[c].text /\ fetch'[c].forced = fetch[c].forced))
  BY <1>4, PageFacts, NothingTypes DEF FetchRecord
<1>6. UNCHANGED <<flow, post, server, dropped, edits, typed, faults>>
  BY DEF Ed!RefreshArrives
<1>7. PageKept(page'[c], flow'[c], post'[c], fetch'[c], server', dropped')
  <2>1. NewPage(page'[c], flow'[c], post'[c], fetch'[c])
    BY <1>1, <1>2, <1>6, <1>4, <1>5, PageFacts DEF NewPage
  <2>2. TextsKept(page'[c], flow'[c], server', dropped')
    BY <1>1, <1>2, <1>6, <1>4, <1>5, PageFacts DEF TextsKept, Within
  <2>3. FlowKept(page'[c], flow'[c], post'[c], dropped')
    BY <1>1, <1>2, <1>6, <1>4, <1>5, PageFacts DEF FlowKept, Within
  <2>4. PostsKept(page'[c], flow'[c], post'[c], server', dropped')
    BY <1>1, <1>2, <1>6, <1>4, <1>5, PageFacts DEF PostsKept, Within
  <2>5. FetchKept(page'[c], fetch'[c], server', dropped')
    BY <1>1, <1>2, <1>6, <1>4, <1>5, PageFacts DEF FetchKept, Within
  <2> QED BY <2>1, <2>2, <2>3, <2>4, <2>5 DEF PageKept
<1>8. Within(Ed!OnPage(page[c]), Ed!OnPage(page'[c]) \cup server', dropped')
  BY <1>1, <1>2, <1>6, <1>4, <1>5 DEF Within, Ed!OnPage
<1>9. /\ Within(server, server', dropped) /\ dropped \subseteq dropped'
  BY <1>6, <1>4, <1>5 DEF Within
<1> QED BY <1>2, <1>3, <1>4, <1>5, <1>6, <1>7, <1>8, <1>9, PageFacts, OnePage

LEMMA RefreshArrivesKeeps ==
    ASSUME Quiet, EditInv, NEW c \in Pages, Ed!RefreshArrives(c)
    PROVE  StepKeeps
  BY RefreshWaitsKeeps, RefreshReadsKeeps

LEMMA ReplaceKeeps ==
    ASSUME Quiet, EditInv, NEW c \in Pages, Ed!Replace(c)
    PROVE  StepKeeps
<1>1. /\ page[c].ready /\ ~page[c].doc.open /\ fetch[c].at = "replacing" /\ fetch[c].text \in Ed!Texts
      /\ Within(fetch[c].text, server, dropped)
      /\ (fetch[c].forced \/ (Within(page[c].content, fetch[c].text, dropped) /\
          Within(page[c].auto, fetch[c].text, dropped)))
      /\ (page[c].timer.on => Within(page[c].timer.hash, fetch[c].text, dropped))
      /\ Ed!Reread(c) = page[c].doc
  BY PageFacts DEF Ed!Replace, TextsKept, NewPage, FetchKept, FetchRecord, Ed!Reread
<1>2. /\ fetch[c].text \in Ed!Hashes /\ fetch[c].text # NoHash
  BY <1>1, PageFacts, PageTypes, TextFacts, KnownFacts, EditConstants DEF PageRecord, FetchRecord,
     PostRecord
<1>3. /\ page' = [page EXCEPT ![c] = page'[c]]
      /\ page'[c] = [page[c] EXCEPT !.content = fetch[c].text, !.auto = fetch[c].text,
          !.unsaved = FALSE,
                        !.hash = fetch[c].text, !.editing = "no", !.conflict = FALSE,
                        !.doc = page[c].doc]
  BY <1>1, PageTypes DEF Ed!Replace, Ed!Shows, EditInv, EditTyped
<1>4. /\ page'[c].ready = page[c].ready /\ page'[c].content = fetch[c].text
      /\ page'[c].auto = fetch[c].text /\ page'[c].unsaved = FALSE /\ page'[c].editing = "no"
      /\ page'[c].hash = fetch[c].text /\ page'[c].timer = page[c].timer /\ page'[c].doc = page[c].doc
  BY <1>3, PageTypes DEF PageRecord
<1>5. page'[c] \in PageRecord
  <2> DEFINE words == fetch[c].text
  <2>1. words \in Ed!Texts /\ words \in Ed!Hashes
    BY <1>2, <1>1
  <2>2. page'[c] = [page[c] EXCEPT !.content = words, !.auto = words, !.unsaved = FALSE, !.hash = words,
                                   !.editing = "no", !.conflict = FALSE, !.doc = page[c].doc]
    BY <1>3
  <2> HIDE DEF words
  <2> QED BY <2>1, <2>2, PageTypes DEF PageRecord
<1>6. /\ fetch' = [fetch EXCEPT ![c] = fetch'[c]] /\ fetch'[c] = Ed!NoFetch
  BY <1>1, PageFacts DEF Ed!Replace, EditInv, EditTyped
<1>7. /\ fetch'[c] \in FetchRecord /\ fetch'[c].at = "none"
  BY <1>6, NothingTypes
<1>8. /\ dropped' \in Ed!Texts /\ dropped \subseteq dropped'
      /\ Within(page[c].content, fetch[c].text, dropped')
      /\ Within(page[c].auto, fetch[c].text, dropped')
  <2>1. dropped' =
            dropped \cup (IF fetch[c].forced
                                     THEN (page[c].content \cup page[c].auto) \ fetch[c].text ELSE {})
    BY <1>1 DEF Ed!Replace, Ed!OnPage
  <2>2. dropped' \in Ed!Texts
    BY <1>1, <2>1, PageFacts, PageTypes, TextFacts
  <2> QED BY <1>1, <2>1, <2>2 DEF Within
<1>9. UNCHANGED <<flow, post, server, edits, typed, faults>>
  BY DEF Ed!Replace
<1>10. PageKept(page'[c], flow'[c], post'[c], fetch'[c], server', dropped')
  <2>1. NewPage(page'[c], flow'[c], post'[c], fetch'[c])
    BY <1>1, <1>2, <1>4, <1>9, <1>6, <1>7, <1>8, PageFacts DEF NewPage
  <2>2. TextsKept(page'[c], flow'[c], server', dropped')
    BY <1>1, <1>2, <1>4, <1>9, <1>6, <1>7, <1>8, PageFacts DEF TextsKept, Within
  <2>3. FlowKept(page'[c], flow'[c], post'[c], dropped')
    BY <1>1, <1>2, <1>4, <1>9, <1>6, <1>7, <1>8, PageFacts DEF FlowKept, Within, Ed!Channels
  <2>4. PostsKept(page'[c], flow'[c], post'[c], server', dropped')
    BY <1>1, <1>2, <1>4, <1>9, <1>6, <1>7, <1>8, PageFacts DEF PostsKept, Within, Ed!Channels
  <2>5. FetchKept(page'[c], fetch'[c], server', dropped')
    BY <1>1, <1>2, <1>4, <1>9, <1>6, <1>7, <1>8, PageFacts DEF FetchKept, Within
  <2> QED BY <2>1, <2>2, <2>3, <2>4, <2>5 DEF PageKept
<1>11. Within(Ed!OnPage(page[c]), Ed!OnPage(page'[c]) \cup server', dropped')
  BY <1>1, <1>4, <1>9, <1>6, <1>7, <1>8 DEF Within, Ed!OnPage
<1>12. /\ Within(server, server', dropped) /\ dropped \subseteq dropped'
  BY <1>1, <1>6, <1>7, <1>8 DEF Ed!Replace, Within
<1> QED BY <1>3, <1>5, <1>6, <1>7, <1>8, <1>9, <1>10, <1>11, <1>12, PageFacts, OnePage

LEMMA ArrivesSavedKeeps ==
    ASSUME Quiet, EditInv, NEW c \in Pages, NEW k \in Ed!Channels, Ed!Free(c), Ed!Arrives(c, k),
               post[c][k].base = server
    PROVE  StepKeeps
<1>1. /\ page[c].ready /\ post[c][k].at = "sent" /\ post[c][k] \in PostRecord
      /\ post[c][k].text \in Ed!Texts /\ Within(post[c][k].base, post[c][k].text, dropped)
      /\ fetch[c].at = "none"
  BY FreeFacts, PageFacts DEF Ed!Arrives, TextsKept, NewPage, PostsKept, PostRecord
<1>2. /\ [post[c][k] EXCEPT !.at = "saved"] \in PostRecord
      /\ [post[c][k] EXCEPT !.at = "saved"].at = "saved"
      /\ [post[c][k] EXCEPT !.at = "saved"].text = post[c][k].text
      /\ [post[c][k] EXCEPT !.at = "saved"].base = post[c][k].base
  BY <1>1, PageFacts, PageTypes, TextFacts, KnownFacts DEF PageRecord, FetchRecord, PostRecord
<1>3. page' = page
  BY <1>1 DEF Ed!Arrives
<1>4. page'[c] \in PageRecord
  BY <1>3, PageTypes
<1>5. /\ post' = [post EXCEPT ![c] = post'[c]]
      /\ post'[c] = [post[c] EXCEPT ![k] = [post[c][k] EXCEPT !.at = "saved"]]
  BY <1>1, PageFacts DEF Ed!Arrives, EditInv, EditTyped, Ed!Channels
<1>6. post'[c] \in [Ed!Channels -> PostRecord]
  BY <1>1, <1>2, <1>5, PostUpdate, PageFacts DEF Ed!Channels
<1>7. /\ post'[c][k].at = "saved" /\ post'[c][k].text = post[c][k].text
      /\ post'[c][k].base = post[c][k].base /\ \A j \in Ed!Channels \ {k} : post'[c][j] = post[c][j]
  BY <1>2, <1>5, PostUpdate, PageFacts
<1>8. /\ server' = post[c][k].text /\ server' \in Ed!Texts /\ Within(server, server', dropped)
  BY <1>1 DEF Ed!Arrives
<1>9. PageKept(page[c], flow[c], post[c], fetch[c], server', dropped)
  BY <1>8, PageFacts, KeptWhenGrown DEF PageKept, Within
<1>10. UNCHANGED <<flow, fetch, dropped, edits, typed, faults>>
  BY DEF Ed!Arrives
<1>11. PageKept(page'[c], flow'[c], post'[c], fetch'[c], server', dropped')
  <2>1. NewPage(page'[c], flow'[c], post'[c], fetch'[c])
    BY <1>1, <1>3, <1>10, <1>5, <1>6, <1>7, <1>8, <1>9, PageFacts DEF NewPage
  <2>2. TextsKept(page'[c], flow'[c], server', dropped')
    BY <1>1, <1>3, <1>10, <1>5, <1>6, <1>7, <1>8, <1>9, PageFacts DEF TextsKept, Within
  <2>3. FlowKept(page'[c], flow'[c], post'[c], dropped')
    BY <1>1, <1>3, <1>10, <1>5, <1>6, <1>7, <1>8, <1>9, PageFacts DEF FlowKept, Within,
       Ed!Channels
  <2>4. PostsKept(page'[c], flow'[c], post'[c], server', dropped')
    <3>1. ASSUME NEW j \in Ed!Channels
          PROVE  /\ post'[c][j].at = "sent" => /\ post'[c][j].base # NoHash
                                               /\ Within(post'[c][j].base, post'[c][j].text, dropped')
                 /\ post'[c][j].at = "saved" => Within(post'[c][j].text, server', dropped')
      <4>1. CASE j = k
        BY <1>7, <1>8, <4>1 DEF Within
      <4>2. CASE j # k
        BY <1>7, <1>9, <1>10, <4>2 DEF PageKept, PostsKept
      <4> QED BY <4>1, <4>2
    <3>2. post'[c]["autosave"].at # "none" =>
            /\ Within(post'[c]["autosave"].text, page'[c].content, dropped')
            /\ flow'[c] \in Saving =>
                 Within(post'[c]["autosave"].text, post'[c]["flow"].text, dropped')
            /\ flow'[c] \in {"openRead", "appendRead"} =>
                 Within(post'[c]["autosave"].text, server', dropped')
      <4>1. \A j \in Ed!Channels : /\ post'[c][j].text = post[c][j].text
                                   /\ post'[c][j].at # "none" <=> post[c][j].at # "none"
        BY <1>1, <1>7
      <4>2. PostsKept(page[c], flow[c], post[c], server', dropped)
        BY <1>9 DEF PageKept
      <4>3. "autosave" \in Ed!Channels /\ "flow" \in Ed!Channels
        BY DEF Ed!Channels
      <4>4. post'[c]["flow"].text = post[c]["flow"].text
        BY <4>1, <4>3
      <4>5. post'[c]["autosave"].text = post[c]["autosave"].text
        BY <4>1, <4>3
      <4>6. post'[c]["autosave"].at # "none" => post[c]["autosave"].at # "none"
        BY <4>1, <4>3
      <4> QED BY <1>3, <1>10, <4>2, <4>4, <4>5, <4>6 DEF PostsKept
    <3> QED BY <3>1, <3>2 DEF PostsKept
  <2>5. FetchKept(page'[c], fetch'[c], server', dropped')
    BY <1>1, <1>3, <1>10, <1>5, <1>6, <1>7, <1>8, <1>9, PageFacts DEF FetchKept, Within
  <2> QED BY <2>1, <2>2, <2>3, <2>4, <2>5 DEF PageKept
<1>12. Within(Ed!OnPage(page[c]), Ed!OnPage(page'[c]) \cup server', dropped')
  BY <1>1, <1>3, <1>10, <1>5, <1>6, <1>7, <1>8, <1>9 DEF Within, Ed!OnPage
<1>13. /\ Within(server, server', dropped) /\ dropped \subseteq dropped'
  BY <1>1, <1>5, <1>6, <1>7, <1>8, <1>9 DEF Ed!Arrives, Within
<1> QED BY <1>3, <1>4, <1>5, <1>6, <1>7, <1>8, <1>9, <1>10, <1>11, <1>12, <1>13, PageFacts, OnePage

LEMMA ArrivesRefusedKeeps ==
    ASSUME Quiet, EditInv, NEW c \in Pages, NEW k \in Ed!Channels, Ed!Free(c), Ed!Arrives(c, k),
               post[c][k].base # server
    PROVE  StepKeeps
<1>1. /\ page[c].ready /\ post[c][k].at = "sent" /\ post[c][k] \in PostRecord
      /\ post[c][k].text \in Ed!Texts /\ Within(post[c][k].base, post[c][k].text, dropped)
      /\ fetch[c].at = "none"
  BY FreeFacts, PageFacts DEF Ed!Arrives, TextsKept, NewPage, PostsKept, PostRecord
<1>2. /\ [post[c][k] EXCEPT !.at = "refused"] \in PostRecord
      /\ [post[c][k] EXCEPT !.at = "refused"].at = "refused"
      /\ [post[c][k] EXCEPT !.at = "refused"].text = post[c][k].text
      /\ [post[c][k] EXCEPT !.at = "refused"].base = post[c][k].base
  BY <1>1, PageFacts, PageTypes, TextFacts, KnownFacts DEF PageRecord, FetchRecord, PostRecord
<1>3. page' = page
  BY <1>1 DEF Ed!Arrives
<1>4. page'[c] \in PageRecord
  BY <1>3, PageTypes
<1>5. /\ post' = [post EXCEPT ![c] = post'[c]]
      /\ post'[c] = [post[c] EXCEPT ![k] = [post[c][k] EXCEPT !.at = "refused"]]
  BY <1>1, PageFacts DEF Ed!Arrives, EditInv, EditTyped, Ed!Channels
<1>6. post'[c] \in [Ed!Channels -> PostRecord]
  BY <1>1, <1>2, <1>5, PostUpdate, PageFacts DEF Ed!Channels
<1>7. /\ post'[c][k].at = "refused" /\ post'[c][k].text = post[c][k].text
      /\ post'[c][k].base = post[c][k].base /\ \A j \in Ed!Channels \ {k} : post'[c][j] = post[c][j]
  BY <1>2, <1>5, PostUpdate, PageFacts
<1>8. UNCHANGED <<flow, fetch, server, dropped, edits, typed, faults>>
  BY DEF Ed!Arrives
<1>9. PageKept(page'[c], flow'[c], post'[c], fetch'[c], server', dropped')
  <2>1. NewPage(page'[c], flow'[c], post'[c], fetch'[c])
    BY <1>1, <1>3, <1>8, <1>5, <1>6, <1>7, PageFacts DEF NewPage
  <2>2. TextsKept(page'[c], flow'[c], server', dropped')
    BY <1>1, <1>3, <1>8, <1>5, <1>6, <1>7, PageFacts DEF TextsKept, Within
  <2>3. FlowKept(page'[c], flow'[c], post'[c], dropped')
    BY <1>1, <1>3, <1>8, <1>5, <1>6, <1>7, PageFacts DEF FlowKept, Within, Ed!Channels
  <2>4. PostsKept(page'[c], flow'[c], post'[c], server', dropped')
    BY <1>1, <1>3, <1>8, <1>5, <1>6, <1>7, PageFacts DEF PostsKept, Within, Ed!Channels
  <2>5. FetchKept(page'[c], fetch'[c], server', dropped')
    BY <1>1, <1>3, <1>8, <1>5, <1>6, <1>7, PageFacts DEF FetchKept, Within
  <2> QED BY <2>1, <2>2, <2>3, <2>4, <2>5 DEF PageKept
<1>10. Within(Ed!OnPage(page[c]), Ed!OnPage(page'[c]) \cup server', dropped')
  BY <1>1, <1>3, <1>8, <1>5, <1>6, <1>7 DEF Within, Ed!OnPage
<1>11. /\ Within(server, server', dropped) /\ dropped \subseteq dropped'
  BY <1>8, <1>5, <1>6, <1>7 DEF Within
<1> QED BY <1>3, <1>4, <1>5, <1>6, <1>7, <1>8, <1>9, <1>10, <1>11, PageFacts, OnePage

LEMMA ArrivesKeeps ==
    ASSUME Quiet, EditInv, NEW c \in Pages, NEW k \in Ed!Channels, Ed!Free(c), Ed!Arrives(c, k)
    PROVE  StepKeeps
  BY ArrivesSavedKeeps, ArrivesRefusedKeeps

LEMMA AutosaveFailsKeeps ==
    ASSUME Quiet, EditInv, NEW c \in Pages, Ed!Free(c), Ed!Fails(c, "autosave")
    PROVE  StepKeeps
<1>1. /\ page[c].ready /\ post[c]["autosave"].at # "none" /\ fetch[c].at = "none"
  BY FreeFacts, PageFacts DEF Ed!Fails, TextsKept, NewPage, Ed!Channels
<1>2. page' = page
  BY <1>1 DEF Ed!Fails
<1>3. page'[c] \in PageRecord
  BY <1>2, PageTypes
<1>4. /\ post' = [post EXCEPT ![c] = post'[c]] /\ post'[c] = [post[c] EXCEPT !["autosave"] = Ed!NoPost]
  BY <1>1, PageFacts, NothingTypes DEF Ed!Fails, EditInv, EditTyped, Ed!Channels
<1>5. post'[c] \in [Ed!Channels -> PostRecord]
  BY <1>1, <1>4, PostUpdate, PageFacts, NothingTypes DEF Ed!Channels
<1>6. /\ post'[c]["autosave"].at = "none" /\ post'[c]["flow"] = post[c]["flow"]
  BY <1>4, NothingTypes, PageFacts DEF Ed!Channels
<1>7. faults' \in 0 .. MaxFaults
  BY EditConstants, PageFacts DEF Ed!Fails
<1>8. UNCHANGED <<flow, fetch, server, dropped, edits, typed>>
  BY DEF Ed!Fails
<1>9. PageKept(page'[c], flow'[c], post'[c], fetch'[c], server', dropped')
  <2>1. NewPage(page'[c], flow'[c], post'[c], fetch'[c])
    BY <1>1, <1>2, <1>8, <1>4, <1>5, <1>6, <1>7, PageFacts DEF NewPage
  <2>2. TextsKept(page'[c], flow'[c], server', dropped')
    BY <1>1, <1>2, <1>8, <1>4, <1>5, <1>6, <1>7, PageFacts DEF TextsKept, Within
  <2>3. FlowKept(page'[c], flow'[c], post'[c], dropped')
    BY <1>1, <1>2, <1>8, <1>4, <1>5, <1>6, <1>7, PageFacts DEF FlowKept, Within, Ed!Channels
  <2>4. PostsKept(page'[c], flow'[c], post'[c], server', dropped')
    BY <1>1, <1>2, <1>8, <1>4, <1>5, <1>6, <1>7, PageFacts DEF PostsKept, Within, Ed!Channels
  <2>5. FetchKept(page'[c], fetch'[c], server', dropped')
    BY <1>1, <1>2, <1>8, <1>4, <1>5, <1>6, <1>7, PageFacts DEF FetchKept, Within
  <2> QED BY <2>1, <2>2, <2>3, <2>4, <2>5 DEF PageKept
<1>10. Within(Ed!OnPage(page[c]), Ed!OnPage(page'[c]) \cup server', dropped')
  BY <1>1, <1>2, <1>8, <1>4, <1>5, <1>6, <1>7 DEF Within, Ed!OnPage
<1>11. /\ Within(server, server', dropped) /\ dropped \subseteq dropped'
  BY <1>8, <1>4, <1>5, <1>6, <1>7 DEF Within
<1> QED BY <1>2, <1>3, <1>4, <1>5, <1>6, <1>7, <1>8, <1>9, <1>10, <1>11, PageFacts, OnePage

LEMMA FlowFailsKeeps ==
    ASSUME Quiet, EditInv, NEW c \in Pages, Ed!Free(c), Ed!Fails(c, "flow")
    PROVE  StepKeeps
<1>1. /\ page[c].ready /\ post[c]["flow"].at # "none" /\ fetch[c].at = "none"
  BY FreeFacts, PageFacts DEF Ed!Fails, TextsKept, NewPage, Ed!Channels
<1>2. page' = page
  BY <1>1 DEF Ed!Fails
<1>3. page'[c] \in PageRecord
  BY <1>2, PageTypes
<1>4. /\ post' = [post EXCEPT ![c] = post'[c]] /\ post'[c] = [post[c] EXCEPT !["flow"] = Ed!NoPost]
  BY <1>1, PageFacts, NothingTypes DEF Ed!Fails, EditInv, EditTyped, Ed!Channels
<1>5. post'[c] \in [Ed!Channels -> PostRecord]
  BY <1>1, <1>4, PostUpdate, PageFacts, NothingTypes DEF Ed!Channels
<1>6. /\ post'[c]["flow"].at = "none" /\ post'[c]["autosave"] = post[c]["autosave"]
  BY <1>4, NothingTypes, PageFacts DEF Ed!Channels
<1>7. faults' \in 0 .. MaxFaults
  BY EditConstants, PageFacts DEF Ed!Fails
<1>8. /\ flow' = [flow EXCEPT ![c] = flow'[c]] /\ flow'[c] = "idle" /\ flow'[c] \in Ed!Flows
  BY PageFacts DEF Ed!Fails, EditInv, EditTyped, Ed!Flows
<1>9. UNCHANGED <<fetch, server, dropped, edits, typed>>
  BY DEF Ed!Fails
<1>10. PageKept(page'[c], flow'[c], post'[c], fetch'[c], server', dropped')
  <2>1. NewPage(page'[c], flow'[c], post'[c], fetch'[c])
    BY <1>1, <1>2, <1>9, <1>4, <1>5, <1>6, <1>7, <1>8, PageFacts DEF NewPage
  <2>2. TextsKept(page'[c], flow'[c], server', dropped')
    BY <1>1, <1>2, <1>9, <1>4, <1>5, <1>6, <1>7, <1>8, PageFacts DEF TextsKept, Within
  <2>3. FlowKept(page'[c], flow'[c], post'[c], dropped')
    BY <1>1, <1>2, <1>9, <1>4, <1>5, <1>6, <1>7, <1>8, PageFacts DEF FlowKept, Within,
       Ed!Channels, Saving
  <2>4. PostsKept(page'[c], flow'[c], post'[c], server', dropped')
    BY <1>1, <1>2, <1>9, <1>4, <1>5, <1>6, <1>7, <1>8, PageFacts DEF PostsKept, Within,
       Ed!Channels, Saving
  <2>5. FetchKept(page'[c], fetch'[c], server', dropped')
    BY <1>1, <1>2, <1>9, <1>4, <1>5, <1>6, <1>7, <1>8, PageFacts DEF FetchKept, Within
  <2> QED BY <2>1, <2>2, <2>3, <2>4, <2>5 DEF PageKept
<1>11. Within(Ed!OnPage(page[c]), Ed!OnPage(page'[c]) \cup server', dropped')
  BY <1>1, <1>2, <1>9, <1>4, <1>5, <1>6, <1>7, <1>8 DEF Within, Ed!OnPage
<1>12. /\ Within(server, server', dropped) /\ dropped \subseteq dropped'
  BY <1>9, <1>4, <1>5, <1>6, <1>7, <1>8 DEF Within
<1> QED BY <1>2, <1>3, <1>4, <1>5, <1>6, <1>7, <1>8, <1>9, <1>10, <1>11, <1>12, PageFacts, OnePage

LEMMA AutosaveSavedKeeps ==
    ASSUME Quiet, EditInv, NEW c \in Pages, Ed!Free(c), Ed!AutosaveAnswered(c),
               post[c]["autosave"].at = "saved"
    PROVE  StepKeeps
<1>1. /\ page[c].ready /\ post[c]["autosave"].at = "saved" /\ post[c]["autosave"].text \in Ed!Texts
      /\ post[c]["autosave"].text # NoHash /\ Within(post[c]["autosave"].text, server, dropped)
      /\ Within(post[c]["autosave"].text, page[c].content, dropped) /\ fetch[c].at = "none"
  BY FreeFacts, PageFacts, EditConstants DEF Ed!AutosaveAnswered, TextsKept, NewPage, PostsKept,
     PostRecord, Ed!Channels
<1>2. post[c]["autosave"].text \in Ed!Hashes
  BY <1>1, PageFacts, PageTypes, TextFacts, KnownFacts, NothingTypes DEF PageRecord, FetchRecord,
     PostRecord
<1>3. /\ page' = [page EXCEPT ![c] = page'[c]]
      /\ page'[c] = [page[c] EXCEPT !.hash = post[c]["autosave"].text,
                        !.unsaved = IF page[c].auto =
                            post[c]["autosave"].text THEN FALSE ELSE page[c].unsaved]
  BY <1>1, PageTypes DEF Ed!AutosaveAnswered, Ed!AfterAnswer, Ed!Saved, EditInv, EditTyped
<1>4. /\ page'[c].ready = page[c].ready /\ page'[c].content = page[c].content
      /\ page'[c].auto = page[c].auto
      /\ page'[c].unsaved = (IF page[c].auto = post[c]["autosave"].text THEN FALSE ELSE page[c].unsaved)
      /\ page'[c].editing = page[c].editing /\ page'[c].hash = post[c]["autosave"].text
      /\ page'[c].timer = page[c].timer /\ page'[c].doc = page[c].doc
  BY <1>3, PageTypes DEF PageRecord
<1>5. page'[c] \in PageRecord
  BY <1>2, <1>3, PageTypes DEF PageRecord
<1>6. /\ post' = [post EXCEPT ![c] = post'[c]] /\ post'[c] = [post[c] EXCEPT !["autosave"] = Ed!NoPost]
  BY <1>1, PageFacts, NothingTypes DEF Ed!AutosaveAnswered, Ed!Answered, EditInv, EditTyped,
     Ed!Channels
<1>7. post'[c] \in [Ed!Channels -> PostRecord]
  BY <1>1, <1>2, <1>6, PostUpdate, PageFacts, NothingTypes DEF Ed!Channels
<1>8. /\ post'[c]["autosave"].at = "none" /\ post'[c]["flow"] = post[c]["flow"]
  BY <1>6, NothingTypes, PageFacts DEF Ed!Channels
<1>9. fetch' = fetch
  BY <1>1 DEF Ed!AutosaveAnswered, Ed!Answered
<1>10. UNCHANGED <<flow, server, dropped, edits, typed, faults>>
  BY DEF Ed!AutosaveAnswered
<1>11. PageKept(page'[c], flow'[c], post'[c], fetch'[c], server', dropped')
  <2>1. NewPage(page'[c], flow'[c], post'[c], fetch'[c])
    BY <1>1, <1>4, <1>10, <1>6, <1>7, <1>8, <1>9, PageFacts DEF NewPage
  <2>2. TextsKept(page'[c], flow'[c], server', dropped')
    BY <1>1, <1>4, <1>10, <1>6, <1>7, <1>8, <1>9, PageFacts DEF TextsKept, Within
  <2>3. FlowKept(page'[c], flow'[c], post'[c], dropped')
    BY <1>1, <1>4, <1>10, <1>6, <1>7, <1>8, <1>9, PageFacts DEF FlowKept, Within, Ed!Channels,
       Saving
  <2>4. PostsKept(page'[c], flow'[c], post'[c], server', dropped')
    BY <1>1, <1>4, <1>10, <1>6, <1>7, <1>8, <1>9, PageFacts DEF PostsKept, Within, Ed!Channels,
       Saving
  <2>5. FetchKept(page'[c], fetch'[c], server', dropped')
    BY <1>1, <1>4, <1>10, <1>6, <1>7, <1>8, <1>9, PageFacts DEF FetchKept, Within
  <2> QED BY <2>1, <2>2, <2>3, <2>4, <2>5 DEF PageKept
<1>12. Within(Ed!OnPage(page[c]), Ed!OnPage(page'[c]) \cup server', dropped')
  BY <1>1, <1>4, <1>10, <1>6, <1>7, <1>8, <1>9 DEF Within, Ed!OnPage
<1>13. /\ Within(server, server', dropped) /\ dropped \subseteq dropped'
  BY <1>10, <1>6, <1>7, <1>8, <1>9 DEF Within
<1> QED BY <1>3, <1>5, <1>6, <1>7, <1>8, <1>9, <1>10, <1>11, <1>12, <1>13, PageFacts, OnePage

LEMMA AutosaveRefusedKeeps ==
    ASSUME Quiet, EditInv, NEW c \in Pages, Ed!Free(c), Ed!AutosaveAnswered(c),
               post[c]["autosave"].at = "refused"
    PROVE  StepKeeps
<1>1. /\ page[c].ready /\ post[c]["autosave"].at = "refused" /\ fetch[c].at = "none"
  BY FreeFacts, PageFacts, EditConstants DEF Ed!AutosaveAnswered, TextsKept, NewPage, PostsKept,
     PostRecord, Ed!Channels
<1>2. /\ page' = [page EXCEPT ![c] = page'[c]] /\ page'[c] = [page[c] EXCEPT !.conflict = TRUE]
  BY <1>1, PageTypes DEF Ed!AutosaveAnswered, Ed!AfterAnswer, Ed!Saved, EditInv, EditTyped
<1>3. /\ page'[c].ready = page[c].ready /\ page'[c].content = page[c].content
      /\ page'[c].auto = page[c].auto /\ page'[c].unsaved = page[c].unsaved
      /\ page'[c].editing = page[c].editing /\ page'[c].hash = page[c].hash
      /\ page'[c].timer = page[c].timer /\ page'[c].doc = page[c].doc
  BY <1>2, PageTypes DEF PageRecord
<1>4. page'[c] \in PageRecord
  BY <1>2, PageTypes DEF PageRecord
<1>5. /\ post' = [post EXCEPT ![c] = post'[c]] /\ post'[c] = [post[c] EXCEPT !["autosave"] = Ed!NoPost]
  BY <1>1, PageFacts, NothingTypes DEF Ed!AutosaveAnswered, Ed!Answered, EditInv, EditTyped,
     Ed!Channels
<1>6. post'[c] \in [Ed!Channels -> PostRecord]
  BY <1>1, <1>5, PostUpdate, PageFacts, NothingTypes DEF Ed!Channels
<1>7. /\ post'[c]["autosave"].at = "none" /\ post'[c]["flow"] = post[c]["flow"]
  BY <1>5, NothingTypes, PageFacts DEF Ed!Channels
<1>8. /\ fetch' = [fetch EXCEPT ![c] = fetch'[c]]
      /\ fetch'[c] = [at |-> "read", text |-> server, forced |-> FALSE]
  BY <1>1, PageFacts DEF Ed!AutosaveAnswered, Ed!Answered, Ed!Reads, EditInv, EditTyped
<1>9. fetch'[c] \in FetchRecord
  BY PageFacts, <1>8 DEF FetchRecord
<1>10. UNCHANGED <<flow, server, dropped, edits, typed, faults>>
  BY DEF Ed!AutosaveAnswered
<1>11. PageKept(page'[c], flow'[c], post'[c], fetch'[c], server', dropped')
  <2>1. NewPage(page'[c], flow'[c], post'[c], fetch'[c])
    BY <1>1, <1>3, <1>10, <1>5, <1>6, <1>7, <1>8, <1>9, PageFacts DEF NewPage
  <2>2. TextsKept(page'[c], flow'[c], server', dropped')
    BY <1>1, <1>3, <1>10, <1>5, <1>6, <1>7, <1>8, <1>9, PageFacts DEF TextsKept, Within
  <2>3. FlowKept(page'[c], flow'[c], post'[c], dropped')
    BY <1>1, <1>3, <1>10, <1>5, <1>6, <1>7, <1>8, <1>9, PageFacts DEF FlowKept, Within,
       Ed!Channels, Saving
  <2>4. PostsKept(page'[c], flow'[c], post'[c], server', dropped')
    BY <1>1, <1>3, <1>10, <1>5, <1>6, <1>7, <1>8, <1>9, PageFacts DEF PostsKept, Within,
       Ed!Channels, Saving
  <2>5. FetchKept(page'[c], fetch'[c], server', dropped')
    BY <1>1, <1>3, <1>10, <1>5, <1>6, <1>7, <1>8, <1>9, PageFacts DEF TextsKept, FetchKept, Within
  <2> QED BY <2>1, <2>2, <2>3, <2>4, <2>5 DEF PageKept
<1>12. Within(Ed!OnPage(page[c]), Ed!OnPage(page'[c]) \cup server', dropped')
  BY <1>1, <1>3, <1>10, <1>5, <1>6, <1>7, <1>8, <1>9 DEF Within, Ed!OnPage
<1>13. /\ Within(server, server', dropped) /\ dropped \subseteq dropped'
  BY <1>10, <1>5, <1>6, <1>7, <1>8, <1>9 DEF Within
<1> QED BY <1>2, <1>4, <1>5, <1>6, <1>7, <1>8, <1>9, <1>10, <1>11, <1>12, <1>13, PageFacts, OnePage

LEMMA AutosaveAnsweredKeeps ==
    ASSUME Quiet, EditInv, NEW c \in Pages, Ed!Free(c), Ed!AutosaveAnswered(c)
    PROVE  StepKeeps
<1>1. post[c]["autosave"].at \in {"saved", "refused"}
  BY DEF Ed!AutosaveAnswered, Ed!Answered
<1> QED BY <1>1, AutosaveSavedKeeps, AutosaveRefusedKeeps

LEMMA FlushKeeps ==
    ASSUME Quiet, EditInv, NEW c \in Pages, NEW step \in {"openFlush", "appendFlush"}, Ed!Free(c),
               Ed!Flush(c, step)
    PROVE  StepKeeps
<1>1. /\ page[c].ready /\ ~page[c].doc.open /\ flow[c] = "idle" /\ Ed!Latest(page[c]) = page[c].content
      /\ Ed!Known(page[c]) = page[c].hash /\ page[c].hash # NoHash /\ fetch[c].at = "none"
  BY FreeFacts, PageFacts, KnownFacts DEF Ed!Flush, TextsKept, Ed!Latest
<1>2. /\ Ed!NoTimer \in [on : BOOLEAN, hash : Ed!Hashes] /\ ~Ed!NoTimer.on
      /\ [at |-> "sent", text |-> page[c].content, base |-> page[c].hash] \in PostRecord
  BY <1>1, PageFacts, PageTypes, TextFacts, KnownFacts, NothingTypes DEF PageRecord, FetchRecord,
     PostRecord
<1>3. /\ page' = [page EXCEPT ![c] = page'[c]] /\ page'[c] = [page[c] EXCEPT !.timer = Ed!NoTimer]
  BY <1>1, PageTypes DEF Ed!Flush, Ed!Asked, EditInv, EditTyped
<1>4. /\ page'[c].ready = page[c].ready /\ page'[c].content = page[c].content
      /\ page'[c].auto = page[c].auto /\ page'[c].unsaved = page[c].unsaved
      /\ page'[c].editing = page[c].editing /\ page'[c].hash = page[c].hash
      /\ page'[c].timer = Ed!NoTimer /\ page'[c].doc = page[c].doc
  BY <1>3, PageTypes DEF PageRecord
<1>5. page'[c] \in PageRecord
  BY <1>2, <1>3, PageTypes DEF PageRecord
<1>6. /\ post' = [post EXCEPT ![c] = post'[c]]
      /\ post'[c] = [post[c] EXCEPT !["flow"] = [at |-> "sent", text |-> page[c].content,
          base |-> page[c].hash]]
  BY <1>1, PageFacts DEF Ed!Flush, Ed!Sends, EditInv, EditTyped, Ed!Channels
<1>7. post'[c] \in [Ed!Channels -> PostRecord]
  BY <1>1, <1>2, <1>6, PostUpdate, PageFacts DEF Ed!Channels
<1>8. /\ post'[c]["flow"] = [at |-> "sent", text |-> page[c].content, base |-> page[c].hash]
      /\ post'[c]["autosave"] = post[c]["autosave"]
  BY <1>6, PageFacts DEF Ed!Channels
<1>9. /\ flow' = [flow EXCEPT ![c] = flow'[c]] /\ flow'[c] = step /\ flow'[c] \in Ed!Flows
  BY <1>1, PageFacts DEF Ed!Flush, EditInv, EditTyped, Ed!Flows
<1>10. UNCHANGED <<fetch, server, dropped, edits, typed, faults>>
  BY DEF Ed!Flush
<1>11. PageKept(page'[c], flow'[c], post'[c], fetch'[c], server', dropped')
  <2>1. NewPage(page'[c], flow'[c], post'[c], fetch'[c])
    BY <1>1, <1>2, <1>4, <1>10, <1>6, <1>7, <1>8, <1>9, PageFacts DEF NewPage
  <2>2. TextsKept(page'[c], flow'[c], server', dropped')
    BY <1>1, <1>2, <1>4, <1>10, <1>6, <1>7, <1>8, <1>9, PageFacts DEF TextsKept, Within
  <2>3. FlowKept(page'[c], flow'[c], post'[c], dropped')
    BY <1>1, <1>2, <1>4, <1>10, <1>6, <1>7, <1>8, <1>9, PageFacts DEF TextsKept, FlowKept, Within,
       Ed!Channels, Saving
  <2>4. PostsKept(page'[c], flow'[c], post'[c], server', dropped')
    <3>1. ASSUME NEW j \in Ed!Channels
          PROVE  /\ post'[c][j].at = "sent" => /\ post'[c][j].base # NoHash
                                               /\ Within(post'[c][j].base, post'[c][j].text, dropped')
                 /\ post'[c][j].at = "saved" => Within(post'[c][j].text, server', dropped')
      <4>1. CASE j = "flow"
        BY <1>1, <1>8, <1>10, <4>1, PageFacts DEF TextsKept, Within
      <4>2. CASE j = "autosave"
        BY <1>8, <1>10, <4>2, PageFacts DEF PostsKept
      <4> QED BY <4>1, <4>2 DEF Ed!Channels
    <3>2. post'[c]["autosave"].at # "none" =>
            /\ Within(post'[c]["autosave"].text, page'[c].content, dropped')
            /\ flow'[c] \in Saving =>
                 Within(post'[c]["autosave"].text, post'[c]["flow"].text, dropped')
            /\ flow'[c] \in {"openRead", "appendRead"} =>
                 Within(post'[c]["autosave"].text, server', dropped')
      BY <1>1, <1>4, <1>8, <1>9, <1>10, PageFacts DEF PostsKept
    <3> QED BY <3>1, <3>2 DEF PostsKept
  <2>5. FetchKept(page'[c], fetch'[c], server', dropped')
    BY <1>1, <1>2, <1>4, <1>10, <1>6, <1>7, <1>8, <1>9, PageFacts DEF FetchKept, Within
  <2> QED BY <2>1, <2>2, <2>3, <2>4, <2>5 DEF PageKept
<1>12. Within(Ed!OnPage(page[c]), Ed!OnPage(page'[c]) \cup server', dropped')
  BY <1>1, <1>4, <1>10, <1>6, <1>7, <1>8, <1>9 DEF Within, Ed!OnPage
<1>13. /\ Within(server, server', dropped) /\ dropped \subseteq dropped'
  BY <1>10, <1>6, <1>7, <1>8, <1>9 DEF Within
<1> QED BY <1>3, <1>5, <1>6, <1>7, <1>8, <1>9, <1>10, <1>11, <1>12, <1>13, PageFacts, OnePage

LEMMA FlushSavedKeeps ==
    ASSUME Quiet, EditInv, NEW c \in Pages, Ed!Free(c), Ed!Flushed(c), post[c]["flow"].at = "saved"
    PROVE  StepKeeps
<1>1. /\ page[c].ready /\ post[c]["flow"].at = "saved" /\ post[c]["flow"].text \in Ed!Texts
      /\ post[c]["flow"].text # NoHash /\ Within(post[c]["flow"].text, server, dropped)
      /\ ~page[c].timer.on /\ ~page[c].doc.open
      /\ Within(post[c]["flow"].text, page[c].content, dropped)
      /\ flow[c] \in {"openFlush", "appendFlush"}
      /\ (IF page[c].auto = post[c]["flow"].text THEN FALSE ELSE page[c].unsaved) = FALSE
      /\ Within(page[c].content, server, dropped) /\ Within(page[c].auto, server, dropped)
      /\ fetch[c].at = "none"
  BY FreeFacts, PageFacts, EditConstants DEF Ed!Flushed, TextsKept, NewPage, PostsKept, PostRecord,
     Ed!Channels, FlowKept, Saving
<1>2. post[c]["flow"].text \in Ed!Hashes
  BY <1>1, PageFacts, PageTypes, TextFacts, KnownFacts, NothingTypes DEF PageRecord, FetchRecord,
     PostRecord
<1>3. /\ page' = [page EXCEPT ![c] = page'[c]]
      /\ page'[c] = [page[c] EXCEPT !.hash = post[c]["flow"].text, !.unsaved = FALSE]
  BY <1>1, PageTypes DEF Ed!Flushed, Ed!AfterAnswer, Ed!Saved, EditInv, EditTyped
<1>4. /\ page'[c].ready = page[c].ready /\ page'[c].content = page[c].content
      /\ page'[c].auto = page[c].auto /\ page'[c].unsaved = FALSE /\ page'[c].editing = page[c].editing
      /\ page'[c].hash = post[c]["flow"].text /\ page'[c].timer = page[c].timer
      /\ page'[c].doc = page[c].doc
  BY <1>3, PageTypes DEF PageRecord
<1>5. page'[c] \in PageRecord
  BY <1>2, <1>3, PageTypes DEF PageRecord
<1>6. /\ post' = [post EXCEPT ![c] = post'[c]] /\ post'[c] = [post[c] EXCEPT !["flow"] = Ed!NoPost]
  BY <1>1, PageFacts, NothingTypes DEF Ed!Flushed, Ed!Answered, EditInv, EditTyped, Ed!Channels
<1>7. post'[c] \in [Ed!Channels -> PostRecord]
  BY <1>1, <1>2, <1>6, PostUpdate, PageFacts, NothingTypes DEF Ed!Channels
<1>8. /\ post'[c]["flow"].at = "none" /\ post'[c]["autosave"] = post[c]["autosave"]
  BY <1>6, NothingTypes, PageFacts DEF Ed!Channels
<1>9. fetch' = fetch
  BY <1>1 DEF Ed!Flushed, Ed!Answered
<1>10. /\ flow' = [flow EXCEPT ![c] = flow'[c]]
       /\ flow'[c] = (IF flow[c] = "openFlush" THEN "openRead" ELSE "appendRead")
       /\ flow'[c] \in Ed!Flows
  BY <1>1, PageFacts DEF Ed!Flushed, EditInv, EditTyped, Ed!Flows
<1>11. UNCHANGED <<server, dropped, edits, typed, faults>>
  BY DEF Ed!Flushed
<1>12. PageKept(page'[c], flow'[c], post'[c], fetch'[c], server', dropped')
  <2>1. NewPage(page'[c], flow'[c], post'[c], fetch'[c])
    BY <1>1, <1>4, <1>11, <1>6, <1>7, <1>8, <1>9, <1>10, PageFacts DEF NewPage
  <2>2. TextsKept(page'[c], flow'[c], server', dropped')
    BY <1>1, <1>4, <1>11, <1>6, <1>7, <1>8, <1>9, <1>10, PageFacts DEF TextsKept, Within
  <2>3. FlowKept(page'[c], flow'[c], post'[c], dropped')
    BY <1>1, <1>4, <1>11, <1>6, <1>7, <1>8, <1>9, <1>10, PageFacts DEF FlowKept, Within,
       Ed!Channels, Saving
  <2>4. PostsKept(page'[c], flow'[c], post'[c], server', dropped')
    BY <1>1, <1>4, <1>11, <1>6, <1>7, <1>8, <1>9, <1>10, PageFacts DEF PostsKept, Within,
       Ed!Channels, Saving
  <2>5. FetchKept(page'[c], fetch'[c], server', dropped')
    BY <1>1, <1>4, <1>11, <1>6, <1>7, <1>8, <1>9, <1>10, PageFacts DEF FetchKept, Within
  <2> QED BY <2>1, <2>2, <2>3, <2>4, <2>5 DEF PageKept
<1>13. Within(Ed!OnPage(page[c]), Ed!OnPage(page'[c]) \cup server', dropped')
  BY <1>1, <1>4, <1>11, <1>6, <1>7, <1>8, <1>9, <1>10 DEF Within, Ed!OnPage
<1>14. /\ Within(server, server', dropped) /\ dropped \subseteq dropped'
  BY <1>11, <1>6, <1>7, <1>8, <1>9, <1>10 DEF Within
<1> QED BY <1>3, <1>5, <1>6, <1>7, <1>8, <1>9, <1>10, <1>11, <1>12, <1>13, <1>14, PageFacts, OnePage

LEMMA FlushRefusedKeeps ==
    ASSUME Quiet, EditInv, NEW c \in Pages, Ed!Free(c), Ed!Flushed(c), post[c]["flow"].at = "refused"
    PROVE  StepKeeps
<1>1. /\ page[c].ready /\ post[c]["flow"].at = "refused" /\ ~page[c].timer.on /\ ~page[c].doc.open
      /\ fetch[c].at = "none"
  BY FreeFacts, PageFacts, EditConstants DEF Ed!Flushed, TextsKept, NewPage, PostsKept, PostRecord,
     Ed!Channels, FlowKept, Saving
<1>2. /\ page' = [page EXCEPT ![c] = page'[c]] /\ page'[c] = [page[c] EXCEPT !.conflict = TRUE]
  BY <1>1, PageTypes DEF Ed!Flushed, Ed!AfterAnswer, Ed!Saved, EditInv, EditTyped
<1>3. /\ page'[c].ready = page[c].ready /\ page'[c].content = page[c].content
      /\ page'[c].auto = page[c].auto /\ page'[c].unsaved = page[c].unsaved
      /\ page'[c].editing = page[c].editing /\ page'[c].hash = page[c].hash
      /\ page'[c].timer = page[c].timer /\ page'[c].doc = page[c].doc
  BY <1>2, PageTypes DEF PageRecord
<1>4. page'[c] \in PageRecord
  BY <1>2, PageTypes DEF PageRecord
<1>5. /\ post' = [post EXCEPT ![c] = post'[c]] /\ post'[c] = [post[c] EXCEPT !["flow"] = Ed!NoPost]
  BY <1>1, PageFacts, NothingTypes DEF Ed!Flushed, Ed!Answered, EditInv, EditTyped, Ed!Channels
<1>6. post'[c] \in [Ed!Channels -> PostRecord]
  BY <1>1, <1>5, PostUpdate, PageFacts, NothingTypes DEF Ed!Channels
<1>7. /\ post'[c]["flow"].at = "none" /\ post'[c]["autosave"] = post[c]["autosave"]
  BY <1>5, NothingTypes, PageFacts DEF Ed!Channels
<1>8. /\ fetch' = [fetch EXCEPT ![c] = fetch'[c]]
      /\ fetch'[c] = [at |-> "read", text |-> server, forced |-> FALSE]
  BY <1>1, PageFacts DEF Ed!Flushed, Ed!Answered, Ed!Reads, EditInv, EditTyped
<1>9. fetch'[c] \in FetchRecord
  BY PageFacts, <1>8 DEF FetchRecord
<1>10. /\ flow' = [flow EXCEPT ![c] = flow'[c]] /\ flow'[c] = "idle" /\ flow'[c] \in Ed!Flows
  BY <1>1, PageFacts DEF Ed!Flushed, EditInv, EditTyped, Ed!Flows
<1>11. UNCHANGED <<server, dropped, edits, typed, faults>>
  BY DEF Ed!Flushed
<1>12. PageKept(page'[c], flow'[c], post'[c], fetch'[c], server', dropped')
  <2>1. NewPage(page'[c], flow'[c], post'[c], fetch'[c])
    BY <1>1, <1>3, <1>11, <1>5, <1>6, <1>7, <1>8, <1>9, <1>10, PageFacts DEF NewPage
  <2>2. TextsKept(page'[c], flow'[c], server', dropped')
    BY <1>1, <1>3, <1>11, <1>5, <1>6, <1>7, <1>8, <1>9, <1>10, PageFacts DEF TextsKept, Within
  <2>3. FlowKept(page'[c], flow'[c], post'[c], dropped')
    BY <1>1, <1>3, <1>11, <1>5, <1>6, <1>7, <1>8, <1>9, <1>10, PageFacts DEF FlowKept, Within,
       Ed!Channels, Saving
  <2>4. PostsKept(page'[c], flow'[c], post'[c], server', dropped')
    BY <1>1, <1>3, <1>11, <1>5, <1>6, <1>7, <1>8, <1>9, <1>10, PageFacts DEF PostsKept, Within,
       Ed!Channels, Saving
  <2>5. FetchKept(page'[c], fetch'[c], server', dropped')
    BY <1>1, <1>3, <1>11, <1>5, <1>6, <1>7, <1>8, <1>9, <1>10, PageFacts DEF TextsKept, FetchKept,
       Within
  <2> QED BY <2>1, <2>2, <2>3, <2>4, <2>5 DEF PageKept
<1>13. Within(Ed!OnPage(page[c]), Ed!OnPage(page'[c]) \cup server', dropped')
  BY <1>1, <1>3, <1>11, <1>5, <1>6, <1>7, <1>8, <1>9, <1>10 DEF Within, Ed!OnPage
<1>14. /\ Within(server, server', dropped) /\ dropped \subseteq dropped'
  BY <1>11, <1>5, <1>6, <1>7, <1>8, <1>9, <1>10 DEF Within
<1> QED BY <1>2, <1>4, <1>5, <1>6, <1>7, <1>8, <1>9, <1>10, <1>11, <1>12, <1>13, <1>14, PageFacts,
   OnePage

LEMMA FlushedKeeps ==
    ASSUME Quiet, EditInv, NEW c \in Pages, Ed!Free(c), Ed!Flushed(c)
    PROVE  StepKeeps
<1>1. post[c]["flow"].at \in {"saved", "refused"}
  BY DEF Ed!Flushed, Ed!Answered
<1> QED BY <1>1, FlushSavedKeeps, FlushRefusedKeeps

LEMMA DocumentOpensKeeps ==
    ASSUME Quiet, EditInv, NEW c \in Pages, Ed!Free(c), Ed!DocumentOpens(c)
    PROVE  StepKeeps
<1>1. /\ page[c].ready /\ ~page[c].unsaved /\ ~page[c].timer.on /\ flow[c] = "openRead"
      /\ post[c]["flow"].at = "none" /\ fetch[c].at = "none"
  <2>1. flow[c] = "openRead" /\ fetch[c].at = "none"
    BY FreeFacts DEF Ed!DocumentOpens
  <2>2. ~page[c].unsaved /\ post[c]["flow"].at = "none"
    BY <2>1, PageFacts DEF FlowKept, Saving
  <2>3. page[c].ready /\ ~page[c].timer.on
    BY <2>1, PageFacts DEF NewPage, TextsKept
  <2> QED BY <2>1, <2>2, <2>3
<1>2. /\ server \in Ed!Texts /\ server \in Ed!Hashes
      /\ [open |-> TRUE, text |-> server] \in [open : BOOLEAN, text : Ed!Texts]
  BY <1>1, PageFacts, PageTypes, TextFacts, KnownFacts DEF PageRecord, FetchRecord, PostRecord
<1>3. /\ page' = [page EXCEPT ![c] = page'[c]]
      /\ page'[c] = [page[c] EXCEPT !.content = server, !.hash = server, !.editing = "document",
                                    !.doc = [open |-> TRUE, text |-> server]]
  BY <1>1, PageTypes DEF Ed!DocumentOpens, EditInv, EditTyped
<1>4. /\ page'[c].ready = page[c].ready /\ page'[c].content = server /\ page'[c].auto = page[c].auto
      /\ page'[c].unsaved = page[c].unsaved /\ page'[c].editing = "document" /\ page'[c].hash = server
      /\ page'[c].timer = page[c].timer /\ page'[c].doc = [open |-> TRUE, text |-> server]
  BY <1>3, PageTypes DEF PageRecord
<1>5. page'[c] \in PageRecord
  <2> DEFINE doc == [open |-> TRUE, text |-> server]
  <2>1. doc \in [open : BOOLEAN, text : Ed!Texts] /\ server \in Ed!Texts /\ server \in Ed!Hashes
    BY <1>2, <1>1
  <2>2. page'[c] = [page[c] EXCEPT !.content = server, !.hash = server, !.editing = "document",
            !.doc = doc]
    BY <1>3
  <2> HIDE DEF doc
  <2> QED BY <2>1, <2>2, PageTypes DEF PageRecord
<1>6. /\ flow' = [flow EXCEPT ![c] = flow'[c]] /\ flow'[c] = "idle" /\ flow'[c] \in Ed!Flows
  BY <1>1, PageFacts DEF Ed!DocumentOpens, EditInv, EditTyped, Ed!Flows
<1>7. UNCHANGED <<post, fetch, server, dropped, edits, typed, faults>>
  BY DEF Ed!DocumentOpens
<1>8. PageKept(page'[c], flow'[c], post'[c], fetch'[c], server', dropped')
  <2>1. NewPage(page'[c], flow'[c], post'[c], fetch'[c])
    BY <1>1, <1>4, <1>7, <1>6, PageFacts DEF NewPage
  <2>2. TextsKept(page'[c], flow'[c], server', dropped')
    BY <1>1, <1>4, <1>7, <1>6, PageFacts DEF TextsKept, Within
  <2>3. FlowKept(page'[c], flow'[c], post'[c], dropped')
    BY <1>1, <1>4, <1>7, <1>6, PageFacts DEF FlowKept, Within, Saving
  <2>4. PostsKept(page'[c], flow'[c], post'[c], server', dropped')
    BY <1>1, <1>4, <1>7, <1>6, PageFacts DEF PostsKept, Within, Saving
  <2>5. FetchKept(page'[c], fetch'[c], server', dropped')
    BY <1>1, <1>4, <1>7, <1>6, PageFacts DEF FetchKept, Within
  <2> QED BY <2>1, <2>2, <2>3, <2>4, <2>5 DEF PageKept
<1>9. Within(Ed!OnPage(page[c]), Ed!OnPage(page'[c]) \cup server', dropped')
  BY <1>1, <1>4, <1>7, <1>6, PageFacts DEF Within, Ed!OnPage, TextsKept
<1>10. /\ Within(server, server', dropped) /\ dropped \subseteq dropped'
  BY <1>7, <1>6 DEF Within
<1> QED BY <1>3, <1>5, <1>6, <1>7, <1>8, <1>9, <1>10, PageFacts, OnePage

LEMMA CancelDocumentKeeps ==
    ASSUME Quiet, EditInv, NEW c \in Pages, Ed!Free(c), Ed!CancelDocument(c)
    PROVE  StepKeeps
<1>1. /\ page[c].ready /\ page[c].doc.open /\ flow[c] = "idle" /\ page[c].editing = "document"
      /\ ~page[c].timer.on /\ fetch[c].at = "none"
  BY FreeFacts, PageFacts DEF Ed!CancelDocument, TextsKept, NewPage, Ed!Blank, Ed!NoDoc
<1>2. /\ Ed!NoDoc \in [open : BOOLEAN, text : Ed!Texts] /\ ~Ed!NoDoc.open
  BY <1>1, PageFacts, PageTypes, TextFacts, KnownFacts, NothingTypes DEF PageRecord, FetchRecord,
     PostRecord
<1>3. /\ page' = [page EXCEPT ![c] = page'[c]]
      /\ page'[c] = [page[c] EXCEPT !.doc = Ed!NoDoc, !.editing = "no"]
  BY <1>1, PageTypes DEF Ed!CancelDocument, Ed!Closed, EditInv, EditTyped
<1>4. /\ page'[c].ready = page[c].ready /\ page'[c].content = page[c].content
      /\ page'[c].auto = page[c].auto /\ page'[c].unsaved = page[c].unsaved /\ page'[c].editing = "no"
      /\ page'[c].hash = page[c].hash /\ page'[c].timer = page[c].timer /\ page'[c].doc = Ed!NoDoc
  BY <1>3, PageTypes DEF PageRecord
<1>5. page'[c] \in PageRecord
  BY <1>2, <1>3, PageTypes DEF PageRecord
<1>6. /\ dropped' \in Ed!Texts /\ dropped \subseteq dropped'
      /\ Within(page[c].doc.text, page[c].content, dropped')
  <2>1. dropped' = dropped \cup (page[c].doc.text \ page[c].content)
    BY DEF Ed!CancelDocument
  <2>2. dropped' \in Ed!Texts
    BY <2>1, PageFacts, PageTypes, TextFacts
  <2> QED BY <2>1, <2>2 DEF Within
<1>7. UNCHANGED <<flow, post, fetch, server, edits, typed, faults>>
  BY DEF Ed!CancelDocument
<1>8. PageKept(page'[c], flow'[c], post'[c], fetch'[c], server', dropped')
  <2>1. NewPage(page'[c], flow'[c], post'[c], fetch'[c])
    BY <1>1, <1>2, <1>4, <1>7, <1>6, PageFacts DEF NewPage
  <2>2. TextsKept(page'[c], flow'[c], server', dropped')
    BY <1>1, <1>2, <1>4, <1>7, <1>6, PageFacts DEF TextsKept, Within
  <2>3. FlowKept(page'[c], flow'[c], post'[c], dropped')
    BY <1>1, <1>2, <1>4, <1>7, <1>6, PageFacts DEF FlowKept, Within
  <2>4. PostsKept(page'[c], flow'[c], post'[c], server', dropped')
    BY <1>1, <1>2, <1>4, <1>7, <1>6, PageFacts DEF PostsKept, Within
  <2>5. FetchKept(page'[c], fetch'[c], server', dropped')
    BY <1>1, <1>2, <1>4, <1>7, <1>6, PageFacts DEF FetchKept, Within
  <2> QED BY <2>1, <2>2, <2>3, <2>4, <2>5 DEF PageKept
<1>9. Within(Ed!OnPage(page[c]), Ed!OnPage(page'[c]) \cup server', dropped')
  BY <1>1, <1>4, <1>7, <1>6 DEF Within, Ed!OnPage
<1>10. /\ Within(server, server', dropped) /\ dropped \subseteq dropped'
  BY <1>1, <1>6 DEF Ed!CancelDocument, Within
<1> QED BY <1>3, <1>5, <1>6, <1>7, <1>8, <1>9, <1>10, PageFacts, OnePage

LEMMA SaveDocumentKeeps ==
    ASSUME Quiet, EditInv, NEW c \in Pages, Ed!Free(c), Ed!SaveDocument(c)
    PROVE  StepKeeps
<1>1. /\ page[c].ready /\ page[c].doc.open /\ ~page[c].unsaved /\ flow[c] = "idle"
      /\ Ed!Known(page[c]) = page[c].hash /\ page[c].hash # NoHash
      /\ Within(page[c].content, page[c].doc.text, dropped)
      /\ Within(page[c].hash, page[c].doc.text, dropped) /\ fetch[c].at = "none"
  <2>1. fetch[c].at = "none" /\ page[c].doc.open /\ flow[c] = "idle"
    BY FreeFacts DEF Ed!SaveDocument
  <2>2. page[c].ready /\ ~page[c].unsaved /\ Within(page[c].content, page[c].doc.text, dropped)
    BY <2>1, PageFacts DEF TextsKept
  <2>3. /\ Ed!Known(page[c]) = page[c].hash /\ page[c].hash # NoHash
        /\ Within(page[c].hash, page[c].doc.text, dropped)
    BY <2>2, KnownFacts DEF Within
  <2> QED BY <2>1, <2>2, <2>3
<1>2. [at |-> "sent", text |-> page[c].doc.text, base |-> page[c].hash] \in PostRecord
  BY <1>1, PageFacts, PageTypes, TextFacts, KnownFacts DEF PageRecord, FetchRecord, PostRecord
<1>3. page' = page
  BY <1>1 DEF Ed!SaveDocument
<1>4. page'[c] \in PageRecord
  BY <1>3, PageTypes
<1>5. /\ post' = [post EXCEPT ![c] = post'[c]]
      /\ post'[c] = [post[c] EXCEPT !["flow"] = [at |-> "sent", text |-> page[c].doc.text,
          base |-> page[c].hash]]
  BY <1>1, PageFacts DEF Ed!SaveDocument, Ed!Sends, EditInv, EditTyped, Ed!Channels
<1>6. post'[c] \in [Ed!Channels -> PostRecord]
  BY <1>1, <1>2, <1>5, PostUpdate, PageFacts DEF Ed!Channels
<1>7. /\ post'[c]["flow"] = [at |-> "sent", text |-> page[c].doc.text, base |-> page[c].hash]
      /\ post'[c]["autosave"] = post[c]["autosave"]
  BY <1>5, PageFacts DEF Ed!Channels
<1>8. /\ flow' = [flow EXCEPT ![c] = flow'[c]] /\ flow'[c] = "documentSave" /\ flow'[c] \in Ed!Flows
  BY <1>1, PageFacts DEF Ed!SaveDocument, EditInv, EditTyped, Ed!Flows
<1>9. UNCHANGED <<fetch, server, dropped, edits, typed, faults>>
  BY DEF Ed!SaveDocument
<1>10. PageKept(page'[c], flow'[c], post'[c], fetch'[c], server', dropped')
  <2>1. NewPage(page'[c], flow'[c], post'[c], fetch'[c])
    BY <1>1, <1>2, <1>3, <1>9, <1>5, <1>6, <1>7, <1>8, PageFacts DEF NewPage
  <2>2. TextsKept(page'[c], flow'[c], server', dropped')
    BY <1>1, <1>2, <1>3, <1>9, <1>5, <1>6, <1>7, <1>8, PageFacts DEF TextsKept, Within
  <2>3. FlowKept(page'[c], flow'[c], post'[c], dropped')
    BY <1>1, <1>2, <1>3, <1>9, <1>5, <1>6, <1>7, <1>8, PageFacts DEF FlowKept, Within,
       Ed!Channels, Saving
  <2>4. PostsKept(page'[c], flow'[c], post'[c], server', dropped')
    BY <1>1, <1>2, <1>3, <1>9, <1>5, <1>6, <1>7, <1>8, PageFacts DEF PostsKept, Within,
       Ed!Channels, Saving
  <2>5. FetchKept(page'[c], fetch'[c], server', dropped')
    BY <1>1, <1>2, <1>3, <1>9, <1>5, <1>6, <1>7, <1>8, PageFacts DEF FetchKept, Within
  <2> QED BY <2>1, <2>2, <2>3, <2>4, <2>5 DEF PageKept
<1>11. Within(Ed!OnPage(page[c]), Ed!OnPage(page'[c]) \cup server', dropped')
  BY <1>1, <1>3, <1>9, <1>5, <1>6, <1>7, <1>8 DEF Within, Ed!OnPage
<1>12. /\ Within(server, server', dropped) /\ dropped \subseteq dropped'
  BY <1>9, <1>5, <1>6, <1>7, <1>8 DEF Within
<1> QED BY <1>3, <1>4, <1>5, <1>6, <1>7, <1>8, <1>9, <1>10, <1>11, <1>12, PageFacts, OnePage

LEMMA AppendReadsKeeps ==
    ASSUME Quiet, EditInv, NEW c \in Pages, Ed!Free(c), Ed!AppendReads(c)
    PROVE  StepKeeps
<1>1. /\ page[c].ready /\ ~page[c].doc.open /\ ~page[c].unsaved /\ ~page[c].timer.on
      /\ flow[c] = "appendRead" /\ edits < MaxTyped /\ server # NoHash /\ fetch[c].at = "none"
  <2>1. fetch[c].at = "none" /\ flow[c] = "appendRead" /\ edits < MaxTyped
    BY FreeFacts DEF Ed!AppendReads
  <2>2. page[c].ready /\ ~page[c].unsaved
    BY <2>1, PageFacts DEF NewPage, FlowKept
  <2>3. ~page[c].doc.open /\ ~page[c].timer.on /\ server # NoHash
    BY <2>1, PageFacts DEF TextsKept
  <2> QED BY <2>1, <2>2, <2>3
<1>2. /\ server \in Ed!Hashes /\ server \cup {edits + 1} \in Ed!Texts /\ edits + 1 \in 0 .. MaxTyped
  BY <1>1, PageFacts, PageTypes, TextFacts, KnownFacts DEF PageRecord, FetchRecord, PostRecord
<1>3. page' = page
  BY <1>1 DEF Ed!AppendReads
<1>4. page'[c] \in PageRecord
  BY <1>3, PageTypes
<1>5. [at |-> "sent", text |-> server \cup {edits + 1}, base |-> server] \in PostRecord
  BY <1>2, <1>1 DEF PostRecord
<1>6. /\ post' = [post EXCEPT ![c] = post'[c]]
      /\ post'[c] = [post[c] EXCEPT !["flow"] = [at |-> "sent", text |-> server \cup {edits + 1},
          base |-> server]]
  BY <1>1, PageFacts DEF Ed!AppendReads, Ed!Sends, Ed!NewEdit, EditInv, EditTyped, Ed!Channels
<1>7. post'[c] \in [Ed!Channels -> PostRecord]
  BY <1>1, <1>5, <1>6, PostUpdate, PageFacts DEF Ed!Channels
<1>8. /\ post'[c]["flow"] = [at |-> "sent", text |-> server \cup {edits + 1}, base |-> server]
      /\ post'[c]["autosave"] = post[c]["autosave"]
  BY <1>6, PageFacts DEF Ed!Channels
<1>9. /\ flow' = [flow EXCEPT ![c] = flow'[c]] /\ flow'[c] = "appendSave" /\ flow'[c] \in Ed!Flows
  BY <1>1, PageFacts DEF Ed!AppendReads, EditInv, EditTyped, Ed!Flows
<1>10. edits' \in 0 .. MaxTyped
  BY <1>2, <1>1 DEF Ed!AppendReads, Ed!NewEdit
<1>11. UNCHANGED <<fetch, server, dropped, typed, faults>>
  BY DEF Ed!AppendReads
<1>12. PageKept(page'[c], flow'[c], post'[c], fetch'[c], server', dropped')
  <2>1. NewPage(page'[c], flow'[c], post'[c], fetch'[c])
    BY <1>1, <1>2, <1>3, <1>11, <1>5, <1>6, <1>7, <1>8, <1>9, <1>10, PageFacts DEF NewPage
  <2>2. TextsKept(page'[c], flow'[c], server', dropped')
    BY <1>1, <1>2, <1>3, <1>11, <1>5, <1>6, <1>7, <1>8, <1>9, <1>10, PageFacts DEF TextsKept,
       Within
  <2>3. FlowKept(page'[c], flow'[c], post'[c], dropped')
    BY <1>1, <1>2, <1>3, <1>11, <1>5, <1>6, <1>7, <1>8, <1>9, <1>10, PageFacts DEF FlowKept,
       Within, Ed!Channels, Saving
  <2>4. PostsKept(page'[c], flow'[c], post'[c], server', dropped')
    BY <1>1, <1>2, <1>3, <1>11, <1>5, <1>6, <1>7, <1>8, <1>9, <1>10, PageFacts DEF NewPage,
       PostsKept, Within, Ed!Channels, Saving
  <2>5. FetchKept(page'[c], fetch'[c], server', dropped')
    BY <1>1, <1>2, <1>3, <1>11, <1>5, <1>6, <1>7, <1>8, <1>9, <1>10, PageFacts DEF FetchKept,
       Within
  <2> QED BY <2>1, <2>2, <2>3, <2>4, <2>5 DEF PageKept
<1>13. Within(Ed!OnPage(page[c]), Ed!OnPage(page'[c]) \cup server', dropped')
  BY <1>1, <1>3, <1>11, <1>5, <1>6, <1>7, <1>8, <1>9, <1>10 DEF Within, Ed!OnPage
<1>14. /\ Within(server, server', dropped) /\ dropped \subseteq dropped'
  BY <1>11, <1>5, <1>6, <1>7, <1>8, <1>9, <1>10 DEF Within
<1> QED BY <1>3, <1>4, <1>5, <1>6, <1>7, <1>8, <1>9, <1>10, <1>11, <1>12, <1>13, <1>14, PageFacts,
   OnePage

LEMMA DocumentSavedKeeps ==
    ASSUME Quiet, EditInv, NEW c \in Pages, Ed!Free(c), Ed!FlowSaved(c), post[c]["flow"].at =
               "saved", flow[c] = "documentSave"
    PROVE  StepKeeps
<1>1. /\ page[c].ready /\ post[c]["flow"].at = "saved" /\ post[c]["flow"].text \in Ed!Texts
      /\ post[c]["flow"].text # NoHash /\ Within(post[c]["flow"].text, server, dropped)
      /\ ~page[c].timer.on /\ flow[c] = "documentSave" /\ ~page[c].unsaved
      /\ page[c].editing = "document" /\ page[c].doc.text = post[c]["flow"].text
      /\ Within(page[c].content, page[c].doc.text, dropped) /\ Within(page[c].content, server, dropped)
      /\ Within(page[c].auto, server, dropped) /\ fetch[c].at = "none"
  BY FreeFacts, PageFacts, EditConstants DEF Ed!FlowSaved, TextsKept, NewPage, PostsKept,
     PostRecord, Ed!Channels, FlowKept, TextsKept, Saving
<1>2. /\ post[c]["flow"].text \in Ed!Hashes /\ ~Ed!NoDoc.open
  BY <1>1, PageFacts, PageTypes, TextFacts, KnownFacts, NothingTypes DEF PageRecord, FetchRecord,
     PostRecord
<1>3. /\ page' = [page EXCEPT ![c] = page'[c]]
      /\ page'[c] = [page[c] EXCEPT !.hash = post[c]["flow"].text, !.content =
          post[c]["flow"].text, !.auto = post[c]["flow"].text,
                        !.unsaved = FALSE, !.doc = Ed!NoDoc, !.editing = "no"]
  <2> DEFINE words == post[c]["flow"].text
             shown == Ed!Shows(Ed!Saved(page[c], words), words)
  <2>1. page' = [page EXCEPT ![c] = Ed!Closed(shown)]
    BY <1>1 DEF Ed!FlowSaved, Ed!AfterAnswer
  <2>2. page'[c] = Ed!Closed(shown)
    BY <2>1, PageTypes DEF EditInv, EditTyped
  <2>3. shown.editing = "document"
    BY <1>1, PageTypes DEF Ed!Shows, Ed!Saved, PageRecord
  <2>4. Ed!Closed(shown) = [shown EXCEPT !.doc = Ed!NoDoc, !.editing = "no"]
    BY <2>3 DEF Ed!Closed
  <2>5. shown = [page[c] EXCEPT !.hash = words, !.content = words, !.auto = words, !.unsaved = FALSE]
    BY PageTypes DEF Ed!Shows, Ed!Saved, PageRecord
  <2> HIDE DEF shown
  <2> QED BY <2>1, <2>2, <2>4, <2>5
<1>4. /\ page'[c].ready = page[c].ready /\ page'[c].content = post[c]["flow"].text
      /\ page'[c].auto = post[c]["flow"].text /\ page'[c].unsaved = FALSE /\ page'[c].editing = "no"
      /\ page'[c].hash = post[c]["flow"].text /\ page'[c].timer = page[c].timer
      /\ page'[c].doc = Ed!NoDoc
  BY <1>3, PageTypes DEF PageRecord
<1>5. page'[c] \in PageRecord
  <2> DEFINE words == post[c]["flow"].text
  <2>1. words \in Ed!Texts /\ words \in Ed!Hashes
    BY <1>2, <1>1
  <2>2. page'[c] = [page[c] EXCEPT !.hash = words, !.content = words, !.auto = words,
                          !.unsaved = FALSE, !.doc = Ed!NoDoc, !.editing = "no"]
    BY <1>3
  <2> HIDE DEF words
  <2> QED BY <2>1, <2>2, PageTypes, NothingTypes DEF PageRecord
<1>6. /\ post' = [post EXCEPT ![c] = post'[c]] /\ post'[c] = [post[c] EXCEPT !["flow"] = Ed!NoPost]
  BY <1>1, PageFacts, NothingTypes DEF Ed!FlowSaved, Ed!Answered, EditInv, EditTyped, Ed!Channels
<1>7. post'[c] \in [Ed!Channels -> PostRecord]
  BY <1>1, <1>2, <1>6, PostUpdate, PageFacts, NothingTypes DEF Ed!Channels
<1>8. /\ post'[c]["flow"].at = "none" /\ post'[c]["autosave"] = post[c]["autosave"]
  BY <1>6, NothingTypes, PageFacts DEF Ed!Channels
<1>9. fetch' = fetch
  BY <1>1 DEF Ed!FlowSaved, Ed!Answered
<1>10. /\ flow' = [flow EXCEPT ![c] = flow'[c]] /\ flow'[c] = "idle" /\ flow'[c] \in Ed!Flows
  BY <1>1, PageFacts DEF Ed!FlowSaved, EditInv, EditTyped, Ed!Flows
<1>11. UNCHANGED <<server, dropped, edits, typed, faults>>
  BY DEF Ed!FlowSaved
<1>12. PageKept(page'[c], flow'[c], post'[c], fetch'[c], server', dropped')
  <2>1. NewPage(page'[c], flow'[c], post'[c], fetch'[c])
    BY <1>1, <1>2, <1>4, <1>11, <1>6, <1>7, <1>8, <1>9, <1>10, PageFacts DEF NewPage
  <2>2. TextsKept(page'[c], flow'[c], server', dropped')
    BY <1>1, <1>2, <1>4, <1>11, <1>6, <1>7, <1>8, <1>9, <1>10, PageFacts DEF TextsKept, Within
  <2>3. FlowKept(page'[c], flow'[c], post'[c], dropped')
    BY <1>1, <1>2, <1>4, <1>11, <1>6, <1>7, <1>8, <1>9, <1>10, PageFacts DEF FlowKept, Within,
       Ed!Channels, Saving
  <2>4. PostsKept(page'[c], flow'[c], post'[c], server', dropped')
    BY <1>1, <1>2, <1>4, <1>11, <1>6, <1>7, <1>8, <1>9, <1>10, PageFacts DEF NewPage, PostsKept,
       Within, Ed!Channels, Saving
  <2>5. FetchKept(page'[c], fetch'[c], server', dropped')
    BY <1>1, <1>2, <1>4, <1>11, <1>6, <1>7, <1>8, <1>9, <1>10, PageFacts DEF FetchKept, Within
  <2> QED BY <2>1, <2>2, <2>3, <2>4, <2>5 DEF PageKept
<1>13. Within(Ed!OnPage(page[c]), Ed!OnPage(page'[c]) \cup server', dropped')
  BY <1>1, <1>4, <1>11, <1>6, <1>7, <1>8, <1>9, <1>10 DEF Within, Ed!OnPage
<1>14. /\ Within(server, server', dropped) /\ dropped \subseteq dropped'
  BY <1>11, <1>6, <1>7, <1>8, <1>9, <1>10 DEF Within
<1> QED BY <1>3, <1>5, <1>6, <1>7, <1>8, <1>9, <1>10, <1>11, <1>12, <1>13, <1>14, PageFacts, OnePage

LEMMA AppendSavedKeeps ==
    ASSUME Quiet, EditInv, NEW c \in Pages, Ed!Free(c), Ed!FlowSaved(c), post[c]["flow"].at =
               "saved", flow[c] = "appendSave"
    PROVE  StepKeeps
<1>1. /\ page[c].ready /\ post[c]["flow"].at = "saved" /\ post[c]["flow"].text \in Ed!Texts
      /\ post[c]["flow"].text # NoHash /\ Within(post[c]["flow"].text, server, dropped)
      /\ ~page[c].timer.on /\ flow[c] = "appendSave" /\ ~page[c].unsaved /\ ~page[c].doc.open
      /\ Within(page[c].content, server, dropped) /\ Within(page[c].auto, server, dropped)
      /\ fetch[c].at = "none"
  BY FreeFacts, PageFacts, EditConstants DEF Ed!FlowSaved, TextsKept, NewPage, PostsKept,
     PostRecord, Ed!Channels, FlowKept, TextsKept, Saving
<1>2. post[c]["flow"].text \in Ed!Hashes
  BY <1>1, PageFacts, PageTypes, TextFacts, KnownFacts, NothingTypes DEF PageRecord, FetchRecord,
     PostRecord
<1>3. /\ page' = [page EXCEPT ![c] = page'[c]]
      /\ page'[c] = [page[c] EXCEPT !.hash = post[c]["flow"].text, !.content =
          post[c]["flow"].text, !.auto = post[c]["flow"].text,
                        !.unsaved = FALSE]
  BY <1>1, PageTypes DEF Ed!FlowSaved, Ed!AfterAnswer, Ed!Saved, Ed!Shows, Ed!Closed, EditInv,
     EditTyped
<1>4. /\ page'[c].ready = page[c].ready /\ page'[c].content = post[c]["flow"].text
      /\ page'[c].auto = post[c]["flow"].text /\ page'[c].unsaved = FALSE
      /\ page'[c].editing = page[c].editing /\ page'[c].hash = post[c]["flow"].text
      /\ page'[c].timer = page[c].timer /\ page'[c].doc = page[c].doc
  BY <1>3, PageTypes DEF PageRecord
<1>5. page'[c] \in PageRecord
  <2> DEFINE words == post[c]["flow"].text
  <2>1. words \in Ed!Texts /\ words \in Ed!Hashes
    BY <1>2, <1>1
  <2>2. page'[c] = [page[c] EXCEPT !.hash = words, !.content = words, !.auto = words,
                          !.unsaved = FALSE]
    BY <1>3
  <2> HIDE DEF words
  <2> QED BY <2>1, <2>2, PageTypes, NothingTypes DEF PageRecord
<1>6. /\ post' = [post EXCEPT ![c] = post'[c]] /\ post'[c] = [post[c] EXCEPT !["flow"] = Ed!NoPost]
  BY <1>1, PageFacts, NothingTypes DEF Ed!FlowSaved, Ed!Answered, EditInv, EditTyped, Ed!Channels
<1>7. post'[c] \in [Ed!Channels -> PostRecord]
  BY <1>1, <1>2, <1>6, PostUpdate, PageFacts, NothingTypes DEF Ed!Channels
<1>8. /\ post'[c]["flow"].at = "none" /\ post'[c]["autosave"] = post[c]["autosave"]
  BY <1>6, NothingTypes, PageFacts DEF Ed!Channels
<1>9. fetch' = fetch
  BY <1>1 DEF Ed!FlowSaved, Ed!Answered
<1>10. /\ flow' = [flow EXCEPT ![c] = flow'[c]] /\ flow'[c] = "idle" /\ flow'[c] \in Ed!Flows
  BY <1>1, PageFacts DEF Ed!FlowSaved, EditInv, EditTyped, Ed!Flows
<1>11. UNCHANGED <<server, dropped, edits, typed, faults>>
  BY DEF Ed!FlowSaved
<1>12. PageKept(page'[c], flow'[c], post'[c], fetch'[c], server', dropped')
  <2>1. NewPage(page'[c], flow'[c], post'[c], fetch'[c])
    BY <1>1, <1>2, <1>4, <1>11, <1>6, <1>7, <1>8, <1>9, <1>10, PageFacts DEF NewPage
  <2>2. TextsKept(page'[c], flow'[c], server', dropped')
    BY <1>1, <1>2, <1>4, <1>11, <1>6, <1>7, <1>8, <1>9, <1>10, PageFacts DEF TextsKept, Within
  <2>3. FlowKept(page'[c], flow'[c], post'[c], dropped')
    BY <1>1, <1>2, <1>4, <1>11, <1>6, <1>7, <1>8, <1>9, <1>10, PageFacts DEF FlowKept, Within,
       Ed!Channels, Saving
  <2>4. PostsKept(page'[c], flow'[c], post'[c], server', dropped')
    BY <1>1, <1>2, <1>4, <1>11, <1>6, <1>7, <1>8, <1>9, <1>10, PageFacts DEF PostsKept, Within,
       Ed!Channels, Saving
  <2>5. FetchKept(page'[c], fetch'[c], server', dropped')
    BY <1>1, <1>2, <1>4, <1>11, <1>6, <1>7, <1>8, <1>9, <1>10, PageFacts DEF FetchKept, Within
  <2> QED BY <2>1, <2>2, <2>3, <2>4, <2>5 DEF PageKept
<1>13. Within(Ed!OnPage(page[c]), Ed!OnPage(page'[c]) \cup server', dropped')
  BY <1>1, <1>4, <1>11, <1>6, <1>7, <1>8, <1>9, <1>10 DEF Within, Ed!OnPage
<1>14. /\ Within(server, server', dropped) /\ dropped \subseteq dropped'
  BY <1>11, <1>6, <1>7, <1>8, <1>9, <1>10 DEF Within
<1> QED BY <1>3, <1>5, <1>6, <1>7, <1>8, <1>9, <1>10, <1>11, <1>12, <1>13, <1>14, PageFacts, OnePage

LEMMA FlowRefusedKeeps ==
    ASSUME Quiet, EditInv, NEW c \in Pages, Ed!Free(c), Ed!FlowSaved(c), post[c]["flow"].at = "refused"
    PROVE  StepKeeps
<1>1. /\ page[c].ready /\ post[c]["flow"].at = "refused" /\ ~page[c].timer.on /\ fetch[c].at = "none"
  BY FreeFacts, PageFacts, EditConstants DEF Ed!FlowSaved, TextsKept, NewPage, PostsKept,
     PostRecord, Ed!Channels, FlowKept, Saving
<1>2. /\ page' = [page EXCEPT ![c] = page'[c]] /\ page'[c] = [page[c] EXCEPT !.conflict = TRUE]
  BY <1>1, PageTypes DEF Ed!FlowSaved, Ed!AfterAnswer, Ed!Saved, EditInv, EditTyped
<1>3. /\ page'[c].ready = page[c].ready /\ page'[c].content = page[c].content
      /\ page'[c].auto = page[c].auto /\ page'[c].unsaved = page[c].unsaved
      /\ page'[c].editing = page[c].editing /\ page'[c].hash = page[c].hash
      /\ page'[c].timer = page[c].timer /\ page'[c].doc = page[c].doc
  BY <1>2, PageTypes DEF PageRecord
<1>4. page'[c] \in PageRecord
  BY <1>2, PageTypes DEF PageRecord
<1>5. /\ post' = [post EXCEPT ![c] = post'[c]] /\ post'[c] = [post[c] EXCEPT !["flow"] = Ed!NoPost]
  BY <1>1, PageFacts, NothingTypes DEF Ed!FlowSaved, Ed!Answered, EditInv, EditTyped, Ed!Channels
<1>6. post'[c] \in [Ed!Channels -> PostRecord]
  BY <1>1, <1>5, PostUpdate, PageFacts, NothingTypes DEF Ed!Channels
<1>7. /\ post'[c]["flow"].at = "none" /\ post'[c]["autosave"] = post[c]["autosave"]
  BY <1>5, NothingTypes, PageFacts DEF Ed!Channels
<1>8. /\ fetch' = [fetch EXCEPT ![c] = fetch'[c]]
      /\ fetch'[c] = [at |-> "read", text |-> server, forced |-> FALSE]
  BY <1>1, PageFacts DEF Ed!FlowSaved, Ed!Answered, Ed!Reads, EditInv, EditTyped
<1>9. fetch'[c] \in FetchRecord
  BY PageFacts, <1>8 DEF FetchRecord
<1>10. /\ flow' = [flow EXCEPT ![c] = flow'[c]] /\ flow'[c] = "idle" /\ flow'[c] \in Ed!Flows
  BY <1>1, PageFacts DEF Ed!FlowSaved, EditInv, EditTyped, Ed!Flows
<1>11. UNCHANGED <<server, dropped, edits, typed, faults>>
  BY DEF Ed!FlowSaved
<1>12. PageKept(page'[c], flow'[c], post'[c], fetch'[c], server', dropped')
  <2>1. NewPage(page'[c], flow'[c], post'[c], fetch'[c])
    BY <1>1, <1>3, <1>11, <1>5, <1>6, <1>7, <1>8, <1>9, <1>10, PageFacts DEF NewPage
  <2>2. TextsKept(page'[c], flow'[c], server', dropped')
    BY <1>1, <1>3, <1>11, <1>5, <1>6, <1>7, <1>8, <1>9, <1>10, PageFacts DEF TextsKept, Within
  <2>3. FlowKept(page'[c], flow'[c], post'[c], dropped')
    BY <1>1, <1>3, <1>11, <1>5, <1>6, <1>7, <1>8, <1>9, <1>10, PageFacts DEF FlowKept, Within,
       Ed!Channels, Saving
  <2>4. PostsKept(page'[c], flow'[c], post'[c], server', dropped')
    BY <1>1, <1>3, <1>11, <1>5, <1>6, <1>7, <1>8, <1>9, <1>10, PageFacts DEF PostsKept, Within,
       Ed!Channels, Saving
  <2>5. FetchKept(page'[c], fetch'[c], server', dropped')
    BY <1>1, <1>3, <1>11, <1>5, <1>6, <1>7, <1>8, <1>9, <1>10, PageFacts DEF TextsKept, FetchKept,
       Within
  <2> QED BY <2>1, <2>2, <2>3, <2>4, <2>5 DEF PageKept
<1>13. Within(Ed!OnPage(page[c]), Ed!OnPage(page'[c]) \cup server', dropped')
  BY <1>1, <1>3, <1>11, <1>5, <1>6, <1>7, <1>8, <1>9, <1>10 DEF Within, Ed!OnPage
<1>14. /\ Within(server, server', dropped) /\ dropped \subseteq dropped'
  BY <1>11, <1>5, <1>6, <1>7, <1>8, <1>9, <1>10 DEF Within
<1> QED BY <1>2, <1>4, <1>5, <1>6, <1>7, <1>8, <1>9, <1>10, <1>11, <1>12, <1>13, <1>14, PageFacts,
   OnePage

LEMMA FlowSavedKeeps ==
    ASSUME Quiet, EditInv, NEW c \in Pages, Ed!Free(c), Ed!FlowSaved(c)
    PROVE  StepKeeps
<1>1. post[c]["flow"].at \in {"saved", "refused"} /\ flow[c] \in {"documentSave", "appendSave"}
  BY DEF Ed!FlowSaved, Ed!Answered
<1> QED BY <1>1, DocumentSavedKeeps, AppendSavedKeeps, FlowRefusedKeeps

LEMMA PagesKeep ==
    ASSUME Quiet, EditInv, [Ed!Next]_Ed!vars
    PROVE  StepKeeps
<1>1. CASE UNCHANGED Ed!vars
  <2>1. UNCHANGED <<server, edits, typed, dropped, page, flow, post, fetch, faults>>
    BY <1>1 DEF Ed!vars
  <2>2. EditTyped'
    BY <2>1 DEF EditInv, EditTyped
  <2>3. \A c \in Pages : PageKept(page'[c], flow'[c], post'[c], fetch'[c], server', dropped')
    BY <2>1 DEF EditInv
  <2> QED BY <2>1, <2>2, <2>3 DEF StepKeeps, EditInv, Within
<1>2. CASE Ed!Next
  <2> PICK c \in Pages :
        \/ Ed!Poll(c) \/ Ed!RefreshToLatest(c) \/ Ed!RefreshArrives(c) \/ Ed!Replace(c)
        \/ /\ Ed!Free(c)
           /\ \/ Ed!Load(c) \/ Ed!LoadFails(c) \/ Ed!LifecycleLoaded(c)
              \/ Ed!Focus(c) \/ Ed!Leave(c) \/ Ed!Edit(c)
              \/ Ed!TimerFires(c) \/ Ed!AutosaveAnswered(c) \/ Ed!KeepLocal(c)
              \/ Ed!OpenDocument(c) \/ Ed!AppendParagraph(c) \/ Ed!Flushed(c) \/ Ed!DocumentOpens(c)
              \/ Ed!EditDocument(c) \/ Ed!CancelDocument(c) \/ Ed!SaveDocument(c) \/ Ed!FlowSaved(c)
              \/ Ed!AppendReads(c)
              \/ \E k \in Ed!Channels : Ed!Arrives(c, k) \/ Ed!Fails(c, k)
    BY <1>2 DEF Ed!Next
  <2>1. CASE Ed!Poll(c) \/ Ed!RefreshToLatest(c) \/ Ed!RefreshArrives(c) \/ Ed!Replace(c)
    BY <2>1, PollKeeps, RefreshToLatestKeeps, RefreshArrivesKeeps, ReplaceKeeps
  <2>2. ~Ed!LoadFails(c)
    BY DEF Quiet, Ed!LoadFails
  <2>3. ~Ed!LifecycleLoaded(c)
    BY KnownFacts DEF Ed!LifecycleLoaded
  <2>4. CASE Ed!Free(c) /\ (Ed!Load(c) \/ Ed!Focus(c) \/ Ed!Leave(c) \/ Ed!Edit(c) \/ Ed!TimerFires(c)
                            \/ Ed!AutosaveAnswered(c) \/ Ed!KeepLocal(c))
    BY <2>4, LoadKeeps, FocusKeeps, LeaveKeeps, EditParagraphKeeps, TimerFiresKeeps,
       AutosaveAnsweredKeeps, KeepLocalKeeps
  <2>5. CASE Ed!Free(c) /\ (Ed!OpenDocument(c) \/ Ed!AppendParagraph(c))
    BY <2>5, FlushKeeps DEF Ed!OpenDocument, Ed!AppendParagraph
  <2>6. CASE Ed!Free(c) /\ (Ed!Flushed(c) \/ Ed!DocumentOpens(c) \/ Ed!EditDocument(c) \/
            Ed!CancelDocument(c)
                            \/ Ed!SaveDocument(c) \/ Ed!FlowSaved(c) \/ Ed!AppendReads(c))
    BY <2>6, FlushedKeeps, DocumentOpensKeeps, EditDocumentKeeps, CancelDocumentKeeps,
       SaveDocumentKeeps,
       FlowSavedKeeps, AppendReadsKeeps
  <2>7. ASSUME Ed!Free(c), NEW k \in Ed!Channels, Ed!Arrives(c, k) \/ Ed!Fails(c, k)
        PROVE  StepKeeps
    <3>1. k = "autosave" \/ k = "flow"
      BY DEF Ed!Channels
    <3> QED BY <2>7, <3>1, ArrivesKeeps, AutosaveFailsKeeps, FlowFailsKeeps
  <2> QED BY <2>1, <2>2, <2>3, <2>4, <2>5, <2>6, <2>7
<1> QED BY <1>1, <1>2

LEMMA EditingIsInvariant ==
    ASSUME Quiet
    PROVE  Ed!Spec => []EditInv
<1>1. Ed!Init => EditInv
  BY EditInit
<1>2. EditInv /\ [Ed!Next]_Ed!vars => EditInv'
  BY PagesKeep DEF StepKeeps
<1> QED BY <1>1, <1>2, PTL DEF Ed!Spec

\* The state of the pages, of their requests and of the draft has its type.
THEOREM EditingTyped ==
    ASSUME Quiet
    PROVE  Ed!Spec => []Ed!TypeOK
<1>1. EditInv => Ed!TypeOK
  BY DEF EditInv, EditTyped, PageRecord, PostRecord, FetchRecord, Ed!TypeOK
<1> QED BY <1>1, EditingIsInvariant, PTL

\* What is in the draft stays in it, unless its own user agreed to lose it: no page overwrites
\* what it has not read, whatever requests of however many pages are under way or lost
\* (POST /drafts/:postId/content).
THEOREM SavedTextStays ==
    ASSUME Quiet
    PROVE  Ed!Spec => [][server \subseteq server' \cup dropped]_Ed!vars
<1>1. EditInv /\ [Ed!Next]_Ed!vars => [server \subseteq server' \cup dropped]_Ed!vars
  BY PagesKeep DEF StepKeeps, Within
<1> QED BY <1>1, EditingIsInvariant, PTL DEF Ed!Spec

\* What was typed on a page goes from it only when it is saved, or its user agreed to lose it
\* (the autosave timer, the clicks that save first and the refreshes of CrucibleTab.tsx).
THEOREM TypedTextIsKept ==
    ASSUME Quiet
    PROVE  Ed!Spec => WorkIsKept
<1> DEFINE Held == \A c \in DOMAIN typed : \A e \in typed[c] :
                      (e \in Ed!OnPage(page[c]) /\ e \notin Ed!OnPage(page'[c])) => e \in
                          server' \cup dropped'
<1>1. EditInv /\ [Ed!Next]_Ed!vars => Held
  <2> SUFFICES ASSUME EditInv, [Ed!Next]_Ed!vars PROVE Held
    OBVIOUS
  <2>1. DOMAIN typed = Pages
    BY DEF EditInv, EditTyped
  <2>2. \A c \in Pages : Within(Ed!OnPage(page[c]), Ed!OnPage(page'[c]) \cup server', dropped')
    BY PagesKeep DEF StepKeeps
  <2> QED BY <2>1, <2>2 DEF Within
<1>2. EditInv /\ [Ed!Next]_Ed!vars => [Held]_Ed!vars
  BY <1>1
<1> HIDE DEF Held
<1>3. Ed!Spec => [][Held]_Ed!vars
  BY <1>2, EditingIsInvariant, PTL DEF Ed!Spec
<1> QED BY <1>3 DEF WorkIsKept, Ed!WorkIsKept, Held
=============================================================================
