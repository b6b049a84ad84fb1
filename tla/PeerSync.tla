------------------------------ MODULE PeerSync ------------------------------
(***************************************************************************)
(* Deployments that pull each other's discussion stream                    *)
(* (services/query-api/src/services/offchainPeerSync.ts): a deployment     *)
(* asks a peer for what is newer than its cursor, imports the batch under  *)
(* lamports of its own and moves the cursor, all in one transaction.       *)
(*                                                                         *)
(* A lamport is taken inside the transaction that writes the message: it   *)
(* is not visible before the commit, and commits come in any order.        *)
(***************************************************************************)
EXTENDS Naturals, Sequences, FiniteSets, SequencesExt, FiniteSetsExt

CONSTANTS
    Deployments,
    Envelopes,      \* the messages; each is posted at one deployment
    Targets,        \* pairs <<d, p>>: d pulls from its peer p
    Processes,      \* processes of a deployment that may sync at the same time
    PullLimit,      \* OFFCHAIN_DISCUSSION_PULL_LIMIT
    MaxBatches,     \* OFFCHAIN_DISCUSSION_MAX_BATCHES_PER_TICK
    MaxDeletes,     \* bound: messages deleted
    MaxFailures     \* bound: syncs that fail

ASSUME PeerAssumption ==
    /\ Targets \subseteq Deployments \X Deployments
    /\ {PullLimit, MaxBatches} \subseteq Nat \ {0}
    /\ {MaxDeletes, MaxFailures} \subseteq Nat

VARIABLES
    seq,        \* discussion_lamport_seq of each deployment
    open,       \* lamports taken by transactions that are still open
    rows,       \* circle_discussion_messages of each deployment
    mark,       \* offchain_sync_watermarks: last_lamport
    cursor,     \* offchain_peer_sync_state: last_remote_lamport
    sync,       \* what a process is doing for a target
    overtaken,  \* messages of a deployment a larger lamport committed before
    faults

vars == <<seq, open, rows, mark, cursor, sync, overtaken, faults>>

Absent == [lamport |-> 0, deleted |-> FALSE]

Resting == [stage |-> "rest", cursor |-> 0, batch |-> <<>>, rounds |-> 0, new |-> {}]

Holds(d) == {e \in Envelopes : rows[d][e].lamport > 0}

Opened(d) == {e \in Envelopes : open[d][e] > 0}

Init ==
    /\ seq = [d \in Deployments |-> 0]
    /\ open = [d \in Deployments |-> [e \in Envelopes |-> 0]]
    /\ rows = [d \in Deployments |-> [e \in Envelopes |-> Absent]]
    /\ mark = [d \in Deployments |-> 0]
    /\ cursor = [t \in Targets |-> 0]
    /\ sync = [t \in Targets |-> [q \in Processes |-> Resting]]
    /\ overtaken = [d \in Deployments |-> {}]
    /\ faults = [deletes |-> 0, failures |-> 0]

Larger(a, b) == IF a > b THEN a ELSE b

(* updateOffchainWatermark *)
Marked(d, lamport) == mark' = [mark EXCEPT ![d] = Larger(@, lamport)]

(* A commit passes what took a smaller lamport and is still open. *)
Passes(d, lamport, mine) ==
    overtaken' = [overtaken EXCEPT ![d] = @ \union {e \in Opened(d) \ mine : open[d][e] < lamport}]

-----------------------------------------------------------------------------
(* A post: the insert takes the lamport, the commit makes it visible. *)
BeginPost(d, e) ==
    /\ \A p \in Deployments : e \notin Holds(p) \union Opened(p)
    /\ seq' = [seq EXCEPT ![d] = @ + 1]
    /\ open' = [open EXCEPT ![d][e] = seq'[d]]
    /\ UNCHANGED <<rows, mark, cursor, sync, overtaken, faults>>

(* What transactions of a sync are writing. *)
Importing(d) == {e \in Envelopes : \E t \in Targets, q \in Processes : t[1] = d /\ e \in sync[t][q].new}

CommitPost(d, e) ==
    /\ e \in Opened(d) \ Importing(d)
    /\ rows' = [rows EXCEPT ![d][e] = [lamport |-> open[d][e], deleted |-> FALSE]]
    /\ open' = [open EXCEPT ![d][e] = 0]
    /\ Marked(d, open[d][e])
    /\ Passes(d, open[d][e], {e})
    /\ UNCHANGED <<seq, cursor, sync, faults>>

(* A deletion gives the message a new lamport; peers will be sent it again. *)
Tombstone(d, e) ==
    /\ e \in Holds(d)
    /\ ~rows[d][e].deleted
    /\ faults.deletes < MaxDeletes
    /\ seq' = [seq EXCEPT ![d] = @ + 1]
    /\ rows' = [rows EXCEPT ![d][e] = [lamport |-> seq'[d], deleted |-> TRUE]]
    /\ Marked(d, seq'[d])
    /\ Passes(d, seq'[d], {})
    /\ faults' = [faults EXCEPT !.deletes = @ + 1]
    /\ UNCHANGED <<open, cursor, sync>>

-----------------------------------------------------------------------------
(* syncSinglePeer: the cursor is read, then one batch after the other is fetched. *)
Start(t, q) ==
    /\ sync[t][q].stage = "rest"
    /\ sync' = [sync EXCEPT ![t][q] = [Resting EXCEPT !.stage = "fetch", !.cursor = cursor[t]]]
    /\ UNCHANGED <<seq, open, rows, mark, cursor, overtaken, faults>>

(* GREATEST(last_remote_lamport, ...) *)
Moved(t, lamport) == cursor' = [cursor EXCEPT ![t] = Larger(@, lamport)]

EnvsOf(batch) == {batch[i].env : i \in DOMAIN batch}

(* The rows of the peer newer than the cursor, oldest first, deleted ones too, up to a    *)
(* limit: lamports are given once, so that there is one such batch.                       *)
Exports(p, after, batch) ==
    LET found == {e \in Holds(p) : rows[p][e].lamport > after}
    IN  /\ \A i, j \in DOMAIN batch : i < j => batch[i].lamport < batch[j].lamport
        /\ \A i \in DOMAIN batch : /\ batch[i].env \in found
                                   /\ batch[i].lamport = rows[p][batch[i].env].lamport
        /\ \A e \in found \ EnvsOf(batch) :
               Len(batch) = PullLimit /\ rows[p][e].lamport > batch[PullLimit].lamport

Entries(p) == {[env |-> e, lamport |-> rows[p][e].lamport] : e \in Holds(p)}

Fetch(t, q) ==
    /\ sync[t][q].stage = "fetch"
    /\ \E batch \in SeqOf(Entries(t[2]), PullLimit) :
        /\ Exports(t[2], sync[t][q].cursor, batch)
        /\ IF batch = <<>>
           THEN /\ Moved(t, sync[t][q].cursor)
                /\ sync' = [sync EXCEPT ![t][q] = Resting]
           ELSE /\ sync' = [sync EXCEPT ![t][q] = [@ EXCEPT !.stage = "insert", !.batch = batch]]
                /\ UNCHANGED cursor
    /\ UNCHANGED <<seq, open, rows, mark, overtaken, faults>>

(* ingestPeerEnvelope: every insert takes a lamport, and what is there already stays as it *)
(* is, deleted or not (ON CONFLICT DO NOTHING).  An insert waits for another transaction   *)
(* that is writing the same message.                                                       *)
Insert(t, q) ==
    LET d == t[1]
        batch == sync[t][q].batch
        new == EnvsOf(batch) \ Holds(d)
        At(e) == CHOOSE i \in DOMAIN batch : batch[i].env = e
    IN /\ sync[t][q].stage = "insert"
       /\ new \intersect Opened(d) = {}
       /\ seq' = [seq EXCEPT ![d] = @ + Len(batch)]
       /\ open' = [open EXCEPT ![d] =
                      [e \in Envelopes |-> IF e \in new THEN seq[d] + At(e) ELSE @[e]]]
       /\ sync' = [sync EXCEPT ![t][q] = [@ EXCEPT !.stage = "commit", !.new = new]]
       /\ UNCHANGED <<rows, mark, cursor, overtaken, faults>>

(* The transaction ends with the watermark and the cursor.  The next batch follows unless *)
(* this one was short, the cursor stood still or the tick has had its batches.            *)
Commit(t, q) ==
    LET d == t[1]
        s == sync[t][q]
        last == Larger(s.cursor, Last(s.batch).lamport)
        own == {open[d][e] : e \in s.new}
        more == last > s.cursor /\ Len(s.batch) = PullLimit /\ s.rounds + 1 < MaxBatches
    IN /\ s.stage = "commit"
       /\ rows' = [rows EXCEPT ![d] =
                      [e \in Envelopes |->
                          IF e \in s.new THEN [lamport |-> open[d][e], deleted |-> FALSE] ELSE @[e]]]
       /\ open' = [open EXCEPT ![d] = [e \in Envelopes |-> IF e \in s.new THEN 0 ELSE @[e]]]
       /\ IF own = {} THEN UNCHANGED <<mark, overtaken>>
          ELSE Marked(d, Max(own)) /\ Passes(d, Max(own), s.new)
       /\ Moved(t, last)
       /\ sync' = [sync EXCEPT ![t][q] =
                      IF more THEN [Resting EXCEPT !.stage = "fetch", !.cursor = last,
                                                   !.rounds = s.rounds + 1]
                      ELSE Resting]
       /\ UNCHANGED <<seq, faults>>

(* Defect: the cursor moves past the batch that failed. *)
FailMovesOn(t, q) ==
    /\ sync[t][q].stage # "rest"
    /\ faults.failures < MaxFailures
    /\ open' = [open EXCEPT ![t[1]] =
                   [e \in Envelopes |-> IF e \in sync[t][q].new THEN 0 ELSE @[e]]]
    /\ IF sync[t][q].batch = <<>> THEN UNCHANGED cursor ELSE Moved(t, Last(sync[t][q].batch).lamport)
    /\ sync' = [sync EXCEPT ![t][q] = Resting]
    /\ faults' = [faults EXCEPT !.failures = @ + 1]
    /\ UNCHANGED <<seq, rows, mark, overtaken>>

(* runSync: the request or the transaction fails, or the process ends.  The lamports that *)
(* were taken are gone; the cursor that is written is the one that stands.                *)
Fail(t, q) ==
    /\ sync[t][q].stage # "rest"
    /\ faults.failures < MaxFailures
    /\ open' = [open EXCEPT ![t[1]] =
                   [e \in Envelopes |-> IF e \in sync[t][q].new THEN 0 ELSE @[e]]]
    /\ sync' = [sync EXCEPT ![t][q] = Resting]
    /\ faults' = [faults EXCEPT !.failures = @ + 1]
    /\ UNCHANGED <<seq, rows, mark, cursor, overtaken>>

Tick(t, q) == Start(t, q) \/ Fetch(t, q) \/ Insert(t, q) \/ Commit(t, q)

Next ==
    \/ \E d \in Deployments, e \in Envelopes : BeginPost(d, e) \/ CommitPost(d, e) \/ Tombstone(d, e)
    \/ \E t \in Targets, q \in Processes :
        Start(t, q) \/ Fetch(t, q) \/ Insert(t, q) \/ Commit(t, q) \/ Fail(t, q)

Spec == Init /\ [][Next]_vars

(* Transactions end and the interval fires. *)
FairSpec ==
    /\ Spec
    /\ \A d \in Deployments, e \in Envelopes : WF_vars(CommitPost(d, e))
    /\ \A t \in Targets, q \in Processes : WF_vars(Tick(t, q))

-----------------------------------------------------------------------------
Row == [lamport : Nat, deleted : BOOLEAN]

Entry == [env : Envelopes, lamport : Nat]

Syncing == [stage : {"rest", "fetch", "insert", "commit"}, cursor : Nat, batch : Seq(Entry),
            rounds : Nat, new : SUBSET Envelopes]

(* Every variable has its type; no two messages of a deployment share a lamport. *)
TypeOK ==
    /\ seq \in [Deployments -> Nat]
    /\ open \in [Deployments -> [Envelopes -> Nat]]
    /\ rows \in [Deployments -> [Envelopes -> Row]]
    /\ mark \in [Deployments -> Nat]
    /\ cursor \in [Targets -> Nat]
    /\ sync \in [Targets -> [Processes -> Syncing]]
    /\ overtaken \in [Deployments -> SUBSET Envelopes]
    /\ faults \in [deletes : 0 .. MaxDeletes, failures : 0 .. MaxFailures]
    /\ \A d \in Deployments :
        /\ \A e \in Envelopes : open[d][e] <= seq[d] /\ rows[d][e].lamport <= seq[d]
        /\ \A e, f \in Holds(d) : e # f => rows[d][e].lamport # rows[d][f].lamport
        /\ Holds(d) \intersect Opened(d) = {}
        /\ mark[d] <= seq[d]

(* What a peer has at or below the cursor has been imported, whatever failed and whoever *)
(* synced, except what a larger lamport overtook at the peer: the peer exports by        *)
(* lamport, and a message that commits late is below every cursor that has passed it.    *)
NothingElseSkipped ==
    \A t \in Targets : \A e \in Holds(t[2]) :
        rows[t[2]][e].lamport <= cursor[t] => e \in Holds(t[1]) \union overtaken[t[2]]

(* The watermark is never behind a message that can be read, so that a reader who is told *)
(* the watermark has nothing beyond it.                                                   *)
WatermarkCovers ==
    \A d \in Deployments : \A e \in Holds(d) : rows[d][e].lamport <= mark[d]

(* What a peer has at or below the cursor was imported, whatever failed and whoever synced, *)
(* but for what a larger lamport overtook; no reader's watermark is behind a message.      *)
NothingSkipped == TypeOK /\ NothingElseSkipped /\ WatermarkCovers

(* What a peer holds arrives, unless it was overtaken there. *)
Arrives ==
    \A t \in Targets, e \in Envelopes :
        e \in Holds(t[2]) ~> e \in Holds(t[1]) \union overtaken[t[2]]
=============================================================================
