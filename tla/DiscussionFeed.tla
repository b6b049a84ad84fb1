--------------------------- MODULE DiscussionFeed ---------------------------
(***************************************************************************)
(* How one reader's page follows the discussion of one circle: the table   *)
(* of messages (services/query-api/src/rest/discussion.ts), the hub, the   *)
(* replay and the connection (services/discussion/realtime), and the       *)
(* engine and list of the page (frontend/src/lib/discussion/realtime,      *)
(* lib/circle/plazaDiscussion.ts).                                         *)
(*                                                                         *)
(* Every write takes the next lamport before it commits.  What committed   *)
(* is announced in the order of commits; an announcement reaches the page  *)
(* when a connection is attached, and is lost when Redis is away.  A page  *)
(* that connects names the lamport of the last message of its list and is  *)
(* replayed what is newer; the list is in order of arrival.                *)
(***************************************************************************)
EXTENDS Naturals, Sequences, FiniteSets

CONSTANTS
    Envelopes,      \* the messages
    ReplayLimit,    \* DISCUSSION_REALTIME_REPLAY_LIMIT
    SyncLimit,      \* DISCUSSION_SYNC_LIMIT: catch-up and refresh
    MaxOpen,        \* bound: posts that are open at once
    MaxDeletes,     \* bound: messages deleted
    MaxLost,        \* bound: announcements lost while Redis is away
    MaxDrops,       \* bound: connections that break
    MaxFailures     \* bound: requests of the engine that fail

VARIABLES
    seq,        \* discussion_lamport_seq
    open,       \* posts not yet committed: the lamport of each
    rows,       \* circle_discussion_messages: lamport and deleted
    announce,   \* events still to be published, in order
    conn,       \* the connection, as the server sees it
    list,       \* localMessagesRef: the messages of the page
    engine,     \* what the engine has pending
    faults,     \* how often each fault happened
    skipped     \* messages the cursor of a page may pass, and why (see below)

vars == <<seq, open, rows, announce, conn, list, engine, faults, skipped>>

Absent == [lamport |-> 0, deleted |-> FALSE]

Committed == {e \in Envelopes : rows[e].lamport > 0}

Event(e, deleted, lamport) == [env |-> e, lamport |-> lamport, deleted |-> deleted]

EnvsOf(events) == {events[i].env : i \in DOMAIN events}

Listed == EnvsOf(list)

(* The cursor of the page is the lamport of the last message of its list, not the highest. *)
CursorOf(l) == IF l = <<>> THEN 0 ELSE l[Len(l)].lamport

Cursor == CursorOf(list)

(* A set of events in the order of their lamports; no two events have the same. *)
ByLamport(events) ==
    [i \in 1 .. Cardinality(events) |->
        CHOOSE v \in events : Cardinality({w \in events : w.lamport < v.lamport}) = i - 1]

RowOf(e) == Event(e, rows[e].deleted, rows[e].lamport)

(* Rows that one query returns: newer than a lamport, oldest first, up to a limit. *)
Newer(after, withDeleted, limit) ==
    LET found == ByLamport({RowOf(e) : e \in {f \in Committed :
                     rows[f].lamport > after /\ (withDeleted \/ ~rows[f].deleted)}})
    IN  [i \in {n \in DOMAIN found : n <= limit} |-> found[i]]

(* What a query over a limit leaves out. *)
CutOff(after, page, limit) ==
    IF Len(page) < limit THEN {}
    ELSE {e \in Committed : rows[e].lamport > after} \ EnvsOf(page)

-----------------------------------------------------------------------------
Idle == [pushed |-> <<>>, ids |-> {}, catchUp |-> FALSE, due |-> FALSE,
         replayExpected |-> FALSE, stage |-> "idle", lookup |-> {}]

Closed(mode) == [at |-> "closed", mode |-> mode, after |-> 0, replay |-> <<>>, buffer |-> <<>>]

Init ==
    /\ seq = 0
    /\ open = [e \in Envelopes |-> 0]
    /\ rows = [e \in Envelopes |-> Absent]
    /\ announce = <<>>
    /\ conn \in {Closed("ws"), Closed("sse")}
    /\ list = <<>>
    /\ engine = Idle
    /\ faults = [deletes |-> 0, lost |-> 0, drops |-> 0, failures |-> 0]
    /\ skipped = {}

Counted(f) == faults' = [faults EXCEPT ![f] = @ + 1]

Opened == {e \in Envelopes : open[e] > 0}

(* A commit may pass posts that took a smaller lamport and are still open. *)
Overtaken(lamport) == {e \in Opened : open[e] < lamport}

(* POST messages: the insert takes the lamport inside its transaction. *)
BeginPost(e) ==
    /\ e \notin Committed /\ open[e] = 0
    /\ Cardinality(Opened) < MaxOpen
    /\ seq' = seq + 1
    /\ open' = [open EXCEPT ![e] = seq']
    /\ UNCHANGED <<rows, announce, conn, list, engine, faults, skipped>>

CommitPost(e) ==
    /\ open[e] > 0
    /\ rows' = [rows EXCEPT ![e] = [lamport |-> open[e], deleted |-> FALSE]]
    /\ open' = [open EXCEPT ![e] = 0]
    /\ announce' = Append(announce, Event(e, FALSE, open[e]))
    /\ skipped' = skipped \union Overtaken(open[e])
    /\ UNCHANGED <<seq, conn, list, engine, faults>>

(* A deleted message gets a new lamport. *)
Tombstone(e) ==
    /\ e \in Committed /\ ~rows[e].deleted
    /\ faults.deletes < MaxDeletes
    /\ seq' = seq + 1
    /\ rows' = [rows EXCEPT ![e] = [lamport |-> seq', deleted |-> TRUE]]
    /\ announce' = Append(announce, Event(e, TRUE, seq'))
    /\ skipped' = skipped \union Overtaken(seq')
    /\ Counted("deletes")
    /\ UNCHANGED <<open, conn, list, engine>>

-----------------------------------------------------------------------------
(* handleRealtimeEvent: what is pushed waits for the flush.  (The page keeps events of new *)
(* messages and of changed ones in two arrays; here `deleted' tells them apart.)           *)
Pushed(eng, events) ==
    [eng EXCEPT !.pushed = @ \o events, !.due = @ \/ events # <<>>]

(* Defect: a sink that is still replaying drops live events. *)
PublishUnbuffered ==
    /\ announce # <<>>
    /\ announce' = Tail(announce)
    /\ engine' = IF conn.at = "live" THEN Pushed(engine, <<Head(announce)>>) ELSE engine
    /\ UNCHANGED <<seq, open, rows, conn, list, faults, skipped>>

(* A sink that is still replaying keeps live events; a live one sends them on. *)
Publish ==
    /\ announce # <<>>
    /\ announce' = Tail(announce)
    /\ CASE conn.at = "closed" -> UNCHANGED <<conn, engine>>
         [] conn.at \in {"attached", "read"} ->
               conn' = [conn EXCEPT !.buffer = Append(@, Head(announce))] /\ UNCHANGED engine
         [] conn.at = "live" ->
               engine' = Pushed(engine, <<Head(announce)>>) /\ UNCHANGED conn
    /\ UNCHANGED <<seq, open, rows, list, faults, skipped>>

(* The subscriber of the process is disconnected from Redis: the sinks are not told. *)
PublishLost ==
    /\ announce # <<>>
    /\ faults.lost < MaxLost
    /\ announce' = Tail(announce)
    /\ skipped' = skipped \union {Head(announce).env}
    /\ Counted("lost")
    /\ UNCHANGED <<seq, open, rows, conn, list, engine>>

CatchingUp(eng) == [eng EXCEPT !.replayExpected = FALSE, !.catchUp = TRUE, !.due = TRUE]

(* startWebSocket, handleOpen: the server will say how its replay went.  startSse: it will *)
(* not, so the page catches up; the stream of events keeps the address it was first given, *)
(* with the lamport of that time (here zero).                                              *)
Connect ==
    /\ conn.at = "closed"
    /\ conn' = [conn EXCEPT !.at = "attached", !.after = IF conn.mode = "ws" THEN Cursor ELSE 0]
    /\ engine' = IF conn.mode = "ws"
                 THEN [engine EXCEPT !.replayExpected = TRUE, !.catchUp = FALSE]
                 ELSE CatchingUp(engine)
    /\ UNCHANGED <<seq, open, rows, announce, list, faults, skipped>>

(* onCloseBeforeReady: the page falls back to the stream of events. *)
FallBack ==
    /\ conn.at = "closed" /\ conn.mode = "ws"
    /\ faults.drops < MaxDrops
    /\ conn' = Closed("sse")
    /\ Counted("drops")
    /\ UNCHANGED <<seq, open, rows, announce, list, engine, skipped>>

ReadReplay ==
    /\ conn.at = "attached"
    /\ LET page == Newer(conn.after, TRUE, ReplayLimit) IN
       /\ conn' = [conn EXCEPT !.at = "read", !.replay = page]
       /\ skipped' = skipped \union CutOff(conn.after, page, ReplayLimit)
    /\ UNCHANGED <<seq, open, rows, announce, list, engine, faults>>

(* finishReplay: events that came meanwhile, one for each message, the oldest, but none for *)
(* a message just replayed.                                                               *)
Drained ==
    LET kept == {conn.buffer[i] : i \in DOMAIN conn.buffer}
    IN  ByLamport({v \in kept : /\ v.env \notin EnvsOf(conn.replay)
                                /\ \A w \in kept : w.env = v.env => v.lamport <= w.lamport})

(* handleReplayStatus, between the replayed events and the drained ones. *)
ReplayStatus(eng) ==
    IF conn.mode = "sse" THEN eng
    ELSE IF Len(conn.replay) >= ReplayLimit THEN CatchingUp(eng)
    ELSE [eng EXCEPT !.replayExpected = FALSE, !.catchUp = FALSE]

SendReplay ==
    /\ conn.at = "read"
    /\ engine' = Pushed(ReplayStatus(Pushed(engine, conn.replay)), Drained)
    /\ conn' = [conn EXCEPT !.at = "live", !.replay = <<>>, !.buffer = <<>>]
    /\ UNCHANGED <<seq, open, rows, announce, list, faults, skipped>>

(* The connection breaks, in the middle of a replay too, or the hub closes one that is too *)
(* slow.  handleDisconnect asks for a catch-up when a replay was still awaited.            *)
Disconnect ==
    /\ conn.at # "closed"
    /\ faults.drops < MaxDrops
    /\ conn' = Closed(conn.mode)
    /\ \E n \in 0..Len(conn.replay) :
        LET got == Pushed(engine, SubSeq(conn.replay, 1, n))
        IN engine' = IF engine.replayExpected THEN CatchingUp(got) ELSE got
    /\ Counted("drops")
    /\ UNCHANGED <<seq, open, rows, announce, list, skipped>>

-----------------------------------------------------------------------------
(* appendPlazaDiscussionMessages: a known message is replaced in place, a new one goes last. *)
Upsert(l, v) ==
    IF \E i \in DOMAIN l : l[i].env = v.env
    THEN [i \in DOMAIN l |-> IF l[i].env = v.env THEN v ELSE l[i]]
    ELSE Append(l, v)

Appended(l, events) ==
    LET after[n \in 0 .. Len(events)] ==
            IF n = 0 THEN l
            ELSE IF events[n].deleted THEN after[n - 1] ELSE Upsert(after[n - 1], events[n])
    IN  after[Len(events)]

(* refreshPlazaMessagesByEnvelope, with some of the events: only messages of the list; the *)
(* last event of each wins.                                                                *)
Refreshed(l, events, some) ==
    [i \in DOMAIN l |->
        LET mine == {n \in some : events[n].env = l[i].env}
        IN  IF mine = {} THEN l[i] ELSE events[CHOOSE n \in mine : \A m \in mine : m <= n]]

(* A refreshed last message takes the cursor past messages the list does not have yet. *)
Passed(before, after) ==
    {e \in Committed : /\ rows[e].lamport > CursorOf(before)
                       /\ rows[e].lamport <= CursorOf(after)
                       /\ \A i \in DOMAIN after : after[i].env # e}

(* flush: what was pushed is applied at once; then the requests, one after the other. *)
Flush ==
    /\ engine.due
    /\ engine.stage = "idle"
    /\ LET appended == Appended(list, engine.pushed)
           changes == {n \in DOMAIN engine.pushed : engine.pushed[n].deleted}
           refreshed == Refreshed(appended, engine.pushed, changes)
       IN /\ list' = refreshed
          /\ skipped' = skipped \union Passed(appended, refreshed)
    /\ engine' = [Idle EXCEPT !.replayExpected = engine.replayExpected,
                              !.stage = IF engine.catchUp THEN "catchUp"
                                        ELSE IF engine.ids # {} THEN "lookup" ELSE "idle",
                              !.lookup = engine.ids]
    /\ UNCHANGED <<seq, open, rows, announce, conn, faults>>

CatchUp ==
    /\ engine.stage = "catchUp"
    /\ LET page == Newer(Cursor, FALSE, SyncLimit) IN
       /\ list' = Appended(list, page)
       /\ skipped' = skipped \union CutOff(Cursor, page, SyncLimit)
    /\ engine' = [engine EXCEPT !.stage = IF engine.lookup # {} THEN "lookup" ELSE "idle"]
    /\ UNCHANGED <<seq, open, rows, announce, conn, faults>>

(* The refresh includes deleted messages. *)
Lookup ==
    /\ engine.stage = "lookup"
    /\ LET found == Newer(0, TRUE, seq)
           asked == {n \in DOMAIN found : found[n].env \in engine.lookup}
           refreshed == Refreshed(list, found, asked)
       IN /\ list' = refreshed
          /\ skipped' = skipped \union Passed(list, refreshed)
    /\ engine' = [engine EXCEPT !.stage = "idle", !.lookup = {}]
    /\ UNCHANGED <<seq, open, rows, announce, conn, faults>>

(* A request fails: the flush is over, and what it had taken is not asked again. *)
RequestFails ==
    /\ engine.stage # "idle"
    /\ faults.failures < MaxFailures
    /\ Counted("failures")
    /\ engine' = [engine EXCEPT !.stage = "idle", !.lookup = {}]
    /\ UNCHANGED <<seq, open, rows, announce, conn, list, skipped>>

(* Defect: the reconciliation only catches up. *)
ReconcileCatchUpOnly ==
    /\ engine' = [engine EXCEPT !.catchUp = TRUE, !.due = TRUE]
    /\ UNCHANGED <<seq, open, rows, announce, conn, list, faults, skipped>>

(* runReconcile: every thirty seconds (two minutes when hidden), the newest of the list. *)
Reconcile ==
    LET newest == {list[i].env : i \in {n \in DOMAIN list : n > Len(list) - SyncLimit}} IN
    /\ engine' = [engine EXCEPT !.catchUp = TRUE, !.due = TRUE, !.ids = @ \union newest]
    /\ UNCHANGED <<seq, open, rows, announce, conn, list, faults, skipped>>

(* handleVisibilityChange to visible. *)
Visible ==
    /\ ~engine.replayExpected
    /\ engine' = [engine EXCEPT !.catchUp = TRUE, !.due = TRUE]
    /\ UNCHANGED <<seq, open, rows, announce, conn, list, faults, skipped>>

Next ==
    \/ \E e \in Envelopes : BeginPost(e) \/ CommitPost(e) \/ Tombstone(e)
    \/ Publish \/ PublishLost
    \/ Connect \/ FallBack \/ ReadReplay \/ SendReplay \/ Disconnect
    \/ Flush \/ CatchUp \/ Lookup \/ RequestFails
    \/ Reconcile \/ Visible

Spec == Init /\ [][Next]_vars

(* The server and the page go on; the timer of the reconciliation fires; the page reconnects. *)
FairSpec ==
    /\ Spec
    /\ WF_vars(\E e \in Envelopes : CommitPost(e))
    /\ WF_vars(Publish)
    /\ WF_vars(Connect) /\ WF_vars(ReadReplay) /\ WF_vars(SendReplay)
    /\ WF_vars(Flush) /\ WF_vars(CatchUp) /\ WF_vars(Lookup)
    /\ WF_vars(Reconcile)

-----------------------------------------------------------------------------
Events == [env : Envelopes, lamport : Nat, deleted : BOOLEAN]

Connections ==
    [at : {"closed", "attached", "read", "live"}, mode : {"ws", "sse"}, after : Nat,
     replay : Seq(Events), buffer : Seq(Events)]

Engines ==
    [pushed : Seq(Events), ids : SUBSET Envelopes, catchUp : BOOLEAN, due : BOOLEAN,
     replayExpected : BOOLEAN, stage : {"idle", "catchUp", "lookup"}, lookup : SUBSET Envelopes]

(* Every variable has its type; a lamport is given once, and the list has no message twice. *)
TypeOK ==
    /\ seq \in Nat
    /\ open \in [Envelopes -> 0 .. seq]
    /\ rows \in [Envelopes -> [lamport : 0 .. seq, deleted : BOOLEAN]]
    /\ announce \in Seq(Events) /\ list \in Seq(Events)
    /\ conn \in Connections /\ engine \in Engines
    /\ skipped \subseteq Envelopes
    /\ \A e \in Committed : open[e] = 0
    /\ \A e, f \in Committed : e # f => rows[e].lamport # rows[f].lamport
    /\ \A i, j \in DOMAIN list : list[i].env = list[j].env => i = j

(* A message that is below the cursor of the page and not in its list will never be asked *)
(* for again.  Five things let the cursor pass a message: a post with a larger lamport    *)
(* commits first, its event is lost while Redis is away, a replay or a catch-up is cut    *)
(* off at its limit, or the last message of the list is refreshed after its deletion.     *)
(* Nothing else does: not the order of replay and live events, not what the drain drops,  *)
(* not a broken connection, not a request that fails.                                     *)
NothingElseMissed ==
    \A e \in Committed :
        ~rows[e].deleted /\ rows[e].lamport <= Cursor => e \in Listed \union skipped

=============================================================================
