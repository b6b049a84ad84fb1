-------------------------- MODULE DiscussionProofs --------------------------
(***************************************************************************)
(* First, between deployments: nothing but an overtaken message is skipped *)
(* for any deployments and targets, any number of processes that sync one  *)
(* target at once, and any number of deletions and failures.               *)
(*                                                                         *)
(* A cursor says nothing about what is committed below it later.  The      *)
(* argument is that no cursor, and nothing a sync has read, is above the   *)
(* watermark of the peer; what is open there below its watermark was       *)
(* overtaken; so whatever commits later is above every cursor or was       *)
(* overtaken.  What a sync has read and not yet imported is in its batch.  *)
(*                                                                         *)
(* Then, on the page of a reader: nothing is missed but by the ways the    *)
(* code has to pass a message, for any number of messages, any limits and  *)
(* any number of faults.  What waits for the page (a replay, the events    *)
(* pushed to its engine) has no gaps below it: a message that stands and   *)
(* is not newer than a waiting event is listed or waits before it.         *)
(***************************************************************************)
EXTENDS PeeredDiscussion, FiniteSetTheorems, WellFoundedInduction, TLAPS

-----------------------------------------------------------------------------
(* The invariant: what a deployment stores, what a sync writes, and what   *)
(* it has read.                                                            *)

StoreTyped ==
    /\ seq \in [Deployments -> Nat]
    /\ open \in [Deployments -> [Envelopes -> Nat]]
    /\ rows \in [Deployments -> [Envelopes -> Row]]
    /\ mark \in [Deployments -> Nat]
    /\ overtaken \in [Deployments -> SUBSET Envelopes]

SyncTyped ==
    /\ cursor \in [Targets -> Nat]
    /\ sync \in [Targets -> [Processes -> Syncing]]
    /\ faults \in [deletes : 0 .. MaxDeletes, failures : 0 .. MaxFailures]

\* A lamport is taken once.  The watermark covers what can be read; what is still open below
\* it was overtaken.
Stored(d) ==
    /\ mark[d] <= seq[d]
    /\ \A e \in Envelopes : open[d][e] <= seq[d] /\ rows[d][e].lamport <= seq[d]
    /\ \A e \in Holds(d) :
        /\ rows[d][e].lamport <= mark[d]
        /\ open[d][e] = 0
        /\ \A f \in Holds(d) : e # f => rows[d][e].lamport # rows[d][f].lamport
    /\ \A e \in Opened(d) :
        /\ \A f \in Opened(d) : e # f => open[d][e] # open[d][f]
        /\ \A f \in Holds(d) : open[d][e] # rows[d][f].lamport
        /\ open[d][e] # mark[d]
        /\ open[d][e] < mark[d] => e \in overtaken[d]

Store == StoreTyped /\ \A d \in Deployments : Stored(d)

\* What a sync writes is open, and open for it alone.
WritesOpen ==
    \A t \in Targets, q \in Processes :
        /\ sync[t][q].stage # "commit" => sync[t][q].new = {}
        /\ sync[t][q].new \subseteq Opened(t[1])
        /\ \A u \in Targets, r \in Processes :
              t[1] = u[1] /\ (t # u \/ q # r) => sync[t][q].new \cap sync[u][r].new = {}

\* What t's peer has at or below n is imported, overtaken or in X.
Covered(t, n, X) ==
    \A e \in Holds(t[2]) :
        rows[t[2]][e].lamport <= n => e \in Holds(t[1]) \cup overtaken[t[2]] \cup X

\* What is known of a cursor: it is not above the peer's watermark, and covers what is below.
Known(t, n, X) == n \in Nat /\ n <= mark[t[2]] /\ Covered(t, n, X)

\* What is known of a sync: of the cursor it read, and of the batch it has.
ReadKnown(t, s) ==
    /\ Known(t, s.cursor, {})
    /\ s.stage \in {"insert", "commit"} =>
          s.batch # <<>> /\ Known(t, Last(s.batch).lamport, EnvsOf(s.batch))
    /\ s.stage = "commit" => EnvsOf(s.batch) \subseteq Holds(t[1]) \cup s.new

Reading ==
    \A t \in Targets : /\ Known(t, cursor[t], {})
                       /\ \A q \in Processes : ReadKnown(t, sync[t][q])

PeerInv == Store /\ SyncTyped /\ WritesOpen /\ Reading

-----------------------------------------------------------------------------
LEMMA TargetEnds == ASSUME NEW t \in Targets PROVE t[1] \in Deployments /\ t[2] \in Deployments
BY PeerAssumption

LEMMA InvGives == ASSUME PeerInv PROVE NothingSkipped
<1> USE DEF PeerInv, Store
<1>1. \A d \in Deployments : Holds(d) \intersect Opened(d) = {}
  BY DEF Stored, Opened
<1>2. TypeOK
  BY <1>1 DEF StoreTyped, SyncTyped, Stored, TypeOK
<1>3. NothingElseSkipped
  BY DEF NothingElseSkipped, Reading, Known, Covered
<1>4. WatermarkCovers
  BY DEF WatermarkCovers, Stored
<1> QED BY <1>2, <1>3, <1>4 DEF NothingSkipped

LEMMA InitInv == ASSUME Init PROVE PeerInv
<1> USE DEF Init
<1>1. Absent \in Row /\ Absent.lamport = 0
  BY DEF Absent, Row
<1>2. /\ Resting \in Syncing /\ Resting.stage = "rest" /\ Resting.cursor = 0 /\ Resting.new = {}
  BY DEF Resting, Syncing
<1>3. \A d \in Deployments : Holds(d) = {} /\ Opened(d) = {}
  BY <1>1 DEF Holds, Opened
<1>4. Store
  BY <1>1, <1>3 DEF Store, StoreTyped, Stored
<1>5. SyncTyped
  BY <1>2, PeerAssumption DEF SyncTyped
<1>6. WritesOpen
  BY <1>2 DEF WritesOpen
<1>7. \A t \in Targets : Known(t, 0, {})
  BY <1>3, TargetEnds DEF Known, Covered
<1>8. Reading
  BY <1>2, <1>7 DEF Reading, ReadKnown
<1> QED BY <1>4, <1>5, <1>6, <1>8 DEF PeerInv

-----------------------------------------------------------------------------
(* How a step moves what is stored.                                        *)

\* Nothing is lost, and what is committed was open and keeps its lamport.
Grows ==
    \A d \in Deployments :
        /\ mark[d] <= mark'[d] /\ overtaken[d] \subseteq overtaken'[d]
        /\ Holds(d) \subseteq Holds(d)'
        /\ \A e \in Holds(d)' :
              \/ e \in Holds(d) /\ rows[d][e].lamport <= rows'[d][e].lamport
              \/ e \in Opened(d) /\ rows'[d][e].lamport = open[d][e]

\* Nothing moves at a deployment.
Rests(d) == /\ seq'[d] = seq[d] /\ open'[d] = open[d] /\ rows'[d] = rows[d]
            /\ mark'[d] = mark[d] /\ overtaken'[d] = overtaken[d]

LEMMA RestsStored == ASSUME NEW d \in Deployments, Stored(d), Rests(d) PROVE Stored(d)'
BY DEF Rests, Stored, Holds, Opened

\* Whoever moves what is stored at d, and nowhere else, has d to look after.
LEMMA MovesAt ==
    ASSUME Store, StoreTyped', NEW d \in Deployments, Stored(d)',
           \A o \in Deployments \ {d} : Rests(o),
           mark[d] <= mark'[d], overtaken[d] \subseteq overtaken'[d],
           Holds(d) \subseteq Holds(d)',
           \A e \in Holds(d)' : \/ e \in Holds(d) /\ rows[d][e].lamport <= rows'[d][e].lamport
                                \/ e \in Opened(d) /\ rows'[d][e].lamport = open[d][e]
    PROVE  Store' /\ Grows
<1> USE DEF Store
<1>1. \A o \in Deployments : Stored(o)'
  BY RestsStored
<1>2. ASSUME NEW o \in Deployments, o # d
      PROVE  /\ mark[o] <= mark'[o] /\ overtaken[o] \subseteq overtaken'[o]
             /\ Holds(o) \subseteq Holds(o)'
             /\ \A e \in Holds(o)' : e \in Holds(o) /\ rows[o][e].lamport <= rows'[o][e].lamport
  BY <1>2 DEF Rests, Holds, StoreTyped, Row
<1>3. Grows
  BY <1>2 DEF Grows
<1> QED BY <1>1, <1>3

\* What is known of n once the step is taken.
KnownNext(t, n, X) ==
    /\ n \in Nat /\ n <= mark'[t[2]]
    /\ \A e \in Holds(t[2])' :
          rows'[t[2]][e].lamport <= n => e \in Holds(t[1])' \cup overtaken'[t[2]] \cup X

\* What is known of a cursor stays true.
LEMMA KnownStays ==
    ASSUME Store, Grows, StoreTyped', NEW t \in Targets, NEW n, NEW X, Known(t, n, X)
    PROVE  KnownNext(t, n, X)
<1> DEFINE d == t[1]
           p == t[2]
<1>1. d \in Deployments /\ p \in Deployments
  BY TargetEnds
<1>2. /\ n \in Nat /\ n <= mark[p] /\ mark[p] <= mark'[p]
      /\ mark[p] \in Nat /\ mark'[p] \in Nat
  BY <1>1 DEF Known, Grows, Store, StoreTyped
<1>3. ASSUME NEW e \in Holds(p)', rows'[p][e].lamport <= n
      PROVE  e \in Holds(d)' \cup overtaken'[p] \cup X
  <2>1. CASE e \in Holds(p) /\ rows[p][e].lamport <= rows'[p][e].lamport
    <3>1. rows[p][e].lamport \in Nat /\ rows'[p][e].lamport \in Nat
      BY <1>1 DEF Store, StoreTyped, Row, Holds
    <3>2. rows[p][e].lamport <= n
      BY <1>2, <1>3, <2>1, <3>1
    <3>3. e \in Holds(d) \cup overtaken[p] \cup X
      BY <2>1, <3>2 DEF Known, Covered
    <3> QED BY <1>1, <3>3 DEF Grows
  <2>2. CASE e \in Opened(p) /\ rows'[p][e].lamport = open[p][e]
    <3>1. open[p][e] \in Nat /\ open[p][e] # mark[p] /\ Stored(p)
      BY <1>1, <2>2 DEF Store, StoreTyped, Stored, Opened
    <3>2. open[p][e] < mark[p]
      BY <1>2, <1>3, <2>2, <3>1
    <3>3. e \in overtaken[p]
      BY <2>2, <3>1, <3>2 DEF Stored
    <3> QED BY <1>1, <3>3 DEF Grows
  <2> QED BY <1>1, <1>3, <2>1, <2>2 DEF Grows
<1> QED BY <1>2, <1>3 DEF KnownNext

-----------------------------------------------------------------------------
(* The store, action by action.                                            *)

LEMMA BeginPostStores ==
    ASSUME Store, NEW d \in Deployments, NEW e \in Envelopes, BeginPost(d, e)
    PROVE  Store' /\ Grows
<1> USE DEF Store
<1>1. /\ seq' = [seq EXCEPT ![d] = seq[d] + 1]
      /\ open' = [open EXCEPT ![d][e] = seq[d] + 1]
      /\ UNCHANGED <<rows, mark, overtaken>>
      /\ e \notin Holds(d)
  BY DEF BeginPost, StoreTyped
<1>2. seq[d] \in Nat /\ mark[d] \in Nat /\ mark[d] <= seq[d]
  BY DEF StoreTyped, Stored
<1>3. StoreTyped'
  BY <1>1, <1>2 DEF StoreTyped
<1>4. /\ seq'[d] = seq[d] + 1 /\ open'[d][e] = seq[d] + 1
      /\ \A f \in Envelopes \ {e} : open'[d][f] = open[d][f]
      /\ \A f \in Envelopes : open[d][f] \in Nat /\ rows[d][f].lamport \in Nat
  BY <1>1 DEF StoreTyped, Row
<1>5. Stored(d)'
  <2>1. Holds(d)' = Holds(d) /\ rows'[d] = rows[d] /\ mark'[d] = mark[d]
        /\ overtaken'[d] = overtaken[d]
    BY <1>1 DEF Holds
  <2>2. Opened(d)' = Opened(d) \cup {e} /\ \A f \in Opened(d)' : f # e => f \in Opened(d)
    BY <1>2, <1>4 DEF Opened
  <2>3. \A f \in Envelopes : open'[d][f] <= seq'[d] /\ rows'[d][f].lamport <= seq'[d]
                            /\ (f # e => open'[d][f] = open[d][f] /\ open[d][f] # seq[d] + 1)
                            /\ rows[d][f].lamport # seq[d] + 1
    BY <1>2, <1>4, <2>1 DEF Stored
  <2>4. ASSUME NEW f \in Opened(d)'
        PROVE  /\ \A g \in Opened(d)' : f # g => open'[d][f] # open'[d][g]
               /\ \A g \in Holds(d)' : open'[d][f] # rows'[d][g].lamport
               /\ open'[d][f] # mark'[d]
               /\ open'[d][f] < mark'[d] => f \in overtaken'[d]
    <3>1. CASE f = e
      BY <3>1, <1>2, <1>4, <2>1, <2>2, <2>3 DEF Opened, Holds
    <3>2. CASE f # e
      BY <3>2, <1>4, <2>1, <2>2, <2>3 DEF Stored, Opened, Holds
    <3> QED BY <3>1, <3>2
  <2>5. \A f \in Holds(d)' :
            /\ rows'[d][f].lamport <= mark'[d] /\ open'[d][f] = 0
            /\ \A g \in Holds(d)' : f # g => rows'[d][f].lamport # rows'[d][g].lamport
    BY <1>1, <1>4, <2>1 DEF Stored
  <2>6. mark'[d] <= seq'[d]
    BY <1>2, <1>4, <2>1
  <2> QED BY <2>3, <2>4, <2>5, <2>6 DEF Stored
<1>6. \A o \in Deployments \ {d} : Rests(o)
  BY <1>1 DEF Rests, StoreTyped
<1> QED BY <1>1, <1>2, <1>3, <1>4, <1>5, <1>6, MovesAt DEF Holds

LEMMA TombstoneStores ==
    ASSUME Store, NEW d \in Deployments, NEW e \in Envelopes, Tombstone(d, e)
    PROVE  Store' /\ Grows
<1> USE DEF Store
<1> DEFINE n == seq[d] + 1
           dead == [lamport |-> n, deleted |-> TRUE]
<1>1. /\ seq' = [seq EXCEPT ![d] = n]
      /\ rows' = [rows EXCEPT ![d][e] = dead]
      /\ mark' = [mark EXCEPT ![d] = Larger(mark[d], n)]
      /\ overtaken' = [overtaken EXCEPT ![d] = overtaken[d] \cup {f \in Opened(d) \ {} : open[d][f] < n}]
      /\ open' = open /\ e \in Holds(d)
  BY DEF Tombstone, Marked, Passes, StoreTyped
<1>2. seq[d] \in Nat /\ mark[d] \in Nat /\ mark[d] <= seq[d]
  BY DEF StoreTyped, Stored
<1>3. Larger(mark[d], n) = n
  BY <1>2 DEF Larger
<1>4. dead \in Row /\ dead.lamport = n
  BY <1>2 DEF Row
<1> HIDE DEF dead
<1>5. StoreTyped'
  BY <1>1, <1>2, <1>3, <1>4 DEF StoreTyped, Opened
<1>6. /\ seq'[d] = n /\ rows'[d][e] = dead /\ mark'[d] = n
      /\ \A f \in Envelopes \ {e} : rows'[d][f] = rows[d][f]
      /\ \A f \in Opened(d) : open[d][f] < n => f \in overtaken'[d]
      /\ overtaken[d] \subseteq overtaken'[d]
      /\ \A f \in Envelopes : open[d][f] \in Nat /\ rows[d][f].lamport \in Nat
  BY <1>1, <1>3 DEF StoreTyped, Row
<1>7. Stored(d)'
  <2>1. /\ Holds(d)' = Holds(d) /\ Opened(d)' = Opened(d) /\ e \notin Opened(d)
        /\ rows'[d][e].lamport = n /\ open'[d] = open[d]
    BY <1>1, <1>2, <1>4, <1>6 DEF Holds, Opened, Stored
  <2>2. \A f \in Envelopes : open[d][f] <= seq[d] /\ rows[d][f].lamport <= seq[d]
                            /\ open[d][f] < n /\ rows[d][f].lamport < n
    BY <1>2, <1>6 DEF Stored
  <2>3. \A f \in Envelopes : open'[d][f] <= n /\ rows'[d][f].lamport <= n
    BY <1>2, <1>6, <2>1, <2>2
  <2>4. ASSUME NEW f \in Holds(d)
        PROVE  /\ rows'[d][f].lamport <= mark'[d] /\ open'[d][f] = 0
               /\ \A g \in Holds(d) : f # g => rows'[d][f].lamport # rows'[d][g].lamport
    <3>1. f \in Envelopes /\ open[d][f] = 0 /\ \A g \in Holds(d) : g \in Envelopes
      BY DEF Holds, Stored
    <3>2. \A g \in Holds(d) : f # g => rows[d][f].lamport # rows[d][g].lamport
      BY DEF Stored
    <3> QED BY <1>6, <2>1, <2>2, <2>3, <3>1, <3>2
  <2>5. ASSUME NEW f \in Opened(d)
        PROVE  /\ \A g \in Opened(d) : f # g => open[d][f] # open[d][g]
               /\ \A g \in Holds(d) : open[d][f] # rows'[d][g].lamport
               /\ open[d][f] # n
               /\ f \in overtaken'[d]
    <3>1. f \in Envelopes /\ \A g \in Holds(d) : g \in Envelopes
      BY DEF Holds, Opened
    <3>2. \A g \in Holds(d) : open[d][f] # rows[d][g].lamport
      BY DEF Stored
    <3>3. \A g \in Opened(d) : f # g => open[d][f] # open[d][g]
      BY DEF Stored
    <3> QED BY <1>2, <1>6, <2>1, <2>2, <3>1, <3>2, <3>3
  <2> QED BY <1>2, <1>6, <2>1, <2>3, <2>4, <2>5 DEF Stored
<1>8. \A o \in Deployments \ {d} : Rests(o)
  BY <1>1 DEF Rests, StoreTyped
<1>9. rows[d][e].lamport <= n
  BY <1>1, <1>2, <1>6 DEF Stored
<1> QED BY <1>1, <1>2, <1>4, <1>5, <1>6, <1>7, <1>8, <1>9, MovesAt DEF Holds

\* A transaction ends: what it had open at d is open no more, and N is there with its lamports.
Closes(d, N) ==
    /\ open' \in [Deployments -> [Envelopes -> Nat]]
    /\ \A o \in Deployments \ {d} : open'[o] = open[o]
    /\ \A e \in Envelopes : open'[d][e] = IF e \in N THEN 0 ELSE open[d][e]

Lands(d, N) ==
    /\ rows' \in [Deployments -> [Envelopes -> Row]]
    /\ \A o \in Deployments \ {d} : rows'[o] = rows[o]
    /\ \A e \in N : rows'[d][e].lamport = open[d][e]
    /\ \A e \in Envelopes \ N : rows'[d][e] = rows[d][e]

\* The transaction of a post or of a batch commits: N becomes visible, m is the one of it with
\* the largest lamport.
LEMMA CommitStores ==
    ASSUME Store, NEW d \in Deployments, NEW N, N \subseteq Opened(d), NEW m \in N,
           \A e \in N : open[d][e] <= open[d][m],
           seq' = seq,
           Closes(d, N), Lands(d, N),
           Marked(d, open[d][m]), Passes(d, open[d][m], N)
    PROVE  Store' /\ Grows
<1> USE DEF Store
<1> DEFINE top == open[d][m]
<1>1. /\ m \in Envelopes /\ top \in Nat /\ top # 0 /\ N \subseteq Envelopes
      /\ seq[d] \in Nat /\ mark[d] \in Nat /\ mark[d] <= seq[d] /\ top <= seq[d]
  BY DEF Opened, StoreTyped, Stored
<1>2. /\ mark' = [mark EXCEPT ![d] = Larger(mark[d], top)]
      /\ overtaken' = [overtaken EXCEPT ![d] = overtaken[d]
                          \cup {f \in Opened(d) \ N : open[d][f] < top}]
  BY DEF Marked, Passes, StoreTyped
<1>3. /\ Larger(mark[d], top) \in Nat /\ mark[d] <= Larger(mark[d], top)
      /\ top <= Larger(mark[d], top) /\ Larger(mark[d], top) \in {mark[d], top}
  BY <1>1 DEF Larger
<1>4. \A e \in Envelopes : /\ open[d][e] \in Nat /\ rows[d][e].lamport \in Nat
                           /\ rows'[d][e].lamport \in Nat
  BY DEF StoreTyped, Row, Lands
<1>5. /\ \A e \in N : rows'[d][e].lamport = open[d][e]
      /\ \A e \in Envelopes \ N : rows'[d][e] = rows[d][e]
      /\ \A e \in Envelopes : open'[d][e] = IF e \in N THEN 0 ELSE open[d][e]
      /\ mark'[d] = Larger(mark[d], top)
      /\ \A f \in Opened(d) \ N : open[d][f] < top => f \in overtaken'[d]
      /\ overtaken[d] \subseteq overtaken'[d]
  BY <1>2 DEF StoreTyped, Lands, Closes
<1>7. StoreTyped'
  BY <1>2, <1>3 DEF StoreTyped, Opened, Lands, Closes
<1> DEFINE newMark == Larger(mark[d], top)
<1> HIDE DEF newMark
<1>8. /\ newMark \in Nat /\ mark[d] <= newMark /\ top <= newMark /\ newMark \in {mark[d], top}
      /\ newMark <= seq[d] /\ mark'[d] = newMark
  BY <1>1, <1>3, <1>5 DEF newMark
<1>9. /\ Holds(d)' = Holds(d) \cup N /\ Opened(d)' = Opened(d) \ N
      /\ \A e \in N : rows'[d][e].lamport = open[d][e] /\ e \notin Holds(d)
      /\ \A e \in Holds(d) : rows'[d][e] = rows[d][e] /\ open'[d][e] = 0
      /\ \A e \in Opened(d) \ N : open'[d][e] = open[d][e]
  BY <1>1, <1>4, <1>5 DEF Holds, Opened, Stored
<1>10. \A e \in Envelopes : open'[d][e] <= seq'[d] /\ rows'[d][e].lamport <= seq'[d]
  BY <1>1, <1>4, <1>5 DEF Stored
<1>11. ASSUME NEW e \in Holds(d)'
       PROVE  /\ rows'[d][e].lamport <= mark'[d] /\ open'[d][e] = 0
              /\ \A f \in Holds(d)' : e # f => rows'[d][e].lamport # rows'[d][f].lamport
  <2>1. CASE e \in Holds(d)
    <3>1. rows'[d][e].lamport = rows[d][e].lamport /\ rows[d][e].lamport <= mark[d]
          /\ rows[d][e].lamport \in Nat
      BY <2>1, <1>4, <1>9 DEF Stored, Holds
    <3>2. \A f \in N : rows[d][e].lamport # open[d][f]
      BY <2>1 DEF Stored
    <3>3. \A f \in Holds(d) : e # f => rows[d][e].lamport # rows[d][f].lamport
      BY <2>1 DEF Stored
    <3>4. \A f \in Holds(d)' : \/ f \in Holds(d) /\ rows'[d][f].lamport = rows[d][f].lamport
                               \/ f \in N /\ rows'[d][f].lamport = open[d][f]
      BY <1>9
    <3>5. \A f \in Holds(d)' : e # f => rows'[d][e].lamport # rows'[d][f].lamport
      BY <3>1, <3>2, <3>3, <3>4
    <3>6. rows'[d][e].lamport <= mark'[d]
      BY <1>1, <1>8, <3>1
    <3> QED BY <1>9, <2>1, <3>5, <3>6
  <2>2. CASE e \in N
    <3>1. rows'[d][e].lamport = open[d][e] /\ open[d][e] <= top /\ open'[d][e] = 0
          /\ open[d][e] \in Nat
      BY <2>2, <1>1, <1>4, <1>5, <1>9
    <3>2. \A f \in Holds(d) : open[d][e] # rows[d][f].lamport
      BY <2>2 DEF Stored
    <3>3. \A f \in N : e # f => open[d][e] # open[d][f]
      BY <2>2 DEF Stored
    <3>4. \A f \in Holds(d)' : \/ f \in Holds(d) /\ rows'[d][f].lamport = rows[d][f].lamport
                               \/ f \in N /\ rows'[d][f].lamport = open[d][f]
      BY <1>9
    <3>5. \A f \in Holds(d)' : e # f => rows'[d][e].lamport # rows'[d][f].lamport
      BY <3>1, <3>2, <3>3, <3>4
    <3>6. rows'[d][e].lamport <= mark'[d]
      BY <1>1, <1>8, <3>1
    <3> QED BY <3>1, <3>5, <3>6
  <2> QED BY <1>9, <2>1, <2>2
<1>12. ASSUME NEW e \in Opened(d)'
       PROVE  /\ \A f \in Opened(d)' : e # f => open'[d][e] # open'[d][f]
              /\ \A f \in Holds(d)' : open'[d][e] # rows'[d][f].lamport
              /\ open'[d][e] # mark'[d]
              /\ open'[d][e] < mark'[d] => e \in overtaken'[d]
  <2>1. e \in Opened(d) \ N /\ open'[d][e] = open[d][e] /\ open[d][e] \in Nat
    BY <1>9, <1>4 DEF Opened
  <2>2. \A f \in Opened(d) : e # f => open[d][e] # open[d][f]
    BY <2>1 DEF Stored
  <2>3. \A f \in Holds(d) : open[d][e] # rows[d][f].lamport
    BY <2>1 DEF Stored
  <2>4. open[d][e] # mark[d] /\ open[d][e] # top /\ (open[d][e] < mark[d] => e \in overtaken[d])
    BY <2>1, <2>2 DEF Stored
  <2>5. open[d][e] < mark'[d] => e \in overtaken'[d]
    BY <1>1, <1>5, <1>8, <2>1, <2>4
  <2> QED BY <1>8, <1>9, <2>1, <2>2, <2>3, <2>4, <2>5
<1>13. Stored(d)'
  BY <1>1, <1>8, <1>10, <1>11, <1>12 DEF Stored
<1>14. ASSUME NEW o \in Deployments \ {d} PROVE Rests(o)
  <2>1. open'[o] = open[o] /\ rows'[o] = rows[o]
    BY DEF Closes, Lands
  <2>2. mark'[o] = mark[o] /\ overtaken'[o] = overtaken[o]
    BY <1>2 DEF StoreTyped
  <2> QED BY <2>1, <2>2 DEF Rests
<1>15. \A e \in Holds(d)' : \/ e \in Holds(d) /\ rows[d][e].lamport <= rows'[d][e].lamport
                            \/ e \in Opened(d) /\ rows'[d][e].lamport = open[d][e]
  BY <1>4, <1>9 DEF Holds
<1> QED BY <1>5, <1>7, <1>8, <1>9, <1>13, <1>14, <1>15, MovesAt

LEMMA CommitPostStores ==
    ASSUME Store, NEW d \in Deployments, NEW e \in Envelopes, CommitPost(d, e)
    PROVE  Store' /\ Grows
<1> USE DEF Store
<1>1. e \in Opened(d) /\ seq' = seq /\ Marked(d, open[d][e]) /\ Passes(d, open[d][e], {e})
  BY DEF CommitPost
<1>2. open[d][e] \in Nat /\ [lamport |-> open[d][e], deleted |-> FALSE] \in Row
  BY DEF StoreTyped, Row
<1>3. Lands(d, {e})
  BY <1>2 DEF CommitPost, StoreTyped, Lands
<1>4. Closes(d, {e})
  BY DEF CommitPost, StoreTyped, Closes
<1>5. \A f \in {e} : open[d][f] <= open[d][e]
  BY <1>2
<1> QED BY <1>1, <1>3, <1>4, <1>5, CommitStores

\* A batch takes its lamports: N becomes open, above all there is.
LEMMA OpenStores ==
    ASSUME Store, NEW d \in Deployments, NEW L \in Nat, NEW N, N \subseteq Envelopes,
           N \cap (Holds(d) \cup Opened(d)) = {}, NEW at, \A e \in N : at[e] \in 1 .. L,
           \A e, f \in N : e # f => at[e] # at[f],
           seq' = [seq EXCEPT ![d] = seq[d] + L],
           open' \in [Deployments -> [Envelopes -> Nat]],
           \A o \in Deployments \ {d} : open'[o] = open[o],
           \A e \in N : open'[d][e] = seq[d] + at[e],
           \A e \in Envelopes \ N : open'[d][e] = open[d][e],
           UNCHANGED <<rows, mark, overtaken>>
    PROVE  Store' /\ Grows /\ Opened(d)' = Opened(d) \cup N
<1> USE DEF Store
<1>1. seq[d] \in Nat /\ mark[d] \in Nat /\ mark[d] <= seq[d] /\ seq'[d] = seq[d] + L
  BY DEF StoreTyped, Stored
<1>2. \A e \in Envelopes : open[d][e] \in Nat /\ rows[d][e].lamport \in Nat
  BY DEF StoreTyped, Row
<1>3. \A e \in N : at[e] \in Nat /\ 1 <= at[e] /\ at[e] <= L /\ seq[d] + at[e] \in Nat
  BY <1>1
<1>4. seq[d] + L \in Nat
  BY <1>1
<1>5. StoreTyped'
  BY <1>4 DEF StoreTyped
<1>6. /\ \A e \in N : open'[d][e] = seq[d] + at[e]
      /\ \A e \in Envelopes \ N : open'[d][e] = open[d][e]
  OBVIOUS
<1>7. /\ Holds(d)' = Holds(d) /\ rows'[d] = rows[d] /\ mark'[d] = mark[d]
      /\ overtaken'[d] = overtaken[d]
  BY DEF Holds
<1>8. Opened(d)' = Opened(d) \cup N
  BY <1>1, <1>2, <1>3, <1>6 DEF Opened
<1>9. \A e \in Envelopes : open'[d][e] <= seq'[d] /\ rows'[d][e].lamport <= seq'[d]
  BY <1>1, <1>2, <1>3, <1>6, <1>7 DEF Stored
<1>10. ASSUME NEW e \in Holds(d)'
       PROVE  /\ rows'[d][e].lamport <= mark'[d] /\ open'[d][e] = 0
              /\ \A f \in Holds(d)' : e # f => rows'[d][e].lamport # rows'[d][f].lamport
  <2>1. e \in Holds(d) /\ e \in Envelopes \ N
    BY <1>7 DEF Holds
  <2> QED BY <1>6, <1>7, <2>1 DEF Stored
<1>11. ASSUME NEW e \in Opened(d)'
       PROVE  /\ \A f \in Opened(d)' : e # f => open'[d][e] # open'[d][f]
              /\ \A f \in Holds(d)' : open'[d][e] # rows'[d][f].lamport
              /\ open'[d][e] # mark'[d]
              /\ open'[d][e] < mark'[d] => e \in overtaken'[d]
  <2>1. \A f \in Opened(d)' : \/ f \in N /\ open'[d][f] = seq[d] + at[f]
                              \/ f \in Opened(d) /\ open'[d][f] = open[d][f]
    BY <1>6, <1>8 DEF Opened
  <2>2. \A f \in Opened(d) : open[d][f] \in Nat /\ open[d][f] <= seq[d]
    BY <1>2 DEF Stored, Opened
  <2>3. \A f \in Holds(d) : rows[d][f].lamport \in Nat /\ rows[d][f].lamport <= seq[d]
    BY <1>2 DEF Stored, Holds
  <2>4. CASE e \in N /\ open'[d][e] = seq[d] + at[e]
    <3>1. at[e] \in Nat /\ 1 <= at[e]
      BY <1>3, <2>4
    <3>2. \A f \in Opened(d)' : e # f => open'[d][e] # open'[d][f]
      BY <1>1, <1>3, <2>1, <2>2, <2>4, <3>1
    <3>3. \A f \in Holds(d)' : open'[d][e] # rows'[d][f].lamport
      BY <1>1, <1>7, <2>3, <2>4, <3>1
    <3>4. open'[d][e] # mark'[d] /\ ~(open'[d][e] < mark'[d])
      BY <1>1, <1>7, <2>4, <3>1
    <3> QED BY <3>2, <3>3, <3>4
  <2>5. CASE e \in Opened(d) /\ open'[d][e] = open[d][e]
    <3>1. \A f \in Opened(d) : e # f => open[d][e] # open[d][f]
      BY <2>5 DEF Stored
    <3>2. \A f \in Opened(d)' : e # f => open'[d][e] # open'[d][f]
      BY <1>1, <1>3, <2>1, <2>2, <2>5, <3>1
    <3>3. /\ \A f \in Holds(d) : open[d][e] # rows[d][f].lamport
          /\ open[d][e] # mark[d]
          /\ open[d][e] < mark[d] => e \in overtaken[d]
      BY <2>5 DEF Stored
    <3> QED BY <1>7, <2>5, <3>2, <3>3
  <2> QED BY <2>1, <2>4, <2>5
<1>12. mark'[d] <= seq'[d]
  BY <1>1, <1>7
<1>13. Stored(d)'
  BY <1>9, <1>10, <1>11, <1>12 DEF Stored
<1>14. \A o \in Deployments \ {d} : Rests(o)
  BY DEF Rests, StoreTyped
<1>15. \A e \in Holds(d)' : e \in Holds(d) /\ rows[d][e].lamport <= rows'[d][e].lamport
  BY <1>2, <1>7 DEF Holds
<1> QED BY <1>1, <1>5, <1>7, <1>8, <1>13, <1>14, <1>15, MovesAt

\* A transaction is rolled back: what it had open is gone.
LEMMA CloseStores ==
    ASSUME Store, NEW d \in Deployments, NEW N, Closes(d, N),
           UNCHANGED <<seq, rows, mark, overtaken>>
    PROVE  Store' /\ Grows /\ Opened(d)' = Opened(d) \ N
<1> USE DEF Store
<1>1. seq[d] \in Nat /\ mark[d] \in Nat
  BY DEF StoreTyped
<1>2. \A e \in Envelopes : open[d][e] \in Nat /\ rows[d][e].lamport \in Nat
  BY DEF StoreTyped, Row
<1>4. StoreTyped'
  BY DEF StoreTyped, Closes
<1>5. \A e \in Envelopes : open'[d][e] = IF e \in N THEN 0 ELSE open[d][e]
  BY DEF Closes
<1>6. /\ Holds(d)' = Holds(d) /\ rows'[d] = rows[d] /\ mark'[d] = mark[d]
      /\ overtaken'[d] = overtaken[d] /\ seq'[d] = seq[d]
  BY DEF Holds
<1>7. Opened(d)' = Opened(d) \ N /\ \A e \in Opened(d)' : open'[d][e] = open[d][e]
  BY <1>2, <1>5 DEF Opened
<1>8. \A e \in Holds(d) : open'[d][e] = 0
  BY <1>5 DEF Stored, Holds
<1>9. \A e \in Envelopes : open'[d][e] <= seq'[d]
  BY <1>1, <1>2, <1>5, <1>6 DEF Stored
<1>10. Stored(d)'
  BY <1>6, <1>7, <1>8, <1>9 DEF Stored
<1>11. \A o \in Deployments \ {d} : Rests(o)
  BY DEF Rests, Closes
<1>12. \A e \in Holds(d)' : e \in Holds(d) /\ rows[d][e].lamport <= rows'[d][e].lamport
  BY <1>2, <1>6 DEF Holds
<1> QED BY <1>1, <1>4, <1>6, <1>7, <1>10, <1>11, <1>12, MovesAt

\* What leaves the store alone.
LEMMA StoreRests ==
    ASSUME Store, UNCHANGED <<seq, open, rows, mark, overtaken>>
    PROVE  Store' /\ Grows /\ \A d \in Deployments : Opened(d)' = Opened(d)
<1>1. Store' /\ \A d \in Deployments : Opened(d)' = Opened(d) /\ Holds(d)' = Holds(d)
  BY DEF Store, StoreTyped, Stored, Holds, Opened
<1>2. \A d \in Deployments : mark[d] \in Nat
                              /\ \A e \in Holds(d) : rows[d][e].lamport \in Nat
  BY DEF Store, StoreTyped, Row, Holds
<1> QED BY <1>1, <1>2 DEF Grows

\* A bounded set of numbers has its largest, finite or not.
LEMMA MaxExists ==
    ASSUME NEW S, S \subseteq Nat, S # {}, NEW b \in Nat, \A x \in S : x <= b
    PROVE  Max(S) \in S /\ \A x \in S : x <= Max(S)
<1> DEFINE T == {k \in Nat : \E x \in S : k = b - x}
<1>1. T \subseteq Nat /\ T # {}
  <2>1. PICK x \in S : TRUE
    OBVIOUS
  <2>2. b - x \in Nat
    OBVIOUS
  <2> QED BY <2>1, <2>2
<1>2. PICK k \in T : \A j \in T : <<j, k>> \notin OpToRel(<, Nat)
  BY <1>1, NatLessThanWellFounded, WFMin
<1>3. PICK m \in S : k = b - m
  OBVIOUS
<1>4. ASSUME NEW x \in S PROVE m >= x
  <2>1. b - x \in T /\ b - x \in Nat /\ k \in Nat /\ m \in Nat /\ x \in Nat
    BY <1>3
  <2>2. ~(b - x < k)
    BY <1>2, <2>1 DEF OpToRel
  <2> QED BY <1>3, <2>1, <2>2
<1>5. \E y \in S : \A x \in S : y >= x
  BY <1>4
<1>6. Max(S) \in S /\ \A x \in S : Max(S) >= x
  BY <1>5 DEF Max
<1> QED BY <1>6
-----------------------------------------------------------------------------
(* What syncs write, and what they know.                                   *)

\* A process moves to s; the others stay.
SyncTo(t, q, s) ==
    /\ \A u \in Targets, r \in Processes : (u # t \/ r # q) => sync'[u][r] = sync[u][r]
    /\ sync'[t][q] = s

\* The writes of the others stay open; those of the process that moves are its own.
LEMMA WritesKept ==
    ASSUME WritesOpen, NEW t \in Targets, NEW q \in Processes, NEW s, SyncTo(t, q, s),
           s.stage # "commit" => s.new = {},
           s.new \subseteq Opened(t[1])',
           \A u \in Targets, r \in Processes :
               (u # t \/ r # q) => /\ sync[u][r].new \subseteq Opened(u[1])'
                                   /\ u[1] = t[1] => s.new \cap sync[u][r].new = {}
    PROVE  WritesOpen'
<1>1. ASSUME NEW u \in Targets, NEW r \in Processes
      PROVE  /\ sync'[u][r].stage # "commit" => sync'[u][r].new = {}
             /\ sync'[u][r].new \subseteq Opened(u[1])'
  <2>1. CASE u = t /\ r = q
    <3>1. sync'[u][r] = s
      BY <2>1 DEF SyncTo
    <3> QED BY <2>1, <3>1
  <2>2. CASE u # t \/ r # q
    <3>1. sync'[u][r] = sync[u][r]
      BY <2>2 DEF SyncTo
    <3> QED BY <2>2, <3>1 DEF WritesOpen
  <2> QED BY <2>1, <2>2
<1>2. ASSUME NEW u \in Targets, NEW r \in Processes, NEW v \in Targets, NEW o \in Processes,
             u[1] = v[1], u # v \/ r # o
      PROVE  sync'[u][r].new \cap sync'[v][o].new = {}
  <2>1. CASE u = t /\ r = q
    <3>1. sync'[u][r] = s /\ sync'[v][o] = sync[v][o]
      BY <1>2, <2>1 DEF SyncTo
    <3>2. s.new \cap sync[v][o].new = {}
      BY <1>2, <2>1
    <3> QED BY <3>1, <3>2
  <2>2. CASE v = t /\ o = q
    <3>1. sync'[v][o] = s /\ sync'[u][r] = sync[u][r]
      BY <1>2, <2>2 DEF SyncTo
    <3>2. s.new \cap sync[u][r].new = {}
      BY <1>2, <2>2
    <3> QED BY <3>1, <3>2
  <2>3. CASE (u # t \/ r # q) /\ (v # t \/ o # q)
    BY <1>2, <2>3 DEF SyncTo, WritesOpen
  <2> QED BY <2>1, <2>2, <2>3
<1> QED BY <1>1, <1>2 DEF WritesOpen

\* A step of no sync keeps the writes of all of them open.
LEMMA WritesStay ==
    ASSUME WritesOpen, sync' = sync,
           \A u \in Targets, r \in Processes : sync[u][r].new \subseteq Opened(u[1])'
    PROVE  WritesOpen'
BY DEF WritesOpen

\* What is known of a sync once the step is taken.
ReadNext(t, s) ==
    /\ KnownNext(t, s.cursor, {})
    /\ s.stage \in {"insert", "commit"} =>
          s.batch # <<>> /\ KnownNext(t, Last(s.batch).lamport, EnvsOf(s.batch))
    /\ s.stage = "commit" => EnvsOf(s.batch) \subseteq Holds(t[1])' \cup s.new

LEMMA ReadStays ==
    ASSUME Store, Grows, StoreTyped', NEW t \in Targets, NEW s, ReadKnown(t, s)
    PROVE  ReadNext(t, s)
<1>1. KnownNext(t, s.cursor, {})
  BY KnownStays DEF ReadKnown
<1>2. ASSUME s.stage \in {"insert", "commit"}
      PROVE  s.batch # <<>> /\ KnownNext(t, Last(s.batch).lamport, EnvsOf(s.batch))
  BY <1>2, KnownStays DEF ReadKnown
<1>3. Holds(t[1]) \subseteq Holds(t[1])'
  BY TargetEnds DEF Grows
<1> QED BY <1>1, <1>2, <1>3 DEF ReadKnown, ReadNext

LEMMA ReadingNext ==
    ASSUME \A t \in Targets : /\ KnownNext(t, cursor'[t], {})
                              /\ \A q \in Processes : ReadNext(t, sync'[t][q])
    PROVE  Reading'
BY DEF Reading, ReadKnown, Known, Covered, ReadNext, KnownNext

\* What was read stays known when the cursors and the syncs stay.
LEMMA ReadingStays ==
    ASSUME Store, Grows, StoreTyped', Reading, UNCHANGED <<cursor, sync>>
    PROVE  Reading'
<1>1. ASSUME NEW t \in Targets PROVE KnownNext(t, cursor'[t], {})
  BY KnownStays DEF Reading
<1>2. ASSUME NEW t \in Targets, NEW q \in Processes PROVE ReadNext(t, sync'[t][q])
  BY ReadStays DEF Reading
<1> QED BY <1>1, <1>2, ReadingNext

\* What was read stays known when a sync moves to what is known.
LEMMA ReadingKept ==
    ASSUME Store, Grows, StoreTyped', Reading, NEW t \in Targets, NEW q \in Processes, NEW s,
           SyncTo(t, q, s), ReadNext(t, s), KnownNext(t, cursor'[t], {}),
           \A u \in Targets \ {t} : cursor'[u] = cursor[u]
    PROVE  Reading'
<1>1. ASSUME NEW u \in Targets PROVE KnownNext(u, cursor'[u], {})
  <2>1. CASE u = t
    BY <2>1
  <2>2. CASE u # t
    BY <2>2, KnownStays DEF Reading
  <2> QED BY <2>1, <2>2
<1>2. ASSUME NEW u \in Targets, NEW r \in Processes PROVE ReadNext(u, sync'[u][r])
  <2>1. CASE u = t /\ r = q
    BY <2>1 DEF SyncTo
  <2>2. CASE u # t \/ r # q
    BY <2>2, ReadStays DEF Reading, SyncTo
  <2> QED BY <2>1, <2>2
<1> QED BY <1>1, <1>2, ReadingNext

LEMMA LargerIs == ASSUME NEW a \in Nat, NEW b \in Nat
                  PROVE  Larger(a, b) \in {a, b} /\ Larger(a, b) \in Nat
BY DEF Larger

\* A cursor that moves to what is known is known.
LEMMA CursorMoves ==
    ASSUME SyncTyped, Reading, Store, Grows, StoreTyped', NEW t \in Targets, NEW n,
           KnownNext(t, n, {}), Moved(t, n)
    PROVE  /\ cursor' \in [Targets -> Nat]
           /\ KnownNext(t, cursor'[t], {})
           /\ \A u \in Targets \ {t} : cursor'[u] = cursor[u]
<1>1. n \in Nat /\ cursor[t] \in Nat /\ KnownNext(t, cursor[t], {})
  BY KnownStays DEF KnownNext, SyncTyped, Reading
<1>2. Larger(cursor[t], n) \in {cursor[t], n} /\ Larger(cursor[t], n) \in Nat
  BY <1>1, LargerIs
<1>3. cursor' = [cursor EXCEPT ![t] = Larger(cursor[t], n)]
  BY DEF Moved
<1> QED BY <1>1, <1>2, <1>3 DEF SyncTyped
-----------------------------------------------------------------------------
(* A step at a deployment. *)

LEMMA BeginPostKeeps ==
    ASSUME PeerInv, NEW d \in Deployments, NEW e \in Envelopes, BeginPost(d, e)
    PROVE  PeerInv'
<1>1. Store' /\ Grows
  BY BeginPostStores DEF PeerInv
<1>2. UNCHANGED <<cursor, sync, faults>>
  BY DEF BeginPost
<1>3. \A o \in Deployments : Opened(o) \subseteq Opened(o)'
  <2>1. seq[d] \in Nat /\ open' = [open EXCEPT ![d][e] = seq[d] + 1]
    BY DEF BeginPost, PeerInv, Store, StoreTyped
  <2> QED BY <2>1 DEF Opened, PeerInv, Store, StoreTyped
<1>4. WritesOpen'
  BY <1>2, <1>3, WritesStay, TargetEnds DEF PeerInv, WritesOpen
<1>5. Reading'
  BY <1>1, <1>2, ReadingStays DEF PeerInv, Store
<1> QED BY <1>1, <1>2, <1>4, <1>5 DEF PeerInv, SyncTyped

LEMMA CommitPostKeeps ==
    ASSUME PeerInv, NEW d \in Deployments, NEW e \in Envelopes, CommitPost(d, e)
    PROVE  PeerInv'
<1>1. Store' /\ Grows
  BY CommitPostStores DEF PeerInv
<1>2. UNCHANGED <<cursor, sync, faults>> /\ e \notin Importing(d)
  BY DEF CommitPost
<1>3. \A o \in Deployments : \A f \in Opened(o) : o # d \/ f # e => f \in Opened(o)'
  <2>1. open' = [open EXCEPT ![d][e] = 0]
    BY DEF CommitPost
  <2> QED BY <2>1 DEF Opened, PeerInv, Store, StoreTyped
<1>4. ASSUME NEW u \in Targets, NEW r \in Processes PROVE sync[u][r].new \subseteq Opened(u[1])'
  <2>1. sync[u][r].new \subseteq Opened(u[1]) /\ u[1] \in Deployments
    BY TargetEnds DEF PeerInv, WritesOpen
  <2>2. u[1] = d => e \notin sync[u][r].new
    BY <1>2 DEF Importing
  <2> QED BY <1>3, <2>1, <2>2
<1>5. WritesOpen'
  BY <1>2, <1>4, WritesStay DEF PeerInv
<1>6. Reading'
  BY <1>1, <1>2, ReadingStays DEF PeerInv, Store
<1> QED BY <1>1, <1>2, <1>5, <1>6 DEF PeerInv, SyncTyped

LEMMA TombstoneKeeps ==
    ASSUME PeerInv, NEW d \in Deployments, NEW e \in Envelopes, Tombstone(d, e)
    PROVE  PeerInv'
<1>1. Store' /\ Grows
  BY TombstoneStores DEF PeerInv
<1>2. UNCHANGED <<open, cursor, sync>>
  BY DEF Tombstone
<1>3. faults' \in [deletes : 0 .. MaxDeletes, failures : 0 .. MaxFailures]
  <2>1. faults.deletes \in 0 .. MaxDeletes /\ faults.deletes < MaxDeletes /\ MaxDeletes \in Nat
    BY PeerAssumption DEF Tombstone, PeerInv, SyncTyped
  <2>2. faults.deletes + 1 \in 0 .. MaxDeletes
    BY <2>1
  <2> QED BY <2>2 DEF Tombstone, PeerInv, SyncTyped
<1>4. WritesOpen'
  BY <1>2 DEF PeerInv, WritesOpen, Opened
<1>5. Reading'
  BY <1>1, <1>2, ReadingStays DEF PeerInv, Store
<1> QED BY <1>1, <1>2, <1>3, <1>4, <1>5 DEF PeerInv, SyncTyped

-----------------------------------------------------------------------------
(* A step of a sync. *)

\* What s writes is open, and what the others write stays so.
WritesRest(t, q, s) ==
    /\ s.stage # "commit" => s.new = {}
    /\ s.new \subseteq Opened(t[1])'
    /\ \A u \in Targets, r \in Processes :
           (u # t \/ r # q) => /\ sync[u][r].new \subseteq Opened(u[1])'
                               /\ u[1] = t[1] => s.new \cap sync[u][r].new = {}

\* What every step of a sync owes: the store, the cursor, and what the process moves to.
LEMMA SyncKeeps ==
    ASSUME PeerInv, NEW t \in Targets, NEW q \in Processes, NEW s \in Syncing,
           Store', Grows, SyncTo(t, q, s), sync' \in [Targets -> [Processes -> Syncing]],
           cursor' \in [Targets -> Nat], KnownNext(t, cursor'[t], {}),
           \A u \in Targets \ {t} : cursor'[u] = cursor[u],
           faults' \in [deletes : 0 .. MaxDeletes, failures : 0 .. MaxFailures],
           ReadNext(t, s),
           WritesRest(t, q, s)
    PROVE  PeerInv'
<1>1. SyncTyped'
  BY DEF SyncTyped
<1>2. WritesOpen'
  BY WritesKept DEF PeerInv, WritesRest
<1>3. Reading'
  BY ReadingKept DEF PeerInv, Store
<1> QED BY <1>1, <1>2, <1>3 DEF PeerInv

\* The cursor stands.
LEMMA CursorStays ==
    ASSUME PeerInv, Store', Grows, UNCHANGED cursor, NEW t \in Targets
    PROVE  /\ cursor' \in [Targets -> Nat] /\ KnownNext(t, cursor'[t], {})
           /\ \A u \in Targets \ {t} : cursor'[u] = cursor[u]
BY KnownStays DEF PeerInv, Store, SyncTyped, Reading

LEMMA RestingKnown ==
    ASSUME PeerInv, Grows, Store', NEW t \in Targets
    PROVE  /\ Resting \in Syncing /\ Resting.stage = "rest" /\ Resting.new = {}
           /\ ReadNext(t, Resting)
<1>1. /\ Resting \in Syncing /\ Resting.stage = "rest" /\ Resting.new = {} /\ Resting.cursor = 0
  BY DEF Resting, Syncing
<1>2. KnownNext(t, cursor[t], {}) /\ cursor[t] \in Nat
  BY KnownStays DEF PeerInv, Store, Reading, SyncTyped
<1>3. /\ mark'[t[2]] \in Nat
      /\ \A e \in Holds(t[2])' : rows'[t[2]][e].lamport \in Nat
  BY TargetEnds DEF Store, StoreTyped, Row, Holds
<1>4. KnownNext(t, 0, {})
  BY <1>2, <1>3 DEF KnownNext
<1> QED BY <1>1, <1>4 DEF ReadNext

\* What a sync is that fetches from a cursor.
LEMMA FetchingFrom ==
    ASSUME NEW c \in Nat
    PROVE  LET s == [Resting EXCEPT !.stage = "fetch", !.cursor = c]
           IN  s \in Syncing /\ s.stage = "fetch" /\ s.cursor = c /\ s.new = {}
<1>1. /\ Resting \in Syncing /\ Resting.new = {}
  BY DEF Resting, Syncing
<1> QED BY <1>1 DEF Syncing

LEMMA StartKeeps ==
    ASSUME PeerInv, NEW t \in Targets, NEW q \in Processes, Start(t, q)
    PROVE  PeerInv'
<1> DEFINE s == [Resting EXCEPT !.stage = "fetch", !.cursor = cursor[t]]
<1>1. /\ Store' /\ Grows /\ \A d \in Deployments : Opened(d)' = Opened(d)
  BY StoreRests DEF Start, PeerInv
<1>2. s \in Syncing /\ s.stage = "fetch" /\ s.cursor = cursor[t] /\ s.new = {}
  <2>1. cursor[t] \in Nat
    BY DEF PeerInv, SyncTyped
  <2> QED BY <2>1, FetchingFrom
<1>3. sync' = [sync EXCEPT ![t][q] = s] /\ UNCHANGED <<cursor, faults>>
  BY DEF Start
<1> HIDE DEF s
<1>9. SyncTo(t, q, s) /\ sync' \in [Targets -> [Processes -> Syncing]]
  BY <1>2, <1>3 DEF SyncTo, PeerInv, SyncTyped
<1>4. /\ cursor' \in [Targets -> Nat] /\ KnownNext(t, cursor'[t], {})
      /\ \A u \in Targets \ {t} : cursor'[u] = cursor[u]
  BY <1>1, <1>3, CursorStays
<1>5. ReadNext(t, s)
  BY <1>2, <1>3, <1>4 DEF ReadNext
<1>6. \A u \in Targets, r \in Processes : sync[u][r].new \subseteq Opened(u[1])'
  BY <1>1, TargetEnds DEF PeerInv, WritesOpen
<1>7. faults' \in [deletes : 0 .. MaxDeletes, failures : 0 .. MaxFailures]
  BY <1>3 DEF PeerInv, SyncTyped
<1>8. WritesRest(t, q, s)
  BY <1>2, <1>6 DEF WritesRest
<1> QED BY <1>1, <1>2, <1>4, <1>5, <1>7, <1>8, <1>9, SyncKeeps

\* A batch the peer exports has all that is newer than the cursor, up to its last lamport.
LEMMA ExportKnows ==
    ASSUME Store, NEW t \in Targets, NEW c, Known(t, c, {}),
           NEW batch \in Seq(Entry), Exports(t[2], c, batch), batch # <<>>
    PROVE  Known(t, Last(batch).lamport, EnvsOf(batch))
<1> DEFINE p == t[2]
           n == Last(batch).lamport
<1>1. p \in Deployments
  BY TargetEnds
<1>2. /\ Len(batch) \in DOMAIN batch /\ Last(batch) = batch[Len(batch)]
      /\ \A i \in DOMAIN batch : batch[i] \in Entry /\ i \in Nat /\ i <= Len(batch)
  BY DEF Last
<1>3. /\ n \in Nat /\ batch[Len(batch)].env \in Holds(p)
      /\ n = rows[p][batch[Len(batch)].env].lamport
  BY <1>2 DEF Exports, Entry
<1>4. n <= mark[p]
  BY <1>1, <1>3 DEF Store, Stored
<1>5. ASSUME NEW e \in Holds(p), rows[p][e].lamport <= n
      PROVE  e \in Holds(t[1]) \cup overtaken[p] \cup EnvsOf(batch)
  <2>1. rows[p][e].lamport \in Nat /\ c \in Nat
    BY <1>1 DEF Store, StoreTyped, Row, Holds, Known
  <2>2. CASE rows[p][e].lamport <= c
    BY <2>2 DEF Known, Covered
  <2>3. CASE rows[p][e].lamport > c
    <3> SUFFICES ASSUME e \notin EnvsOf(batch) PROVE FALSE
      OBVIOUS
    <3>1. Len(batch) = PullLimit /\ rows[p][e].lamport > batch[PullLimit].lamport
      BY <2>3 DEF Exports
    <3> QED BY <1>2, <1>3, <1>5, <2>1, <3>1
  <2> QED BY <2>1, <2>2, <2>3
<1> QED BY <1>3, <1>4, <1>5 DEF Known, Covered

LEMMA FetchKeeps ==
    ASSUME PeerInv, NEW t \in Targets, NEW q \in Processes, Fetch(t, q)
    PROVE  PeerInv'
<1> DEFINE old == sync[t][q]
<1>1. /\ Store' /\ Grows /\ \A d \in Deployments : Opened(d)' = Opened(d)
  BY StoreRests DEF Fetch, PeerInv
<1>2. PICK batch \in SeqOf(Entries(t[2]), PullLimit) :
          /\ Exports(t[2], old.cursor, batch)
          /\ IF batch = <<>>
             THEN /\ Moved(t, old.cursor)
                  /\ sync' = [sync EXCEPT ![t][q] = Resting]
             ELSE /\ sync' = [sync EXCEPT ![t][q] = [@ EXCEPT !.stage = "insert", !.batch = batch]]
                  /\ UNCHANGED cursor
  BY DEF Fetch
<1>3. batch \in Seq(Entry)
  <2>1. Entries(t[2]) \subseteq Entry
    BY TargetEnds DEF Entries, Entry, Holds, PeerInv, Store, StoreTyped, Row
  <2>2. PICK m \in 0 .. PullLimit : batch \in [1 .. m -> Entries(t[2])]
    BY DEF SeqOf
  <2>3. m \in Nat
    BY PeerAssumption
  <2> QED BY <2>1, <2>2, <2>3
<1>4. /\ old \in Syncing /\ old.stage = "fetch" /\ old.new = {} /\ ReadKnown(t, old)
  BY DEF Fetch, PeerInv, SyncTyped, WritesOpen, Reading
<1>5. faults' \in [deletes : 0 .. MaxDeletes, failures : 0 .. MaxFailures]
  BY DEF Fetch, PeerInv, SyncTyped
<1>6. \A u \in Targets, r \in Processes : sync[u][r].new \subseteq Opened(u[1])'
  BY <1>1, TargetEnds DEF PeerInv, WritesOpen
<1>7. KnownNext(t, old.cursor, {})
  BY <1>1, <1>4, ReadStays DEF PeerInv, Store, ReadNext
<1>8. CASE batch = <<>>
  <2> DEFINE s == Resting
  <2>1. s \in Syncing /\ s.stage = "rest" /\ s.new = {} /\ ReadNext(t, s)
    BY <1>1, RestingKnown
  <2>2. sync' = [sync EXCEPT ![t][q] = s] /\ Moved(t, old.cursor)
    BY <1>2, <1>8
  <2> HIDE DEF s
  <2>3. SyncTo(t, q, s) /\ sync' \in [Targets -> [Processes -> Syncing]]
    BY <2>1, <2>2 DEF SyncTo, PeerInv, SyncTyped
  <2>4. /\ cursor' \in [Targets -> Nat]
        /\ KnownNext(t, cursor'[t], {})
        /\ \A u \in Targets \ {t} : cursor'[u] = cursor[u]
    BY <1>1, <1>7, <2>2, CursorMoves DEF PeerInv, Store
  <2>5. WritesRest(t, q, s)
    BY <1>6, <2>1 DEF WritesRest
  <2> HIDE DEF old
  <2> QED BY <1>1, <1>5, <2>1, <2>3, <2>4, <2>5, SyncKeeps
<1>9. CASE batch # <<>>
  <2> DEFINE s == [old EXCEPT !.stage = "insert", !.batch = batch]
  <2>1. sync' = [sync EXCEPT ![t][q] = s] /\ UNCHANGED cursor
    BY <1>2, <1>9
  <2>2. /\ s \in Syncing /\ s.stage = "insert" /\ s.batch = batch /\ s.cursor = old.cursor
        /\ s.new = {}
    BY <1>3, <1>4 DEF Syncing
  <2> HIDE DEF s
  <2>3. SyncTo(t, q, s) /\ sync' \in [Targets -> [Processes -> Syncing]]
    BY <2>1, <2>2 DEF SyncTo, PeerInv, SyncTyped
  <2>4. /\ cursor' \in [Targets -> Nat] /\ KnownNext(t, cursor'[t], {})
        /\ \A u \in Targets \ {t} : cursor'[u] = cursor[u]
    BY <1>1, <2>1, CursorStays
  <2>5. Known(t, Last(batch).lamport, EnvsOf(batch))
    BY <1>2, <1>3, <1>4, <1>9, ExportKnows DEF PeerInv, ReadKnown
  <2>6. KnownNext(t, Last(batch).lamport, EnvsOf(batch))
    BY <1>1, <2>5, KnownStays DEF PeerInv, Store
  <2>7. ReadNext(t, s)
    BY <1>7, <1>9, <2>2, <2>6 DEF ReadNext
  <2>8. WritesRest(t, q, s)
    BY <1>6, <2>2 DEF WritesRest
  <2> QED BY <1>1, <1>5, <2>2, <2>3, <2>4, <2>7, <2>8, SyncKeeps
<1> QED BY <1>8, <1>9

LEMMA EnvsIn == ASSUME NEW batch \in Seq(Entry) PROVE EnvsOf(batch) \subseteq Envelopes
<1>1. \A i \in DOMAIN batch : batch[i] \in Entry
  OBVIOUS
<1>2. \A x \in Entry : x.env \in Envelopes
  BY DEF Entry
<1> QED BY <1>1, <1>2 DEF EnvsOf

LEMMA InsertKeeps ==
    ASSUME PeerInv, NEW t \in Targets, NEW q \in Processes, Insert(t, q)
    PROVE  PeerInv'
<1> DEFINE old == sync[t][q]
           d == t[1]
           batch == old.batch
           new == EnvsOf(batch) \ Holds(d)
           at == [e \in new |-> CHOOSE i \in DOMAIN batch : batch[i].env = e]
           s == [old EXCEPT !.stage = "commit", !.new = new]
<1>1. /\ old \in Syncing /\ old.stage = "insert" /\ ReadKnown(t, old) /\ d \in Deployments
      /\ batch \in Seq(Entry)
  BY TargetEnds DEF Insert, PeerInv, SyncTyped, Syncing, Reading
<1>2. new \subseteq Envelopes /\ new \cap (Holds(d) \cup Opened(d)) = {}
  <2>1. EnvsOf(batch) \subseteq Envelopes
    BY <1>1, EnvsIn
  <2>2. new \cap Opened(d) = {}
    BY DEF Insert
  <2> QED BY <2>1, <2>2
<1>3. \A e \in new : at[e] \in DOMAIN batch /\ batch[at[e]].env = e
  <2> SUFFICES ASSUME NEW e \in new PROVE at[e] \in DOMAIN batch /\ batch[at[e]].env = e
    OBVIOUS
  <2>1. \E i \in DOMAIN batch : batch[i].env = e
    BY DEF EnvsOf
  <2>2. at[e] = CHOOSE i \in DOMAIN batch : batch[i].env = e
    OBVIOUS
  <2> HIDE DEF at, new, batch
  <2> QED BY <2>1, <2>2
<1>4. /\ Len(batch) \in Nat /\ \A e \in new : at[e] \in 1 .. Len(batch)
      /\ \A e, f \in new : e # f => at[e] # at[f]
  <2>1. Len(batch) \in Nat /\ DOMAIN batch = 1 .. Len(batch)
    BY <1>1
  <2> HIDE DEF at, new, batch
  <2>2. \A e \in new : at[e] \in 1 .. Len(batch)
    BY <1>3, <2>1
  <2>3. \A e, f \in new : e # f => at[e] # at[f]
    BY <1>3, Zenon
  <2> QED BY <2>1, <2>2, <2>3
<1>5. /\ seq' = [seq EXCEPT ![d] = seq[d] + Len(batch)]
      /\ open' = [open EXCEPT ![d] =
                      [e \in Envelopes |-> IF e \in new THEN seq[d] + at[e] ELSE open[d][e]]]
      /\ UNCHANGED <<rows, mark, cursor, overtaken, faults>>
      /\ sync' = [sync EXCEPT ![t][q] = s]
  BY <1>1 DEF Insert, PeerInv, Store, StoreTyped
<1>6. /\ s \in Syncing /\ s.stage = "commit" /\ s.batch = batch /\ s.cursor = old.cursor
      /\ s.new = new
  BY <1>1, <1>2 DEF Syncing
<1> HIDE DEF s, at, new
<1>7. /\ Store' /\ Grows /\ Opened(d)' = Opened(d) \cup new
  <2>1. \A e \in new : at[e] \in Nat /\ seq[d] + at[e] \in Nat
    BY <1>1, <1>4 DEF PeerInv, Store, StoreTyped
  <2>2. [e \in Envelopes |-> IF e \in new THEN seq[d] + at[e] ELSE open[d][e]] \in [Envelopes -> Nat]
    BY <1>1, <2>1 DEF PeerInv, Store, StoreTyped
  <2>3. /\ open' \in [Deployments -> [Envelopes -> Nat]]
        /\ \A o \in Deployments \ {d} : open'[o] = open[o]
        /\ \A e \in new : open'[d][e] = seq[d] + at[e]
        /\ \A e \in Envelopes \ new : open'[d][e] = open[d][e]
    BY <1>1, <1>2, <1>5, <2>2 DEF PeerInv, Store, StoreTyped
  <2>4. seq' = [seq EXCEPT ![d] = seq[d] + Len(batch)] /\ UNCHANGED <<rows, mark, overtaken>>
    BY <1>5
  <2> QED BY <1>1, <1>2, <1>4, <2>3, <2>4, OpenStores DEF PeerInv
<1>8. \A o \in Deployments : Opened(o) \subseteq Opened(o)'
  <2>1. \A o \in Deployments \ {d} : open'[o] = open[o]
    BY <1>5 DEF PeerInv, Store, StoreTyped
  <2> QED BY <1>7, <2>1 DEF Opened
<1>9. SyncTo(t, q, s) /\ sync' \in [Targets -> [Processes -> Syncing]]
  BY <1>5, <1>6 DEF SyncTo, PeerInv, SyncTyped
<1>10. /\ cursor' \in [Targets -> Nat] /\ KnownNext(t, cursor'[t], {})
       /\ \A u \in Targets \ {t} : cursor'[u] = cursor[u]
  BY <1>5, <1>7, CursorStays
<1>11. ReadNext(t, s)
  <2>1. ReadNext(t, old)
    BY <1>1, <1>7, ReadStays DEF PeerInv, Store
  <2>2. EnvsOf(batch) \subseteq Holds(d)' \cup new
    BY <1>1, <1>7 DEF Grows, new
  <2> QED BY <1>1, <1>6, <2>1, <2>2 DEF ReadNext
<1>12. s.new \subseteq Opened(d)'
  BY <1>6, <1>7
<1>13. \A u \in Targets, r \in Processes :
           /\ sync[u][r].new \subseteq Opened(u[1])'
           /\ u[1] = d => s.new \cap sync[u][r].new = {}
  BY <1>2, <1>6, <1>8, TargetEnds DEF PeerInv, WritesOpen
<1>14. faults' \in [deletes : 0 .. MaxDeletes, failures : 0 .. MaxFailures]
  BY <1>5 DEF PeerInv, SyncTyped
<1>15. WritesRest(t, q, s)
  BY <1>6, <1>12, <1>13 DEF WritesRest
<1>16. s \in Syncing /\ Store' /\ Grows
  BY <1>6, <1>7
<1> QED BY <1>9, <1>10, <1>11, <1>14, <1>15, <1>16, SyncKeeps

\* What a sync closes is its own: the writes of the others stay open.
LEMMA OthersStayOpen ==
    ASSUME PeerInv, NEW t \in Targets, NEW q \in Processes, Closes(t[1], sync[t][q].new),
           NEW u \in Targets, NEW r \in Processes, u # t \/ r # q
    PROVE  sync[u][r].new \subseteq Opened(u[1])'
<1> DEFINE d == t[1]
           N == sync[t][q].new
           M == sync[u][r].new
<1>1. /\ M \subseteq Opened(u[1]) /\ (u[1] = d => M \cap N = {})
      /\ d \in Deployments /\ u[1] \in Deployments
  BY TargetEnds DEF PeerInv, WritesOpen
<1> HIDE DEF N, M
<1>2. \A e \in M : open'[u[1]][e] = open[u[1]][e]
  BY <1>1 DEF Closes, Opened, N
<1> QED BY <1>1, <1>2 DEF Opened, M

LEMMA FailKeeps ==
    ASSUME PeerInv, NEW t \in Targets, NEW q \in Processes, Fail(t, q)
    PROVE  PeerInv'
<1> DEFINE d == t[1]
           N == sync[t][q].new
           s == Resting
<1>1. d \in Deployments /\ sync' = [sync EXCEPT ![t][q] = s]
      /\ UNCHANGED <<seq, rows, mark, cursor, overtaken>>
  BY TargetEnds DEF Fail
<1>2. Closes(d, N)
  BY <1>1 DEF Fail, Closes, PeerInv, Store, StoreTyped
<1>3. Store' /\ Grows
  BY <1>1, <1>2, CloseStores DEF PeerInv
<1>4. s \in Syncing /\ s.stage = "rest" /\ s.new = {} /\ ReadNext(t, s)
  BY <1>3, RestingKnown
<1>5. faults' \in [deletes : 0 .. MaxDeletes, failures : 0 .. MaxFailures]
  <2>1. faults.failures \in 0 .. MaxFailures /\ faults.failures < MaxFailures /\ MaxFailures \in Nat
    BY PeerAssumption DEF Fail, PeerInv, SyncTyped
  <2>2. faults.failures + 1 \in 0 .. MaxFailures
    BY <2>1
  <2> QED BY <2>2 DEF Fail, PeerInv, SyncTyped
<1> HIDE DEF s
<1>6. SyncTo(t, q, s) /\ sync' \in [Targets -> [Processes -> Syncing]]
  BY <1>1, <1>4 DEF SyncTo, PeerInv, SyncTyped
<1>7. /\ cursor' \in [Targets -> Nat] /\ KnownNext(t, cursor'[t], {})
      /\ \A u \in Targets \ {t} : cursor'[u] = cursor[u]
  BY <1>1, <1>3, CursorStays
<1>8. ASSUME NEW u \in Targets, NEW r \in Processes, u # t \/ r # q
      PROVE  sync[u][r].new \subseteq Opened(u[1])' /\ s.new \cap sync[u][r].new = {}
  BY <1>2, <1>4, <1>8, OthersStayOpen
<1>9. WritesRest(t, q, s)
  BY <1>4, <1>8 DEF WritesRest
<1> QED BY <1>3, <1>4, <1>5, <1>6, <1>7, <1>9, SyncKeeps

LEMMA FetchingNext ==
    ASSUME NEW c \in Nat, NEW n \in Nat
    PROVE  LET f == [Resting EXCEPT !.stage = "fetch", !.cursor = c, !.rounds = n]
           IN  f \in Syncing /\ f.stage = "fetch" /\ f.new = {} /\ f.cursor = c
<1>1. /\ Resting \in Syncing /\ Resting.new = {}
  BY DEF Resting, Syncing
<1> QED BY <1>1 DEF Syncing

LEMMA CommitKeeps ==
    ASSUME PeerInv, NEW t \in Targets, NEW q \in Processes, Commit(t, q)
    PROVE  PeerInv'
<1> DEFINE d == t[1]
           old == sync[t][q]
           N == old.new
           own == {open[d][e] : e \in N}
           last == Larger(old.cursor, Last(old.batch).lamport)
           more == last > old.cursor /\ Len(old.batch) = PullLimit /\ old.rounds + 1 < MaxBatches
           s == IF more THEN [Resting EXCEPT !.stage = "fetch", !.cursor = last,
                                             !.rounds = old.rounds + 1]
                ELSE Resting
<1>1. /\ d \in Deployments /\ old \in Syncing /\ old.stage = "commit" /\ ReadKnown(t, old)
      /\ N \subseteq Opened(d)
  BY TargetEnds DEF Commit, PeerInv, SyncTyped, Reading, WritesOpen
<1>2. /\ sync' = [sync EXCEPT ![t][q] = s] /\ Moved(t, last) /\ UNCHANGED <<seq, faults>>
      /\ IF own = {} THEN UNCHANGED <<mark, overtaken>>
         ELSE Marked(d, Max(own)) /\ Passes(d, Max(own), N)
  BY DEF Commit
<1>3. Closes(d, N)
  BY <1>1 DEF Commit, Closes, PeerInv, Store, StoreTyped
<1>4. Lands(d, N)
  <2>1. \A e \in Envelopes : rows[d][e] \in Row
                              /\ [lamport |-> open[d][e], deleted |-> FALSE] \in Row
    BY <1>1 DEF PeerInv, Store, StoreTyped, Row
  <2>2. \A e \in N : e \in Envelopes
    BY <1>1 DEF Opened
  <2> QED BY <1>1, <2>1, <2>2 DEF Commit, Lands, PeerInv, Store, StoreTyped
<1> HIDE DEF old, N, last, s
<1>5. Store' /\ Grows
  <2>1. CASE N = {}
    <3>1. own = {}
      BY <2>1
    <3>2. UNCHANGED <<seq, mark, overtaken>>
      BY <1>2, <3>1
    <3>3. \A e \in Envelopes : rows'[d][e] = rows[d][e] /\ open'[d][e] = open[d][e]
      BY <1>3, <1>4, <2>1 DEF Lands, Closes
    <3>4. rows'[d] = rows[d] /\ open'[d] = open[d]
      BY <1>1, <1>3, <1>4, <3>3 DEF Lands, Closes, PeerInv, Store, StoreTyped
    <3>5. rows' = rows /\ open' = open
      BY <1>1, <1>3, <1>4, <3>4 DEF Lands, Closes, PeerInv, Store, StoreTyped
    <3> QED BY <3>2, <3>5, StoreRests DEF PeerInv
  <2>2. CASE N # {}
    <3>1. own # {} /\ own \subseteq Nat /\ \A n \in own : n <= seq[d]
      BY <1>1, <2>2 DEF PeerInv, Store, StoreTyped, Stored, Opened
    <3>2. seq[d] \in Nat
      BY <1>1 DEF PeerInv, Store, StoreTyped
    <3> HIDE DEF own
    <3>3. Max(own) \in own /\ \A n \in own : n <= Max(own)
      BY <3>1, <3>2, MaxExists
    <3>4. PICK m \in N : Max(own) = open[d][m]
      BY <3>3 DEF own
    <3>5. \A e \in N : open[d][e] <= open[d][m]
      BY <3>3, <3>4 DEF own
    <3>6. Marked(d, open[d][m]) /\ Passes(d, open[d][m], N) /\ seq' = seq
      BY <1>2, <3>1, <3>4
    <3> QED BY <1>1, <1>3, <1>4, <3>5, <3>6, CommitStores DEF PeerInv
  <2> QED BY <2>1, <2>2
<1>6. N \subseteq Holds(d)'
  BY <1>1, <1>4 DEF Lands, Holds, Opened
<1>7. KnownNext(t, last, {})
  <2>1. /\ KnownNext(t, old.cursor, {}) /\ KnownNext(t, Last(old.batch).lamport, EnvsOf(old.batch))
        /\ EnvsOf(old.batch) \subseteq Holds(d)' \cup N
    BY <1>1, <1>5, ReadStays DEF PeerInv, Store, ReadNext, N
  <2>2. EnvsOf(old.batch) \subseteq Holds(d)'
    BY <1>6, <2>1
  <2>3. KnownNext(t, Last(old.batch).lamport, {})
    BY <2>1, <2>2 DEF KnownNext
  <2>4. last \in {old.cursor, Last(old.batch).lamport}
    BY <2>1, LargerIs DEF KnownNext, last
  <2> QED BY <2>1, <2>3, <2>4
<1>8. s \in Syncing /\ s.stage \in {"rest", "fetch"} /\ s.new = {} /\ KnownNext(t, s.cursor, {})
  <2>1. CASE more
    <3>1. last \in Nat /\ old.rounds + 1 \in Nat
      BY <1>1, <1>7 DEF KnownNext, Syncing
    <3>2. LET f == [Resting EXCEPT !.stage = "fetch", !.cursor = last, !.rounds = old.rounds + 1]
          IN  f \in Syncing /\ f.stage = "fetch" /\ f.new = {} /\ f.cursor = last
      BY <3>1, FetchingNext
    <3> QED BY <1>7, <2>1, <3>2 DEF s
  <2>2. CASE ~more
    BY <1>5, <2>2, RestingKnown DEF s, ReadNext
  <2> QED BY <2>1, <2>2
<1>9. ReadNext(t, s)
  BY <1>8 DEF ReadNext
<1>10. SyncTo(t, q, s) /\ sync' \in [Targets -> [Processes -> Syncing]]
  BY <1>2, <1>8 DEF SyncTo, PeerInv, SyncTyped
<1>11. /\ cursor' \in [Targets -> Nat] /\ KnownNext(t, cursor'[t], {})
       /\ \A u \in Targets \ {t} : cursor'[u] = cursor[u]
  BY <1>2, <1>5, <1>7, CursorMoves DEF PeerInv, Store
<1>12. ASSUME NEW u \in Targets, NEW r \in Processes, u # t \/ r # q
       PROVE  sync[u][r].new \subseteq Opened(u[1])' /\ s.new \cap sync[u][r].new = {}
  BY <1>3, <1>8, <1>12, OthersStayOpen DEF N, old
<1>13. faults' \in [deletes : 0 .. MaxDeletes, failures : 0 .. MaxFailures]
  BY <1>2 DEF PeerInv, SyncTyped
<1>14. WritesRest(t, q, s)
  BY <1>8, <1>12 DEF WritesRest
<1>15. s \in Syncing /\ Store' /\ Grows
  BY <1>5, <1>8
<1> QED BY <1>9, <1>10, <1>11, <1>13, <1>14, <1>15, SyncKeeps

-----------------------------------------------------------------------------
LEMMA NextKeeps == ASSUME PeerInv, [Next]_vars PROVE PeerInv'
<1>1. ASSUME NEW d \in Deployments, NEW e \in Envelopes,
             BeginPost(d, e) \/ CommitPost(d, e) \/ Tombstone(d, e)
      PROVE  PeerInv'
  BY <1>1, BeginPostKeeps, CommitPostKeeps, TombstoneKeeps
<1>2. ASSUME NEW t \in Targets, NEW q \in Processes,
             Start(t, q) \/ Fetch(t, q) \/ Insert(t, q) \/ Commit(t, q) \/ Fail(t, q)
      PROVE  PeerInv'
  BY <1>2, StartKeeps, FetchKeeps, InsertKeeps, CommitKeeps, FailKeeps
<1>3. CASE UNCHANGED vars
  <2>1. UNCHANGED vars
    BY <1>3
  <2>2. Store'
    BY <2>1 DEF vars, PeerInv, Store, StoreTyped, Stored, Holds, Opened
  <2>3. SyncTyped'
    BY <2>1 DEF vars, PeerInv, SyncTyped
  <2>4. WritesOpen'
    BY <2>1 DEF vars, PeerInv, WritesOpen, Opened
  <2>5. Reading'
    BY <2>1 DEF vars, PeerInv, Reading, Known, Covered, ReadKnown, Holds, Opened
  <2> QED BY <2>2, <2>3, <2>4, <2>5 DEF PeerInv
<1> QED BY <1>1, <1>2, <1>3 DEF Next

\* What a peer has at or below a cursor was imported, but for what a larger lamport overtook
\* there, whatever failed and however many processes synced the same target; and a reader who
\* is told the watermark has nothing beyond it.
THEOREM PeersSkipNothing == Spec => []NothingSkipped
<1>1. Init => PeerInv
  BY InitInv
<1>2. PeerInv /\ [Next]_vars => PeerInv'
  BY NextKeeps
<1>3. PeerInv => NothingSkipped
  BY InvGives
<1> QED BY <1>1, <1>2, <1>3, PTL DEF Spec

-----------------------------------------------------------------------------
(* The page: events in the order of their lamports. *)

\* How many of a set come before an event.
Rank(S, v) == Cardinality({w \in S : w.lamport < v.lamport})

\* Events with lamports of their own, all up to n.
Dated(S, n) ==
    /\ S \subseteq Feed!Events
    /\ \A v, w \in S : v.lamport = w.lamport => v = w
    /\ \A v \in S : v.lamport <= n

LEMMA DatedIsFinite == ASSUME NEW n \in Nat, NEW S, Dated(S, n) PROVE IsFiniteSet(S)
<1> DEFINE f == [v \in S |-> v.lamport]
<1>1. \A v \in S : v.lamport \in 0 .. n
  BY DEF Dated, Feed!Events
<1>2. f \in Injection(S, 0 .. n)
  BY <1>1 DEF Injection, IsInjective, Dated
<1>3. IsFiniteSet(0 .. n)
  BY FS_Interval
<1> QED BY <1>2, <1>3, FS_Injection

\* Each event has a rank of its own, every rank is taken, and ranks follow lamports.
LEMMA RanksAreDense ==
  ASSUME NEW n \in Nat, NEW S, Dated(S, n)
  PROVE  /\ \A v \in S : Rank(S, v) \in 0 .. Cardinality(S) - 1
         /\ \A v, w \in S : v.lamport < w.lamport => Rank(S, v) < Rank(S, w)
         /\ \A k \in 0 .. Cardinality(S) - 1 : \E v \in S : Rank(S, v) = k
<1> DEFINE Before(v) == {w \in S : w.lamport < v.lamport}
           T == 0 .. Cardinality(S) - 1
           f == [v \in S |-> Rank(S, v)]
<1>1. IsFiniteSet(S) /\ Cardinality(S) \in Nat
  BY DatedIsFinite, FS_CardinalityType
<1>2. \A v \in S : v.lamport \in Nat
  BY DEF Dated, Feed!Events
<1>3. ASSUME NEW v \in S PROVE Rank(S, v) \in T
  <2>1. Before(v) \in SUBSET (S \ {v}) /\ IsFiniteSet(S \ {v}) /\ Cardinality(S \ {v}) = Cardinality(S) - 1
    BY <1>1, <1>2, <1>3, FS_RemoveElement
  <2>2. IsFiniteSet(Before(v)) /\ Cardinality(Before(v)) <= Cardinality(S) - 1
    BY <2>1, FS_Subset
  <2>3. Cardinality(Before(v)) \in Nat
    BY <2>2, FS_CardinalityType
  <2> QED BY <1>1, <2>2, <2>3 DEF Rank
<1>4. ASSUME NEW v \in S, NEW w \in S, v.lamport < w.lamport PROVE Rank(S, v) < Rank(S, w)
  <2>1. Before(v) \in SUBSET Before(w) /\ v \in Before(w) /\ v \notin Before(v)
    BY <1>2, <1>4
  <2>2. IsFiniteSet(Before(w)) /\ IsFiniteSet(Before(v))
    BY <1>1, FS_Subset
  <2>3. Cardinality(Before(v)) <= Cardinality(Before(w)) /\ Cardinality(Before(v)) # Cardinality(Before(w))
    BY <2>1, <2>2, FS_Subset
  <2>4. Cardinality(Before(v)) \in Nat /\ Cardinality(Before(w)) \in Nat
    BY <2>2, FS_CardinalityType
  <2> QED BY <2>3, <2>4 DEF Rank
<1>5. f \in Injection(S, T)
  <2>1. ASSUME NEW v \in S, NEW w \in S, f[v] = f[w] PROVE v = w
    <3>1. ~(v.lamport < w.lamport) /\ ~(w.lamport < v.lamport)
      BY <1>3, <1>4, <2>1
    <3> QED BY <1>2, <3>1 DEF Dated
  <2> QED BY <1>3, <2>1 DEF Injection, IsInjective
<1>6. IsFiniteSet(T) /\ Cardinality(T) = Cardinality(S)
  <2>1. 0 \in Int /\ Cardinality(S) - 1 \in Int
    BY <1>1
  <2> QED BY <1>1, <2>1, FS_Interval
<1>7. f \in Surjection(S, T)
  BY <1>5, <1>6, FS_Injection
<1>8. \A k \in T : \E v \in S : Rank(S, v) = k
  BY <1>7 DEF Surjection
<1> QED BY <1>3, <1>4, <1>8

\* ByLamport lists a set once and in order: what is not newer than an event comes no later.
LEMMA ByLamportSorts ==
  ASSUME NEW n \in Nat, NEW S, Dated(S, n)
  PROVE  LET q == Feed!ByLamport(S) IN
         /\ q \in Seq(Feed!Events) /\ Len(q) = Cardinality(S) /\ Cardinality(S) \in Nat
         /\ \A i \in DOMAIN q : q[i] \in S
         /\ \A v \in S : \E i \in DOMAIN q : q[i] = v
         /\ \A v \in S, i \in DOMAIN q : v.lamport <= q[i].lamport => \E j \in 1 .. i : q[j] = v
<1> DEFINE q == Feed!ByLamport(S)
           N == Cardinality(S)
<1>1. N \in Nat
  BY DatedIsFinite, FS_CardinalityType
<1>2. q = [i \in 1 .. N |-> CHOOSE v \in S : Rank(S, v) = i - 1]
  BY DEF Feed!ByLamport, Rank, Feed!Cardinality, Cardinality
<1>3. \A i \in 1 .. N : q[i] \in S /\ Rank(S, q[i]) = i - 1
  <2> SUFFICES ASSUME NEW i \in 1 .. N PROVE q[i] \in S /\ Rank(S, q[i]) = i - 1
    OBVIOUS
  <2>1. i - 1 \in 0 .. N - 1
    BY <1>1
  <2>2. \E v \in S : Rank(S, v) = i - 1
    BY <2>1, RanksAreDense
  <2> QED BY <1>2, <2>2
<1>4. \A v \in S : v.lamport \in Nat
  BY DEF Dated, Feed!Events
<1>5. \A v, w \in S : Rank(S, v) = Rank(S, w) => v = w
  <2> SUFFICES ASSUME NEW v \in S, NEW w \in S, Rank(S, v) = Rank(S, w) PROVE v = w
    OBVIOUS
  <2>1. Rank(S, v) \in 0 .. N - 1 /\ ~(v.lamport < w.lamport) /\ ~(w.lamport < v.lamport)
    BY <1>1, RanksAreDense
  <2> QED BY <1>4, <2>1 DEF Dated
<1>6. ASSUME NEW v \in S PROVE Rank(S, v) + 1 \in 1 .. N /\ q[Rank(S, v) + 1] = v
  <2>1. Rank(S, v) \in 0 .. N - 1
    BY RanksAreDense
  <2>2. Rank(S, v) + 1 \in 1 .. N /\ (Rank(S, v) + 1) - 1 = Rank(S, v)
    BY <1>1, <2>1
  <2>3. q[Rank(S, v) + 1] \in S /\ Rank(S, q[Rank(S, v) + 1]) = Rank(S, v)
    BY <1>3, <2>2
  <2> QED BY <1>5, <2>2, <2>3
<1>7. ASSUME NEW v \in S, NEW i \in 1 .. N, v.lamport <= q[i].lamport PROVE Rank(S, v) + 1 <= i
  <2>1. v.lamport < q[i].lamport \/ v = q[i]
    BY <1>3, <1>4, <1>7 DEF Dated
  <2>2. Rank(S, v) <= Rank(S, q[i]) /\ Rank(S, v) \in Nat
    BY <1>1, <1>3, <2>1, RanksAreDense
  <2> QED BY <1>3, <2>2
<1>8. DOMAIN q = 1 .. N /\ q \in Seq(Feed!Events) /\ Len(q) = N
  <2>1. \A i \in 1 .. N : q[i] \in Feed!Events
    BY <1>3 DEF Dated
  <2>2. q = [i \in 1 .. N |-> q[i]]
    BY <1>2
  <2> HIDE DEF q
  <2> QED BY <1>1, <2>1, <2>2
<1>9. \A v \in S : \E i \in DOMAIN q : q[i] = v
  BY <1>6, <1>8
<1>10. \A v \in S, i \in DOMAIN q : v.lamport <= q[i].lamport => \E j \in 1 .. i : q[j] = v
  <2> SUFFICES ASSUME NEW v \in S, NEW i \in 1 .. N, v.lamport <= q[i].lamport
               PROVE  \E j \in 1 .. i : q[j] = v
    BY <1>8
  <2>1. Rank(S, v) + 1 \in 1 .. i
    BY <1>1, <1>6, <1>7
  <2> QED BY <1>6, <2>1
<1> HIDE DEF q
<1> QED BY <1>1, <1>3, <1>8, <1>9, <1>10 DEF q

-----------------------------------------------------------------------------
(* The page: what is appended to a list, and what is refreshed. *)

EventsOf(s) == {s[i] : i \in DOMAIN s}

Once(l) == \A i, j \in DOMAIN l : l[i].env = l[j].env => i = j

LEMMA UpsertKeeps ==
  ASSUME NEW l \in Seq(Feed!Events), NEW v \in Feed!Events, Once(l)
  PROVE  LET m == Feed!Upsert(l, v) IN
         /\ m \in Seq(Feed!Events) /\ Once(m)
         /\ EventsOf(m) \subseteq EventsOf(l) \cup {v}
         /\ Feed!EnvsOf(m) = Feed!EnvsOf(l) \cup {v.env}
         /\ Feed!CursorOf(m) \in {Feed!CursorOf(l), v.lamport}
<1> DEFINE m == Feed!Upsert(l, v)
           E == Feed!Events
<1>1. \A i \in DOMAIN l : l[i] \in E
  OBVIOUS
<1>2. Len(l) \in Nat /\ DOMAIN l = 1 .. Len(l)
  OBVIOUS
<1>3. CASE \E i \in DOMAIN l : l[i].env = v.env
  <2>1. m = [i \in DOMAIN l |-> IF l[i].env = v.env THEN v ELSE l[i]]
    BY <1>3 DEF Feed!Upsert
  <2>2. DOMAIN m = DOMAIN l /\ \A i \in DOMAIN l : m[i].env = l[i].env /\ m[i] \in {l[i], v}
    BY <2>1
  <2>3. m \in Seq(E) /\ Len(m) = Len(l)
    BY <1>1, <1>2, <2>1
  <2> HIDE DEF m
  <2>4. Once(m) /\ EventsOf(m) \subseteq EventsOf(l) \cup {v}
    BY <2>2 DEF Once, EventsOf
  <2>5. Feed!EnvsOf(m) = Feed!EnvsOf(l)
    BY <2>2 DEF Feed!EnvsOf
  <2>6. v.env \in Feed!EnvsOf(l)
    BY <1>3 DEF Feed!EnvsOf
  <2>7. m # <<>> /\ l # <<>> /\ Len(l) \in DOMAIN l
    BY <1>2, <1>3, <2>2
  <2>8. Feed!CursorOf(m) \in {Feed!CursorOf(l), v.lamport}
    BY <2>2, <2>3, <2>7 DEF Feed!CursorOf
  <2> QED BY <2>3, <2>4, <2>5, <2>6, <2>8 DEF m
<1>4. CASE ~ \E i \in DOMAIN l : l[i].env = v.env
  <2>1. m = Append(l, v)
    BY <1>4 DEF Feed!Upsert
  <2>2. /\ m \in Seq(E) /\ Len(m) = Len(l) + 1 /\ DOMAIN m = 1 .. Len(l) + 1
        /\ m[Len(l) + 1] = v /\ \A i \in DOMAIN l : m[i] = l[i]
    BY <1>2, <2>1
  <2> HIDE DEF m
  <2>3. \A i \in DOMAIN m : i \in DOMAIN l \/ i = Len(l) + 1
    BY <1>2, <2>2
  <2>4. Once(m)
    BY <1>4, <2>2, <2>3 DEF Once
  <2>5. EventsOf(m) \subseteq EventsOf(l) \cup {v}
    BY <2>2, <2>3 DEF EventsOf
  <2>6. Feed!EnvsOf(m) = Feed!EnvsOf(l) \cup {v.env}
    <3>1. DOMAIN l \subseteq DOMAIN m /\ Len(l) + 1 \in DOMAIN m
      BY <1>2, <2>2
    <3> QED BY <2>2, <2>3, <3>1 DEF Feed!EnvsOf
  <2>7. Feed!CursorOf(m) = v.lamport
    BY <1>2, <2>2 DEF Feed!CursorOf
  <2> QED BY <2>2, <2>4, <2>5, <2>6, <2>7 DEF m
<1> QED BY <1>3, <1>4

\* Some of a set of naturals is the least.
LEMMA LeastOf == ASSUME NEW N, N \subseteq Nat, N # {} PROVE \E n \in N : \A m \in N : n <= m
<1>1. PICK n \in N : \A m \in N : <<m, n>> \notin OpToRel(<, Nat)
  BY NatLessThanWellFounded, WFMin
<1>2. \A m \in N : ~(m < n)
  BY <1>1 DEF OpToRel
<1> QED BY <1>2

LEMMA LargestOf ==
  ASSUME NEW n \in Nat, NEW N, N \subseteq 0 .. n, N # {} PROVE \E k \in N : \A m \in N : m <= k
<1> DEFINE D == {n - m : m \in N}
<1>1. D \subseteq Nat /\ D # {}
  <2>1. \A m \in N : m \in 0 .. n /\ n - m \in Nat
    OBVIOUS
  <2> QED BY <2>1
<1>2. PICK d \in D : \A c \in D : d <= c
  BY <1>1, LeastOf
<1>3. PICK k \in N : d = n - k
  OBVIOUS
<1>4. \A m \in N : n - k <= n - m
  BY <1>2, <1>3
<1>5. \A m \in N : m <= k
  BY <1>4
<1> QED BY <1>5

\* What a list is after k of some events: no message went, no event came from elsewhere, and
\* the last one is the one of before or one of the k.
Follows(l, s, k, m) ==
    /\ m \in Seq(Feed!Events) /\ Once(m)
    /\ EventsOf(m) \subseteq EventsOf(l) \cup EventsOf(s)
    /\ Feed!EnvsOf(l) \subseteq Feed!EnvsOf(m)
    /\ \A j \in 1 .. k : ~s[j].deleted => s[j].env \in Feed!EnvsOf(m)
    /\ Feed!CursorOf(m) = Feed!CursorOf(l) \/ \E j \in 1 .. k : Feed!CursorOf(m) = s[j].lamport

LEMMA FollowsOne ==
  ASSUME NEW l \in Seq(Feed!Events), NEW s \in Seq(Feed!Events), NEW k \in 1 .. Len(s),
         NEW m, Follows(l, s, k - 1, m)
  PROVE  Follows(l, s, k, IF s[k].deleted THEN m ELSE Feed!Upsert(m, s[k]))
<1>1. k \in DOMAIN s /\ s[k] \in Feed!Events /\ s[k] \in EventsOf(s) /\ 1 .. k = (1 .. k - 1) \cup {k}
  BY DEF EventsOf
<1>2. CASE s[k].deleted
  BY <1>1, <1>2 DEF Follows
<1>3. CASE ~s[k].deleted
  <2> DEFINE u == Feed!Upsert(m, s[k])
  <2>1. /\ u \in Seq(Feed!Events) /\ Once(u)
        /\ EventsOf(u) \subseteq EventsOf(m) \cup {s[k]}
        /\ Feed!EnvsOf(u) = Feed!EnvsOf(m) \cup {s[k].env}
        /\ Feed!CursorOf(u) \in {Feed!CursorOf(m), s[k].lamport}
    BY <1>1, UpsertKeeps DEF Follows
  <2> HIDE DEF u
  <2>2. Follows(l, s, k, u)
    BY <1>1, <2>1 DEF Follows
  <2> QED BY <1>3, <2>2 DEF u
<1> QED BY <1>2, <1>3

\* The lists after each of the events, one after the other.
Lists(l, s, k) ==
    {f \in [0 .. k -> Seq(Feed!Events)] :
        f = [n \in 0 .. k |->
                IF n = 0 THEN l ELSE IF s[n].deleted THEN f[n - 1] ELSE Feed!Upsert(f[n - 1], s[n])]}

LEMMA ListsExist ==
  ASSUME NEW l \in Seq(Feed!Events), NEW s \in Seq(Feed!Events), Once(l), NEW k \in 0 .. Len(s)
  PROVE  \E f \in Lists(l, s, k) : \A n \in 0 .. k : Follows(l, s, n, f[n])
<1> DEFINE P(n) == \E f \in Lists(l, s, n) : \A i \in 0 .. n : Follows(l, s, i, f[i])
           Bad == {n \in 0 .. Len(s) : ~P(n)}
<1>1. P(0)
  <2> DEFINE f == [n \in 0 .. 0 |-> l]
  <2>1. f \in Lists(l, s, 0)
    BY DEF Lists
  <2>2. Follows(l, s, 0, l)
    BY DEF Follows
  <2> QED BY <2>1, <2>2
<1>2. ASSUME NEW n \in 1 .. Len(s), P(n - 1) PROVE P(n)
  <2>1. PICK f \in Lists(l, s, n - 1) : \A i \in 0 .. n - 1 : Follows(l, s, i, f[i])
    BY <1>2
  <2> DEFINE u == IF s[n].deleted THEN f[n - 1] ELSE Feed!Upsert(f[n - 1], s[n])
             g == [i \in 0 .. n |-> IF i = n THEN u ELSE f[i]]
  <2>2. Follows(l, s, n, u)
    BY <2>1, FollowsOne
  <2>3. \A i \in 0 .. n : Follows(l, s, i, g[i])
    BY <2>1, <2>2
  <2>4. g \in [0 .. n -> Seq(Feed!Events)]
    BY <2>3 DEF Follows
  <2>5. f = [i \in 0 .. n - 1 |->
                IF i = 0 THEN l ELSE IF s[i].deleted THEN f[i - 1] ELSE Feed!Upsert(f[i - 1], s[i])]
    BY <2>1 DEF Lists
  <2>6. ASSUME NEW i \in 0 .. n
        PROVE  g[i] = IF i = 0 THEN l ELSE IF s[i].deleted THEN g[i - 1] ELSE Feed!Upsert(g[i - 1], s[i])
    <3>1. CASE i = n
      BY <3>1
    <3>2. CASE i = 0
      BY <2>5, <3>2
    <3>3. CASE i \in 1 .. n - 1
      <4>1. g[i] = f[i] /\ g[i - 1] = f[i - 1]
        BY <3>3
      <4>2. f[i] = IF s[i].deleted THEN f[i - 1] ELSE Feed!Upsert(f[i - 1], s[i])
        BY <2>5, <3>3
      <4> QED BY <3>3, <4>1, <4>2
    <3> QED BY <3>1, <3>2, <3>3
  <2>7. g \in Lists(l, s, n)
    <3> HIDE DEF g
    <3> QED BY <2>4, <2>6 DEF Lists
  <2> QED BY <2>3, <2>7
<1> HIDE DEF P
<1>3. Bad = {}
  <2> SUFFICES ASSUME Bad # {} PROVE FALSE
    OBVIOUS
  <2>1. Bad \subseteq Nat
    OBVIOUS
  <2>2. PICK n \in Bad : \A m \in Bad : n <= m
    BY <2>1, LeastOf
  <2>3. n # 0
    BY <1>1
  <2>4. P(n - 1)
    BY <2>2, <2>3
  <2> QED BY <1>2, <2>3, <2>4
<1>4. P(k)
  BY <1>3
<1> QED BY <1>4 DEF P

\* All that is said of a list and some events holds of what Appended makes of them.
LEMMA AppendedFollows ==
  ASSUME NEW l \in Seq(Feed!Events), NEW s \in Seq(Feed!Events), Once(l)
  PROVE  Follows(l, s, Len(s), Feed!Appended(l, s))
<1> DEFINE IsAfter(f) ==
             f = [n \in 0 .. Len(s) |->
                    IF n = 0 THEN l ELSE IF s[n].deleted THEN f[n - 1] ELSE Feed!Upsert(f[n - 1], s[n])]
           after == CHOOSE f : IsAfter(f)
<1>1. Feed!Appended(l, s) = after[Len(s)]
  BY DEF Feed!Appended
<1>2. Len(s) \in 0 .. Len(s)
  OBVIOUS
<1>3. PICK g \in Lists(l, s, Len(s)) : \A n \in 0 .. Len(s) : Follows(l, s, n, g[n])
  BY <1>2, ListsExist
<1>4. IsAfter(g)
  BY <1>3 DEF Lists
<1>5. IsAfter(after)
  BY <1>4
<1>6. \A f : IsAfter(f) => \A n \in 0 .. Len(s) : f[n] = g[n]
  <2> SUFFICES ASSUME NEW f, IsAfter(f), NEW b \in 0 .. Len(s), f[b] # g[b] PROVE FALSE
    OBVIOUS
  <2> DEFINE Bad == {n \in 0 .. Len(s) : f[n] # g[n]}
  <2>1. Bad \subseteq Nat /\ Bad # {}
    <3>1. Len(s) \in Nat /\ \A n \in Bad : n \in 0 .. Len(s)
      OBVIOUS
    <3>2. b \in Bad
      OBVIOUS
    <3> HIDE DEF Bad
    <3> QED BY <3>1, <3>2
  <2>2. PICK n \in Bad : \A m \in Bad : n <= m
    BY <2>1, LeastOf
  <2>3. f[n] = IF n = 0 THEN l ELSE IF s[n].deleted THEN f[n - 1] ELSE Feed!Upsert(f[n - 1], s[n])
    OBVIOUS
  <2>4. g[n] = IF n = 0 THEN l ELSE IF s[n].deleted THEN g[n - 1] ELSE Feed!Upsert(g[n - 1], s[n])
    BY <1>4
  <2>5. n # 0 => f[n - 1] = g[n - 1]
    <3>1. n # 0 => n - 1 \in 0 .. Len(s) /\ ~(n <= n - 1)
      OBVIOUS
    <3> QED BY <2>2, <3>1
  <2> QED BY <2>3, <2>4, <2>5
<1> QED BY <1>1, <1>2, <1>3, <1>5, <1>6

\* A refresh replaces events of the list by events of the same messages.
LEMMA RefreshedKeeps ==
  ASSUME NEW l \in Seq(Feed!Events), NEW s \in Seq(Feed!Events), NEW some, some \subseteq DOMAIN s,
         Once(l)
  PROVE  LET m == Feed!Refreshed(l, s, some) IN
         /\ m \in Seq(Feed!Events) /\ Once(m)
         /\ EventsOf(m) \subseteq EventsOf(l) \cup EventsOf(s)
         /\ Feed!EnvsOf(m) = Feed!EnvsOf(l)
<1> DEFINE m == Feed!Refreshed(l, s, some)
           Mine(i) == {n \in some : s[n].env = l[i].env}
           pick(i) == CHOOSE n \in Mine(i) : \A k \in Mine(i) : k <= n
<1>1. m = [i \in DOMAIN l |-> IF Mine(i) = {} THEN l[i] ELSE s[pick(i)]]
  BY DEF Feed!Refreshed
<1>2. ASSUME NEW i \in DOMAIN l, Mine(i) # {} PROVE pick(i) \in Mine(i)
  <2>1. Mine(i) \subseteq 0 .. Len(s) /\ Len(s) \in Nat
    OBVIOUS
  <2>2. \E n \in Mine(i) : \A k \in Mine(i) : k <= n
    BY <1>2, <2>1, LargestOf
  <2> QED BY <2>2
<1>3. \A i \in DOMAIN l : m[i].env = l[i].env /\ m[i] \in EventsOf(l) \cup EventsOf(s)
  BY <1>1, <1>2 DEF EventsOf
<1>4. EventsOf(l) \subseteq Feed!Events /\ EventsOf(s) \subseteq Feed!Events
  BY DEF EventsOf
<1>5. DOMAIN m = DOMAIN l /\ m \in Seq(Feed!Events)
  <2>1. m = [i \in 1 .. Len(l) |-> m[i]] /\ \A i \in 1 .. Len(l) : m[i] \in Feed!Events
    BY <1>1, <1>3, <1>4
  <2> HIDE DEF m
  <2> QED BY <2>1
<1> HIDE DEF m
<1>6. Once(m) /\ EventsOf(m) \subseteq EventsOf(l) \cup EventsOf(s) /\ Feed!EnvsOf(m) = Feed!EnvsOf(l)
  BY <1>3, <1>5 DEF Once, EventsOf, Feed!EnvsOf
<1> QED BY <1>5, <1>6 DEF m

-----------------------------------------------------------------------------
(* The page: the invariant.  Whatever the page has or is about to get is   *)
(* true of the table; what is still open is ahead of all of it, or was     *)
(* skipped; and what waits for the page has no gaps below it.              *)

\* What a page must not miss.
Wanted(e) == e \in Feed!Committed /\ ~messages[e].deleted /\ e \notin skipped

Ahead(n) == \A e \in Feed!Opened \ skipped : n < posting[e]

Table ==
    /\ \A e, f \in Feed!Opened : e # f => posting[e] # posting[f]
    /\ \A e \in Feed!Opened, f \in Envelopes : messages[f].lamport # posting[e]
    /\ \A f \in Envelopes : Ahead(messages[f].lamport)

\* An event is no newer than the table, and says what the table says of a message that stands.
Sound(v) ==
    /\ v.lamport <= lamports /\ Ahead(v.lamport)
    /\ v.env \in Feed!Committed
    /\ ~messages[v.env].deleted => v = Feed!RowOf(v.env)

\* Events that were announced and not yet seen by the page, and those that it has or awaits.
Coming == EventsOf(announce) \cup EventsOf(conn.buffer)
Arrived == EventsOf(conn.replay) \cup EventsOf(list) \cup EventsOf(engine.pushed)

AllSound == \A v \in Coming \cup Arrived : Sound(v)

ComingOnce ==
    /\ \A v, w \in Coming : v.lamport = w.lamport => v = w
    /\ \A v \in Coming, e \in Feed!Opened : v.lamport # posting[e]

\* What is announced after a larger lamport was overtaken.
LateSkipped ==
    /\ \A i, j \in DOMAIN announce :
        i < j /\ announce[j].lamport < announce[i].lamport => announce[j].env \in skipped
    /\ \A v \in EventsOf(announce), w \in EventsOf(conn.buffer) :
        v.lamport < w.lamport => v.env \in skipped

First(s, i) == {s[j].env : j \in 1 .. i}

NoGaps(s) ==
    \A i \in DOMAIN s, e \in Envelopes :
        Wanted(e) /\ messages[e].lamport <= s[i].lamport => e \in Feed!Listed \cup First(s, i)

\* What a connection will still bring: all that is newer than what it was asked for.
Brings ==
    /\ conn.after <= lamports /\ Ahead(conn.after)
    /\ conn.at \in {"attached", "read"} =>
        \A e \in Envelopes : Wanted(e) /\ messages[e].lamport <= conn.after => e \in Feed!Listed
    /\ conn.at = "read" =>
        \A e \in Envelopes : Wanted(e) =>
            e \in Feed!Listed \cup Feed!EnvsOf(conn.replay) \cup Feed!EnvsOf(conn.buffer)
                  \cup Feed!EnvsOf(announce)
    /\ conn.at = "live" =>
        \A e \in Envelopes : Wanted(e) =>
            e \in Feed!Listed \cup Feed!EnvsOf(engine.pushed) \cup Feed!EnvsOf(announce)
    /\ NoGaps(conn.replay)
    /\ conn.at # "read" => conn.replay = <<>>
    /\ conn.at \notin {"attached", "read"} => conn.buffer = <<>>

FeedInv ==
    /\ Feed!TypeOK /\ Feed!NothingElseMissed
    /\ Table /\ AllSound /\ ComingOnce /\ LateSkipped /\ NoGaps(engine.pushed) /\ Brings

LEMMA NothingFollowsNothing ==
  /\ EventsOf(<<>>) = {} /\ Feed!EnvsOf(<<>>) = {} /\ DOMAIN <<>> = {} /\ NoGaps(<<>>)
  BY DEF EventsOf, Feed!EnvsOf, NoGaps

LEMMA FeedInitInv == Feed!Init => FeedInv
<1> SUFFICES ASSUME Feed!Init PROVE FeedInv
  OBVIOUS
<1> USE NothingFollowsNothing
<1>1. /\ list = <<>> /\ announce = <<>> /\ engine.pushed = <<>> /\ conn.replay = <<>>
      /\ conn.buffer = <<>> /\ conn.after = 0 /\ conn.at = "closed" /\ lamports = 0 /\ skipped = {}
  BY DEF Feed!Init, Feed!Closed, Feed!Idle
<1>2. Feed!Committed = {} /\ Feed!Opened = {}
  BY DEF Feed!Init, Feed!Committed, Feed!Opened, Feed!Absent
<1>3. conn \in Feed!Connections /\ engine \in Feed!Engines
  <2>1. <<>> \in Seq(Feed!Events)
    OBVIOUS
  <2>2. \A mode \in {"ws", "sse"} : Feed!Closed(mode) \in Feed!Connections
    BY <2>1 DEF Feed!Closed, Feed!Connections
  <2>3. Feed!Idle \in Feed!Engines
    BY <2>1 DEF Feed!Idle, Feed!Engines
  <2> QED BY <2>2, <2>3 DEF Feed!Init
<1>4. Feed!TypeOK
  BY <1>1, <1>2, <1>3 DEF Feed!Init, Feed!TypeOK, Feed!Absent
<1>5. Feed!NothingElseMissed /\ Table
  BY <1>2 DEF Feed!NothingElseMissed, Table, Ahead, Feed!Init, Feed!Absent
<1>6. AllSound /\ ComingOnce /\ LateSkipped
  BY <1>1 DEF AllSound, ComingOnce, LateSkipped, Coming, Arrived
<1>7. NoGaps(engine.pushed) /\ Brings
  BY <1>1, <1>2 DEF Brings, Ahead
<1> QED BY <1>4, <1>5, <1>6, <1>7 DEF FeedInv

-----------------------------------------------------------------------------
(* The page: what the table as it is, or a larger set of what was skipped, *)
(* leaves true.                                                            *)

TableIsSame == UNCHANGED <<lamports, posting, messages>> /\ skipped \subseteq skipped'

LEMMA SameTableKeeps ==
  ASSUME FeedInv, TableIsSame, skipped' \subseteq Envelopes
  PROVE  /\ Table' /\ Feed!Committed' = Feed!Committed /\ Feed!Opened' = Feed!Opened
         /\ \A n : Ahead(n) => Ahead(n)'
         /\ \A v : Sound(v) => Sound(v)'
         /\ \A e : Wanted(e)' => Wanted(e)
         /\ \A e : Feed!RowOf(e)' = Feed!RowOf(e)
<1>1. Feed!Committed' = Feed!Committed /\ Feed!Opened' = Feed!Opened
  BY DEF TableIsSame, Feed!Committed, Feed!Opened
<1>2. \A n : Ahead(n) => Ahead(n)'
  BY <1>1 DEF TableIsSame, Ahead
<1>3. \A e : Feed!RowOf(e)' = Feed!RowOf(e)
  BY DEF TableIsSame, Feed!RowOf, Feed!Event
<1>4. \A v : Sound(v) => Sound(v)'
  BY <1>1, <1>2, <1>3 DEF TableIsSame, Sound
<1>5. \A e : Wanted(e)' => Wanted(e)
  BY <1>1 DEF TableIsSame, Wanted
<1>6. Table'
  BY <1>1, <1>2 DEF TableIsSame, Table, FeedInv
<1> QED BY <1>1, <1>2, <1>3, <1>4, <1>5, <1>6

\* A list that only grows leaves no gaps where there were none.
LEMMA SameTableNoGaps ==
  ASSUME FeedInv, TableIsSame, skipped' \subseteq Envelopes, Feed!Listed \subseteq Feed!Listed',
         NEW s, NoGaps(s)
  PROVE  NoGaps(s)'
<1>1. \A e : Wanted(e)' => Wanted(e)
  BY SameTableKeeps
<1> QED BY <1>1 DEF NoGaps, First, TableIsSame

\* The row of a message is a sound event.
LEMMA RowIsSound ==
  ASSUME FeedInv, NEW e \in Feed!Committed
  PROVE  /\ Sound(Feed!RowOf(e)) /\ Feed!RowOf(e) \in Feed!Events
         /\ Feed!RowOf(e).env = e /\ Feed!RowOf(e).lamport = messages[e].lamport
         /\ Feed!RowOf(e).deleted = messages[e].deleted
         /\ messages[e].lamport \in 1 .. lamports /\ e \in Envelopes
<1>1. e \in Envelopes /\ messages[e].lamport \in 1 .. lamports /\ messages[e].deleted \in BOOLEAN
  BY DEF FeedInv, Feed!TypeOK, Feed!Committed
<1>2. Feed!RowOf(e) = [env |-> e, lamport |-> messages[e].lamport, deleted |-> messages[e].deleted]
  BY DEF Feed!RowOf, Feed!Event
<1>3. Ahead(messages[e].lamport)
  BY <1>1 DEF FeedInv, Table
<1> QED BY <1>1, <1>2, <1>3 DEF Sound, Feed!Events, FeedInv, Feed!TypeOK

\* Everything that waits or was received is an event.
LEMMA EventsTyped ==
  ASSUME FeedInv
  PROVE  /\ announce \in Seq(Feed!Events) /\ list \in Seq(Feed!Events)
         /\ conn.replay \in Seq(Feed!Events) /\ conn.buffer \in Seq(Feed!Events)
         /\ engine.pushed \in Seq(Feed!Events) /\ lamports \in Nat
         /\ Coming \subseteq Feed!Events /\ Arrived \subseteq Feed!Events
         /\ \A v \in Coming \cup Arrived : v.lamport \in Nat
<1>1. /\ announce \in Seq(Feed!Events) /\ list \in Seq(Feed!Events)
      /\ conn.replay \in Seq(Feed!Events) /\ conn.buffer \in Seq(Feed!Events)
      /\ engine.pushed \in Seq(Feed!Events) /\ lamports \in Nat
  BY DEF FeedInv, Feed!TypeOK, Feed!Connections, Feed!Engines
<1>2. \A s \in Seq(Feed!Events) : EventsOf(s) \subseteq Feed!Events
  BY DEF EventsOf
<1>3. Coming \subseteq Feed!Events /\ Arrived \subseteq Feed!Events
  BY <1>1, <1>2 DEF Coming, Arrived
<1>4. \A v \in Feed!Events : v.lamport \in Nat
  BY DEF Feed!Events
<1> QED BY <1>1, <1>3, <1>4

-----------------------------------------------------------------------------
(* The page: what the table's writers do. *)

LEMMA FeedBeginPostKeeps ==
  ASSUME FeedInv, NEW e \in Envelopes, Feed!BeginPost(e) PROVE FeedInv'
<1>1. /\ e \notin Feed!Committed /\ posting[e] = 0 /\ lamports' = lamports + 1
      /\ posting' = [posting EXCEPT ![e] = lamports + 1]
      /\ UNCHANGED <<messages, announce, conn, list, engine, feedFaults, skipped>>
  BY DEF Feed!BeginPost
<1>2. lamports \in Nat /\ posting \in [Envelopes -> 0 .. lamports]
  BY DEF FeedInv, Feed!TypeOK
<1>3. /\ Feed!Committed' = Feed!Committed /\ Feed!Opened' = Feed!Opened \cup {e}
      /\ posting'[e] = lamports + 1 /\ \A f \in Feed!Opened : posting'[f] = posting[f] /\ f # e
  BY <1>1, <1>2 DEF Feed!Committed, Feed!Opened
<1>4. ASSUME NEW n \in Nat, n <= lamports, Ahead(n) PROVE Ahead(n)'
  BY <1>1, <1>2, <1>3, <1>4 DEF Ahead
<1>5. ASSUME NEW v \in Coming \cup Arrived PROVE v.lamport \in Nat
  BY EventsTyped
<1>6. Feed!TypeOK'
  <2>1. lamports' \in Nat /\ posting' \in [Envelopes -> 0 .. lamports']
    BY <1>1, <1>2
  <2>2. messages' \in [Envelopes -> [lamport : 0 .. lamports', deleted : BOOLEAN]]
    BY <1>1, <1>2 DEF FeedInv, Feed!TypeOK
  <2>3. \A f \in Feed!Committed' : posting'[f] = 0
    BY <1>1, <1>2, <1>3 DEF FeedInv, Feed!TypeOK, Feed!Committed
  <2> QED BY <1>1, <1>3, <2>1, <2>2, <2>3 DEF FeedInv, Feed!TypeOK
<1>7. Feed!NothingElseMissed'
  BY <1>1, <1>3 DEF FeedInv, Feed!NothingElseMissed, Feed!Listed, Feed!Cursor
<1>8. Table'
  <2>1. \A f \in Envelopes : messages[f].lamport \in Nat /\ messages[f].lamport <= lamports
    BY DEF FeedInv, Feed!TypeOK
  <2>2. \A f \in Feed!Opened : posting[f] <= lamports /\ posting[f] \in Nat
    BY <1>2 DEF Feed!Opened
  <2>3. \A f \in Envelopes : Ahead(messages[f].lamport)'
    BY <1>1, <1>4, <2>1 DEF FeedInv, Table
  <2> QED BY <1>1, <1>2, <1>3, <2>1, <2>2, <2>3 DEF FeedInv, Table
<1>9. Coming' = Coming /\ Arrived' = Arrived /\ \A f : Feed!RowOf(f)' = Feed!RowOf(f)
  BY <1>1 DEF Coming, Arrived, Feed!RowOf, Feed!Event
<1>10. AllSound'
  BY <1>1, <1>2, <1>3, <1>4, <1>5, <1>9 DEF FeedInv, AllSound, Sound
<1>11. ComingOnce'
  <2>1. \A v \in Coming : v.lamport <= lamports
    BY DEF FeedInv, AllSound, Sound
  <2>2. \A v \in Coming : v.lamport # lamports + 1
    BY <1>2, <1>5, <2>1
  <2> QED BY <1>3, <1>9, <2>2 DEF FeedInv, ComingOnce
<1>12. LateSkipped'
  BY <1>1 DEF FeedInv, LateSkipped
<1>13. Feed!Listed' = Feed!Listed /\ \A f : Wanted(f)' <=> Wanted(f)
  BY <1>1, <1>3 DEF Feed!Listed, Wanted
<1>14. NoGaps(engine.pushed)' /\ NoGaps(conn.replay)'
  BY <1>1, <1>13 DEF FeedInv, Brings, NoGaps
<1>15. Brings'
  <2>1. conn.after <= lamports' /\ Ahead(conn.after)'
    BY <1>1, <1>2, <1>4 DEF FeedInv, Brings, Feed!TypeOK, Feed!Connections
  <2> QED BY <1>1, <1>13, <1>14, <2>1 DEF FeedInv, Brings
<1> QED BY <1>6, <1>7, <1>8, <1>10, <1>11, <1>12, <1>14, <1>15 DEF FeedInv

LEMMA AppendedOne ==
  ASSUME NEW s \in Seq(Feed!Events), NEW v \in Feed!Events
  PROVE  LET m == Append(s, v) IN
         /\ m \in Seq(Feed!Events) /\ Len(m) = Len(s) + 1 /\ Len(s) \in Nat
         /\ DOMAIN m = 1 .. Len(s) + 1 /\ DOMAIN s = 1 .. Len(s)
         /\ m[Len(s) + 1] = v /\ \A i \in DOMAIN s : m[i] = s[i] /\ i \in DOMAIN m
         /\ EventsOf(m) = EventsOf(s) \cup {v}
         /\ Feed!EnvsOf(m) = Feed!EnvsOf(s) \cup {v.env}
<1> DEFINE m == Append(s, v)
<1>1. /\ m \in Seq(Feed!Events) /\ Len(m) = Len(s) + 1 /\ Len(s) \in Nat
      /\ DOMAIN m = 1 .. Len(s) + 1 /\ DOMAIN s = 1 .. Len(s)
      /\ m[Len(s) + 1] = v /\ \A i \in DOMAIN s : m[i] = s[i] /\ i \in DOMAIN m
  OBVIOUS
<1> HIDE DEF m
<1>2. \A i \in DOMAIN m : i \in DOMAIN s \/ i = Len(s) + 1
  BY <1>1
<1>3. Len(s) + 1 \in DOMAIN m
  BY <1>1
<1>4. EventsOf(m) = EventsOf(s) \cup {v} /\ Feed!EnvsOf(m) = Feed!EnvsOf(s) \cup {v.env}
  BY <1>1, <1>2, <1>3 DEF EventsOf, Feed!EnvsOf
<1> QED BY <1>1, <1>4 DEF m

\* An event that is announced last: what was newer was overtaken by it, or it was skipped.
LEMMA AnnouncedLate ==
  ASSUME FeedInv, NEW v \in Feed!Events, announce' = Append(announce, v), conn' = conn,
         skipped \subseteq skipped',
         \A w \in Coming : v.lamport < w.lamport => v.env \in skipped'
  PROVE  LateSkipped' /\ Coming' = Coming \cup {v}
<1> DEFINE n == Len(announce)
<1>1. /\ n \in Nat /\ DOMAIN announce' = 1 .. n + 1 /\ DOMAIN announce = 1 .. n
      /\ announce'[n + 1] = v /\ \A i \in DOMAIN announce : announce'[i] = announce[i]
      /\ EventsOf(announce') = EventsOf(announce) \cup {v}
  BY EventsTyped, AppendedOne
<1>2. Coming' = Coming \cup {v}
  BY <1>1 DEF Coming
<1>3. ASSUME NEW i \in DOMAIN announce', NEW j \in DOMAIN announce',
             i < j, announce'[j].lamport < announce'[i].lamport
      PROVE  announce'[j].env \in skipped'
  <2>1. CASE j = n + 1
    <3>1. i \in DOMAIN announce
      BY <1>1, <1>3, <2>1
    <3>2. announce[i] \in Coming
      BY <3>1 DEF Coming, EventsOf
    <3> QED BY <1>1, <1>3, <2>1, <3>1, <3>2
  <2>2. CASE j # n + 1
    <3>1. i \in DOMAIN announce /\ j \in DOMAIN announce
      BY <1>1, <1>3, <2>2
    <3> QED BY <1>1, <1>3, <3>1 DEF FeedInv, LateSkipped
  <2> QED BY <2>1, <2>2
<1>4. ASSUME NEW u \in EventsOf(announce'), NEW w \in EventsOf(conn.buffer), u.lamport < w.lamport
      PROVE  u.env \in skipped'
  <2>1. w \in Coming
    BY DEF Coming
  <2> QED BY <1>1, <1>4, <2>1 DEF FeedInv, LateSkipped
<1> QED BY <1>2, <1>3, <1>4 DEF LateSkipped

\* A list is in the table, and its cursor is that of an event.
LEMMA CursorIsOne ==
  ASSUME FeedInv
  PROVE  /\ Feed!Cursor \in Nat /\ Feed!Cursor <= lamports
         /\ Ahead(Feed!Cursor)
<1>1. CASE list = <<>>
  <2>1. \A e \in Feed!Opened : 0 < posting[e]
    BY DEF FeedInv, Feed!TypeOK, Feed!Opened
  <2> QED BY <1>1, <2>1, EventsTyped DEF Feed!Cursor, Feed!CursorOf, Ahead
<1>2. CASE list # <<>>
  <2>1. Len(list) \in DOMAIN list
    BY <1>2, EventsTyped
  <2>2. list[Len(list)] \in Arrived
    BY <2>1 DEF Arrived, EventsOf
  <2>3. Sound(list[Len(list)]) /\ list[Len(list)].lamport \in Nat
    BY <2>2, EventsTyped DEF FeedInv, AllSound
  <2> QED BY <1>2, <2>3 DEF Feed!Cursor, Feed!CursorOf, Sound
<1> QED BY <1>1, <1>2

LEMMA FeedCommitPostKeeps ==
  ASSUME FeedInv, NEW e \in Envelopes, Feed!CommitPost(e) PROVE FeedInv'
<1>A. PICK L : L = posting[e]
  OBVIOUS
<1> DEFINE v == [env |-> e, lamport |-> L, deleted |-> FALSE]
<1>1. /\ posting[e] = L /\ L > 0 /\ posting' = [posting EXCEPT ![e] = 0]
      /\ messages' = [messages EXCEPT ![e] = [lamport |-> L, deleted |-> FALSE]]
      /\ announce' = Append(announce, v)
      /\ skipped' = skipped \cup {f \in Feed!Opened : posting[f] < L}
      /\ UNCHANGED <<lamports, conn, list, engine, feedFaults>>
  BY <1>A DEF Feed!CommitPost, Feed!Event, Feed!Overtaken
<1>2. lamports \in Nat /\ L \in 1 .. lamports /\ e \in Feed!Opened /\ v \in Feed!Events
  BY <1>1 DEF FeedInv, Feed!TypeOK, Feed!Opened, Feed!Events
<1>3. posting \in [Envelopes -> 0 .. lamports] /\ messages \in [Envelopes -> [lamport : 0 .. lamports, deleted : BOOLEAN]]
  BY DEF FeedInv, Feed!TypeOK
<1>4. e \notin Feed!Committed
  BY <1>1 DEF FeedInv, Feed!TypeOK
<1>5. /\ Feed!Committed' = Feed!Committed \cup {e} /\ Feed!Opened' = Feed!Opened \ {e}
      /\ messages'[e] = [lamport |-> L, deleted |-> FALSE]
      /\ \A f \in Envelopes \ {e} : messages'[f] = messages[f] /\ posting'[f] = posting[f]
  BY <1>1, <1>2, <1>3 DEF Feed!Committed, Feed!Opened
<1>B. /\ \A f \in Envelopes : messages[f].lamport # L
      /\ \A f \in Feed!Opened \ {e} : posting[f] # L
      /\ \A w \in Coming : w.lamport # L
  BY <1>1, <1>2 DEF FeedInv, Table, ComingOnce
<1>6. \A n : Ahead(n) => Ahead(n)'
  BY <1>1, <1>5 DEF Ahead, Feed!Opened
<1>7. Ahead(L)'
  <2>1. \A f \in Feed!Opened' \ skipped' : posting[f] # L /\ ~(posting[f] < L) /\ posting[f] \in Nat
    BY <1>1, <1>2, <1>3, <1>5 DEF FeedInv, Table, Feed!Opened
  <2> QED BY <1>2, <1>5, <2>1 DEF Ahead, Feed!Opened
<1>8. \A f \in Feed!Committed : Feed!RowOf(f)' = Feed!RowOf(f) /\ f # e
  BY <1>4, <1>5 DEF Feed!RowOf, Feed!Event, Feed!Committed
<1>9. \A w \in Coming \cup Arrived : w.env # e
  BY <1>4 DEF FeedInv, AllSound, Sound
<1>10. Sound(v)'
  <2>1. v.lamport = L /\ v.env = e /\ e \in Feed!Committed' /\ L <= lamports'
    BY <1>1, <1>2, <1>5
  <2>2. Feed!RowOf(e)' = v
    BY <1>5 DEF Feed!RowOf, Feed!Event
  <2> QED BY <1>7, <2>1, <2>2 DEF Sound
<1>11. LateSkipped' /\ Coming' = Coming \cup {v}
  <2>1. ASSUME NEW w \in Coming, v.lamport < w.lamport PROVE v.env \in skipped'
    <3>1. Ahead(w.lamport) /\ w.lamport \in Nat
      BY EventsTyped DEF FeedInv, AllSound, Sound
    <3> QED BY <1>1, <1>2, <2>1, <3>1 DEF Ahead
  <2> QED BY <1>1, <1>2, <2>1, AnnouncedLate
<1>12. Arrived' = Arrived
  BY <1>1 DEF Arrived
<1>13. AllSound'
  <2>1. ASSUME NEW w \in Coming \cup Arrived PROVE Sound(w)'
    <3>1. Sound(w) /\ w.env # e /\ w.env \in Envelopes
      BY <1>9, EventsTyped DEF FeedInv, AllSound, Feed!Events
    <3> QED BY <1>1, <1>5, <1>6, <1>8, <3>1 DEF Sound
  <2> QED BY <1>10, <1>11, <1>12, <2>1 DEF AllSound
<1>14. ComingOnce'
  <2>1. \A w \in Coming' : w = v \/ w \in Coming
    BY <1>11
  <2>2. \A w, u \in Coming' : w.lamport = u.lamport => w = u
    <3>1. v.lamport = L
      OBVIOUS
    <3> HIDE DEF v
    <3> QED BY <1>B, <2>1, <3>1 DEF FeedInv, ComingOnce
  <2>3. \A w \in Coming', f \in Feed!Opened' : w.lamport # posting'[f]
    <3>1. \A f \in Feed!Opened' : f \in Feed!Opened \ {e} /\ posting'[f] = posting[f]
      BY <1>5 DEF Feed!Opened
    <3> QED BY <1>B, <2>1, <3>1 DEF FeedInv, ComingOnce
  <2> QED BY <2>2, <2>3 DEF ComingOnce
<1>15. Table'
  <2>1. \A f \in Envelopes : Ahead(messages[f].lamport)'
    BY <1>5, <1>6, <1>7 DEF FeedInv, Table
  <2>2. \A f \in Feed!Opened' : f \in Feed!Opened \ {e} /\ posting'[f] = posting[f]
    BY <1>5 DEF Feed!Opened
  <2>3. \A f, g \in Feed!Opened' : f # g => posting'[f] # posting'[g]
    BY <2>2 DEF FeedInv, Table
  <2>4. \A f \in Feed!Opened', g \in Envelopes : messages'[g].lamport # posting'[f]
    BY <1>B, <1>5, <2>2 DEF FeedInv, Table
  <2> QED BY <2>1, <2>3, <2>4 DEF Table
<1>16. \A f \in Envelopes \ {e} : Wanted(f)' => Wanted(f)
  BY <1>1, <1>5 DEF Wanted
<1>17. Feed!Listed' = Feed!Listed
  BY <1>1 DEF Feed!Listed
<1>18. ASSUME Wanted(e)', NEW n \in Nat, Ahead(n) PROVE ~(L <= n)
  BY <1>1, <1>2, <1>18 DEF Wanted, Ahead
<1>19. ASSUME NEW s \in Seq(Feed!Events), NoGaps(s), \A w \in EventsOf(s) : Ahead(w.lamport)
       PROVE  NoGaps(s)'
  <2>1. \A i \in DOMAIN s : Ahead(s[i].lamport) /\ s[i].lamport \in Nat
    <3>1. \A i \in DOMAIN s : s[i] \in Feed!Events /\ s[i] \in EventsOf(s)
      BY DEF EventsOf
    <3> QED BY <1>19, <3>1 DEF Feed!Events
  <2> QED BY <1>5, <1>16, <1>17, <1>18, <1>19, <2>1 DEF NoGaps
<1>20. NoGaps(engine.pushed)' /\ NoGaps(conn.replay)'
  <2>1. \A w \in EventsOf(engine.pushed) \cup EventsOf(conn.replay) : Ahead(w.lamport)
    BY DEF FeedInv, AllSound, Sound, Arrived
  <2>2. NoGaps(engine.pushed) /\ NoGaps(conn.replay)
    BY DEF FeedInv, Brings
  <2> QED BY <1>1, <1>19, <2>1, <2>2, EventsTyped
<1>21. Brings'
  <2>1. conn.after \in Nat /\ Ahead(conn.after) /\ conn.after <= lamports
    BY DEF FeedInv, Brings, Feed!TypeOK, Feed!Connections
  <2>2. Feed!EnvsOf(announce)' = Feed!EnvsOf(announce) \cup {e}
    BY <1>1, <1>2, EventsTyped, AppendedOne
  <2>3. Wanted(e)' => ~(messages'[e].lamport <= conn.after)
    BY <1>5, <1>18, <2>1
  <2>4. Ahead(conn.after)'
    <3>1. PICK n : n = conn.after
      OBVIOUS
    <3>2. Ahead(n)' /\ conn'.after = n
      BY <1>1, <1>6, <2>1, <3>1
    <3> QED BY <3>2 DEF Ahead
  <2> QED BY <1>1, <1>5, <1>16, <1>17, <1>20, <2>1, <2>2, <2>3, <2>4 DEF FeedInv, Brings
<1>22. Feed!NothingElseMissed'
  <2>1. Feed!Cursor' = Feed!Cursor
    BY <1>1 DEF Feed!Cursor
  <2>2. Wanted(e)' => ~(messages'[e].lamport <= Feed!Cursor)
    BY <1>5, <1>18, CursorIsOne
  <2> QED BY <1>1, <1>5, <1>17, <2>1, <2>2 DEF FeedInv, Feed!NothingElseMissed, Wanted, Feed!Committed
<1>23. Feed!TypeOK'
  <2>1. posting' \in [Envelopes -> 0 .. lamports]
    BY <1>1, <1>2, <1>3
  <2>2. messages' \in [Envelopes -> [lamport : 0 .. lamports, deleted : BOOLEAN]]
    BY <1>1, <1>2, <1>3
  <2>3. announce' \in Seq(Feed!Events)
    BY <1>1, <1>2, EventsTyped, AppendedOne
  <2>4. skipped' \subseteq Envelopes
    BY <1>1 DEF FeedInv, Feed!TypeOK, Feed!Opened
  <2>5. \A f \in Feed!Committed' : posting'[f] = 0
    BY <1>1, <1>3, <1>5 DEF FeedInv, Feed!TypeOK, Feed!Committed
  <2>6. \A f, g \in Feed!Committed' : f # g => messages'[f].lamport # messages'[g].lamport
    BY <1>B, <1>5 DEF FeedInv, Feed!TypeOK, Feed!Committed
  <2>7. /\ lamports' \in Nat /\ list' \in Seq(Feed!Events) /\ conn' \in Feed!Connections
        /\ engine' \in Feed!Engines /\ \A i, j \in DOMAIN list' : list'[i].env = list'[j].env => i = j
    BY <1>1 DEF FeedInv, Feed!TypeOK
  <2> QED BY <1>1, <2>1, <2>2, <2>3, <2>4, <2>5, <2>6, <2>7 DEF Feed!TypeOK
<1> QED BY <1>11, <1>13, <1>14, <1>15, <1>20, <1>21, <1>22, <1>23 DEF FeedInv

LEMMA FeedTombstoneKeeps ==
  ASSUME FeedInv, NEW e \in Envelopes, Feed!Tombstone(e) PROVE FeedInv'
<1>1. PICK L : L = lamports + 1
  OBVIOUS
<1> DEFINE v == [env |-> e, lamport |-> L, deleted |-> TRUE]
<1>2. /\ e \in Feed!Committed /\ lamports' = L
      /\ messages' = [messages EXCEPT ![e] = [lamport |-> L, deleted |-> TRUE]]
      /\ announce' = Append(announce, v)
      /\ skipped' = skipped \cup {f \in Feed!Opened : posting[f] < L}
      /\ UNCHANGED <<posting, conn, list, engine>>
  BY <1>1 DEF Feed!Tombstone, Feed!Event, Feed!Overtaken
<1>3. /\ lamports \in Nat /\ L \in Nat /\ L > lamports /\ v \in Feed!Events
      /\ posting \in [Envelopes -> 0 .. lamports]
      /\ messages \in [Envelopes -> [lamport : 0 .. lamports, deleted : BOOLEAN]]
  BY <1>1 DEF FeedInv, Feed!TypeOK, Feed!Events
<1>4. /\ Feed!Committed' = Feed!Committed /\ Feed!Opened' = Feed!Opened
      /\ messages'[e] = [lamport |-> L, deleted |-> TRUE]
      /\ \A f \in Envelopes \ {e} : messages'[f] = messages[f]
  BY <1>2, <1>3 DEF Feed!Committed, Feed!Opened
<1>5. Feed!Opened \subseteq skipped' /\ skipped \subseteq skipped' /\ skipped' \subseteq Envelopes
  <2>1. \A f \in Feed!Opened : posting[f] < L /\ f \in Envelopes
    BY <1>3 DEF Feed!Opened
  <2> QED BY <1>2, <2>1 DEF FeedInv, Feed!TypeOK
<1>6. \A n : Ahead(n)'
  BY <1>4, <1>5 DEF Ahead
<1>7. \A f \in Envelopes \ {e} : Feed!RowOf(f)' = Feed!RowOf(f)
  BY <1>4 DEF Feed!RowOf, Feed!Event
<1>8. \A w \in Coming \cup Arrived : w.lamport <= lamports /\ w.lamport < L /\ w.lamport \in Nat
  <2>1. \A w \in Coming \cup Arrived : w.lamport <= lamports /\ w.lamport \in Nat
    BY EventsTyped DEF FeedInv, AllSound, Sound
  <2> QED BY <1>1, <1>3, <2>1
<1>9. v.lamport = L /\ v.env = e
  OBVIOUS
<1>10. LateSkipped' /\ Coming' = Coming \cup {v}
  <2>1. \A w \in Coming : ~(v.lamport < w.lamport)
    BY <1>3, <1>8, <1>9
  <2>2. conn' = conn
    BY <1>2
  <2> QED BY <1>2, <1>3, <1>5, <2>1, <2>2, AnnouncedLate
<1> HIDE DEF v
<1>11. Arrived' = Arrived
  BY <1>2 DEF Arrived
<1>12. AllSound'
  <2>1. Sound(v)'
    <3>1. v.lamport <= lamports' /\ v.env \in Feed!Committed'
      BY <1>2, <1>3, <1>4, <1>9
    <3>2. messages'[v.env].deleted
      BY <1>4, <1>9
    <3> QED BY <1>6, <3>1, <3>2 DEF Sound
  <2>2. ASSUME NEW w \in Coming \cup Arrived PROVE Sound(w)'
    <3>1. w.lamport <= lamports' /\ w.env \in Feed!Committed' /\ w.env \in Envelopes
      <4>1. w.env \in Feed!Committed
        BY DEF FeedInv, AllSound, Sound
      <4>2. w.env \in Envelopes
        BY <4>1 DEF Feed!Committed
      <4>3. w.lamport <= L
        BY <1>3, <1>8
      <4> QED BY <1>2, <1>4, <4>1, <4>2, <4>3
    <3>2. ~messages'[w.env].deleted => w = Feed!RowOf(w.env)'
      <4>1. ~messages[w.env].deleted => w = Feed!RowOf(w.env)
        BY DEF FeedInv, AllSound, Sound
      <4> QED BY <1>4, <1>7, <3>1, <4>1
    <3> QED BY <1>6, <3>1, <3>2 DEF Sound
  <2> QED BY <1>10, <1>11, <2>1, <2>2 DEF AllSound
<1>13. ComingOnce'
  <2>1. \A w \in Coming' : w = v \/ w \in Coming
    BY <1>10
  <2>2. \A w \in Coming : w.lamport # L
    BY <1>3, <1>8
  <2>3. \A w, u \in Coming' : w.lamport = u.lamport => w = u
    BY <1>9, <2>1, <2>2 DEF FeedInv, ComingOnce
  <2>4. \A f \in Feed!Opened : posting[f] # L
    BY <1>3 DEF Feed!Opened
  <2>5. \A w \in Coming', f \in Feed!Opened' : w.lamport # posting'[f]
    BY <1>2, <1>4, <1>9, <2>1, <2>4 DEF FeedInv, ComingOnce
  <2> QED BY <2>3, <2>5 DEF ComingOnce
<1>14. Table'
  <2>1. \A f \in Feed!Opened : posting[f] # L
    BY <1>3 DEF Feed!Opened
  <2>2. \A f \in Feed!Opened', g \in Envelopes : messages'[g].lamport # posting'[f]
    BY <1>2, <1>4, <2>1 DEF FeedInv, Table
  <2> QED BY <1>2, <1>4, <1>6, <2>2 DEF FeedInv, Table
<1>15. \A f : Wanted(f)' => Wanted(f) /\ f # e /\ f \in Envelopes
  BY <1>4, <1>5 DEF Wanted, Feed!Committed
<1>16. Feed!Listed' = Feed!Listed /\ Feed!Cursor' = Feed!Cursor
  BY <1>2 DEF Feed!Listed, Feed!Cursor
<1>17. NoGaps(engine.pushed)' /\ NoGaps(conn.replay)'
  BY <1>2, <1>4, <1>15, <1>16 DEF FeedInv, Brings, NoGaps
<1>18. Brings'
  <2>1. conn'.after <= lamports'
    BY <1>2, <1>3 DEF FeedInv, Brings, Feed!TypeOK, Feed!Connections
  <2>2. Feed!EnvsOf(announce)' = Feed!EnvsOf(announce) \cup {e}
    BY <1>2, <1>3, <1>9, EventsTyped, AppendedOne
  <2>3. Ahead(conn.after)'
    BY <1>4, <1>5 DEF Ahead
  <2> QED BY <1>2, <1>4, <1>15, <1>16, <1>17, <2>1, <2>2, <2>3 DEF FeedInv, Brings
<1>19. Feed!NothingElseMissed'
  BY <1>2, <1>4, <1>5, <1>16 DEF FeedInv, Feed!NothingElseMissed, Feed!Committed
<1>20. Feed!TypeOK'
  <2>1. posting' \in [Envelopes -> 0 .. lamports'] /\ lamports' \in Nat
    BY <1>1, <1>2, <1>3
  <2>2. messages' \in [Envelopes -> [lamport : 0 .. lamports', deleted : BOOLEAN]]
    BY <1>1, <1>2, <1>3
  <2>3. announce' \in Seq(Feed!Events)
    BY <1>2, <1>3, EventsTyped, AppendedOne
  <2>4. \A f \in Feed!Committed' : posting'[f] = 0
    BY <1>2, <1>4 DEF FeedInv, Feed!TypeOK
  <2>5. \A f \in Envelopes : messages[f].lamport # L
    BY <1>3
  <2>6. \A f, g \in Feed!Committed' : f # g => messages'[f].lamport # messages'[g].lamport
    <3>1. \A f \in Feed!Committed' : f \in Feed!Committed /\ f \in Envelopes
      BY <1>4 DEF Feed!Committed
    <3>2. messages'[e].lamport = L
      BY <1>4
    <3>3. \A f, g \in Feed!Committed : f # g => messages[f].lamport # messages[g].lamport
      BY DEF FeedInv, Feed!TypeOK
    <3> QED BY <1>4, <2>5, <3>1, <3>2, <3>3
  <2>7. /\ list' \in Seq(Feed!Events) /\ conn' \in Feed!Connections
        /\ engine' \in Feed!Engines /\ \A i, j \in DOMAIN list' : list'[i].env = list'[j].env => i = j
    BY <1>2 DEF FeedInv, Feed!TypeOK
  <2> QED BY <1>5, <2>1, <2>2, <2>3, <2>4, <2>6, <2>7 DEF Feed!TypeOK
<1> QED BY <1>10, <1>12, <1>13, <1>14, <1>17, <1>18, <1>19, <1>20 DEF FeedInv

-----------------------------------------------------------------------------
(* The page: what is announced. *)

LEMMA FirstAndRest ==
  ASSUME NEW s \in Seq(Feed!Events), s # <<>>
  PROVE  /\ Head(s) \in Feed!Events /\ Head(s) = s[1] /\ 1 \in DOMAIN s
         /\ Tail(s) \in Seq(Feed!Events)
         /\ \A i \in DOMAIN Tail(s) : i + 1 \in DOMAIN s /\ Tail(s)[i] = s[i + 1]
         /\ \A i \in DOMAIN s : i = 1 \/ (i - 1 \in DOMAIN Tail(s) /\ Tail(s)[i - 1] = s[i])
         /\ EventsOf(s) = {Head(s)} \cup EventsOf(Tail(s))
         /\ Feed!EnvsOf(s) = {Head(s).env} \cup Feed!EnvsOf(Tail(s))
<1> DEFINE t == Tail(s)
<1>1. /\ Head(s) \in Feed!Events /\ Head(s) = s[1] /\ 1 \in DOMAIN s
      /\ t \in Seq(Feed!Events) /\ Len(s) \in Nat \ {0} /\ Len(t) = Len(s) - 1
      /\ DOMAIN s = 1 .. Len(s) /\ DOMAIN t = 1 .. Len(s) - 1
  OBVIOUS
<1>2. \A i \in DOMAIN t : i + 1 \in DOMAIN s /\ t[i] = s[i + 1]
  OBVIOUS
<1> HIDE DEF t
<1>3. \A i \in DOMAIN s : i = 1 \/ (i - 1 \in DOMAIN t /\ t[i - 1] = s[i])
  <2> SUFFICES ASSUME NEW i \in DOMAIN s, i # 1 PROVE i - 1 \in DOMAIN t /\ t[i - 1] = s[i]
    OBVIOUS
  <2>1. i - 1 \in DOMAIN t /\ (i - 1) + 1 = i
    BY <1>1
  <2> QED BY <1>2, <2>1
<1>4. EventsOf(s) = {Head(s)} \cup EventsOf(t) /\ Feed!EnvsOf(s) = {Head(s).env} \cup Feed!EnvsOf(t)
  <2>1. ASSUME NEW i \in DOMAIN s PROVE s[i] = Head(s) \/ \E k \in DOMAIN t : s[i] = t[k]
    BY <1>1, <1>3
  <2>2. ASSUME NEW k \in DOMAIN t PROVE \E i \in DOMAIN s : s[i] = t[k]
    BY <1>2
  <2>3. EventsOf(s) = {Head(s)} \cup EventsOf(t)
    BY <1>1, <2>1, <2>2 DEF EventsOf
  <2>4. Feed!EnvsOf(s) \subseteq {Head(s).env} \cup Feed!EnvsOf(t)
    BY <2>1 DEF Feed!EnvsOf
  <2>5. {Head(s).env} \cup Feed!EnvsOf(t) \subseteq Feed!EnvsOf(s)
    BY <1>1, <2>2 DEF Feed!EnvsOf
  <2> QED BY <2>3, <2>4, <2>5
<1> QED BY <1>1, <1>2, <1>3, <1>4 DEF t

\* What is left of the announcements is as late as it was.
LEMMA RestIsLate ==
  ASSUME FeedInv, announce # <<>>, announce' = Tail(announce), skipped \subseteq skipped'
  PROVE  /\ \A i, j \in DOMAIN announce' :
              i < j /\ announce'[j].lamport < announce'[i].lamport => announce'[j].env \in skipped'
         /\ \A v \in EventsOf(announce'), w \in EventsOf(conn.buffer) :
              v.lamport < w.lamport => v.env \in skipped'
         /\ \A v \in EventsOf(announce') : v.lamport < Head(announce).lamport => v.env \in skipped'
<1>1. \A i \in DOMAIN announce' : i + 1 \in DOMAIN announce /\ announce'[i] = announce[i + 1]
  BY EventsTyped, FirstAndRest
<1>2. /\ Head(announce) = announce[1] /\ 1 \in DOMAIN announce
      /\ EventsOf(announce') \subseteq EventsOf(announce) /\ DOMAIN announce \subseteq Nat
  BY EventsTyped, FirstAndRest
<1>3. ASSUME NEW i \in DOMAIN announce', NEW j \in DOMAIN announce',
             i < j, announce'[j].lamport < announce'[i].lamport
      PROVE  announce'[j].env \in skipped'
  <2>1. i \in Nat /\ j \in Nat /\ i + 1 < j + 1
    BY <1>3, EventsTyped, FirstAndRest
  <2> QED BY <1>1, <1>3, <2>1 DEF FeedInv, LateSkipped
<1>4. ASSUME NEW v \in EventsOf(announce'), NEW w \in EventsOf(conn.buffer), v.lamport < w.lamport
      PROVE  v.env \in skipped'
  BY <1>2, <1>4 DEF FeedInv, LateSkipped
<1>5. ASSUME NEW i \in DOMAIN announce', announce'[i].lamport < Head(announce).lamport
      PROVE  announce'[i].env \in skipped'
  <2>1. i \in Nat /\ 1 < i + 1
    BY EventsTyped, FirstAndRest
  <2> QED BY <1>1, <1>2, <1>5, <2>1 DEF FeedInv, LateSkipped
<1>6. \A v \in EventsOf(announce') : v.lamport < Head(announce).lamport => v.env \in skipped'
  BY <1>5 DEF EventsOf
<1> QED BY <1>3, <1>4, <1>6

\* With the table and the list as they are, the list misses nothing new.
LEMMA SameListMisses ==
  ASSUME FeedInv, TableIsSame, list' = list PROVE Feed!NothingElseMissed'
<1>1. Feed!Committed' = Feed!Committed /\ Feed!Listed' = Feed!Listed /\ Feed!Cursor' = Feed!Cursor
  BY DEF TableIsSame, Feed!Committed, Feed!Listed, Feed!Cursor
<1> QED BY <1>1 DEF FeedInv, Feed!NothingElseMissed, TableIsSame

\* Types, with the table and the list as they are.
LEMMA SameListTyped ==
  ASSUME FeedInv, TableIsSame, list' = list, skipped' \subseteq Envelopes,
         announce' \in Seq(Feed!Events), conn' \in Feed!Connections, engine' \in Feed!Engines
  PROVE  Feed!TypeOK'
<1>1. Feed!Committed' = Feed!Committed
  BY DEF TableIsSame, Feed!Committed
<1> QED BY <1>1 DEF FeedInv, Feed!TypeOK, TableIsSame

\* Sound events stay sound when nothing comes to be known that was not.
LEMMA SameTableSound ==
  ASSUME FeedInv, TableIsSame, skipped' \subseteq Envelopes,
         Coming' \cup Arrived' \subseteq Coming \cup Arrived
  PROVE  AllSound'
<1>1. \A v : Sound(v) => Sound(v)'
  BY SameTableKeeps
<1> QED BY <1>1 DEF FeedInv, AllSound

LEMMA SameTableComing ==
  ASSUME FeedInv, TableIsSame, skipped' \subseteq Envelopes, Coming' \subseteq Coming
  PROVE  ComingOnce'
<1>1. Feed!Opened' = Feed!Opened /\ posting' = posting
  BY SameTableKeeps DEF TableIsSame
<1> QED BY <1>1 DEF FeedInv, ComingOnce

LEMMA SameTableAfter ==
  ASSUME FeedInv, TableIsSame, skipped' \subseteq Envelopes, conn'.after = conn.after
  PROVE  conn'.after <= lamports' /\ Ahead(conn.after)'
<1>1. PICK n : n = conn.after
  OBVIOUS
<1>2. Ahead(n)'
  BY <1>1, SameTableKeeps DEF FeedInv, Brings
<1>3. Ahead(conn.after)'
  BY <1>1, <1>2 DEF Ahead
<1> QED BY <1>3 DEF TableIsSame, FeedInv, Brings

\* The first announcement goes to nobody: no page is connected, or it is lost.
LEMMA GoesToNobody ==
  ASSUME FeedInv, announce # <<>>, announce' = Tail(announce), UNCHANGED <<conn, list, engine>>,
         TableIsSame, skipped' \subseteq Envelopes,
         conn.at = "closed" \/ Head(announce).env \in skipped'
  PROVE  FeedInv'
<1>1. /\ announce' \in Seq(Feed!Events)
      /\ EventsOf(announce') \subseteq EventsOf(announce)
      /\ Feed!EnvsOf(announce) = {Head(announce).env} \cup Feed!EnvsOf(announce')
  BY EventsTyped, FirstAndRest
<1>2. Coming' \subseteq Coming /\ Arrived' = Arrived
  BY <1>1 DEF Coming, Arrived
<1>3. Feed!TypeOK' /\ Feed!NothingElseMissed' /\ Table' /\ AllSound' /\ ComingOnce'
  <2>1. conn' \in Feed!Connections /\ engine' \in Feed!Engines
    BY DEF FeedInv, Feed!TypeOK
  <2> QED BY <1>1, <1>2, <2>1, SameListTyped, SameListMisses, SameTableKeeps, SameTableSound, SameTableComing
<1>4. LateSkipped'
  BY RestIsLate DEF LateSkipped, TableIsSame
<1>5. Feed!Listed \subseteq Feed!Listed' /\ Feed!Listed' = Feed!Listed
  BY DEF Feed!Listed
<1>6. NoGaps(engine.pushed)' /\ NoGaps(conn.replay)'
  <2>1. PICK s, r : s = engine.pushed /\ r = conn.replay
    OBVIOUS
  <2>2. NoGaps(s)' /\ NoGaps(r)'
    BY <1>5, <2>1, SameTableNoGaps DEF FeedInv, Brings
  <2> QED BY <2>1, <2>2 DEF NoGaps
<1>7. \A e : Wanted(e)' => Wanted(e) /\ e \notin skipped'
  BY SameTableKeeps DEF Wanted
<1>8. \A e : Wanted(e)' /\ conn.at # "closed" => e # Head(announce).env
  BY <1>7
<1>9. conn'.after <= lamports' /\ Ahead(conn.after)'
  BY SameTableAfter
<1>10. Brings'
  <2>1. conn.at \in {"attached", "read"} =>
          \A e \in Envelopes : Wanted(e)' /\ messages[e].lamport <= conn.after => e \in Feed!Listed
    BY <1>7 DEF FeedInv, Brings
  <2>2. conn.at = "read" =>
          \A e \in Envelopes : Wanted(e)' =>
            e \in Feed!Listed \cup Feed!EnvsOf(conn.replay) \cup Feed!EnvsOf(conn.buffer)
                  \cup Feed!EnvsOf(announce')
    BY <1>1, <1>7, <1>8 DEF FeedInv, Brings
  <2>3. conn.at = "live" =>
          \A e \in Envelopes : Wanted(e)' =>
            e \in Feed!Listed \cup Feed!EnvsOf(engine.pushed) \cup Feed!EnvsOf(announce')
    BY <1>1, <1>7, <1>8 DEF FeedInv, Brings
  <2> QED BY <1>5, <1>6, <1>9, <2>1, <2>2, <2>3 DEF FeedInv, Brings, TableIsSame
<1> QED BY <1>3, <1>4, <1>6, <1>10 DEF FeedInv

\* What waits, with more put behind it.
LEMMA PutBehind ==
  ASSUME NEW s \in Seq(Feed!Events), NEW t \in Seq(Feed!Events)
  PROVE  /\ s \o t \in Seq(Feed!Events)
         /\ EventsOf(s \o t) = EventsOf(s) \cup EventsOf(t)
         /\ Feed!EnvsOf(s \o t) = Feed!EnvsOf(s) \cup Feed!EnvsOf(t)
         /\ \A i \in DOMAIN s : i \in DOMAIN (s \o t) /\ (s \o t)[i] = s[i]
         /\ \A i \in DOMAIN t : Len(s) + i \in DOMAIN (s \o t) /\ (s \o t)[Len(s) + i] = t[i]
         /\ \A i \in DOMAIN (s \o t) : i \in DOMAIN s \/ \E k \in DOMAIN t : i = Len(s) + k
<1> DEFINE m == s \o t
<1>1. /\ m \in Seq(Feed!Events) /\ Len(m) = Len(s) + Len(t) /\ Len(s) \in Nat /\ Len(t) \in Nat
      /\ DOMAIN s = 1 .. Len(s) /\ DOMAIN t = 1 .. Len(t) /\ DOMAIN m = 1 .. Len(s) + Len(t)
  OBVIOUS
<1>2. \A i \in DOMAIN s : m[i] = s[i] /\ i \in DOMAIN m
  OBVIOUS
<1>3. \A i \in DOMAIN t : m[Len(s) + i] = t[i]
  OBVIOUS
<1> HIDE DEF m
<1>4. \A i \in DOMAIN t : Len(s) + i \in DOMAIN m
  BY <1>1
<1>5. \A i \in DOMAIN m : i \in DOMAIN s \/ \E k \in DOMAIN t : i = Len(s) + k
  <2> SUFFICES ASSUME NEW i \in DOMAIN m, i \notin DOMAIN s PROVE \E k \in DOMAIN t : i = Len(s) + k
    OBVIOUS
  <2>1. i - Len(s) \in DOMAIN t /\ i = Len(s) + (i - Len(s))
    BY <1>1
  <2> QED BY <2>1
<1>6. \A i \in DOMAIN m : (\E k \in DOMAIN s : m[i] = s[k]) \/ (\E k \in DOMAIN t : m[i] = t[k])
  BY <1>2, <1>3, <1>5
<1>7. EventsOf(m) = EventsOf(s) \cup EventsOf(t)
  BY <1>2, <1>3, <1>4, <1>6 DEF EventsOf
<1>8. Feed!EnvsOf(m) \subseteq Feed!EnvsOf(s) \cup Feed!EnvsOf(t)
  BY <1>6 DEF Feed!EnvsOf
<1>9. Feed!EnvsOf(s) \subseteq Feed!EnvsOf(m) /\ Feed!EnvsOf(t) \subseteq Feed!EnvsOf(m)
  BY <1>2, <1>3, <1>4 DEF Feed!EnvsOf
<1> QED BY <1>1, <1>2, <1>3, <1>4, <1>5, <1>7, <1>8, <1>9 DEF m

LEMMA NoGapsBehind ==
  ASSUME NEW s \in Seq(Feed!Events), NEW t \in Seq(Feed!Events), NoGaps(s),
         \A i \in DOMAIN t, e \in Envelopes :
            Wanted(e) /\ messages[e].lamport <= t[i].lamport
              => e \in Feed!Listed \cup Feed!EnvsOf(s) \cup First(t, i)
  PROVE  NoGaps(s \o t)
<1> DEFINE m == s \o t
<1>1. /\ Len(s) \in Nat /\ DOMAIN s = 1 .. Len(s) /\ DOMAIN t = 1 .. Len(t) /\ Len(t) \in Nat
      /\ \A i \in DOMAIN s : m[i] = s[i]
      /\ \A i \in DOMAIN t : m[Len(s) + i] = t[i]
      /\ \A i \in DOMAIN m : i \in DOMAIN s \/ \E k \in DOMAIN t : i = Len(s) + k
  BY PutBehind
<1> HIDE DEF m
<1>2. ASSUME NEW i \in DOMAIN s PROVE First(m, i) = First(s, i)
  <2>1. \A j \in 1 .. i : j \in DOMAIN s
    BY <1>1
  <2>2. \A j \in 1 .. i : m[j] = s[j]
    BY <1>1, <2>1
  <2> QED BY <2>2, Zenon DEF First
<1>3. ASSUME NEW k \in DOMAIN t PROVE Feed!EnvsOf(s) \cup First(t, k) \subseteq First(m, Len(s) + k)
  <2>1. \A j \in 1 .. k : j \in DOMAIN t /\ Len(s) + j \in 1 .. Len(s) + k
    BY <1>1
  <2>2. \A j \in DOMAIN s : j \in 1 .. Len(s) + k
    BY <1>1
  <2>3. First(t, k) \subseteq First(m, Len(s) + k)
    <3>1. \A j \in 1 .. k : Len(s) + j \in 1 .. Len(s) + k /\ m[Len(s) + j] = t[j]
      BY <1>1, <2>1
    <3> QED BY <3>1 DEF First
  <2>4. Feed!EnvsOf(s) \subseteq First(m, Len(s) + k)
    BY <1>1, <2>2 DEF First, Feed!EnvsOf
  <2> QED BY <2>3, <2>4
<1>4. ASSUME NEW i \in DOMAIN m, NEW e \in Envelopes, Wanted(e), messages[e].lamport <= m[i].lamport
      PROVE  e \in Feed!Listed \cup First(m, i)
  <2>1. CASE i \in DOMAIN s
    BY <1>1, <1>2, <1>4, <2>1 DEF NoGaps
  <2>2. CASE i \notin DOMAIN s
    <3>1. PICK k \in DOMAIN t : i = Len(s) + k
      BY <1>1, <2>2
    <3>2. messages[e].lamport <= t[k].lamport
      BY <1>1, <1>4, <3>1
    <3>3. e \in Feed!Listed \cup Feed!EnvsOf(s) \cup First(t, k)
      BY <1>4, <3>2
    <3> QED BY <1>3, <3>1, <3>3
  <2> QED BY <2>1, <2>2
<1>5. NoGaps(m)
  BY <1>4 DEF NoGaps
<1> QED BY <1>5 DEF m

\* What the engine is given waits behind what it had.
LEMMA PushedIs ==
  ASSUME NEW eng \in Feed!Engines, NEW t \in Seq(Feed!Events)
  PROVE  /\ Feed!Pushed(eng, t) \in Feed!Engines
         /\ Feed!Pushed(eng, t).pushed = eng.pushed \o t
<1>1. eng.pushed \o t \in Seq(Feed!Events)
  BY PutBehind DEF Feed!Engines
<1> QED BY <1>1 DEF Feed!Pushed, Feed!Engines

LEMMA BufferKeeps ==
  ASSUME FeedInv, announce # <<>>, announce' = Tail(announce), TableIsSame, skipped' = skipped,
         UNCHANGED <<list, engine>>, conn.at \in {"attached", "read"},
         conn' = [conn EXCEPT !.buffer = Append(@, Head(announce))]
  PROVE  FeedInv'
<1> DEFINE h == Head(announce)
<1>1. /\ announce' \in Seq(Feed!Events) /\ h \in Feed!Events
      /\ EventsOf(announce) = {h} \cup EventsOf(announce')
      /\ Feed!EnvsOf(announce) = {h.env} \cup Feed!EnvsOf(announce')
  BY EventsTyped, FirstAndRest
<1>2. /\ conn' \in Feed!Connections /\ conn'.buffer = Append(conn.buffer, h)
      /\ conn'.at = conn.at /\ conn'.after = conn.after /\ conn'.replay = conn.replay
  BY <1>1, EventsTyped, AppendedOne DEF FeedInv, Feed!TypeOK, Feed!Connections
<1>3. /\ EventsOf(conn'.buffer) = EventsOf(conn.buffer) \cup {h}
      /\ Feed!EnvsOf(conn'.buffer) = Feed!EnvsOf(conn.buffer) \cup {h.env}
  BY <1>1, <1>2, EventsTyped, AppendedOne
<1>4. Coming' \subseteq Coming /\ Arrived' = Arrived
  BY <1>1, <1>2, <1>3 DEF Coming, Arrived
<1>5. skipped' \subseteq Envelopes /\ engine' \in Feed!Engines
  BY DEF FeedInv, Feed!TypeOK
<1>6. Feed!TypeOK' /\ Feed!NothingElseMissed' /\ Table' /\ AllSound' /\ ComingOnce'
  BY <1>1, <1>2, <1>4, <1>5, SameListTyped, SameListMisses, SameTableKeeps, SameTableSound, SameTableComing
<1>7. LateSkipped'
  BY <1>3, RestIsLate DEF LateSkipped
<1>8. Feed!Listed' = Feed!Listed
  BY DEF Feed!Listed
<1>9. NoGaps(engine.pushed)' /\ NoGaps(conn.replay)'
  <2>1. PICK s, r : s = engine.pushed /\ r = conn.replay
    OBVIOUS
  <2>2. NoGaps(s)' /\ NoGaps(r)'
    BY <1>5, <1>8, <2>1, SameTableNoGaps DEF FeedInv, Brings
  <2> QED BY <1>2, <2>1, <2>2 DEF NoGaps
<1>10. \A e : Wanted(e)' => Wanted(e)
  BY <1>5, SameTableKeeps
<1>11. conn'.after <= lamports' /\ Ahead(conn.after)'
  BY <1>2, <1>5, SameTableAfter
<1>12. Brings'
  BY <1>1, <1>2, <1>3, <1>8, <1>9, <1>10, <1>11 DEF FeedInv, Brings, TableIsSame
<1> QED BY <1>6, <1>7, <1>9, <1>12 DEF FeedInv

LEMMA PushKeeps ==
  ASSUME FeedInv, announce # <<>>, announce' = Tail(announce), TableIsSame, skipped' = skipped,
         UNCHANGED <<list, conn>>, conn.at = "live",
         engine' = Feed!Pushed(engine, <<Head(announce)>>)
  PROVE  FeedInv'
<1>1. PICK h : h = Head(announce)
  OBVIOUS
<1>2. /\ announce' \in Seq(Feed!Events) /\ h \in Feed!Events /\ <<h>> \in Seq(Feed!Events)
      /\ EventsOf(announce) = {h} \cup EventsOf(announce')
      /\ Feed!EnvsOf(announce) = {h.env} \cup Feed!EnvsOf(announce')
  BY <1>1, EventsTyped, FirstAndRest
<1>3. engine' \in Feed!Engines /\ engine'.pushed = engine.pushed \o <<h>>
  BY <1>1, <1>2, PushedIs DEF FeedInv, Feed!TypeOK
<1>4. EventsOf(<<h>>) = {h} /\ Feed!EnvsOf(<<h>>) = {h.env} /\ First(<<h>>, 1) = {h.env}
  BY DEF EventsOf, Feed!EnvsOf, First
<1>5. /\ EventsOf(engine'.pushed) = EventsOf(engine.pushed) \cup {h}
      /\ Feed!EnvsOf(engine'.pushed) = Feed!EnvsOf(engine.pushed) \cup {h.env}
  <2>1. engine.pushed \in Seq(Feed!Events)
    BY EventsTyped
  <2>2. /\ EventsOf(engine.pushed \o <<h>>) = EventsOf(engine.pushed) \cup {h}
        /\ Feed!EnvsOf(engine.pushed \o <<h>>) = Feed!EnvsOf(engine.pushed) \cup {h.env}
    <3>1. PICK t \in Seq(Feed!Events) : t = <<h>>
      BY <1>2
    <3>2. /\ EventsOf(engine.pushed \o t) = EventsOf(engine.pushed) \cup EventsOf(t)
          /\ Feed!EnvsOf(engine.pushed \o t) = Feed!EnvsOf(engine.pushed) \cup Feed!EnvsOf(t)
      BY <2>1, PutBehind
    <3> QED BY <1>4, <3>1, <3>2
  <2> QED BY <1>3, <2>2
<1>6. Coming' \subseteq Coming /\ Coming' \cup Arrived' \subseteq Coming \cup Arrived /\ h \in Coming
  BY <1>2, <1>5 DEF Coming, Arrived
<1>7. skipped' \subseteq Envelopes /\ conn' \in Feed!Connections
  BY DEF FeedInv, Feed!TypeOK
<1>8. Feed!TypeOK' /\ Feed!NothingElseMissed' /\ Table' /\ AllSound' /\ ComingOnce'
  BY <1>2, <1>3, <1>6, <1>7, SameListTyped, SameListMisses, SameTableKeeps, SameTableSound, SameTableComing
<1>9. LateSkipped'
  BY RestIsLate DEF LateSkipped
<1>10. Feed!Listed' = Feed!Listed
  BY DEF Feed!Listed
<1>11. ASSUME NEW e \in Envelopes, Wanted(e), messages[e].lamport <= h.lamport
       PROVE  e \in Feed!Listed \cup Feed!EnvsOf(engine.pushed) \cup {h.env}
  <2>1. CASE e \in Feed!EnvsOf(announce')
    <3>1. PICK v \in EventsOf(announce') : v.env = e
      BY <2>1 DEF Feed!EnvsOf, EventsOf
    <3>2. v \in Coming /\ v \in EventsOf(announce)
      BY <1>2, <3>1 DEF Coming
    <3>3. v.lamport = messages[e].lamport
      BY <1>11, <3>1, <3>2, RowIsSound DEF FeedInv, AllSound, Sound, Wanted
    <3>4. ~(v.lamport < h.lamport)
      BY <1>1, <1>11, <3>1, RestIsLate DEF Wanted
    <3>5. v.lamport \in Nat /\ h.lamport \in Nat
      BY <1>6, <3>2, EventsTyped
    <3>6. v = h
      BY <1>6, <1>11, <3>2, <3>3, <3>4, <3>5 DEF FeedInv, ComingOnce
    <3> QED BY <3>1, <3>6
  <2> QED BY <1>2, <1>11, <2>1 DEF FeedInv, Brings
<1>12. NoGaps(engine.pushed)' /\ NoGaps(conn.replay)'
  <2>1. PICK s, r : s = engine.pushed \o <<h>> /\ r = conn.replay
    OBVIOUS
  <2>2. NoGaps(s)
    <3>1. \A i \in DOMAIN <<h>> : i = 1 /\ <<h>>[i] = h
      OBVIOUS
    <3> QED BY <1>2, <1>4, <1>11, <2>1, <3>1, EventsTyped, NoGapsBehind DEF FeedInv
  <2>3. NoGaps(s)' /\ NoGaps(r)'
    BY <1>7, <1>10, <2>1, <2>2, SameTableNoGaps DEF FeedInv, Brings
  <2> QED BY <1>3, <2>1, <2>3 DEF NoGaps
<1>13. \A e : Wanted(e)' => Wanted(e)
  BY <1>7, SameTableKeeps
<1>14. conn'.after <= lamports' /\ Ahead(conn.after)'
  BY <1>7, SameTableAfter
<1>15. Brings'
  BY <1>2, <1>5, <1>10, <1>12, <1>13, <1>14 DEF FeedInv, Brings, TableIsSame
<1> QED BY <1>8, <1>9, <1>12, <1>15 DEF FeedInv

LEMMA FeedPublishKeeps == ASSUME FeedInv, Feed!Publish \/ Feed!PublishLost PROVE FeedInv'
<1>1. conn.at \in {"closed", "attached", "read", "live"} /\ skipped \subseteq Envelopes
  BY DEF FeedInv, Feed!TypeOK, Feed!Connections
<1>2. announce # <<>> /\ announce' = Tail(announce) /\ list' = list
  BY DEF Feed!Publish, Feed!PublishLost
<1>3. TableIsSame
  BY DEF Feed!Publish, Feed!PublishLost, TableIsSame
<1>4. CASE Feed!PublishLost
  <2>1. Head(announce) \in Coming
    BY <1>2, EventsTyped, FirstAndRest DEF Coming
  <2>2. skipped' \subseteq Envelopes /\ Head(announce).env \in skipped' /\ UNCHANGED <<conn, engine>>
    BY <1>1, <1>4, <2>1, EventsTyped DEF Feed!PublishLost, Feed!Events
  <2> QED BY <1>2, <1>3, <2>2, GoesToNobody
<1>5. CASE Feed!Publish /\ conn.at = "closed"
  BY <1>1, <1>2, <1>3, <1>5, GoesToNobody DEF Feed!Publish
<1>6. CASE Feed!Publish /\ conn.at \in {"attached", "read"}
  BY <1>2, <1>3, <1>6, BufferKeeps DEF Feed!Publish
<1>7. CASE Feed!Publish /\ conn.at = "live"
  BY <1>2, <1>3, <1>7, PushKeeps DEF Feed!Publish
<1> QED BY <1>1, <1>4, <1>5, <1>6, <1>7

-----------------------------------------------------------------------------
(* The page: connections. *)

\* A connection that begins or is over keeps nothing; what it had sent waits for the page.
LEMMA ConnectionClears ==
  ASSUME FeedInv, TableIsSame, UNCHANGED <<announce, list, skipped>>,
         conn' \in Feed!Connections, conn'.replay = <<>>, conn'.buffer = <<>>,
         conn'.at \in {"closed", "attached"},
         NEW n \in Nat, conn'.after = n, n <= lamports, Ahead(n),
         conn'.at = "attached" =>
            \A e \in Envelopes : Wanted(e) /\ messages[e].lamport <= n => e \in Feed!Listed,
         NEW p \in Seq(Feed!Events), NoGaps(p),
         EventsOf(p) \subseteq EventsOf(engine.pushed) \cup EventsOf(conn.replay),
         engine' \in Feed!Engines, engine'.pushed = p
  PROVE  FeedInv'
<1> USE NothingFollowsNothing
<1>1. skipped' \subseteq Envelopes /\ announce' \in Seq(Feed!Events)
  BY EventsTyped DEF FeedInv, Feed!TypeOK
<1>2. Coming' \subseteq Coming /\ Coming' \cup Arrived' \subseteq Coming \cup Arrived
  BY DEF Coming, Arrived
<1>3. Feed!TypeOK' /\ Feed!NothingElseMissed' /\ Table' /\ AllSound' /\ ComingOnce'
  BY <1>1, <1>2, SameListTyped, SameListMisses, SameTableKeeps, SameTableSound, SameTableComing
<1>4. LateSkipped'
  BY DEF FeedInv, LateSkipped
<1>5. Feed!Listed' = Feed!Listed
  BY DEF Feed!Listed
<1>6. NoGaps(engine.pushed)'
  <2>1. NoGaps(p)'
    BY <1>1, <1>5, SameTableNoGaps
  <2> QED BY <2>1 DEF NoGaps
<1>7. NoGaps(conn.replay)'
  BY DEF NoGaps
<1>8. Ahead(conn.after)' /\ conn'.after <= lamports'
  <2>1. Ahead(n)'
    BY <1>1, SameTableKeeps
  <2> QED BY <2>1 DEF Ahead, TableIsSame
<1>9. \A e : Wanted(e)' => Wanted(e)
  BY <1>1, SameTableKeeps
<1>10. Brings'
  BY <1>5, <1>7, <1>8, <1>9 DEF Brings, TableIsSame
<1> QED BY <1>3, <1>4, <1>6, <1>10 DEF FeedInv

\* A step of the engine that gives it no events.
LEMMA EngineOnlyKeeps ==
  ASSUME FeedInv, TableIsSame, UNCHANGED <<announce, conn, list, skipped>>,
         engine' \in Feed!Engines, engine'.pushed = engine.pushed
  PROVE  FeedInv'
<1>1. skipped' \subseteq Envelopes /\ announce' \in Seq(Feed!Events) /\ conn' \in Feed!Connections
  BY EventsTyped DEF FeedInv, Feed!TypeOK
<1>2. Coming' \subseteq Coming /\ Coming' \cup Arrived' \subseteq Coming \cup Arrived
  BY DEF Coming, Arrived
<1>3. Feed!TypeOK' /\ Feed!NothingElseMissed' /\ Table' /\ AllSound' /\ ComingOnce'
  BY <1>1, <1>2, SameListTyped, SameListMisses, SameTableKeeps, SameTableSound, SameTableComing
<1>4. LateSkipped'
  BY DEF FeedInv, LateSkipped
<1>5. Feed!Listed' = Feed!Listed
  BY DEF Feed!Listed
<1>6. NoGaps(engine.pushed)' /\ NoGaps(conn.replay)'
  <2>1. PICK s, r : s = engine.pushed /\ r = conn.replay
    OBVIOUS
  <2>2. NoGaps(s)' /\ NoGaps(r)'
    BY <1>1, <1>5, <2>1, SameTableNoGaps DEF FeedInv, Brings
  <2> QED BY <2>1, <2>2 DEF NoGaps
<1>7. \A e : Wanted(e)' => Wanted(e)
  BY <1>1, SameTableKeeps
<1>8. conn'.after <= lamports' /\ Ahead(conn.after)'
  BY <1>1, SameTableAfter
<1>9. Brings'
  BY <1>5, <1>6, <1>7, <1>8 DEF FeedInv, Brings, TableIsSame
<1> QED BY <1>3, <1>4, <1>6, <1>9 DEF FeedInv

LEMMA FeedConnectKeeps == ASSUME FeedInv, Feed!Connect PROVE FeedInv'
<1>1. /\ conn.at = "closed" /\ TableIsSame /\ UNCHANGED <<announce, list, skipped>>
      /\ conn' = [conn EXCEPT !.at = "attached", !.after = IF conn.mode = "ws" THEN Feed!Cursor ELSE 0]
      /\ engine' = IF conn.mode = "ws"
                   THEN [engine EXCEPT !.replayExpected = TRUE, !.catchUp = FALSE]
                   ELSE Feed!CatchingUp(engine)
  BY DEF Feed!Connect, TableIsSame
<1>2. conn \in Feed!Connections /\ engine \in Feed!Engines
  BY DEF FeedInv, Feed!TypeOK
<1>3. conn.replay = <<>> /\ conn.buffer = <<>>
  BY <1>1 DEF FeedInv, Brings
<1>4. PICK n : n = IF conn.mode = "ws" THEN Feed!Cursor ELSE 0
  OBVIOUS
<1>5. n \in Nat /\ n <= lamports /\ Ahead(n)
  <2>1. Ahead(0)
    BY DEF Ahead, Feed!Opened
  <2> QED BY <1>4, <2>1, CursorIsOne, EventsTyped
<1>6. ASSUME NEW e \in Envelopes, Wanted(e), messages[e].lamport <= n PROVE e \in Feed!Listed
  <2>1. n = Feed!Cursor
    BY <1>4, <1>6, RowIsSound DEF Wanted
  <2> QED BY <1>6, <2>1 DEF FeedInv, Feed!NothingElseMissed, Wanted
<1>7. /\ conn' \in Feed!Connections /\ conn'.at = "attached" /\ conn'.after = n
      /\ conn'.replay = <<>> /\ conn'.buffer = <<>>
  BY <1>1, <1>2, <1>3, <1>4, <1>5 DEF Feed!Connections
<1>8. engine' \in Feed!Engines /\ engine'.pushed = engine.pushed
  BY <1>1, <1>2 DEF Feed!CatchingUp, Feed!Engines
<1>9. NoGaps(engine.pushed) /\ engine.pushed \in Seq(Feed!Events)
  BY EventsTyped DEF FeedInv
<1>10. PICK p \in Seq(Feed!Events) : p = engine.pushed
  BY <1>9
<1> QED BY <1>1, <1>5, <1>6, <1>7, <1>8, <1>9, <1>10, ConnectionClears

\* The first events of a replay have no gaps either.
LEMMA PartHasNoGaps ==
  ASSUME NEW s \in Seq(Feed!Events), NoGaps(s), NEW n \in 0 .. Len(s)
  PROVE  /\ SubSeq(s, 1, n) \in Seq(Feed!Events)
         /\ EventsOf(SubSeq(s, 1, n)) \subseteq EventsOf(s)
         /\ NoGaps(SubSeq(s, 1, n))
<1> DEFINE t == SubSeq(s, 1, n)
<1>1. /\ t \in Seq(Feed!Events) /\ DOMAIN t = 1 .. n /\ n \in Nat
      /\ \A i \in 1 .. n : t[i] = s[i] /\ i \in DOMAIN s
  OBVIOUS
<1> HIDE DEF t
<1>2. EventsOf(t) \subseteq EventsOf(s)
  BY <1>1 DEF EventsOf
<1>3. \A i \in DOMAIN t : First(t, i) = First(s, i)
  BY <1>1 DEF First
<1>4. NoGaps(t)
  BY <1>1, <1>3 DEF NoGaps
<1> QED BY <1>1, <1>2, <1>4 DEF t

LEMMA FeedBreaksKeeps == ASSUME FeedInv, Feed!FallBack \/ Feed!Disconnect PROVE FeedInv'
<1>1. TableIsSame /\ UNCHANGED <<announce, list, skipped>>
  BY DEF Feed!FallBack, Feed!Disconnect, TableIsSame
<1>2. \E mode \in {"ws", "sse"} : conn' = Feed!Closed(mode)
  BY DEF Feed!FallBack, Feed!Disconnect, FeedInv, Feed!TypeOK, Feed!Connections
<1>3. /\ conn' \in Feed!Connections /\ conn'.at = "closed" /\ conn'.after = 0
      /\ conn'.replay = <<>> /\ conn'.buffer = <<>>
  <2>1. <<>> \in Seq(Feed!Events)
    OBVIOUS
  <2> QED BY <1>2, <2>1 DEF Feed!Closed, Feed!Connections
<1>4. 0 \in Nat /\ 0 <= lamports /\ Ahead(0)
  BY EventsTyped DEF Ahead, Feed!Opened
<1>5. engine \in Feed!Engines
  BY DEF FeedInv, Feed!TypeOK
<1>6. CASE Feed!FallBack
  <2>1. engine' = engine
    BY <1>6 DEF Feed!FallBack
  <2>2. PICK p \in Seq(Feed!Events) : p = engine.pushed
    BY EventsTyped
  <2> QED BY <1>1, <1>3, <1>4, <1>5, <2>1, <2>2, ConnectionClears DEF FeedInv
<1>7. CASE Feed!Disconnect
  <2>1. PICK n \in 0 .. Len(conn.replay) :
           LET got == Feed!Pushed(engine, SubSeq(conn.replay, 1, n))
           IN  engine' = IF engine.replayExpected THEN Feed!CatchingUp(got) ELSE got
    BY <1>7 DEF Feed!Disconnect
  <2>2. PICK t : t = SubSeq(conn.replay, 1, n)
    OBVIOUS
  <2>3. t \in Seq(Feed!Events) /\ EventsOf(t) \subseteq EventsOf(conn.replay) /\ NoGaps(t)
    BY <2>1, <2>2, EventsTyped, PartHasNoGaps DEF FeedInv, Brings
  <2>4. Feed!Pushed(engine, t) \in Feed!Engines /\ Feed!Pushed(engine, t).pushed = engine.pushed \o t
    BY <1>5, <2>3, PushedIs
  <2>5. engine' \in Feed!Engines /\ engine'.pushed = engine.pushed \o t
    BY <2>1, <2>2, <2>4 DEF Feed!CatchingUp, Feed!Engines
  <2>6. PICK p : p = engine.pushed \o t
    OBVIOUS
  <2>7. p \in Seq(Feed!Events) /\ EventsOf(p) \subseteq EventsOf(engine.pushed) \cup EventsOf(conn.replay)
    BY <2>3, <2>6, EventsTyped, PutBehind
  <2>8. NoGaps(p)
    BY <2>3, <2>6, EventsTyped, NoGapsBehind DEF FeedInv, NoGaps
  <2> QED BY <1>1, <1>3, <1>4, <2>5, <2>6, <2>7, <2>8, ConnectionClears
<1> QED BY <1>6, <1>7

LEMMA EngineKeeps ==
  ASSUME FeedInv, Feed!RequestFails \/ Feed!Reconcile \/ Feed!Visible PROVE FeedInv'
<1>1. TableIsSame /\ UNCHANGED <<announce, conn, list, skipped>>
  BY DEF Feed!RequestFails, Feed!Reconcile, Feed!Visible, TableIsSame
<1>2. engine \in Feed!Engines
  BY DEF FeedInv, Feed!TypeOK
<1>3. CASE Feed!RequestFails \/ Feed!Visible
  <2>1. engine' \in Feed!Engines /\ engine'.pushed = engine.pushed
    BY <1>2, <1>3 DEF Feed!RequestFails, Feed!Visible, Feed!Engines
  <2> QED BY <1>1, <2>1, EngineOnlyKeeps
<1>4. CASE Feed!Reconcile
  <2>1. \A i \in DOMAIN list : list[i].env \in Envelopes
    <3>1. \A i \in DOMAIN list : list[i] \in Feed!Events
      BY EventsTyped
    <3> QED BY <3>1 DEF Feed!Events
  <2>2. PICK newest \in SUBSET Envelopes :
           engine' = [engine EXCEPT !.catchUp = TRUE, !.due = TRUE, !.ids = @ \cup newest]
    BY <1>4, <2>1 DEF Feed!Reconcile
  <2>3. engine' \in Feed!Engines /\ engine'.pushed = engine.pushed
    BY <1>2, <2>2 DEF Feed!Engines
  <2> QED BY <1>1, <2>3, EngineOnlyKeeps
<1> QED BY <1>3, <1>4

-----------------------------------------------------------------------------
(* The page: what a query returns, and the replay of a connection. *)

\* A query returns rows that are newer, the oldest first, and all of them if they are few.
LEMMA NewerIs ==
  ASSUME FeedInv, NEW after \in Nat, NEW all \in BOOLEAN, NEW limit \in Nat
  PROVE  LET page == Feed!Newer(after, all, limit) IN
         /\ page \in Seq(Feed!Events)
         /\ \A v \in EventsOf(page) : \E e \in Feed!Committed : v = Feed!RowOf(e)
         /\ \A i \in DOMAIN page, e \in Envelopes :
              Wanted(e) /\ messages[e].lamport > after /\ messages[e].lamport <= page[i].lamport
                => e \in First(page, i)
         /\ \A e \in Envelopes :
              Wanted(e) /\ messages[e].lamport > after /\ Len(page) < limit => e \in Feed!EnvsOf(page)
<1> DEFINE Asked == {f \in Feed!Committed : messages[f].lamport > after /\ (all \/ ~messages[f].deleted)}
           S == {Feed!RowOf(e) : e \in Asked}
           q == Feed!ByLamport(S)
           N == Cardinality(S)
           page == Feed!Newer(after, all, limit)
<1>1. \A v \in S : \E e \in Asked : v = Feed!RowOf(e) /\ v.lamport = messages[e].lamport /\ v.env = e
  BY RowIsSound
<1>2. Dated(S, lamports)
  <2>1. S \subseteq Feed!Events /\ \A v \in S : v.lamport <= lamports
    BY RowIsSound
  <2>2. \A v, w \in S : v.lamport = w.lamport => v = w
    <3> SUFFICES ASSUME NEW v \in S, NEW w \in S, v.lamport = w.lamport PROVE v = w
      OBVIOUS
    <3>1. PICK e \in Asked : v = Feed!RowOf(e) /\ v.lamport = messages[e].lamport
      BY <1>1
    <3>2. PICK f \in Asked : w = Feed!RowOf(f) /\ w.lamport = messages[f].lamport
      BY <1>1
    <3>3. e = f
      BY <3>1, <3>2 DEF FeedInv, Feed!TypeOK
    <3> QED BY <3>1, <3>2, <3>3
  <2> HIDE DEF S
  <2> QED BY <2>1, <2>2 DEF Dated
<1>3. /\ q \in Seq(Feed!Events) /\ Len(q) = N /\ N \in Nat
      /\ \A i \in DOMAIN q : q[i] \in S
      /\ \A v \in S : \E i \in DOMAIN q : q[i] = v
      /\ \A v \in S, i \in DOMAIN q : v.lamport <= q[i].lamport => \E j \in 1 .. i : q[j] = v
  BY <1>2, ByLamportSorts, EventsTyped
<1>4. page = [i \in {n \in DOMAIN q : n <= limit} |-> q[i]]
  BY DEF Feed!Newer
<1>5. \A e \in Envelopes : Wanted(e) /\ messages[e].lamport > after =>
         Feed!RowOf(e) \in S /\ Feed!RowOf(e).lamport = messages[e].lamport /\ Feed!RowOf(e).env = e
  BY RowIsSound DEF Wanted
<1> HIDE DEF q, S, page
<1>6. PICK k \in Nat : DOMAIN page = 1 .. k /\ k <= N /\ (N <= limit => k = N) /\ (N > limit => k = limit)
  <2>1. DOMAIN q = 1 .. N
    BY <1>3
  <2>2. CASE N <= limit
    <3>1. DOMAIN page = 1 .. N
      BY <1>3, <1>4, <2>1, <2>2
    <3> QED BY <1>3, <2>2, <3>1
  <2>3. CASE ~(N <= limit)
    <3>1. DOMAIN page = 1 .. limit
      BY <1>3, <1>4, <2>1, <2>3
    <3> QED BY <1>3, <2>3, <3>1
  <2> QED BY <2>2, <2>3
<1>7. \A i \in 1 .. k : i \in DOMAIN q /\ page[i] = q[i]
  BY <1>3, <1>4, <1>6
<1>8. page \in Seq(Feed!Events) /\ Len(page) = k
  <2>1. \A i \in 1 .. k : page[i] \in Feed!Events
    BY <1>3, <1>7
  <2>2. page = [i \in 1 .. k |-> page[i]]
    BY <1>4, <1>6
  <2> QED BY <1>6, <2>1, <2>2
<1>9. \A v \in EventsOf(page) : \E e \in Feed!Committed : v = Feed!RowOf(e)
  BY <1>1, <1>3, <1>6, <1>7 DEF EventsOf
<1>10. ASSUME NEW i \in DOMAIN page, NEW e \in Envelopes, Wanted(e),
              messages[e].lamport > after, messages[e].lamport <= page[i].lamport
       PROVE  e \in First(page, i)
  <2>1. PICK j \in 1 .. i : q[j] = Feed!RowOf(e)
    BY <1>3, <1>5, <1>6, <1>7, <1>10
  <2>2. j \in 1 .. k
    BY <1>6, <2>1
  <2>3. page[j].env = e
    BY <1>5, <1>7, <1>10, <2>1, <2>2
  <2> QED BY <2>1, <2>3 DEF First
<1>11. ASSUME NEW e \in Envelopes, Wanted(e), messages[e].lamport > after, Len(page) < limit
       PROVE  e \in Feed!EnvsOf(page)
  <2>1. k = N
    BY <1>3, <1>6, <1>8, <1>11
  <2>2. PICK i \in DOMAIN q : q[i] = Feed!RowOf(e)
    BY <1>3, <1>5, <1>11
  <2>3. i \in DOMAIN page /\ page[i].env = e
    BY <1>3, <1>5, <1>6, <1>7, <1>11, <2>1, <2>2
  <2> QED BY <2>3 DEF Feed!EnvsOf
<1> QED BY <1>8, <1>9, <1>10, <1>11 DEF page

LEMMA FeedReadReplayKeeps == ASSUME FeedInv, Feed!ReadReplay PROVE FeedInv'
<1>1. PICK page : page = Feed!Newer(conn.after, TRUE, ReplayLimit)
  OBVIOUS
<1>2. /\ conn.at = "attached" /\ UNCHANGED <<announce, list, engine>>
      /\ conn' = [conn EXCEPT !.at = "read", !.replay = page]
      /\ skipped' = skipped \cup Feed!CutOff(conn.after, page, ReplayLimit)
  BY <1>1 DEF Feed!ReadReplay
<1>3. TableIsSame
  BY <1>2 DEF Feed!ReadReplay, TableIsSame
<1>4. conn \in Feed!Connections /\ conn.after \in Nat
  BY DEF FeedInv, Feed!TypeOK, Feed!Connections
<1>5. /\ page \in Seq(Feed!Events)
      /\ \A v \in EventsOf(page) : \E e \in Feed!Committed : v = Feed!RowOf(e)
      /\ \A i \in DOMAIN page, e \in Envelopes :
           Wanted(e) /\ messages[e].lamport > conn.after /\ messages[e].lamport <= page[i].lamport
             => e \in First(page, i)
      /\ \A e \in Envelopes :
           Wanted(e) /\ messages[e].lamport > conn.after /\ Len(page) < ReplayLimit
             => e \in Feed!EnvsOf(page)
  BY <1>1, <1>4, NewerIs, FeedAssumption
<1>6. /\ conn' \in Feed!Connections /\ conn'.at = "read" /\ conn'.after = conn.after
      /\ conn'.replay = page /\ conn'.buffer = conn.buffer
  BY <1>2, <1>4, <1>5 DEF Feed!Connections
<1>7. skipped' \subseteq Envelopes
  BY <1>2 DEF FeedInv, Feed!TypeOK, Feed!CutOff, Feed!Committed
<1>8. Coming' = Coming /\ Arrived' \subseteq Arrived \cup EventsOf(page)
  BY <1>2, <1>6 DEF Coming, Arrived
<1>9. AllSound'
  <2>1. \A v \in Coming \cup Arrived \cup EventsOf(page) : Sound(v)
    BY <1>5, RowIsSound DEF FeedInv, AllSound
  <2>2. \A v : Sound(v) => Sound(v)'
    BY <1>3, <1>7, SameTableKeeps
  <2> QED BY <1>8, <2>1, <2>2 DEF AllSound
<1>10. Feed!TypeOK' /\ Feed!NothingElseMissed' /\ Table' /\ ComingOnce'
  <2>1. announce' \in Seq(Feed!Events) /\ engine' \in Feed!Engines
    BY <1>2 DEF FeedInv, Feed!TypeOK
  <2> QED BY <1>2, <1>3, <1>6, <1>7, <1>8, <2>1, SameListTyped, SameListMisses, SameTableKeeps, SameTableComing
<1>11. LateSkipped'
  BY <1>2, <1>3, <1>6 DEF FeedInv, LateSkipped, TableIsSame
<1>12. Feed!Listed' = Feed!Listed
  BY <1>2 DEF Feed!Listed
<1>13. \A e : Wanted(e)' => Wanted(e) /\ e \notin skipped' /\ messages[e].lamport \in Nat
  BY <1>3, <1>7, SameTableKeeps, RowIsSound DEF Wanted
<1>14. ASSUME NEW e \in Envelopes, Wanted(e), messages[e].lamport <= conn.after
       PROVE  e \in Feed!Listed
  BY <1>2, <1>14 DEF FeedInv, Brings
<1>15. ASSUME NEW e \in Envelopes, Wanted(e)' PROVE e \in Feed!Listed \cup Feed!EnvsOf(page)
  <2>1. CASE messages[e].lamport <= conn.after
    BY <1>13, <1>14, <1>15, <2>1
  <2>2. CASE messages[e].lamport > conn.after /\ Len(page) < ReplayLimit
    BY <1>5, <1>13, <1>15, <2>2
  <2>3. CASE messages[e].lamport > conn.after /\ ~(Len(page) < ReplayLimit)
    <3>1. e \in Feed!Committed /\ e \notin Feed!CutOff(conn.after, page, ReplayLimit)
      BY <1>2, <1>13, <1>15 DEF Wanted
    <3> QED BY <2>3, <3>1 DEF Feed!CutOff
  <2> QED BY <1>4, <1>13, <1>15, <2>1, <2>2, <2>3
<1>16. NoGaps(page)
  <2>1. ASSUME NEW i \in DOMAIN page, NEW e \in Envelopes, Wanted(e), messages[e].lamport <= page[i].lamport
        PROVE  e \in Feed!Listed \cup First(page, i)
    <3>1. messages[e].lamport \in Nat
      BY <2>1, RowIsSound DEF Wanted
    <3> QED BY <1>4, <1>5, <1>14, <2>1, <3>1
  <2> QED BY <2>1 DEF NoGaps
<1>17. NoGaps(engine.pushed)' /\ NoGaps(conn.replay)'
  <2>1. PICK s : s = engine.pushed
    OBVIOUS
  <2>2. NoGaps(s)' /\ NoGaps(page)'
    BY <1>3, <1>7, <1>12, <1>16, <2>1, SameTableNoGaps DEF FeedInv
  <2> QED BY <1>2, <1>6, <2>1, <2>2 DEF NoGaps
<1>18. conn'.after <= lamports' /\ Ahead(conn.after)'
  BY <1>3, <1>6, <1>7, SameTableAfter
<1>19. Brings'
  <2>1. \A e \in Envelopes : Wanted(e)' /\ messages'[e].lamport <= conn'.after => e \in Feed!Listed'
    BY <1>3, <1>6, <1>12, <1>13, <1>14 DEF TableIsSame
  <2>2. \A e \in Envelopes : Wanted(e)' => e \in Feed!Listed' \cup Feed!EnvsOf(conn'.replay)
    BY <1>6, <1>12, <1>15
  <2> QED BY <1>6, <1>17, <1>18, <2>1, <2>2 DEF Brings
<1> QED BY <1>9, <1>10, <1>11, <1>17, <1>19 DEF FeedInv

\* What the drain keeps: the oldest event of each message that was not replayed.
LEMMA DrainedIs ==
  ASSUME FeedInv
  PROVE  LET B == EventsOf(conn.buffer) IN
         /\ Feed!Drained \in Seq(Feed!Events) /\ EventsOf(Feed!Drained) \subseteq B
         /\ \A e \in Envelopes, v \in B : Wanted(e) /\ v.env = e =>
              /\ e \in Feed!EnvsOf(conn.replay) \cup Feed!EnvsOf(Feed!Drained)
              /\ \A i \in DOMAIN Feed!Drained :
                   messages[e].lamport <= Feed!Drained[i].lamport
                     => e \in Feed!EnvsOf(conn.replay) \cup First(Feed!Drained, i)
<1> DEFINE B == EventsOf(conn.buffer)
           S == {v \in B : /\ v.env \notin Feed!EnvsOf(conn.replay)
                           /\ \A w \in B : w.env = v.env => v.lamport <= w.lamport}
           q == Feed!ByLamport(S)
<1>1. Feed!Drained = q
  BY DEF Feed!Drained, EventsOf
<1>2. B \subseteq Coming /\ B \subseteq Feed!Events /\ \A v \in B : Sound(v) /\ v.lamport \in Nat
  BY EventsTyped DEF Coming, FeedInv, AllSound
<1>3. Dated(S, lamports)
  BY <1>2 DEF Dated, Sound, FeedInv, ComingOnce
<1>4. /\ q \in Seq(Feed!Events)
      /\ \A i \in DOMAIN q : q[i] \in S
      /\ \A v \in S : \E i \in DOMAIN q : q[i] = v
      /\ \A v \in S, i \in DOMAIN q : v.lamport <= q[i].lamport => \E j \in 1 .. i : q[j] = v
  <2> HIDE DEF S
  <2>1. lamports \in Nat
    BY EventsTyped
  <2> QED BY <1>3, <2>1, ByLamportSorts
<1> HIDE DEF q
<1>5. EventsOf(q) \subseteq B
  BY <1>4 DEF EventsOf
<1>6. ASSUME NEW e \in Envelopes, NEW v \in B, Wanted(e), v.env = e
      PROVE  /\ e \in Feed!EnvsOf(conn.replay) \cup Feed!EnvsOf(q)
             /\ \A i \in DOMAIN q : messages[e].lamport <= q[i].lamport
                                      => e \in Feed!EnvsOf(conn.replay) \cup First(q, i)
  <2>1. \A w \in B : w.env = e => w = Feed!RowOf(e)
    BY <1>2, <1>6 DEF Sound, Wanted
  <2>2. v.lamport = messages[e].lamport /\ v.lamport \in Nat
    BY <1>2, <1>6, <2>1, RowIsSound DEF Wanted
  <2>3. CASE e \in Feed!EnvsOf(conn.replay)
    BY <2>3
  <2>4. CASE e \notin Feed!EnvsOf(conn.replay)
    <3>1. v \in S
      BY <1>6, <2>1, <2>2, <2>4
    <3> HIDE DEF S
    <3>2. e \in Feed!EnvsOf(q)
      BY <1>4, <1>6, <3>1 DEF Feed!EnvsOf
    <3>3. ASSUME NEW i \in DOMAIN q, messages[e].lamport <= q[i].lamport PROVE e \in First(q, i)
      <4>1. PICK j \in 1 .. i : q[j] = v
        BY <1>4, <2>2, <3>1, <3>3
      <4> QED BY <1>6, <4>1 DEF First
    <3> QED BY <3>2, <3>3
  <2> QED BY <2>3, <2>4
<1> QED BY <1>1, <1>4, <1>5, <1>6

LEMMA FeedSendReplayKeeps == ASSUME FeedInv, Feed!SendReplay PROVE FeedInv'
<1> USE NothingFollowsNothing
<1>1. PICK d, s : d = Feed!Drained /\ s = engine.pushed \o conn.replay
  OBVIOUS
<1>2. /\ conn.at = "read" /\ TableIsSame /\ UNCHANGED <<announce, list, skipped>>
      /\ engine' = Feed!Pushed(Feed!ReplayStatus(Feed!Pushed(engine, conn.replay)), d)
      /\ conn' = [conn EXCEPT !.at = "live", !.replay = <<>>, !.buffer = <<>>]
  BY <1>1 DEF Feed!SendReplay, TableIsSame
<1>3. conn \in Feed!Connections /\ engine \in Feed!Engines /\ skipped' \subseteq Envelopes
  BY <1>2 DEF FeedInv, Feed!TypeOK
<1>4. /\ s \in Seq(Feed!Events)
      /\ EventsOf(s) = EventsOf(engine.pushed) \cup EventsOf(conn.replay)
      /\ Feed!EnvsOf(s) = Feed!EnvsOf(engine.pushed) \cup Feed!EnvsOf(conn.replay)
  BY <1>1, EventsTyped, PutBehind
<1>5. /\ d \in Seq(Feed!Events) /\ EventsOf(d) \subseteq EventsOf(conn.buffer)
      /\ \A e \in Envelopes, v \in EventsOf(conn.buffer) : Wanted(e) /\ v.env = e =>
           /\ e \in Feed!EnvsOf(conn.replay) \cup Feed!EnvsOf(d)
           /\ \A i \in DOMAIN d : messages[e].lamport <= d[i].lamport
                                    => e \in Feed!EnvsOf(conn.replay) \cup First(d, i)
  BY <1>1, DrainedIs
<1>6. PICK p : p = s \o d
  OBVIOUS
<1>7. /\ p \in Seq(Feed!Events)
      /\ EventsOf(p) = EventsOf(s) \cup EventsOf(d)
      /\ Feed!EnvsOf(p) = Feed!EnvsOf(s) \cup Feed!EnvsOf(d)
  BY <1>4, <1>5, <1>6, PutBehind
<1>8. engine' \in Feed!Engines /\ engine'.pushed = p
  <2>1. Feed!Pushed(engine, conn.replay) \in Feed!Engines /\ Feed!Pushed(engine, conn.replay).pushed = s
    BY <1>1, <1>3, EventsTyped, PushedIs
  <2>2. \A eng \in Feed!Engines : /\ Feed!ReplayStatus(eng) \in Feed!Engines
                                  /\ Feed!ReplayStatus(eng).pushed = eng.pushed
    BY DEF Feed!ReplayStatus, Feed!CatchingUp, Feed!Engines
  <2> QED BY <1>2, <1>5, <1>6, <2>1, <2>2, PushedIs
<1>9. /\ conn' \in Feed!Connections /\ conn'.at = "live" /\ conn'.after = conn.after
      /\ conn'.replay = <<>> /\ conn'.buffer = <<>>
  <2>1. <<>> \in Seq(Feed!Events)
    OBVIOUS
  <2> QED BY <1>2, <1>3, <2>1 DEF Feed!Connections
<1>10. Coming' \subseteq Coming /\ Coming' \cup Arrived' \subseteq Coming \cup Arrived
  BY <1>2, <1>4, <1>5, <1>7, <1>8, <1>9 DEF Coming, Arrived
<1>11. Feed!TypeOK' /\ Feed!NothingElseMissed' /\ Table' /\ AllSound' /\ ComingOnce'
  <2>1. announce' \in Seq(Feed!Events)
    BY <1>2, EventsTyped
  <2> QED BY <1>2, <1>3, <1>8, <1>9, <1>10, <2>1, SameListTyped, SameListMisses, SameTableKeeps,
             SameTableSound, SameTableComing
<1>12. LateSkipped'
  BY <1>2, <1>9 DEF FeedInv, LateSkipped
<1>13. Feed!Listed' = Feed!Listed
  BY <1>2 DEF Feed!Listed
<1>14. ASSUME NEW u \in EventsOf(announce), NEW e \in Envelopes, Wanted(e), u.env = e
       PROVE  u \in Coming /\ u.lamport = messages[e].lamport /\ u.lamport \in Nat
  <2>1. u \in Coming
    BY DEF Coming
  <2> QED BY <1>14, <2>1, RowIsSound, EventsTyped DEF FeedInv, AllSound, Sound, Wanted
<1>15. ASSUME NEW i \in DOMAIN d, NEW e \in Envelopes, Wanted(e), messages[e].lamport <= d[i].lamport
       PROVE  e \in Feed!Listed \cup Feed!EnvsOf(s) \cup First(d, i)
  <2>1. e \in Feed!Listed \cup Feed!EnvsOf(conn.replay) \cup Feed!EnvsOf(conn.buffer)
              \cup Feed!EnvsOf(announce)
    BY <1>2, <1>15 DEF FeedInv, Brings
  <2>2. CASE e \in Feed!EnvsOf(conn.buffer)
    <3>1. PICK v \in EventsOf(conn.buffer) : v.env = e
      BY <2>2 DEF Feed!EnvsOf, EventsOf
    <3> QED BY <1>4, <1>5, <1>15, <3>1
  <2>3. CASE e \in Feed!EnvsOf(announce)
    <3>1. PICK u \in EventsOf(announce) : u.env = e
      BY <2>3 DEF Feed!EnvsOf, EventsOf
    <3>2. d[i] \in EventsOf(conn.buffer) /\ d[i] \in Coming
      BY <1>5 DEF EventsOf, Coming
    <3>3. d[i].lamport \in Nat
      BY <3>2, EventsTyped
    <3>4. u \in Coming /\ u.lamport = messages[e].lamport /\ u.lamport \in Nat
      BY <1>14, <1>15, <3>1
    <3>5. ~(u.lamport < d[i].lamport)
      BY <1>15, <3>1, <3>2 DEF FeedInv, LateSkipped, Wanted
    <3>6. u = d[i]
      BY <1>15, <3>2, <3>3, <3>4, <3>5 DEF FeedInv, ComingOnce
    <3>7. i \in 1 .. i
      BY <1>5
    <3> QED BY <3>1, <3>6, <3>7 DEF First
  <2> QED BY <1>4, <2>1, <2>2, <2>3
<1>16. NoGaps(p)
  <2>1. NoGaps(s)
    BY <1>1, EventsTyped, NoGapsBehind DEF FeedInv, Brings, NoGaps
  <2> QED BY <1>4, <1>5, <1>6, <1>15, <2>1, NoGapsBehind
<1>17. NoGaps(engine.pushed)' /\ NoGaps(conn.replay)'
  <2>1. NoGaps(p)'
    BY <1>2, <1>3, <1>13, <1>16, SameTableNoGaps
  <2> QED BY <1>8, <1>9, <2>1 DEF NoGaps
<1>18. conn'.after <= lamports' /\ Ahead(conn.after)'
  BY <1>2, <1>3, <1>9, SameTableAfter
<1>19. ASSUME NEW e \in Envelopes, Wanted(e)'
       PROVE  e \in Feed!Listed' \cup Feed!EnvsOf(engine'.pushed) \cup Feed!EnvsOf(announce')
  <2>1. Wanted(e)
    BY <1>2, <1>3, <1>19, SameTableKeeps
  <2>2. e \in Feed!EnvsOf(conn.buffer) => e \in Feed!EnvsOf(conn.replay) \cup Feed!EnvsOf(d)
    BY <1>5, <2>1 DEF Feed!EnvsOf, EventsOf
  <2> QED BY <1>2, <1>4, <1>7, <1>8, <1>13, <2>1, <2>2 DEF FeedInv, Brings
<1>20. Brings'
  BY <1>9, <1>17, <1>18, <1>19 DEF Brings
<1> QED BY <1>11, <1>12, <1>17, <1>20 DEF FeedInv

-----------------------------------------------------------------------------
(* The page: its list. *)

LEMMA CursorTyped == ASSUME NEW l \in Seq(Feed!Events) PROVE Feed!CursorOf(l) \in Nat
<1>1. CASE l = <<>>
  BY <1>1 DEF Feed!CursorOf
<1>2. CASE l # <<>>
  <2>1. l[Len(l)] \in Feed!Events
    BY <1>2
  <2> QED BY <1>2, <2>1 DEF Feed!CursorOf, Feed!Events
<1> QED BY <1>1, <1>2

\* A list that keeps its messages, has sound events and misses nothing.
LEMMA ListMoves ==
  ASSUME FeedInv, TableIsSame, skipped' \subseteq Envelopes, UNCHANGED <<announce, conn>>,
         list' \in Seq(Feed!Events), Once(list'), Feed!Listed \subseteq Feed!Listed',
         \A v \in EventsOf(list') : Sound(v), Feed!NothingElseMissed',
         engine' \in Feed!Engines, engine'.pushed \in {<<>>, engine.pushed},
         \A e \in Envelopes : Wanted(e)' /\ e \in Feed!EnvsOf(engine.pushed)
            => e \in Feed!Listed' \cup Feed!EnvsOf(engine'.pushed)
  PROVE  FeedInv'
<1>1. Table' /\ Feed!Committed' = Feed!Committed /\ \A v : Sound(v) => Sound(v)'
  BY SameTableKeeps
<1>2. Feed!TypeOK'
  BY <1>1 DEF FeedInv, Feed!TypeOK, TableIsSame, Once
<1>3. Coming' = Coming /\ Arrived' \subseteq Arrived \cup EventsOf(list')
  BY NothingFollowsNothing DEF Coming, Arrived
<1>4. AllSound'
  BY <1>1, <1>3 DEF FeedInv, AllSound
<1>5. ComingOnce'
  BY <1>3, SameTableComing
<1>6. LateSkipped'
  BY DEF FeedInv, LateSkipped, TableIsSame
<1>7. NoGaps(engine.pushed)' /\ NoGaps(conn.replay)'
  <2>1. PICK s, r : s = engine'.pushed /\ r = conn.replay
    OBVIOUS
  <2>2. NoGaps(s) /\ NoGaps(r)
    BY <2>1, NothingFollowsNothing DEF FeedInv, Brings
  <2>3. NoGaps(s)' /\ NoGaps(r)'
    BY <2>2, SameTableNoGaps
  <2> QED BY <2>1, <2>3 DEF NoGaps
<1>8. \A e : Wanted(e)' => Wanted(e)
  BY SameTableKeeps
<1>9. conn'.after <= lamports' /\ Ahead(conn.after)'
  BY SameTableAfter
<1>10. conn.at = "live" => \A e \in Envelopes : Wanted(e)' =>
           e \in Feed!Listed' \cup Feed!EnvsOf(engine'.pushed) \cup Feed!EnvsOf(announce)
  BY <1>8 DEF FeedInv, Brings
<1>11. conn.at = "read" => \A e \in Envelopes : Wanted(e)' =>
           e \in Feed!Listed' \cup Feed!EnvsOf(conn.replay) \cup Feed!EnvsOf(conn.buffer)
                 \cup Feed!EnvsOf(announce)
  BY <1>8 DEF FeedInv, Brings
<1>12. conn.at \in {"attached", "read"} =>
          \A e \in Envelopes : Wanted(e)' /\ messages[e].lamport <= conn.after => e \in Feed!Listed'
  BY <1>8 DEF FeedInv, Brings
<1>13. Brings'
  BY <1>7, <1>9, <1>10, <1>11, <1>12 DEF FeedInv, Brings, TableIsSame
<1> QED BY <1>1, <1>2, <1>4, <1>5, <1>6, <1>7, <1>13 DEF FeedInv

\* A message that stands is appended when an event of it is, for the event says that it stands.
LEMMA StandingIsAppended ==
  ASSUME FeedInv, NEW s \in Seq(Feed!Events), \A v \in EventsOf(s) : Sound(v),
         NEW l, NEW m, Follows(l, s, Len(s), m),
         NEW e, Wanted(e), e \in Feed!EnvsOf(s)
  PROVE  e \in Feed!EnvsOf(m)
<1>1. PICK k \in DOMAIN s : s[k].env = e
  BY DEF Feed!EnvsOf
<1>2. s[k] = Feed!RowOf(e)
  BY <1>1 DEF EventsOf, Sound, Wanted
<1>3. ~s[k].deleted /\ k \in 1 .. Len(s)
  BY <1>1, <1>2, RowIsSound DEF Wanted
<1> QED BY <1>1, <1>3 DEF Follows

\* What Appended makes of the list misses nothing, if the events it is given have no gaps
\* above the cursor.
LEMMA AppendedMisses ==
  ASSUME FeedInv, NEW s \in Seq(Feed!Events), \A v \in EventsOf(s) : Sound(v),
         NEW m, Follows(list, s, Len(s), m),
         \A i \in DOMAIN s, e \in Envelopes :
            Wanted(e) /\ messages[e].lamport > Feed!Cursor /\ messages[e].lamport <= s[i].lamport
              => e \in Feed!Listed \cup First(s, i),
         NEW e \in Envelopes, Wanted(e), messages[e].lamport <= Feed!CursorOf(m)
  PROVE  e \in Feed!EnvsOf(m)
<1>1. messages[e].lamport \in Nat /\ Feed!Cursor \in Nat
  BY RowIsSound, CursorIsOne DEF Wanted
<1>2. Feed!Listed \subseteq Feed!EnvsOf(m)
  BY DEF Follows, Feed!Listed
<1>3. CASE messages[e].lamport <= Feed!Cursor
  BY <1>2, <1>3 DEF FeedInv, Feed!NothingElseMissed, Wanted
<1>4. CASE messages[e].lamport > Feed!Cursor
  <2>1. Feed!CursorOf(m) # Feed!Cursor
    BY <1>1, <1>4
  <2>2. PICK j \in 1 .. Len(s) : Feed!CursorOf(m) = s[j].lamport
    BY <2>1 DEF Follows, Feed!Cursor
  <2>3. j \in DOMAIN s
    OBVIOUS
  <2>4. e \in Feed!Listed \cup First(s, j)
    BY <1>4, <2>2, <2>3
  <2>5. First(s, j) \subseteq Feed!EnvsOf(s)
    BY <2>3 DEF First, Feed!EnvsOf
  <2> QED BY <1>2, <2>4, <2>5, StandingIsAppended
<1> QED BY <1>1, <1>3, <1>4

\* A refresh that takes the cursor past messages says which.
LEMMA RefreshMisses ==
  ASSUME FeedInv, TableIsSame, skipped' \subseteq Envelopes,
         NEW l \in Seq(Feed!Events), NEW m \in Seq(Feed!Events), list' = m,
         Feed!EnvsOf(m) = Feed!EnvsOf(l), Feed!Passed(l, m) \subseteq skipped',
         \A e \in Envelopes : Wanted(e) /\ messages[e].lamport <= Feed!CursorOf(l) => e \in Feed!EnvsOf(l)
  PROVE  Feed!NothingElseMissed'
<1>1. /\ Feed!Listed' = Feed!EnvsOf(l) /\ Feed!Cursor' = Feed!CursorOf(m)
      /\ Feed!Committed' = Feed!Committed /\ \A e : Wanted(e)' => Wanted(e)
  BY SameTableKeeps DEF Feed!Listed, Feed!Cursor
<1>2. ASSUME NEW e \in Feed!Committed, ~messages[e].deleted, messages[e].lamport <= Feed!CursorOf(m),
             e \notin skipped'
      PROVE  e \in Feed!EnvsOf(l)
  <2>1. Wanted(e) /\ e \in Envelopes /\ messages[e].lamport \in Nat
    BY <1>2, RowIsSound DEF Wanted, TableIsSame
  <2>2. Feed!CursorOf(l) \in Nat
    BY CursorTyped
  <2>3. CASE messages[e].lamport <= Feed!CursorOf(l)
    BY <2>1, <2>3
  <2>4. CASE messages[e].lamport > Feed!CursorOf(l)
    <3>1. e \notin Feed!Passed(l, m)
      BY <1>2
    <3>2. \E i \in DOMAIN m : m[i].env = e
      BY <1>2, <2>4, <3>1 DEF Feed!Passed
    <3> QED BY <3>2 DEF Feed!EnvsOf
  <2> QED BY <2>1, <2>2, <2>3, <2>4
<1> QED BY <1>1, <1>2 DEF Feed!NothingElseMissed, TableIsSame

LEMMA FeedFlushKeeps == ASSUME FeedInv, Feed!Flush PROVE FeedInv'
<1> DEFINE s == engine.pushed
           changes == {n \in DOMAIN s : s[n].deleted}
<1>1. PICK l, m : l = Feed!Appended(list, s) /\ m = Feed!Refreshed(l, s, changes)
  OBVIOUS
<1>2. /\ list' = m /\ skipped' = skipped \cup Feed!Passed(l, m)
      /\ UNCHANGED <<announce, conn>> /\ TableIsSame
      /\ \E stage \in {"catchUp", "lookup", "idle"} :
           engine' = [Feed!Idle EXCEPT !.replayExpected = engine.replayExpected, !.stage = stage,
                                       !.lookup = engine.ids]
  BY <1>1 DEF Feed!Flush, TableIsSame
<1>3. s \in Seq(Feed!Events) /\ list \in Seq(Feed!Events) /\ Once(list) /\ engine \in Feed!Engines
  BY EventsTyped DEF FeedInv, Feed!TypeOK, Once
<1>4. Follows(list, s, Len(s), l)
  BY <1>1, <1>3, AppendedFollows
<1>5. l \in Seq(Feed!Events) /\ Once(l)
  BY <1>4 DEF Follows
<1>6. /\ m \in Seq(Feed!Events) /\ Once(m) /\ Feed!EnvsOf(m) = Feed!EnvsOf(l)
      /\ EventsOf(m) \subseteq EventsOf(l) \cup EventsOf(s)
  BY <1>1, <1>3, <1>5, RefreshedKeeps
<1>7. engine' \in Feed!Engines /\ engine'.pushed = <<>>
  <2>1. <<>> \in Seq(Feed!Events)
    OBVIOUS
  <2> QED BY <1>2, <1>3, <2>1 DEF Feed!Idle, Feed!Engines
<1>8. skipped' \subseteq Envelopes
  BY <1>2 DEF FeedInv, Feed!TypeOK, Feed!Passed, Feed!Committed
<1>9. \A v \in EventsOf(s) : Sound(v)
  BY DEF FeedInv, AllSound, Arrived
<1>10. \A v \in EventsOf(m) : Sound(v)
  BY <1>4, <1>6 DEF Follows, FeedInv, AllSound, Arrived
<1>11. ASSUME NEW e \in Envelopes, Wanted(e), messages[e].lamport <= Feed!CursorOf(l)
       PROVE  e \in Feed!EnvsOf(l)
  <2>1. \A i \in DOMAIN s, f \in Envelopes :
           Wanted(f) /\ messages[f].lamport <= s[i].lamport => f \in Feed!Listed \cup First(s, i)
    BY DEF FeedInv, NoGaps
  <2> HIDE DEF s
  <2> QED BY <1>3, <1>4, <1>9, <1>11, <2>1, AppendedMisses
<1>12. Feed!NothingElseMissed'
  BY <1>2, <1>5, <1>6, <1>8, <1>11, RefreshMisses
<1>13. Feed!Listed' = Feed!EnvsOf(l) /\ Feed!Listed \subseteq Feed!Listed'
  BY <1>2, <1>4, <1>6 DEF Feed!Listed, Follows
<1>14. \A e : Wanted(e)' /\ e \in Feed!EnvsOf(s) => e \in Feed!Listed'
  <2>1. \A e : Wanted(e)' => Wanted(e)
    BY <1>2, <1>8, SameTableKeeps
  <2> QED BY <1>3, <1>4, <1>9, <1>13, <2>1, StandingIsAppended
<1> QED BY <1>2, <1>6, <1>7, <1>8, <1>10, <1>12, <1>13, <1>14, ListMoves

LEMMA FeedCatchUpKeeps == ASSUME FeedInv, Feed!CatchUp PROVE FeedInv'
<1>1. PICK s : s = Feed!Newer(Feed!Cursor, FALSE, SyncLimit)
  OBVIOUS
<1>2. PICK m : m = Feed!Appended(list, s)
  OBVIOUS
<1>3. /\ list' = m /\ skipped' = skipped \cup Feed!CutOff(Feed!Cursor, s, SyncLimit)
      /\ UNCHANGED <<announce, conn>> /\ TableIsSame
      /\ engine' = [engine EXCEPT !.stage = IF engine.lookup # {} THEN "lookup" ELSE "idle"]
  BY <1>1, <1>2 DEF Feed!CatchUp, TableIsSame
<1>4. /\ s \in Seq(Feed!Events)
      /\ \A v \in EventsOf(s) : \E e \in Feed!Committed : v = Feed!RowOf(e)
      /\ \A i \in DOMAIN s, e \in Envelopes :
           Wanted(e) /\ messages[e].lamport > Feed!Cursor /\ messages[e].lamport <= s[i].lamport
             => e \in First(s, i)
  BY <1>1, NewerIs, CursorIsOne, FeedAssumption
<1>5. \A v \in EventsOf(s) : Sound(v)
  BY <1>4, RowIsSound
<1>6. list \in Seq(Feed!Events) /\ Once(list) /\ engine \in Feed!Engines
  BY EventsTyped DEF FeedInv, Feed!TypeOK, Once
<1>7. Follows(list, s, Len(s), m)
  BY <1>2, <1>4, <1>6, AppendedFollows
<1>8. m \in Seq(Feed!Events) /\ Once(m) /\ \A v \in EventsOf(m) : Sound(v)
  BY <1>5, <1>7 DEF Follows, FeedInv, AllSound, Arrived
<1>9. skipped' \subseteq Envelopes
  BY <1>3 DEF FeedInv, Feed!TypeOK, Feed!CutOff, Feed!Committed
<1>10. Feed!Listed \subseteq Feed!Listed' /\ Feed!Listed' = Feed!EnvsOf(m) /\ Feed!Cursor' = Feed!CursorOf(m)
  BY <1>3, <1>7 DEF Feed!Listed, Feed!Cursor, Follows
<1>11. Feed!NothingElseMissed'
  <2>1. \A e \in Envelopes : Wanted(e) /\ messages[e].lamport <= Feed!CursorOf(m) => e \in Feed!EnvsOf(m)
    BY <1>4, <1>5, <1>7, AppendedMisses
  <2>2. Feed!Committed' = Feed!Committed /\ Feed!Committed \subseteq Envelopes
    BY <1>3, <1>9, SameTableKeeps DEF Feed!Committed
  <2> QED BY <1>3, <1>10, <2>1, <2>2 DEF Feed!NothingElseMissed, TableIsSame, Wanted
<1>12. engine' \in Feed!Engines /\ engine'.pushed = engine.pushed
  BY <1>3, <1>6 DEF Feed!Engines
<1> QED BY <1>3, <1>8, <1>9, <1>10, <1>11, <1>12, ListMoves

LEMMA FeedLookupKeeps == ASSUME FeedInv, Feed!Lookup PROVE FeedInv'
<1>1. PICK s : s = Feed!Newer(0, TRUE, lamports)
  OBVIOUS
<1> DEFINE asked == {n \in DOMAIN s : s[n].env \in engine.lookup}
<1>2. PICK m : m = Feed!Refreshed(list, s, asked)
  OBVIOUS
<1>3. /\ list' = m /\ skipped' = skipped \cup Feed!Passed(list, m)
      /\ UNCHANGED <<announce, conn>> /\ TableIsSame
      /\ engine' = [engine EXCEPT !.stage = "idle", !.lookup = {}]
  BY <1>1, <1>2 DEF Feed!Lookup, TableIsSame
<1>4. s \in Seq(Feed!Events) /\ \A v \in EventsOf(s) : Sound(v)
  <2>1. s \in Seq(Feed!Events) /\ \A v \in EventsOf(s) : \E e \in Feed!Committed : v = Feed!RowOf(e)
    BY <1>1, NewerIs, EventsTyped
  <2> QED BY <2>1, RowIsSound
<1>5. list \in Seq(Feed!Events) /\ Once(list) /\ engine \in Feed!Engines
  BY EventsTyped DEF FeedInv, Feed!TypeOK, Once
<1>6. /\ m \in Seq(Feed!Events) /\ Once(m) /\ Feed!EnvsOf(m) = Feed!EnvsOf(list)
      /\ EventsOf(m) \subseteq EventsOf(list) \cup EventsOf(s)
  BY <1>2, <1>4, <1>5, RefreshedKeeps
<1>7. \A v \in EventsOf(m) : Sound(v)
  BY <1>4, <1>6 DEF FeedInv, AllSound, Arrived
<1>8. skipped' \subseteq Envelopes
  BY <1>3 DEF FeedInv, Feed!TypeOK, Feed!Passed, Feed!Committed
<1>9. \A e \in Envelopes : Wanted(e) /\ messages[e].lamport <= Feed!CursorOf(list) => e \in Feed!EnvsOf(list)
  BY DEF FeedInv, Feed!NothingElseMissed, Feed!Cursor, Feed!Listed, Wanted
<1>10. Feed!NothingElseMissed'
  BY <1>3, <1>5, <1>6, <1>8, <1>9, RefreshMisses
<1>11. Feed!Listed' = Feed!Listed
  BY <1>3, <1>6 DEF Feed!Listed
<1>12. engine' \in Feed!Engines /\ engine'.pushed = engine.pushed
  BY <1>3, <1>5 DEF Feed!Engines
<1> QED BY <1>3, <1>6, <1>7, <1>8, <1>10, <1>11, <1>12, ListMoves

-----------------------------------------------------------------------------
LEMMA FeedNextKeeps == ASSUME FeedInv, [Feed!Next]_feedVars PROVE FeedInv'
<1>1. ASSUME NEW e \in Envelopes, Feed!BeginPost(e) \/ Feed!CommitPost(e) \/ Feed!Tombstone(e)
      PROVE  FeedInv'
  BY <1>1, FeedBeginPostKeeps, FeedCommitPostKeeps, FeedTombstoneKeeps
<1>2. CASE Feed!Publish \/ Feed!PublishLost
  BY <1>2, FeedPublishKeeps
<1>3. CASE Feed!Connect \/ Feed!FallBack \/ Feed!ReadReplay \/ Feed!SendReplay \/ Feed!Disconnect
  BY <1>3, FeedConnectKeeps, FeedBreaksKeeps, FeedReadReplayKeeps, FeedSendReplayKeeps
<1>4. CASE Feed!Flush \/ Feed!CatchUp \/ Feed!Lookup
  BY <1>4, FeedFlushKeeps, FeedCatchUpKeeps, FeedLookupKeeps
<1>5. CASE Feed!RequestFails \/ Feed!Reconcile \/ Feed!Visible
  BY <1>5, EngineKeeps
<1>6. CASE UNCHANGED feedVars
  <2>1. TableIsSame /\ UNCHANGED <<announce, conn, list, skipped>> /\ engine' = engine
    BY <1>6 DEF feedVars, TableIsSame
  <2> QED BY <2>1, EngineOnlyKeeps DEF FeedInv, Feed!TypeOK
<1> QED BY <1>1, <1>2, <1>3, <1>4, <1>5, <1>6 DEF Feed!Next

\* A page misses no message that stands, whatever the order of replay and live events, of
\* what the drain drops, of broken connections and of requests that fail: what its cursor has
\* passed is in its list, but for what a larger lamport overtook before its commit, what was
\* lost while Redis was away, what a limit cut off, and what a refresh of the last message
\* took the cursor past.
THEOREM PageMissesNothing == Feed!Spec => []NothingMissed
<1>1. Feed!Init => FeedInv
  BY FeedInitInv
<1>2. FeedInv /\ [Feed!Next]_feedVars => FeedInv'
  BY FeedNextKeeps
<1>3. FeedInv => NothingMissed
  BY DEF FeedInv, NothingMissed
<1>4. Feed!Spec => Feed!Init /\ [][Feed!Next]_feedVars
  BY DEF Feed!Spec, Feed!vars, feedVars
<1> QED BY <1>1, <1>2, <1>3, <1>4, PTL

=============================================================================
