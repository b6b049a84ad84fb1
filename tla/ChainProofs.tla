----------------------------- MODULE ChainProofs -----------------------------
(***************************************************************************)
(* Theorems about ChainAttempt, for any number of runs, sweeps, sends and  *)
(* faults: every variable has its type; an app is active and its decision  *)
(* executed only after the receipt was final on chain; an active app stays *)
(* active, and, on a database whose NOT does not hold of NULL, its anchor  *)
(* is the receipt of the request; unless something failed, an attempt has  *)
(* one transaction in flight at a time.                                    *)
(***************************************************************************)
EXTENDS ChainAttempt, FiniteSetTheorems, SequenceTheorems, TLAPS

-----------------------------------------------------------------------------
\* What the operators on rows, records and positions do

LEMMA ProcFacts ==
    /\ Run \subseteq Proc /\ Sweep \subseteq Proc /\ Run \subseteq Attempt
    /\ "reg" \in Attempt /\ "reg" \notin Run /\ None \notin Run
    /\ \A p \in Proc : p \in Run <=> p \notin Sweep
BY AttemptAssumption DEF Proc, Attempt

LEMMA RowTyped ==
    ASSUME NEW r \in AttemptRow
    PROVE  /\ r.status \in {"absent", "quoted", "reconciled", "failed", "broadcasting", "submitted"}
           /\ r.token \in Nat /\ r.claims \in Nat /\ r.live \in BOOLEAN
           /\ r.tx \in 0 .. MaxSends /\ r.slot \in BOOLEAN
BY DEF AttemptRow, Active

LEMMA ClaimedRow ==
    ASSUME NEW r \in AttemptRow
    PROVE  /\ Claimed(r) \in AttemptRow
           /\ Claimed(r).status = "broadcasting" /\ Claimed(r).live = TRUE
           /\ Claimed(r).token = r.claims + 1
           /\ Claimed(r).tx = r.tx /\ Claimed(r).slot = r.slot /\ Claimed(r).error = None
<1>1. r.claims \in Nat /\ r.claims + 1 \in Nat
  BY DEF AttemptRow
<1>2. /\ Claimed(r).status = "broadcasting" /\ Claimed(r).live = TRUE
      /\ Claimed(r).token = r.claims + 1
      /\ Claimed(r).tx = r.tx /\ Claimed(r).slot = r.slot /\ Claimed(r).error = None
  BY DEF AttemptRow, Claimed
<1>3. Claimed(r) \in AttemptRow
  BY <1>1 DEF AttemptRow, Active, Claimed
<1> QED  BY <1>2, <1>3

LEMMA SubmittedRow ==
    ASSUME NEW r \in AttemptRow, NEW tx \in 0 .. MaxSends
    PROVE  /\ Submitted(r, tx) \in AttemptRow
           /\ Submitted(r, tx).status = "submitted" /\ Submitted(r, tx).error = None
BY DEF AttemptRow, Active, Submitted

LEMMA ReconciledRow ==
    ASSUME NEW r \in AttemptRow
    PROVE  /\ Reconciled(r) \in AttemptRow
           /\ Reconciled(r).status = "reconciled" /\ Reconciled(r).error = None
BY DEF AttemptRow, Active, Reconciled

LEMMA FailedRow ==
    ASSUME NEW r \in AttemptRow, NEW error \in {"txfailed", "repair", "other"}
    PROVE  FailedFor(r, error) \in AttemptRow /\ FailedFor(r, error).status = "failed"
BY DEF AttemptRow, Active, FailedFor

LEMMA ExpiredRow ==
    ASSUME NEW r \in AttemptRow
    PROVE  /\ [r EXCEPT !.live = FALSE] \in AttemptRow
           /\ [r EXCEPT !.live = FALSE].status = r.status
           /\ [r EXCEPT !.live = FALSE].token = r.token
           /\ [r EXCEPT !.live = FALSE].tx = r.tx
           /\ [r EXCEPT !.live = FALSE].slot = r.slot
           /\ [r EXCEPT !.live = FALSE].error = r.error
BY DEF AttemptRow, Active

LEMMA QuotedRow ==
    ASSUME NEW r \in AttemptRow
    PROVE  /\ [r EXCEPT !.status = "quoted"] \in AttemptRow
           /\ [r EXCEPT !.status = "quoted"].status = "quoted"
           /\ [r EXCEPT !.status = "quoted"].tx = r.tx
           /\ [r EXCEPT !.status = "quoted"].slot = r.slot
           /\ [r EXCEPT !.status = "quoted"].error = r.error
BY DEF AttemptRow, Active

LEMMA ApplyTyped ==
    ASSUME NEW record \in AppRecord, NEW a \in Attempt
    PROVE  /\ Apply(record, a) \in AppRecord
           /\ Apply(record, a).receipt = IF a = "reg" THEN None ELSE a
BY DEF Apply, AppRecord, Attempt

LEMMA EffectsTyped ==
    ASSUME local \in Local, NEW a \in Attempt
    PROVE  Effects(a) \in Local
BY DEF Effects, Local, Attempt

LEMMA BoundsTyped == MaxSends \in Nat /\ MaxSweeps \in Nat /\ MaxFaults \in Nat
BY AttemptAssumption

LEMMA NothingTyped ==
    /\ Nothing \in Position
    /\ \A t \in Copy : [Nothing EXCEPT !.a = t.a, !.tx = t.tx, !.seen = t.status] \in Position
    /\ \A a \in Attempt : [Nothing EXCEPT !.a = a] \in Position
<1>1. 0 \in 0 .. MaxSends  BY BoundsTyped
<1>2. Nothing \in Position
  BY <1>1 DEF Nothing, Position, Active, Verdict, Attempt
<1> QED  BY <1>2 DEF Position, Copy, Active

LEMMA PositionMoves ==
    ASSUME NEW o \in Position
    PROVE  /\ \A token \in Nat : [o EXCEPT !.token = token, !.seen = "claimed"] \in Position
           /\ [o EXCEPT !.seen = "submitted"] \in Position
           /\ \A error \in {"txfailed", "repair", "other"} :
                 /\ [o EXCEPT !.error = error] \in Position
                 /\ \A v \in Verdict : [o EXCEPT !.verdict = v, !.error = error] \in Position
BY DEF Position, Active

LEMMA ReadingTyped ==
    ASSUME NEW a, NEW tx
    PROVE  Classify(a, tx) \in Verdict
BY DEF Classify, Reading, Verdict
LEMMA StatusRecorded ==
    ASSUME txs \in Seq(Transaction), NEW n \in DOMAIN txs,
           NEW st \in {"flight", "confirmed", "final", "failed", "lost"}
    PROVE  LET changed == [txs EXCEPT ![n].st = st]
           IN /\ changed \in Seq(Transaction)
              /\ Len(changed) = Len(txs) /\ DOMAIN changed = DOMAIN txs
              /\ changed[n].st = st
              /\ \A m \in DOMAIN txs : /\ changed[m].of = txs[m].of
                                       /\ m # n => changed[m] = txs[m]
<1> DEFINE e == [txs[n] EXCEPT !.st = st]
           changed == [txs EXCEPT ![n].st = st]
<1>1. DOMAIN txs = 1 .. Len(txs) /\ Len(txs) \in Nat /\ n \in 1 .. Len(txs)
  BY LenProperties
<1>2. \A m \in DOMAIN txs : txs[m] \in Transaction
  BY <1>1, ElementOfSeq
<1>3. e \in Transaction /\ e.of = txs[n].of /\ e.st = st
  BY <1>2 DEF Transaction
<1>4. changed = [txs EXCEPT ![n] = e]
  OBVIOUS
<1> HIDE DEF e
<1>5. /\ changed \in Seq(Transaction) /\ Len(changed) = Len(txs)
      /\ \A m \in 1 .. Len(txs) : changed[m] = IF m = n THEN e ELSE txs[m]
  BY <1>1, <1>3, <1>4, ExceptSeq
<1>6. DOMAIN changed = DOMAIN txs
  BY <1>1, <1>5, LenProperties
<1> HIDE DEF changed
<1>7. /\ changed[n].st = st
      /\ \A m \in DOMAIN txs : /\ changed[m].of = txs[m].of
                               /\ m # n => changed[m] = txs[m]
  BY <1>1, <1>3, <1>5
<1>8. QED  BY <1>5, <1>6, <1>7 DEF changed

LEMMA LandedMove ==
    ASSUME landed \in Seq(1 .. MaxSends)
    PROVE  /\ \A n \in 1 .. MaxSends : Append(landed, n) \in Seq(1 .. MaxSends)
           /\ landed # <<>> => /\ Head(landed) = landed[1] /\ 1 \in DOMAIN landed
                               /\ Tail(landed) \in Seq(1 .. MaxSends)
                               /\ \A i \in DOMAIN Tail(landed) : /\ Tail(landed)[i] = landed[i + 1]
                                                                 /\ i + 1 \in DOMAIN landed
OBVIOUS

-----------------------------------------------------------------------------
\* Transactions are numbered as they are sent; what is confirmed or waited for was sent.
SendsKnown ==
    /\ Len(txs) <= MaxSends
    /\ \A i \in DOMAIN landed : landed[i] \in DOMAIN txs
    /\ \A p \in Proc : pc[p] = "await" => on[p].tx \in DOMAIN txs

Inv1 == TypeOK /\ SendsKnown

\* The control of one process moves.
LEMMA Moves ==
    ASSUME pc \in [Proc -> Place], NEW p \in Proc
    PROVE  /\ \A at \in Place : Goto(p, at) =>
                 /\ pc' \in [Proc -> Place] /\ pc'[p] = at
                 /\ \A q \in Proc : q # p => pc'[q] = pc[q]
           /\ GivesUp(p) => /\ pc' \in [Proc -> Place] /\ pc'[p] \in {"done", "loop"}
                            /\ \A q \in Proc : q # p => pc'[q] = pc[q]
BY DEF Goto, GivesUp, Place

LEMMA TodoTyped ==
    ASSUME TypeOK, NEW S \in SUBSET Attempt, \A a \in S : row[a].status \in Active
    PROVE  AsRead(S) \in SUBSET Copy
<1> SUFFICES ASSUME NEW a \in S
             PROVE  [a |-> a, status |-> row[a].status, tx |-> row[a].tx] \in Copy
  BY DEF AsRead
<1>1. row[a] \in AttemptRow
  BY DEF TypeOK
<1> QED  BY <1>1, RowTyped DEF Copy

LEMMA QuotedMove ==
    ASSUME row \in [Attempt -> AttemptRow], NEW r, NEW a \in Attempt, Quoted(r, a)
    PROVE  /\ row' \in [Attempt -> AttemptRow]
           /\ \A b \in Attempt : b # a => row'[b] = row[b]
           /\ row[a].status # "absent" => row'[a] = row[a]
           /\ row[a].status = "absent" => /\ row'[a].status = "quoted"
                                          /\ row'[a].tx = row[a].tx /\ row'[a].slot = row[a].slot
                                          /\ row'[a].error = row[a].error
<1> DEFINE q == [row[a] EXCEPT !.status = "quoted"]
<1>1. /\ row[a] \in AttemptRow /\ q \in AttemptRow
      /\ q.status = "quoted" /\ q.tx = row[a].tx /\ q.slot = row[a].slot /\ q.error = row[a].error
  BY QuotedRow
<1>2. row' = IF row[a].status = "absent" THEN [row EXCEPT ![a] = q] ELSE row
  BY DEF Quoted
<1> HIDE DEF q
<1> QED  BY <1>1, <1>2

LEMMA WorkTyped ==
    ASSUME TypeOK, SendsKnown, NEW p \in Proc, Work(p)
    PROVE  TypeOK'
<1> USE DEF chain
<1>t. /\ row \in [Attempt -> AttemptRow] /\ txs \in Seq(Transaction)
      /\ landed \in Seq(1..MaxSends) /\ {head, final} \subseteq AppRecord
      /\ local \in Local /\ pc \in [Proc -> Place] /\ on \in [Proc -> Position]
      /\ todo \in [Proc -> SUBSET Copy] /\ sweeps \in [Sweep -> 0..MaxSweeps]
      /\ proven \subseteq Run /\ faults \in 0..MaxFaults
  BY DEF TypeOK
<1>0. /\ MaxSends \in Nat /\ MaxSweeps \in Nat /\ on[p] \in Position /\ on[p].a \in Attempt
      /\ on[p].tx \in 0 .. MaxSends
      /\ \A a \in Attempt : row[a] \in AttemptRow
      /\ p \in Run => p \in Attempt
  BY <1>t, BoundsTyped, ProcFacts DEF Position
<1>1. CASE Claim(p)
  <2>1. pc' \in [Proc -> Place]
    BY <1>t, <1>1, Moves DEF Claim, Place
  <2>2. row' \in [Attempt -> AttemptRow]
    <3>1. Claimed(row[on[p].a]) \in AttemptRow
      BY <1>t, <1>0, ClaimedRow
    <3>2. row' = [row EXCEPT ![on[p].a] = Claimed(@)] \/ row' = row
      BY <1>t, <1>1 DEF Claim
    <3> QED  BY <1>t, <3>1, <3>2, <1>0
  <2>3. row[on[p].a].claims + 1 \in Nat
    BY <1>t, <1>0, RowTyped
  <2>4. on' \in [Proc -> Position]
    <3>1. \/ on' = on
          \/ on' = [on EXCEPT ![p] = [@ EXCEPT !.token = row[on[p].a].claims + 1, !.seen = "claimed"]]
      BY <1>t, <1>1 DEF Claim
    <3>2. [on[p] EXCEPT !.token = row[on[p].a].claims + 1, !.seen = "claimed"] \in Position
      BY <1>0, <2>3, PositionMoves
    <3> QED  BY <1>t, <3>1, <3>2
  <2> QED  BY <1>t, <1>1, <2>1, <2>2, <2>4 DEF Claim, TypeOK
<1>2. CASE Send(p)
  <2>1. pc' \in [Proc -> Place]
    BY <1>t, <1>2, Moves DEF Send, Place
  <2>2. txs' \in Seq(Transaction) /\ Len(txs) + 1 \in 0 .. MaxSends
    <3>1. [of |-> on[p].a, st |-> "flight"] \in Transaction
      BY <1>t, <1>0 DEF Transaction
    <3>2. Len(txs) \in Nat /\ Len(txs) < MaxSends /\ txs' = Append(txs, [of |-> on[p].a, st |-> "flight"])
      BY <1>t, <1>2, LenProperties DEF Send
    <3> QED  BY <1>t, <3>1, <3>2, <1>0, AppendProperties
  <2>3. on' \in [Proc -> Position]
    BY <1>t, <1>0, <1>2, <2>2 DEF Send, Position
  <2> QED  BY <1>t, <1>2, <2>1, <2>2, <2>3 DEF Send, TypeOK
<1>3. CASE Evidence(p) \/ NoEvidence(p)
  <2>1. pc' \in [Proc -> Place]
    BY <1>t, <1>3, Moves DEF Evidence, NoEvidence, Place
  <2> QED  BY <1>t, <1>3, <2>1 DEF Evidence, NoEvidence, TypeOK
<1>4. CASE MarkSubmitted(p)
  <2>1. pc' \in [Proc -> Place]
    BY <1>t, <1>4, Moves DEF MarkSubmitted, Place
  <2>2. row' \in [Attempt -> AttemptRow]
    <3>1. Submitted(row[on[p].a], on[p].tx) \in AttemptRow
      BY <1>t, <1>0, SubmittedRow
    <3>2. row' = [row EXCEPT ![on[p].a] = Submitted(@, on[p].tx)] \/ row' = row
      BY <1>t, <1>4 DEF MarkSubmitted
    <3> QED  BY <1>t, <3>1, <3>2, <1>0
  <2>3. on' \in [Proc -> Position]
    <3>1. on' = [on EXCEPT ![p] = [@ EXCEPT !.seen = "submitted"]] \/ on' = on
      BY <1>t, <1>4 DEF MarkSubmitted
    <3> QED  BY <1>t, <1>0, <3>1, PositionMoves
  <2> QED  BY <1>t, <1>4, <2>1, <2>2, <2>3 DEF MarkSubmitted, TypeOK
<1>5. CASE Look(p)
  <2>1. pc' \in [Proc -> Place]
    BY <1>t, <1>5, Moves DEF Look, LookedAt, Place
  <2>2. on' \in [Proc -> Position]
    <3> DEFINE v == Classify(on[p].a, on[p].tx)
               e == IF v = "txfailed" THEN "txfailed" ELSE "repair"
    <3>1. on' = [on EXCEPT ![p] = [@ EXCEPT !.verdict = v, !.error = e]]
      BY <1>5 DEF Look
    <3>2. v \in Verdict /\ e \in {"txfailed", "repair", "other"}
      BY ReadingTyped
    <3> HIDE DEF v, e
    <3>3. [on[p] EXCEPT !.verdict = v, !.error = e] \in Position
      BY <1>0, <3>2, PositionMoves
    <3> QED  BY <1>t, <3>1, <3>3
  <2> QED  BY <1>t, <1>5, <2>1, <2>2 DEF Look, TypeOK
<1>6. CASE Reconcile(p)
  <2>1. pc' \in [Proc -> Place]
    BY <1>t, <1>6, Moves DEF Reconcile, Place
  <2>2. row' \in [Attempt -> AttemptRow]
    <3>1. \A b \in Attempt : Reconciled(row[b]) \in AttemptRow
      BY <1>0, ReconciledRow
    <3>2. \/ row' = row
          \/ row' = [b \in Attempt |->
                       IF b \in {on[p].a} \cup Closes(on[p].a) THEN Reconciled(row[b]) ELSE row[b]]
      BY <1>6 DEF Reconcile
    <3> QED  BY <1>t, <1>0, <3>1, <3>2
  <2>3. local' \in Local
    BY <1>t, <1>0, <1>6, EffectsTyped DEF Reconcile
  <2>4. todo' \in [Proc -> SUBSET Copy]
    BY <1>t, <1>6 DEF Reconcile
  <2>5. on' \in [Proc -> Position]
    <3>1. on' = [on EXCEPT ![p] = [@ EXCEPT !.error = "other"]] \/ on' = on
      BY <1>t, <1>6 DEF Reconcile
    <3> QED  BY <1>t, <1>0, <3>1, PositionMoves
  <2> QED  BY <1>t, <1>6, <2>1, <2>2, <2>3, <2>4, <2>5 DEF Reconcile, TypeOK
<1>7. CASE MarkFailed(p)
  <2>1. pc' \in [Proc -> Place]
    BY <1>t, <1>7, Moves DEF MarkFailed
  <2>2. on[p].error \in {"txfailed", "repair", "other"}
    BY <1>t, <1>0 DEF Position
  <2>3. row' \in [Attempt -> AttemptRow]
    BY <1>t, <1>0, <1>7, <2>2, FailedRow DEF MarkFailed
  <2> QED  BY <1>t, <1>7, <2>1, <2>3 DEF MarkFailed, TypeOK
<1>8. CASE SweepReads(p)
  <2>1. pc' \in [Proc -> Place]
    BY <1>t, <1>8, Moves DEF SweepReads, Place
  <2>2. Barred \in SUBSET Attempt /\ \A a \in Barred : row[a].status \in Active
    BY <1>t, ProcFacts DEF Barred, Due, ActiveReceipts, Sendable, Active
  <2>3. todo' \in [Proc -> SUBSET Copy]
    BY <1>t, <1>8, <2>2, TodoTyped DEF SweepReads
  <2>4. sweeps' \in [Sweep -> 0 .. MaxSweeps]
    BY <1>t, <1>0, <1>8 DEF SweepReads
  <2> QED  BY <1>t, <1>8, <2>1, <2>3, <2>4 DEF SweepReads, TypeOK
<1>9. CASE SweepEnds(p)
  <2>1. pc' \in [Proc -> Place]
    BY <1>t, <1>9, Moves DEF SweepEnds, Place
  <2> QED  BY <1>t, <1>9, <2>1, NothingTyped DEF SweepEnds, TypeOK
<1>10. ASSUME NEW t \in todo[p], SweepTakes(p, t) \/ RunTakes(p, t)
       PROVE  TypeOK'
  <2>1. pc' \in [Proc -> Place]
    BY <1>t, <1>10, Moves DEF SweepTakes, RunTakes, Place
  <2>2. t \in Copy
    BY <1>t, <1>10
  <2>3. on' \in [Proc -> Position] /\ todo' \in [Proc -> SUBSET Copy]
    BY <1>t, <1>10, <2>2, NothingTyped DEF SweepTakes, RunTakes, Takes
  <2> QED  BY <1>t, <1>10, <2>1, <2>3 DEF SweepTakes, RunTakes, Takes, TypeOK
<1>11. CASE RunRecovers(p)
  <2>1. pc' \in [Proc -> Place]
    BY <1>t, <1>11, Moves DEF RunRecovers, Place
  <2>2. Recoverable \in SUBSET Attempt /\ \A a \in Recoverable : row[a].status \in Active
    BY <1>t DEF Recoverable, Sendable, Active
  <2>3. todo' \in [Proc -> SUBSET Copy]
    BY <1>t, <1>11, <2>2, TodoTyped DEF RunRecovers
  <2> QED  BY <1>t, <1>11, <2>1, <2>3 DEF RunRecovers, TypeOK
<1>12. CASE RunGoesOn(p)
  <2>1. pc' \in [Proc -> Place]
    BY <1>t, <1>12, Moves DEF RunGoesOn, Place
  <2> QED  BY <1>t, <1>12, <2>1, NothingTyped DEF RunGoesOn, TypeOK
<1>13. CASE Register(p)
  <2>1. pc' \in [Proc -> Place]
    BY <1>t, <1>13, Moves DEF Register, Place
  <2>2. row' \in [Attempt -> AttemptRow]
    BY <1>t, <1>13, QuotedMove, ProcFacts DEF Register
  <2>3. on' \in [Proc -> Position]
    <3>1. on' = [on EXCEPT ![p] = [Nothing EXCEPT !.a = "reg"]]
      BY <1>13 DEF Register
    <3>2. [Nothing EXCEPT !.a = "reg"] \in Position
      BY NothingTyped, ProcFacts
    <3> QED  BY <1>t, <3>1, <3>2
  <2> QED  BY <1>t, <1>13, <2>1, <2>2, <2>3 DEF Register, TypeOK
<1>14. CASE Receipt(p)
  <2>1. pc' \in [Proc -> Place]
    BY <1>t, <1>14, Moves DEF Receipt, Place
  <2>2. row' \in [Attempt -> AttemptRow]
    BY <1>t, <1>0, <1>14, QuotedMove DEF Receipt
  <2>3. on' \in [Proc -> Position]
    BY <1>t, <1>0, <1>14, NothingTyped DEF Receipt
  <2> QED  BY <1>t, <1>14, <2>1, <2>2, <2>3 DEF Receipt, TypeOK
<1> QED
  BY <1>1, <1>2, <1>3, <1>4, <1>5, <1>6, <1>7, <1>8, <1>9, <1>10, <1>11, <1>12, <1>13, <1>14
     DEF Work

LEMMA SentTyped ==
    ASSUME TypeOK
    PROVE  \A n \in DOMAIN txs : txs[n].of \in Attempt
<1>1. txs \in Seq(Transaction) /\ DOMAIN txs = 1 .. Len(txs)
  BY LenProperties DEF TypeOK
<1>2. \A n \in DOMAIN txs : txs[n] \in Transaction
  BY <1>1, ElementOfSeq
<1> QED  BY <1>2 DEF Transaction

LEMMA NextTyped ==
    ASSUME TypeOK, SendsKnown, [Next]_vars
    PROVE  TypeOK'
<1> USE DEF chain
<1>t. /\ row \in [Attempt -> AttemptRow] /\ txs \in Seq(Transaction)
      /\ landed \in Seq(1..MaxSends) /\ head \in AppRecord /\ final \in AppRecord
      /\ local \in Local /\ pc \in [Proc -> Place] /\ on \in [Proc -> Position]
      /\ todo \in [Proc -> SUBSET Copy] /\ sweeps \in [Sweep -> 0..MaxSweeps]
      /\ proven \subseteq Run /\ faults \in 0..MaxFaults
  BY DEF TypeOK
<1>s. /\ \A n \in DOMAIN txs : n \in 1 .. MaxSends /\ txs[n].of \in Attempt
      /\ \A i \in DOMAIN landed : landed[i] \in DOMAIN txs
  <2>1. DOMAIN txs = 1 .. Len(txs) /\ Len(txs) \in Nat /\ Len(txs) <= MaxSends
    BY <1>t, LenProperties DEF SendsKnown
  <2>2. \A n \in DOMAIN txs : txs[n] \in Transaction
    BY <1>t, <2>1, ElementOfSeq
  <2> QED  BY <2>1, <2>2, BoundsTyped DEF Transaction, SendsKnown
<1>f. Fault => faults' \in 0..MaxFaults
  BY <1>t, BoundsTyped DEF Fault
<1>1. ASSUME NEW p \in Proc, Work(p)
      PROVE  TypeOK'
  BY <1>1, WorkTyped
<1>2. ASSUME NEW p \in Proc, SignerFails(p) \/ Stop(p) \/ LookFails(p)
      PROVE  TypeOK'
  <2>1. pc' \in [Proc -> Place]
    BY <1>t, <1>2, Moves DEF SignerFails, Stop, LookFails, Place
  <2>2. todo' \in [Proc -> SUBSET Copy]
    BY <1>t, <1>2 DEF SignerFails, Stop, LookFails
  <2>3. on' \in [Proc -> Position]
    <3>1. on' = on \/ on' = [on EXCEPT ![p] = [@ EXCEPT !.error = "other"]]
      BY <1>2 DEF SignerFails, Stop, LookFails
    <3>2. [on[p] EXCEPT !.error = "other"] \in Position
      BY <1>t, PositionMoves
    <3> QED  BY <1>t, <3>1, <3>2
  <2>4. faults' \in 0..MaxFaults
    BY <1>f, <1>2 DEF SignerFails, Stop, LookFails
  <2> QED
    BY <1>t, <1>2, <2>1, <2>2, <2>3, <2>4 DEF SignerFails, Stop, LookFails, TypeOK
<1>3. ASSUME NEW n \in DOMAIN txs, Confirm(n)
      PROVE  TypeOK'
  <2>1. txs' \in Seq(Transaction)
    <3>1. /\ [txs EXCEPT ![n].st = "confirmed"] \in Seq(Transaction)
          /\ [txs EXCEPT ![n].st = "failed"] \in Seq(Transaction)
      BY <1>t, StatusRecorded
    <3> QED  BY <1>3, <3>1 DEF Confirm
  <2>2. landed' \in Seq(1..MaxSends)
    BY <1>t, <1>s, <1>3, LandedMove DEF Confirm
  <2>3. head' \in AppRecord
    BY <1>t, <1>s, <1>3, ApplyTyped DEF Confirm
  <2> QED  BY <1>t, <1>3, <2>1, <2>2, <2>3 DEF Confirm, TypeOK
<1>4. ASSUME NEW n \in DOMAIN txs, Lost(n)
      PROVE  TypeOK'
  <2>1. txs' \in Seq(Transaction)
    <3>1. /\ [txs EXCEPT ![n].st = "lost"] \in Seq(Transaction)
          /\ [txs EXCEPT ![n].st = "failed"] \in Seq(Transaction)
      BY <1>t, StatusRecorded
    <3> QED  BY <1>4, <3>1 DEF Lost
  <2> QED  BY <1>t, <1>f, <1>4, <2>1 DEF Lost, TypeOK
<1>5. CASE Finalize
  <2> DEFINE n == Head(landed)
  <2>1. n \in DOMAIN txs /\ txs[n].of \in Attempt /\ landed' \in Seq(1..MaxSends)
    BY <1>t, <1>s, <1>5, LandedMove DEF Finalize
  <2>2. txs' \in Seq(Transaction)
    BY <1>t, <1>5, <2>1, StatusRecorded DEF Finalize
  <2>3. final' \in AppRecord /\ proven' \subseteq Run
    BY <1>t, <1>5, <2>1, ApplyTyped DEF Finalize
  <2> QED  BY <1>t, <1>5, <2>1, <2>2, <2>3 DEF Finalize, TypeOK
<1>6. ASSUME NEW a \in Attempt, LeaseExpires(a)
      PROVE  TypeOK'
  <2>1. row' = [row EXCEPT ![a] = [@ EXCEPT !.live = FALSE]]
    BY <1>6 DEF LeaseExpires
  <2>2. row[a] \in AttemptRow /\ [row[a] EXCEPT !.live = FALSE] \in AttemptRow
    BY <1>t, ExpiredRow
  <2>3. row' \in [Attempt -> AttemptRow]
    BY <1>t, <2>1, <2>2
  <2> QED  BY <1>t, <1>f, <1>6, <2>3 DEF LeaseExpires, TypeOK
<1>7. CASE UNCHANGED vars
  BY <1>t, <1>7 DEF vars, TypeOK
<1> QED  BY <1>1, <1>2, <1>3, <1>4, <1>5, <1>6, <1>7 DEF Next

-----------------------------------------------------------------------------
\* A step is of one process, or of the chain, or the end of a lease.

Process(p) == Work(p) \/ SignerFails(p) \/ Stop(p) \/ LookFails(p)

LEMMA OthersStay ==
    ASSUME TypeOK, NEW p \in Proc, Process(p), NEW q \in Proc, q # p
    PROVE  pc'[q] = pc[q] /\ on'[q] = on[q] /\ todo'[q] = todo[q]
<1>t. pc \in [Proc -> Place] /\ on \in [Proc -> Position] /\ todo \in [Proc -> SUBSET Copy]
  BY DEF TypeOK
<1>1. on'[q] = on[q] /\ todo'[q] = todo[q]
  BY <1>t DEF Process, Work, Claim, Send, Evidence, NoEvidence, MarkSubmitted, Look, Reconcile,
     MarkFailed, SweepReads, SweepEnds, SweepTakes, RunTakes, Takes, RunRecovers, RunGoesOn,
     Register, Receipt, SignerFails, Stop, LookFails
<1>2. pc'[q] = pc[q]
  BY <1>t DEF Goto, GivesUp, Process, Work, Claim, Send, Evidence, NoEvidence, MarkSubmitted, Look, Reconcile,
     MarkFailed, SweepReads, SweepEnds, SweepTakes, RunTakes, Takes, RunRecovers, RunGoesOn,
     Register, Receipt, SignerFails, Stop, LookFails
<1> QED  BY <1>1, <1>2

LEMMA StepKinds ==
    ASSUME [Next]_vars
    PROVE  \/ \E p \in Proc : Process(p)
           \/ /\ UNCHANGED <<row, local, pc, on, todo, sweeps>>
              /\ \/ (\E n \in DOMAIN txs : Confirm(n) \/ Lost(n)) \/ Finalize
                 \/ UNCHANGED vars
           \/ \E a \in Attempt : LeaseExpires(a)
BY DEF Next, Process, vars, Confirm, Lost, Finalize

LEMMA ProcessAndChain ==
    ASSUME NEW p \in Proc, Process(p)
    PROVE  Send(p) \/ UNCHANGED chain
BY DEF chain, Process, Work, Claim, Send, Evidence, NoEvidence, MarkSubmitted, Look, Reconcile,
     MarkFailed, SweepReads, SweepEnds, SweepTakes, RunTakes, Takes, RunRecovers, RunGoesOn,
     Register, Receipt, SignerFails, Stop, LookFails

\* By which actions a process comes to a place, and which ones move the rows.
LEMMA Arrivals ==
    ASSUME TypeOK, NEW p \in Proc, Process(p)
    PROVE  /\ pc'[p] = "await"   => Send(p)
           /\ pc'[p] = "send"    => Claim(p) \/ Look(p)
           /\ pc'[p] = "mark"    => Evidence(p) \/ Look(p)
           /\ pc'[p] = "apply"   => MarkSubmitted(p) \/ Look(p)
           /\ pc'[p] = "fail"    => Look(p) \/ LookFails(p) \/ Reconcile(p)
           /\ pc'[p] = "look"    => Claim(p) \/ \E t \in todo[p] : SweepTakes(p, t) \/ RunTakes(p, t)
           /\ pc'[p] = "receipt" => MarkSubmitted(p) \/ Register(p)
<1>t. pc \in [Proc -> Place]
  BY DEF TypeOK
<1>1. /\ Claim(p) => pc'[p] \in {"send", "look", "done", "loop"}
      /\ Send(p) => pc'[p] = "await"
      /\ Evidence(p) => pc'[p] = "mark"
      /\ MarkSubmitted(p) => pc'[p] \in {"receipt", "idle", "apply", "loop", "done"}
      /\ Look(p) => pc'[p] \in {"done", "loop", "mark", "apply", "send", "fail"}
      /\ Reconcile(p) => pc'[p] \in {"done", "loop", "fail"}
      /\ Register(p) => pc'[p] \in {"receipt", "claim"}
      /\ Receipt(p) => pc'[p] = "claim"
  BY <1>t DEF Goto, GivesUp, Claim, Send, Evidence, MarkSubmitted, Look, LookedAt, Reconcile,
     Register, Receipt
<1>2. NoEvidence(p) \/ MarkFailed(p) \/ SweepReads(p) \/ SweepEnds(p) \/ RunRecovers(p)
      \/ RunGoesOn(p) \/ SignerFails(p) \/ Stop(p)
         => pc'[p] \in {"done", "loop", "idle", "register"}
  BY <1>t DEF Goto, GivesUp, NoEvidence, MarkFailed, SweepReads, SweepEnds, RunRecovers,
     RunGoesOn, SignerFails, Stop
<1>3. LookFails(p) => pc'[p] \in {"done", "loop", "fail"}
  BY <1>t DEF Goto, GivesUp, LookFails
<1>4. ASSUME NEW t \in todo[p], SweepTakes(p, t) \/ RunTakes(p, t)
      PROVE  pc'[p] \in {"look", "claim", "done"}
  BY <1>t, <1>4 DEF Goto, SweepTakes, RunTakes
<1>5. \/ Claim(p) \/ Send(p) \/ Evidence(p) \/ MarkSubmitted(p) \/ Look(p) \/ Reconcile(p)
      \/ Register(p) \/ Receipt(p)
      \/ NoEvidence(p) \/ MarkFailed(p) \/ SweepReads(p) \/ SweepEnds(p) \/ RunRecovers(p)
      \/ RunGoesOn(p) \/ SignerFails(p) \/ Stop(p)
      \/ LookFails(p) \/ \E t \in todo[p] : SweepTakes(p, t) \/ RunTakes(p, t)
  BY DEF Process, Work
<1> QED  BY <1>1, <1>2, <1>3, <1>4, <1>5, Zenon

LEMMA RowMoves ==
    ASSUME NEW p \in Proc, Process(p)
    PROVE  /\ Reconcile(p) \/ UNCHANGED local
           /\ \/ Claim(p) \/ MarkSubmitted(p) \/ Reconcile(p) \/ MarkFailed(p)
              \/ Register(p) \/ Receipt(p) \/ UNCHANGED row
BY DEF chain, Process, Work, Claim, Send, Evidence, NoEvidence, MarkSubmitted, Look, Reconcile,
     MarkFailed, SweepReads, SweepEnds, SweepTakes, RunTakes, Takes, RunRecovers, RunGoesOn,
     Register, Receipt, SignerFails, Stop, LookFails

LEMMA NextSends ==
    ASSUME TypeOK, SendsKnown, [Next]_vars
    PROVE  SendsKnown'
<1>t. /\ txs \in Seq(Transaction) /\ landed \in Seq(1..MaxSends) /\ pc \in [Proc -> Place]
      /\ on \in [Proc -> Position] /\ MaxSends \in Nat
      /\ DOMAIN txs = 1 .. Len(txs) /\ Len(txs) \in Nat /\ Len(txs) <= MaxSends
      /\ \A i \in DOMAIN landed : landed[i] \in DOMAIN txs
  BY LenProperties, BoundsTyped DEF TypeOK, SendsKnown
<1>1. ASSUME NEW p \in Proc, Process(p), ~ Send(p)
      PROVE  SendsKnown'
  <2>1. UNCHANGED <<txs, landed>>
    BY <1>1, ProcessAndChain DEF chain
  <2>2. ASSUME NEW q \in Proc, pc'[q] = "await"
        PROVE  on'[q].tx \in DOMAIN txs
    BY <1>1, <2>2, Arrivals, OthersStay DEF SendsKnown
  <2> QED  BY <2>1, <2>2 DEF SendsKnown
<1>2. ASSUME NEW p \in Proc, Send(p)
      PROVE  SendsKnown'
  <2>1. /\ Len(txs) < MaxSends /\ UNCHANGED landed
        /\ txs' = Append(txs, [of |-> on[p].a, st |-> "flight"])
        /\ on' = [on EXCEPT ![p].tx = Len(txs) + 1]
    BY <1>2 DEF Send
  <2>2. [of |-> on[p].a, st |-> "flight"] \in Transaction
    BY <1>t DEF Transaction, Position
  <2>3. txs' \in Seq(Transaction) /\ Len(txs') = Len(txs) + 1
    BY <1>t, <2>1, <2>2, AppendProperties
  <2>4. DOMAIN txs' = 1 .. Len(txs) + 1
    BY <2>3, LenProperties
  <2>5. Len(txs') <= MaxSends /\ DOMAIN txs \subseteq DOMAIN txs' /\ Len(txs) + 1 \in DOMAIN txs'
    BY <1>t, <2>1, <2>3, <2>4
  <2>6. on'[p].tx = Len(txs) + 1
    BY <1>t, <2>1 DEF Position
  <2>7. \A q \in Proc : q # p => pc'[q] = pc[q] /\ on'[q] = on[q]
    BY <1>2, OthersStay DEF Process, Work
  <2> QED  BY <1>t, <2>1, <2>5, <2>6, <2>7 DEF SendsKnown
<1>3. ASSUME UNCHANGED <<pc, on>>,
             (\E n \in DOMAIN txs : Confirm(n) \/ Lost(n)) \/ Finalize
      PROVE  SendsKnown'
  <2>1. Len(txs') = Len(txs) /\ DOMAIN txs' = DOMAIN txs
    <3>1. PICK n \in DOMAIN txs, st \in {"confirmed", "final", "failed", "lost"} :
             txs' = [txs EXCEPT ![n].st = st]
      BY <1>3, <1>t, LandedMove DEF Confirm, Lost, Finalize
    <3> QED  BY <1>t, <3>1, StatusRecorded
  <2>2. ASSUME NEW i \in DOMAIN landed'
        PROVE  landed'[i] \in DOMAIN txs
    <3>1. CASE landed' = landed
      BY <1>t, <2>2, <3>1
    <3>2. ASSUME NEW n \in DOMAIN txs, landed' = Append(landed, n)
          PROVE  landed'[i] \in DOMAIN txs
      BY <1>t, <2>2, <3>2, AppendProperties, LenProperties
    <3>3. CASE landed # <<>> /\ landed' = Tail(landed)
      BY <1>t, <2>2, <3>3, LandedMove
    <3> QED  BY <1>3, <3>1, <3>2, <3>3 DEF Confirm, Lost, Finalize
  <2> QED  BY <1>3, <1>t, <2>1, <2>2 DEF SendsKnown
<1>4. CASE UNCHANGED vars \/ \E a \in Attempt : LeaseExpires(a)
  BY <1>4 DEF vars, chain, LeaseExpires, SendsKnown
<1> QED  BY <1>1, <1>2, <1>3, <1>4, StepKinds

LEMMA InitSends == Init => TypeOK /\ SendsKnown
<1>1. Init => TypeOK
  <2> SUFFICES ASSUME Init PROVE TypeOK
    OBVIOUS
  <2>1. NoRow \in AttemptRow /\ NoRecord \in AppRecord
    BY BoundsTyped DEF NoRow, NoRecord, AttemptRow, AppRecord
  <2>2. [anchor |-> None, digest |-> None, receipt |-> None] \in Local
    BY DEF Local
  <2>3. txs \in Seq(Transaction) /\ landed \in Seq(1 .. MaxSends)
    BY EmptySeq DEF Init
  <2>4. pc \in [Proc -> Place] /\ on \in [Proc -> Position]
    BY NothingTyped DEF Init, Place
  <2>5. /\ row \in [Attempt -> AttemptRow] /\ head \in AppRecord /\ final \in AppRecord
        /\ local \in Local
    BY <2>1, <2>2 DEF Init
  <2>6. todo \in [Proc -> SUBSET Copy] /\ proven \subseteq Run
    BY DEF Init
  <2>7. sweeps \in [Sweep -> 0..MaxSweeps] /\ faults \in 0..MaxFaults
    BY BoundsTyped DEF Init
  <2> QED  BY <2>3, <2>4, <2>5, <2>6, <2>7 DEF TypeOK
<1>2. Init => SendsKnown
  <2>1. Len(<<>>) = 0 /\ \A i \in DOMAIN <<>> : FALSE
    OBVIOUS
  <2>2. Init => \A p \in Proc : pc[p] = "idle"
    BY DEF Init
  <2>3. Init => txs = <<>> /\ landed = <<>>
    BY DEF Init
  <2> QED  BY <2>1, <2>2, <2>3, BoundsTyped DEF SendsKnown
<1> QED  BY <1>1, <1>2

\* Every variable keeps its type; the bounds of the model are respected.
THEOREM ChainTyped == Spec => []TypeOK
<1>1. Init => Inv1
  BY InitSends DEF Inv1
<1>2. Inv1 /\ [Next]_vars => Inv1'
  BY NextTyped, NextSends DEF Inv1
<1> QED  BY <1>1, <1>2, PTL DEF Spec, Inv1

-----------------------------------------------------------------------------
\* What is done locally was final on chain.  Between the reading and the effects the record on
\* chain may change, the history of what was final may not: a process that is about to apply
\* or to mark what it read carries a receipt that was final.

FinalIsProven == final.receipt # None => final.receipt \in proven

CarriesDesired(p) == pc[p] = "apply" \/ (pc[p] = "mark" /\ on[p].tx = 0)

VerdictIsProven == \A p \in Proc : CarriesDesired(p) /\ on[p].a \in Run => on[p].a \in proven

ProvenInv == FinalIsProven /\ VerdictIsProven /\ ExecutedIsFinal

LEMMA DesiredIsFinal ==
    ASSUME TypeOK, NEW p \in Proc, Look(p), pc'[p] \in {"apply", "mark"}, on[p].a \in Run
    PROVE  final.receipt = on[p].a
<1>t. pc \in [Proc -> Place]
  BY DEF TypeOK
<1>1. pc'[p] = LookedAt(p, Classify(on[p].a, on[p].tx))
  BY <1>t DEF Look, Goto
<1>2. Classify(on[p].a, on[p].tx) = "desired"
  BY <1>1, ReadingTyped DEF LookedAt, Verdict
<1>3. on[p].a # "reg"
  BY ProcFacts
<1> QED  BY <1>2, <1>3 DEF Classify, Reading

LEMMA LookKeeps ==
    ASSUME TypeOK, NEW p \in Proc, Look(p)
    PROVE  /\ on'[p].a = on[p].a /\ on'[p].tx = on[p].tx /\ on'[p].seen = on[p].seen
           /\ on'[p].token = on[p].token
<1> DEFINE v == Classify(on[p].a, on[p].tx)
           e == IF v = "txfailed" THEN "txfailed" ELSE "repair"
<1>1. on' = [on EXCEPT ![p] = [@ EXCEPT !.verdict = v, !.error = e]]
  BY DEF Look
<1>2. on \in [Proc -> Position] /\ on[p] \in Position
  BY DEF TypeOK
<1> HIDE DEF v, e
<1> QED  BY <1>1, <1>2 DEF Position

LEMMA MarkKeeps ==
    ASSUME TypeOK, NEW p \in Proc, MarkSubmitted(p)
    PROVE  /\ on'[p].a = on[p].a /\ on'[p].tx = on[p].tx /\ on'[p].token = on[p].token
           /\ on'[p].seen \in {on[p].seen, "submitted"}
           /\ Own(p) => on'[p].seen = "submitted"
           /\ ~ Own(p) => pc'[p] \in {"done", "loop"}
           /\ pc'[p] = "apply" => Own(p) /\ on[p].tx = 0
           /\ pc'[p] = "receipt" => Own(p) /\ on[p].a = "reg"
<1>1. on \in [Proc -> Position] /\ on[p] \in Position /\ pc \in [Proc -> Place]
  BY DEF TypeOK
<1> QED  BY <1>1 DEF MarkSubmitted, Position, Goto, GivesUp

LEMMA NextProven ==
    ASSUME TypeOK, SendsKnown, ProvenInv, [Next]_vars
    PROVE  ProvenInv'
<1> USE DEF ProvenInv
<1>t. /\ final \in AppRecord /\ local \in Local /\ pc \in [Proc -> Place]
      /\ on \in [Proc -> Position] /\ DOMAIN txs = 1 .. Len(txs)
      /\ landed \in Seq(1..MaxSends)
  BY LenProperties DEF TypeOK
<1>1. ASSUME NEW p \in Proc, Process(p)
      PROVE  ProvenInv'
  <2>1. UNCHANGED <<final, proven>>
    BY <1>1, ProcessAndChain DEF chain, Send
  <2>2. ASSUME NEW q \in Proc, CarriesDesired(q)', on'[q].a \in Run
        PROVE  on'[q].a \in proven
    <3>1. CASE q # p
      BY <1>1, <2>2, <3>1, OthersStay DEF VerdictIsProven, CarriesDesired
    <3>2. CASE q = p /\ Look(p)
      BY <2>2, <3>2, DesiredIsFinal, LookKeeps, ProcFacts DEF FinalIsProven, CarriesDesired
    <3>3. CASE q = p /\ MarkSubmitted(p)
      <4>1. pc'[p] # "mark"
        BY <1>t, <3>3 DEF MarkSubmitted, Goto, GivesUp
      <4>2. pc[p] = "mark" /\ on[p].tx = 0
        BY <2>2, <3>3, <4>1, MarkKeeps DEF MarkSubmitted, CarriesDesired
      <4> QED  BY <2>2, <3>3, <4>2, MarkKeeps DEF VerdictIsProven, CarriesDesired
    <3>4. CASE q = p /\ Evidence(p)
      <4>1. pc[p] = "await" /\ on' = on /\ pc'[p] = "mark"
        BY <1>t, <3>4 DEF Evidence, Goto
      <4> QED  BY <1>t, <2>2, <3>4, <4>1 DEF SendsKnown, CarriesDesired
    <3> QED  BY <1>1, <2>2, <3>1, <3>2, <3>3, <3>4, Arrivals DEF CarriesDesired
  <2>3. ExecutedIsFinal'
    <3>1. CASE UNCHANGED local
      BY <2>1, <3>1 DEF ExecutedIsFinal
    <3>2. CASE Reconcile(p) /\ local' = Effects(on[p].a)
      <4>1. on[p].a \in Run => on[p].a \in proven
        BY <3>2 DEF Reconcile, VerdictIsProven, CarriesDesired
      <4>2. on[p].a = "reg" \/ on[p].a \in Run
        BY <1>t DEF Position, Attempt
      <4> QED  BY <1>t, <2>1, <3>2, <4>1, <4>2 DEF Effects, ExecutedIsFinal, Local
    <3> QED  BY <1>1, <3>1, <3>2, RowMoves DEF Reconcile
  <2> QED  BY <2>1, <2>2, <2>3 DEF FinalIsProven, VerdictIsProven
<1>2. CASE Finalize
  <2> DEFINE of == txs[Head(landed)].of
  <2>1. /\ proven' = proven \cup ({of} \cap Run) /\ final' = Apply(final, of)
        /\ UNCHANGED <<local, pc, on>>
    BY <1>2 DEF Finalize
  <2>2. Head(landed) \in DOMAIN txs
    BY <1>t, <1>2, LandedMove DEF Finalize, SendsKnown
  <2>3. of \in Attempt
    BY <2>2, SentTyped
  <2>4. FinalIsProven'
    <3>1. final'.receipt = IF of = "reg" THEN None ELSE of
      BY <1>t, <2>1, <2>3, ApplyTyped
    <3>2. of # "reg" => of \in Run
      BY <2>3 DEF Attempt
    <3> HIDE DEF of
    <3> QED  BY <2>1, <3>1, <3>2 DEF FinalIsProven
  <2> QED  BY <2>1, <2>4 DEF VerdictIsProven, CarriesDesired, ExecutedIsFinal
<1>3. CASE \/ \E n \in DOMAIN txs : Confirm(n) \/ Lost(n)
           \/ \E a \in Attempt : LeaseExpires(a)
           \/ UNCHANGED vars
  <2>1. UNCHANGED <<final, proven, local, pc, on>>
    BY <1>3 DEF vars, chain, Confirm, Lost, LeaseExpires
  <2> QED  BY <2>1 DEF FinalIsProven, VerdictIsProven, CarriesDesired, ExecutedIsFinal
<1> QED  BY <1>1, <1>2, <1>3, StepKinds

LEMMA InitProven == Init => ProvenInv
<1> SUFFICES ASSUME Init PROVE ProvenInv
  OBVIOUS
<1>1. final.receipt = None /\ local.receipt = None /\ local.anchor = None
  BY DEF Init, NoRecord
<1>2. \A p \in Proc : pc[p] = "idle"
  BY DEF Init
<1>3. None # "active"
  BY AttemptAssumption
<1> QED  BY <1>1, <1>2, <1>3 DEF ProvenInv, FinalIsProven, VerdictIsProven, CarriesDesired, ExecutedIsFinal

\* The app becomes active and its decision executed only after the very receipt was final on
\* chain, in every order of crashes, lost answers, sweeps and late readings.
THEOREM ExecutionIsFinal == Spec => []ExecutedIsFinal
<1> DEFINE I == TypeOK /\ SendsKnown /\ ProvenInv
<1>1. Init => I
  BY InitSends, InitProven
<1>2. I /\ [Next]_vars => I'
  BY NextTyped, NextSends, NextProven
<1>3. I => ExecutedIsFinal
  BY DEF ProvenInv
<1> QED  BY <1>1, <1>2, <1>3, PTL DEF Spec

-----------------------------------------------------------------------------
\* Rows only go forward.  A signature or a slot is there once the row was submitted, an error
\* once it failed.

Past == {"submitted", "reconciled", "failed"}

Ended == {"reconciled", "failed"}

Matches(r) == /\ r.tx # 0 \/ r.slot = TRUE => r.status \in Past
              /\ r.error # None => r.status = "failed"

RowsMatch == \A a \in Attempt : Matches(row[a])

Forward(r, s) == /\ r.status \in Past => s.status \in Past
                 /\ r.status \in Ended => s.status \in Ended
                 /\ r.status # "absent" => s.status # "absent"

LEMMA RowsForward ==
    ASSUME TypeOK, RowsMatch, NEW p \in Proc, Process(p), NEW b \in Attempt
    PROVE  /\ Matches(row'[b]) /\ Forward(row[b], row'[b])
           /\ row[b].status = "absent" /\ row'[b].status # "absent"
                => (Register(p) /\ b = "reg") \/ (Receipt(p) /\ b = p)
<1> USE DEF Matches, Forward, Past, Ended
<1>t. /\ row \in [Attempt -> AttemptRow] /\ row[b] \in AttemptRow /\ Matches(row[b])
      /\ on[p] \in Position /\ on[p].a \in Attempt /\ on[p].tx \in 0 .. MaxSends
      /\ on[p].error \in {"txfailed", "repair", "other"}
      /\ row[on[p].a] \in AttemptRow /\ Matches(row[on[p].a])
  BY DEF TypeOK, RowsMatch, Position
<1>0. CASE row'[b] = row[b]
  BY <1>t, <1>0
<1>1. CASE Claim(p) /\ Claimable(on[p].a)
  <2>1. row' = [row EXCEPT ![on[p].a] = Claimed(@)]
    BY <1>1 DEF Claim
  <2>2. CASE b = on[p].a
    <3>1. row'[b] = Claimed(row[b])
      BY <1>t, <2>1, <2>2
    <3>2. row[b].status \in {"quoted", "broadcasting"} /\ row[b].tx = 0 /\ row[b].slot # TRUE
      BY <1>1, <1>t, <2>2 DEF Claimable
    <3> QED  BY <1>t, <3>1, <3>2, ClaimedRow
  <2> QED  BY <1>t, <1>0, <2>1, <2>2
<1>2. CASE MarkSubmitted(p) /\ Own(p)
  <2>1. row' = [row EXCEPT ![on[p].a] = Submitted(@, on[p].tx)]
    BY <1>2 DEF MarkSubmitted
  <2>2. CASE b = on[p].a
    <3>1. row'[b] = Submitted(row[b], on[p].tx) /\ row[b].status = "broadcasting"
      BY <1>t, <1>2, <2>1, <2>2 DEF Own
    <3> QED  BY <1>t, <3>1, SubmittedRow
  <2> QED  BY <1>t, <1>0, <2>1, <2>2
<1>3. CASE Reconcile(p) /\ row[on[p].a].status = "submitted"
  <2>1. row'[b] = IF b \in {on[p].a} \cup Closes(on[p].a) THEN Reconciled(row[b]) ELSE row[b]
    BY <1>3 DEF Reconcile
  <2>2. CASE b \in {on[p].a} \cup Closes(on[p].a)
    <3>1. row'[b] = Reconciled(row[b]) /\ row[b].status = "submitted"
      BY <1>3, <2>1, <2>2 DEF Closes
    <3> QED  BY <1>t, <3>1, ReconciledRow
  <2> QED  BY <1>0, <2>1, <2>2
<1>4. CASE MarkFailed(p) /\ row[on[p].a].status \in {"quoted"} \cup Active
  <2>1. row' = [row EXCEPT ![on[p].a] = FailedFor(@, on[p].error)]
    BY <1>4 DEF MarkFailed
  <2>2. CASE b = on[p].a
    <3>1. row'[b] = FailedFor(row[b], on[p].error) /\ row[b].status # "absent"
      BY <1>t, <1>4, <2>1, <2>2 DEF Active
    <3> QED  BY <1>t, <3>1, FailedRow
  <2> QED  BY <1>t, <1>0, <2>1, <2>2
<1>5. CASE Register(p) \/ Receipt(p)
  <2>1. CASE row' = row
    BY <1>0, <2>1
  <2>2. CASE Register(p) /\ Quoted(p, "reg")
    <3>1. CASE b = "reg"
      BY <1>t, <2>2, <3>1, QuotedMove
    <3> QED  BY <1>t, <1>0, <2>2, <3>1, QuotedMove, ProcFacts
  <2>3. CASE Receipt(p) /\ Quoted(p, p)
    <3>0. p \in Attempt
      BY <2>3, ProcFacts DEF Receipt
    <3>1. CASE b = p
      BY <1>t, <2>3, <3>1, QuotedMove
    <3> QED  BY <1>t, <1>0, <2>3, <3>0, <3>1, QuotedMove
  <2> QED  BY <1>5, <2>1, <2>2, <2>3 DEF Register, Receipt
<1>6. ASSUME \/ Claim(p) /\ ~ Claimable(on[p].a)
             \/ MarkSubmitted(p) /\ ~ Own(p)
             \/ Reconcile(p) /\ row[on[p].a].status # "submitted"
             \/ MarkFailed(p) /\ row[on[p].a].status \notin {"quoted"} \cup Active
      PROVE  row' = row
  BY <1>6 DEF Claim, MarkSubmitted, Reconcile, MarkFailed
<1> QED  BY <1>0, <1>1, <1>2, <1>3, <1>4, <1>5, <1>6, RowMoves

-----------------------------------------------------------------------------
\* A run comes to its receipt only behind a registration that was submitted, and where the
\* attempts of another run are not found, only the run that submitted it does.

Passed(r) == row[r].status # "absent" \/ pc[r] = "receipt"

RegistrationIsPast == \A r \in Run : Passed(r) => row["reg"].status \in Past

ActiveClosesIt == local.anchor = "active" => row["reg"].status \in Ended

OneReceipt == ~ NotMatchesNull => \A q, r \in Run : Passed(q) /\ Passed(r) => q = r

\* The receipt of the request is the row of a run.
ReceiptKnown == /\ local.receipt # None => row[local.receipt].status # "absent"
                /\ local.anchor = "active" => local.receipt # None

PathInv == /\ RowsMatch /\ RegistrationIsPast /\ ActiveClosesIt /\ OneReceipt /\ ReceiptKnown
           /\ ~ NotMatchesNull => AnchorIsTheReceipt

LEMMA PassedTyped ==
    ASSUME TypeOK
    PROVE  /\ \A a \in Attempt : row[a].status \in Past \cup {"absent", "quoted", "broadcasting"}
           /\ local.receipt \in Run \cup {None}
           /\ \A p \in Proc : on[p].a \in Attempt /\ (on[p].a \in Run \/ on[p].a = "reg")
<1>1. \A a \in Attempt : row[a] \in AttemptRow
  BY DEF TypeOK
<1>2. \A p \in Proc : on[p] \in Position
  BY DEF TypeOK
<1> QED  BY <1>1, <1>2, RowTyped DEF Past, TypeOK, Local, Position, Attempt

\* Who passes: the run whose registration was marked as submitted, or a run that finds it.
LEMMA Passing ==
    ASSUME TypeOK, RowsMatch, NEW p \in Proc, Process(p), NEW r \in Run, Passed(r)', ~ Passed(r)
    PROVE  /\ r = p
           /\ row'["reg"].status \in Past
           /\ row["reg"].status = "broadcasting" \/ NotMatchesNull = TRUE
<1>t. /\ r \in Attempt /\ r \in Proc /\ "reg" \in Attempt /\ r # "reg"
      /\ pc \in [Proc -> Place] /\ row \in [Attempt -> AttemptRow]
  BY ProcFacts DEF TypeOK
<1>1. row'[r].status = "absent"
  <2>1. row[r].status = "absent" /\ pc[r] # "receipt"
    BY DEF Passed
  <2> QED  BY <1>t, <2>1, RowsForward DEF Receipt
<1>2. pc'[r] = "receipt" /\ pc[r] # "receipt"
  BY <1>1 DEF Passed
<1>3. r = p
  BY <1>t, <1>2, OthersStay
<1>4. CASE MarkSubmitted(p)
  <2>1. Own(p) /\ on[p].a = "reg"
    BY <1>2, <1>3, <1>4, MarkKeeps
  <2>2. row["reg"].status = "broadcasting" /\ row' = [row EXCEPT !["reg"] = Submitted(@, on[p].tx)]
    BY <1>4, <2>1 DEF MarkSubmitted, Own
  <2>3. row["reg"] \in AttemptRow /\ on[p].tx \in 0 .. MaxSends
    BY <1>t DEF TypeOK, Position
  <2>4. row'["reg"] = Submitted(row["reg"], on[p].tx)
    BY <1>t, <2>2
  <2>5. row'["reg"].status = "submitted"
    BY <2>3, <2>4, SubmittedRow
  <2> QED  BY <1>3, <2>2, <2>5 DEF Past
<1>5. CASE Register(p)
  <2>1. Prior /\ row' = row
    BY <1>t, <1>2, <1>3, <1>5 DEF Register, Goto
  <2>2. row["reg"].tx # 0 \/ row["reg"].slot = TRUE
    <3>1. row["reg"].slot \in BOOLEAN
      BY <1>t, RowTyped
    <3> QED  BY <2>1, <3>1 DEF Prior
  <2>3. Matches(row["reg"])
    BY <1>t DEF RowsMatch
  <2>4. row["reg"].status \in Past
    BY <2>2, <2>3 DEF Matches
  <2>5. row["reg"].status # "failed" /\ row["reg"].error = None
    BY <2>1, <2>3 DEF Prior, Matches, Active
  <2>6. NotMatchesNull = TRUE
    BY <2>1, <2>5, AttemptAssumption DEF Prior, NotExcluded, NotTxFailed
  <2> QED  BY <1>3, <2>1, <2>4, <2>6
<1> QED  BY <1>2, <1>3, <1>4, <1>5, Arrivals

LEMMA PathOfProcess ==
    ASSUME TypeOK, PathInv, NEW p \in Proc, Process(p)
    PROVE  /\ PathInv'
           /\ local.anchor = "active" => local'.anchor = "active"
<1> USE DEF PathInv
<1>t. /\ local \in Local /\ "reg" \in Attempt /\ Run \subseteq Attempt /\ NotMatchesNull \in BOOLEAN
      /\ None \notin Run /\ "reg" \notin Run
  BY ProcFacts, AttemptAssumption DEF TypeOK
<1>f. /\ \A b \in Attempt : Matches(row'[b]) /\ Forward(row[b], row'[b])
  BY RowsForward
<1>1. RowsMatch'
  BY <1>f DEF RowsMatch
<1>2. RegistrationIsPast'
  <2> SUFFICES ASSUME NEW r \in Run, Passed(r)'
               PROVE  row'["reg"].status \in Past
    BY DEF RegistrationIsPast
  <2>1. CASE Passed(r)
    BY <1>t, <1>f, <2>1 DEF RegistrationIsPast, Forward
  <2> QED  BY <2>1, Passing
<1>3. OneReceipt'
  <2> SUFFICES ASSUME ~ NotMatchesNull, NEW q \in Run, NEW r \in Run, Passed(q)', Passed(r)'
               PROVE  q = r
    BY DEF OneReceipt
  <2>1. CASE Passed(q) /\ Passed(r)
    BY <2>1 DEF OneReceipt
  <2>2. CASE ~ Passed(q) /\ ~ Passed(r)
    BY <2>2, Passing
  <2>3. CASE ~ Passed(q) /\ Passed(r)
    <3>1. row["reg"].status = "broadcasting"
      BY <2>3, Passing
    <3> QED  BY <2>3, <3>1 DEF RegistrationIsPast, Past
  <2>4. CASE Passed(q) /\ ~ Passed(r)
    <3>1. row["reg"].status = "broadcasting"
      BY <2>4, Passing
    <3> QED  BY <2>4, <3>1 DEF RegistrationIsPast, Past
  <2> QED  BY <2>1, <2>2, <2>3, <2>4
<1>4. CASE UNCHANGED local
  <2>1. ActiveClosesIt'
    BY <1>t, <1>f, <1>4 DEF ActiveClosesIt, Forward
  <2>2. ReceiptKnown'
    <3>1. local.receipt # None => local.receipt \in Attempt
      BY <1>t DEF Local
    <3> QED  BY <1>f, <1>4, <3>1 DEF ReceiptKnown, Forward
  <2>3. ~ NotMatchesNull => AnchorIsTheReceipt'
    BY <1>4 DEF AnchorIsTheReceipt
  <2> QED  BY <1>1, <1>2, <1>3, <1>4, <2>1, <2>2, <2>3
<1>5. CASE Reconcile(p) /\ row[on[p].a].status = "submitted"
  <2> DEFINE a == on[p].a
  <2>1. /\ local' = Effects(a) /\ a \in Attempt /\ (a \in Run \/ a = "reg")
        /\ \A b \in Attempt : row'[b] = IF b \in {a} \cup Closes(a) THEN Reconciled(row[b]) ELSE row[b]
        /\ row[a].status = "submitted"
    BY <1>5, PassedTyped DEF Reconcile
  <2>2. \A b \in Attempt : row[b] \in AttemptRow
    BY DEF TypeOK
  <2> HIDE DEF a
  <2>3. CASE a = "reg"
    <3>1. local.anchor # "active"
      BY <2>1, <2>3 DEF ActiveClosesIt, Ended
    <3>2. local'.anchor = "pending" /\ local'.receipt = local.receipt
      BY <1>t, <2>1, <2>3 DEF Effects, Local
    <3>3. local.receipt # None => local.receipt \in Attempt
      BY <1>t DEF Local
    <3> QED  BY <1>f, <1>1, <1>2, <1>3, <3>1, <3>2, <3>3
             DEF ActiveClosesIt, ReceiptKnown, AnchorIsTheReceipt, Forward
  <2>4. CASE a \in Run
    <3>0. a # "reg" /\ Passed(a)
      BY <1>t, <2>1, <2>4 DEF Passed
    <3>1. row["reg"].status \in Past
      BY <2>4, <3>0 DEF RegistrationIsPast
    <3>2. row'["reg"].status \in Ended
      <4>1. CASE row["reg"].status = "submitted"
        <5>1. "reg" \in Closes(a)
          BY <2>4, <4>1 DEF Closes
        <5>2. row'["reg"] = Reconciled(row["reg"])
          BY <1>t, <2>1, <5>1
        <5> QED  BY <1>t, <2>2, <5>2, ReconciledRow DEF Ended
      <4>2. CASE row["reg"].status # "submitted"
        BY <1>t, <1>f, <3>1, <4>2 DEF Forward, Past, Ended
      <4> QED  BY <4>1, <4>2
    <3>3. /\ local'.anchor = "active" /\ local'.digest = a
          /\ local'.receipt = IF local.receipt = None THEN a ELSE local.receipt
      BY <2>1, <3>0 DEF Effects
    <3>4. local'.receipt \in Attempt /\ local'.receipt # None /\ row[local'.receipt].status # "absent"
      BY <1>t, <2>1, <2>4, <3>3 DEF ReceiptKnown, Local
    <3>5. ReceiptKnown'
      BY <1>f, <3>4 DEF ReceiptKnown, Forward
    <3>6. ~ NotMatchesNull => local'.receipt = a
      <4> SUFFICES ASSUME ~ NotMatchesNull, local.receipt # None
                   PROVE  local.receipt = a
        BY <3>3
      <4>1. local.receipt \in Run /\ Passed(local.receipt)
        BY <1>t DEF ReceiptKnown, Passed, Local
      <4> QED  BY <2>4, <3>0, <4>1 DEF OneReceipt
    <3> QED  BY <1>1, <1>2, <1>3, <3>2, <3>3, <3>5, <3>6 DEF ActiveClosesIt, AnchorIsTheReceipt
  <2> QED  BY <2>1, <2>3, <2>4
<1>6. Reconcile(p) /\ row[on[p].a].status # "submitted" => UNCHANGED local
  BY DEF Reconcile
<1> QED  BY <1>4, <1>5, <1>6, RowMoves

LEMMA NextPath ==
    ASSUME TypeOK, PathInv, [Next]_vars
    PROVE  /\ PathInv'
           /\ local.anchor = "active" => local'.anchor = "active"
<1>1. ASSUME NEW p \in Proc, Process(p)
      PROVE  PathInv' /\ (local.anchor = "active" => local'.anchor = "active")
  BY <1>1, PathOfProcess
<1>2. CASE UNCHANGED <<row, local, pc>>
  BY <1>2 DEF PathInv, RowsMatch, RegistrationIsPast, ActiveClosesIt, OneReceipt, ReceiptKnown,
     AnchorIsTheReceipt, Passed
<1>3. ASSUME NEW a \in Attempt, LeaseExpires(a)
      PROVE  PathInv' /\ (local.anchor = "active" => local'.anchor = "active")
  <2>1. row' = [row EXCEPT ![a] = [@ EXCEPT !.live = FALSE]] /\ UNCHANGED <<local, pc>>
    BY <1>3 DEF LeaseExpires
  <2>2. \A b \in Attempt : row[b] \in AttemptRow
    BY DEF TypeOK
  <2>3. \A b \in Attempt : /\ row'[b].status = row[b].status /\ row'[b].tx = row[b].tx
                           /\ row'[b].slot = row[b].slot /\ row'[b].error = row[b].error
    <3> SUFFICES ASSUME NEW b \in Attempt
                 PROVE  /\ row'[b].status = row[b].status /\ row'[b].tx = row[b].tx
                        /\ row'[b].slot = row[b].slot /\ row'[b].error = row[b].error
      OBVIOUS
    <3>1. row'[b] = IF b = a THEN [row[b] EXCEPT !.live = FALSE] ELSE row[b]
      BY <2>1 DEF TypeOK
    <3> QED  BY <2>2, <3>1, ExpiredRow
  <2>4. local.receipt # None => local.receipt \in Attempt
    BY ProcFacts DEF TypeOK, Local
  <2> QED
    BY <2>1, <2>3, <2>4, ProcFacts DEF PathInv, RowsMatch, Matches, RegistrationIsPast,
       ActiveClosesIt, OneReceipt, ReceiptKnown, AnchorIsTheReceipt, Passed
<1> QED  BY <1>1, <1>2, <1>3, StepKinds DEF vars

LEMMA InitPath == Init => PathInv
<1> SUFFICES ASSUME Init PROVE PathInv
  OBVIOUS
<1>1. local.anchor # "active" /\ local.receipt = None
  BY AttemptAssumption DEF Init
<1>2. \A a \in Attempt : row[a] = NoRow
  BY DEF Init
<1>3. NoRow.status = "absent" /\ NoRow.tx = 0 /\ NoRow.slot = FALSE /\ NoRow.error = None
  BY DEF NoRow
<1>4. \A p \in Proc : pc[p] = "idle"
  BY DEF Init
<1> QED  BY <1>1, <1>2, <1>3, <1>4, ProcFacts
         DEF PathInv, RowsMatch, Matches, RegistrationIsPast, ActiveClosesIt, OneReceipt,
             ReceiptKnown, AnchorIsTheReceipt, Passed

\* A reconciled registration never takes an active app back to pending, on any database.
THEOREM ActiveStays == Spec => ActiveStaysActive
<1> DEFINE I == TypeOK /\ SendsKnown /\ PathInv
<1>1. Init => I
  BY InitSends, InitPath
<1>2. I /\ [Next]_vars => I'
  BY NextTyped, NextSends, NextPath
<1>3. I /\ [Next]_vars => [local.anchor = "active" => local'.anchor = "active"]_local
  BY NextPath
<1> QED  BY <1>1, <1>2, <1>3, PTL DEF Spec, ActiveStaysActive

\* On a database whose NOT (column = value) does not hold of NULL, as SQL's does not, an app's
\* anchor, once active, stays active and is the receipt of its request.
THEOREM AnchorsAlwaysStand ==
    ASSUME NotMatchesNull = FALSE
    PROVE  Spec => AnchorsStand
<1> DEFINE I == TypeOK /\ SendsKnown /\ PathInv
<1>1. Init => I
  BY InitSends, InitPath
<1>2. I /\ [Next]_vars => I'
  BY NextTyped, NextSends, NextPath
<1>3. I => AnchorIsTheReceipt
  BY DEF PathInv
<1> QED  BY <1>1, <1>2, <1>3, ActiveStays, PTL DEF Spec, AnchorsStand

-----------------------------------------------------------------------------
\* One transaction in flight.  While nothing has failed, the lease of an attempt is live as long
\* as its claimer works with it, so there is one claimer at a time; a transaction that may still
\* land is one its claimer waits for; and what another process read as submitted never becomes
\* claimable again, so that nobody fails the attempt under the claimer.

UserOf(p) == on[p].seen = "claimed" /\ pc[p] \in {"send", "await", "mark", "look", "fail"}

SeenInv ==
    \A p \in Proc :
        /\ pc[p] \in {"send", "await", "mark"} => on[p].seen = "claimed"
        /\ pc[p] \in {"look", "apply", "fail"} =>
              \/ on[p].seen = "claimed" /\ pc[p] # "apply"
              \/ on[p].seen = "submitted" /\ row[on[p].a].status \in Past
        /\ \A t \in todo[p] : t.status = "submitted" => row[t.a].status \in Past

Holds(p) == /\ row[on[p].a].status = "broadcasting" /\ row[on[p].a].live = TRUE
            /\ row[on[p].a].token = on[p].token

HeldAlone == \A p \in Proc : UserOf(p) =>
                /\ Holds(p)
                /\ \A q \in Proc : UserOf(q) /\ on[q].a = on[p].a => q = p

FlightIsAwaited ==
    \A n \in DOMAIN txs : txs[n].st = "flight" =>
        \E p \in Proc : pc[p] = "await" /\ on[p].tx = n /\ on[p].a = txs[n].of

FlightInv == SeenInv /\ (faults = 0 => HeldAlone /\ FlightIsAwaited)

\* What each action leaves in the position of its process.
LEMMA Positions ==
    ASSUME TypeOK, NEW p \in Proc, Process(p)
    PROVE  /\ Claim(p) => /\ on'[p].a = on[p].a
                          /\ Claimable(on[p].a) => /\ on'[p].seen = "claimed"
                                                   /\ on'[p].token = row[on[p].a].claims + 1
                          /\ ~ Claimable(on[p].a) => pc'[p] \in {"done", "loop"}
           /\ Send(p) => /\ on'[p].a = on[p].a /\ on'[p].seen = on[p].seen
                         /\ on'[p].token = on[p].token /\ on'[p].tx = Len(txs) + 1
           /\ Evidence(p) => on' = on
           /\ Reconcile(p) => /\ on'[p].a = on[p].a /\ on'[p].seen = on[p].seen
           /\ LookFails(p) /\ pc'[p] = "fail" => /\ on'[p].a = on[p].a
                                                 /\ on'[p].seen = "submitted" /\ on[p].seen = "submitted"
           /\ \A t \in todo[p] : SweepTakes(p, t) \/ RunTakes(p, t) =>
                 /\ on'[p].a = t.a /\ on'[p].seen = t.status
                 /\ pc'[p] = "look" => t.status = "submitted"
<1>t. /\ on \in [Proc -> Position] /\ on[p] \in Position /\ pc \in [Proc -> Place]
      /\ \A t \in todo[p] : t \in Copy
  BY DEF TypeOK
<1>1. Claim(p) => /\ on'[p].a = on[p].a
                  /\ Claimable(on[p].a) => /\ on'[p].seen = "claimed"
                                           /\ on'[p].token = row[on[p].a].claims + 1
                  /\ ~ Claimable(on[p].a) => pc'[p] \in {"done", "loop"}
  <2>1. ASSUME Claim(p), Claimable(on[p].a)
        PROVE  /\ on'[p].a = on[p].a /\ on'[p].seen = "claimed"
               /\ on'[p].token = row[on[p].a].claims + 1
    <3>1. on' = [on EXCEPT ![p] = [@ EXCEPT !.token = row[on[p].a].claims + 1, !.seen = "claimed"]]
      BY <2>1 DEF Claim
    <3> QED  BY <1>t, <3>1 DEF Position
  <2>2. Claim(p) /\ ~ Claimable(on[p].a) => on' = on /\ pc'[p] \in {"done", "loop"}
    BY <1>t DEF Claim, Goto, GivesUp
  <2> QED  BY <2>1, <2>2
<1>2. Send(p) => /\ on'[p].a = on[p].a /\ on'[p].seen = on[p].seen
                 /\ on'[p].token = on[p].token /\ on'[p].tx = Len(txs) + 1
  BY <1>t DEF Send, Position
<1>3. Evidence(p) => on' = on
  BY DEF Evidence
<1>4. Reconcile(p) => /\ on'[p].a = on[p].a /\ on'[p].seen = on[p].seen
  BY <1>t DEF Reconcile, Position
<1>5. LookFails(p) /\ pc'[p] = "fail" => /\ on'[p].a = on[p].a
                                         /\ on'[p].seen = "submitted" /\ on[p].seen = "submitted"
  BY <1>t DEF LookFails, GivesUp, Goto, Position
<1>6. ASSUME NEW t \in todo[p], SweepTakes(p, t) \/ RunTakes(p, t)
      PROVE  /\ on'[p].a = t.a /\ on'[p].seen = t.status
             /\ pc'[p] = "look" => t.status = "submitted"
  <2>1. on' = [on EXCEPT ![p] = [Nothing EXCEPT !.a = t.a, !.tx = t.tx, !.seen = t.status]]
    BY <1>6 DEF SweepTakes, RunTakes, Takes
  <2>2. on'[p].a = t.a /\ on'[p].seen = t.status
    BY <1>t, <2>1 DEF Nothing
  <2>3. t.status \in {"broadcasting", "submitted"}
    BY <1>t DEF Copy, Active
  <2>4. pc'[p] = "look" => t.status # "broadcasting"
    BY <1>t, <1>6 DEF SweepTakes, RunTakes, Goto
  <2> QED  BY <2>2, <2>3, <2>4
<1> QED  BY <1>1, <1>2, <1>3, <1>4, <1>5, <1>6

\* A sweep and the recovery of a run read the rows; otherwise the list only gets shorter.
LEMMA TodoMoves ==
    ASSUME TypeOK, NEW p \in Proc, Process(p), NEW t \in todo'[p]
    PROVE  t \in todo[p] \/ \E a \in Attempt : t.a = a /\ t.status = row[a].status
<1>t. todo \in [Proc -> SUBSET Copy]
  BY DEF TypeOK
<1>1. CASE SweepReads(p)
  <2>1. t \in AsRead(Barred)
    BY <1>t, <1>1 DEF SweepReads
  <2>2. Barred \subseteq Attempt
    BY ProcFacts DEF Barred, Due, ActiveReceipts
  <2> QED  BY <2>1, <2>2 DEF AsRead
<1>2. CASE RunRecovers(p)
  BY <1>t, <1>2 DEF RunRecovers, AsRead, Recoverable
<1>3. CASE todo'[p] \subseteq todo[p]
  BY <1>3
<1>4. ASSUME \/ Claim(p) \/ Send(p) \/ Evidence(p) \/ NoEvidence(p) \/ MarkSubmitted(p)
             \/ Look(p) \/ MarkFailed(p) \/ Register(p) \/ Receipt(p)
             \/ SignerFails(p) \/ Stop(p) \/ LookFails(p)
      PROVE  todo'[p] \subseteq todo[p]
  BY <1>t, <1>4 DEF Claim, Send, Evidence, NoEvidence, MarkSubmitted, Look, MarkFailed,
                    Register, Receipt, SignerFails, Stop, LookFails
<1>5. ASSUME Reconcile(p) \/ SweepEnds(p) \/ RunGoesOn(p)
      PROVE  todo'[p] \subseteq todo[p]
  BY <1>t, <1>5 DEF Reconcile, SweepEnds, RunGoesOn
<1>6. ASSUME NEW a \in todo[p], SweepTakes(p, a) \/ RunTakes(p, a)
      PROVE  todo'[p] \subseteq todo[p]
  BY <1>t, <1>6 DEF SweepTakes, RunTakes, Takes
<1> QED
  BY <1>1, <1>2, <1>3, <1>4, <1>5, <1>6 DEF Process, Work

LEMMA SeenOfProcess ==
    ASSUME TypeOK, RowsMatch, SeenInv, NEW p \in Proc, Process(p)
    PROVE  SeenInv'
<1>t. /\ pc \in [Proc -> Place] /\ on[p] \in Position /\ on[p].a \in Attempt
      /\ row \in [Attempt -> AttemptRow] /\ row[on[p].a] \in AttemptRow
      /\ \A q \in Proc : \A t \in todo[q] : t.a \in Attempt
      /\ \A q \in Proc : on[q].a \in Attempt
  BY DEF TypeOK, Position, Copy
<1>f. \A b \in Attempt : row[b].status \in Past => row'[b].status \in Past
  BY RowsForward DEF Forward
<1>1. ASSUME NEW q \in Proc, NEW t \in todo'[q], t.status = "submitted"
      PROVE  row'[t.a].status \in Past
  <2>1. CASE t \in todo[q]
    BY <1>t, <1>f, <1>1, <2>1 DEF SeenInv
  <2>2. CASE q = p /\ \E a \in Attempt : t.a = a /\ t.status = row[a].status
    BY <1>f, <1>1, <2>2 DEF Past
  <2> QED  BY <1>1, <2>1, <2>2, TodoMoves, OthersStay
<1>2. ASSUME NEW q \in Proc, q # p
      PROVE  /\ pc'[q] \in {"send", "await", "mark"} => on'[q].seen = "claimed"
             /\ pc'[q] \in {"look", "apply", "fail"} =>
                   \/ on'[q].seen = "claimed" /\ pc'[q] # "apply"
                   \/ on'[q].seen = "submitted" /\ row'[on'[q].a].status \in Past
  BY <1>t, <1>f, <1>2, OthersStay DEF SeenInv
<1>3. pc'[p] \in {"send", "await", "mark"} => on'[p].seen = "claimed"
  <2>1. CASE Claim(p)
    BY <2>1, Positions
  <2>2. CASE Send(p)
    BY <2>2, Positions DEF SeenInv, Send
  <2>3. CASE Evidence(p)
    BY <2>3, Positions DEF SeenInv, Evidence
  <2>4. CASE Look(p)
    <3>1. pc'[p] = LookedAt(p, Classify(on[p].a, on[p].tx))
      BY <1>t, <2>4 DEF Look, Goto
    <3>2. pc'[p] \in {"send", "await", "mark"} => on[p].seen = "claimed"
      BY <3>1, ReadingTyped DEF LookedAt, Verdict
    <3> QED  BY <2>4, <3>2, LookKeeps
  <2> QED  BY <2>1, <2>2, <2>3, <2>4, Arrivals
<1>4. pc'[p] \in {"look", "apply", "fail"} =>
         \/ on'[p].seen = "claimed" /\ pc'[p] # "apply"
         \/ on'[p].seen = "submitted" /\ row'[on'[p].a].status \in Past
  <2>1. CASE Claim(p)
    <3>1. pc'[p] # "apply"
      BY <1>t, <2>1 DEF Claim, Goto, GivesUp
    <3> QED  BY <2>1, <3>1, Positions
  <2>2. CASE MarkSubmitted(p)
    <3>1. pc'[p] \notin {"look", "fail"}
      BY <1>t, <2>2 DEF MarkSubmitted, Goto, GivesUp
    <3>2. ASSUME pc'[p] = "apply"
          PROVE  row'[on[p].a].status = "submitted"
      <4>1. Own(p)
        BY <2>2, <3>2, MarkKeeps
      <4>2. row' = [row EXCEPT ![on[p].a] = Submitted(@, on[p].tx)]
        BY <2>2, <4>1 DEF MarkSubmitted
      <4>3. on[p].tx \in 0 .. MaxSends /\ row'[on[p].a] = Submitted(row[on[p].a], on[p].tx)
        BY <1>t, <4>2 DEF Position
      <4> QED  BY <1>t, <4>3, SubmittedRow
    <3> QED  BY <2>2, <3>1, <3>2, MarkKeeps DEF Past
  <2>3. CASE Look(p)
    <3>1. pc'[p] = LookedAt(p, Classify(on[p].a, on[p].tx))
      BY <1>t, <2>3 DEF Look, Goto
    <3>2. pc'[p] = "apply" => on[p].seen # "claimed"
      BY <3>1, ReadingTyped DEF LookedAt, Verdict
    <3>3. pc[p] = "look"
      BY <2>3 DEF Look
    <3> QED  BY <1>t, <1>f, <2>3, <3>2, <3>3, LookKeeps DEF SeenInv
  <2>4. CASE LookFails(p) /\ pc'[p] = "fail"
    <3>1. pc[p] = "look"
      BY <2>4 DEF LookFails
    <3> QED  BY <1>t, <1>f, <2>4, <3>1, Positions DEF SeenInv
  <2>5. CASE Reconcile(p)
    <3>1. pc[p] = "apply"
      BY <2>5 DEF Reconcile
    <3>2. on[p].seen = "submitted" /\ row[on[p].a].status \in Past
      BY <3>1 DEF SeenInv
    <3> QED  BY <1>t, <1>f, <2>5, <3>2, Positions
  <2>6. ASSUME NEW t \in todo[p], SweepTakes(p, t) \/ RunTakes(p, t)
        PROVE  pc'[p] = "look" => on'[p].seen = "submitted" /\ row'[on'[p].a].status \in Past
    BY <1>t, <1>f, <2>6, Positions DEF SeenInv
  <2>7. /\ (\E t \in todo[p] : SweepTakes(p, t) \/ RunTakes(p, t)) => pc'[p] \notin {"apply", "fail"}
        /\ LookFails(p) => pc'[p] \notin {"look", "apply"}
    BY <1>t DEF SweepTakes, RunTakes, LookFails, Goto, GivesUp
  <2> QED  BY <2>1, <2>2, <2>3, <2>4, <2>5, <2>6, <2>7, Arrivals
<1> QED  BY <1>1, <1>2, <1>3, <1>4 DEF SeenInv

\* Who works with a claim has just claimed, or did so before and finds the rows as they were.
LEMMA BecomesUser ==
    ASSUME TypeOK, RowsMatch, SeenInv, NEW p \in Proc, Process(p), UserOf(p)'
    PROVE  \/ Claim(p) /\ Claimable(on[p].a)
           \/ /\ UserOf(p) /\ row' = row
              /\ on'[p].a = on[p].a /\ on'[p].token = on[p].token
<1>t. pc \in [Proc -> Place] /\ \A t \in todo[p] : t.status \in Active
  BY DEF TypeOK, Copy
<1>1. pc'[p] \in {"send", "await", "mark", "look", "fail"} /\ on'[p].seen = "claimed"
  BY DEF UserOf
<1>2. ~ MarkSubmitted(p)
  BY <1>t, <1>1, MarkKeeps DEF MarkSubmitted, Goto, GivesUp
<1>3. CASE Claim(p)
  BY <1>1, <1>3, Positions
<1>4. CASE Send(p)
  BY <1>1, <1>4, Positions DEF Send, UserOf
<1>5. CASE Evidence(p)
  BY <1>1, <1>5 DEF Evidence, UserOf
<1>6. CASE Look(p)
  BY <1>1, <1>6, LookKeeps DEF Look, UserOf
<1>7. ~ (LookFails(p) /\ pc'[p] = "fail")
  BY <1>1, Positions
<1>8. ~ Reconcile(p)
  BY <1>1, Positions DEF Reconcile, SeenInv
<1>9. ~ \E t \in todo[p] : (SweepTakes(p, t) \/ RunTakes(p, t))
  BY <1>t, <1>1, Positions DEF Active
<1> QED  BY <1>1, <1>2, <1>3, <1>4, <1>5, <1>6, <1>7, <1>8, <1>9, Arrivals

\* The row somebody else holds is left alone.
LEMMA HeldStays ==
    ASSUME TypeOK, RowsMatch, SeenInv, HeldAlone, NEW p \in Proc, Process(p),
           NEW q \in Proc, q # p, UserOf(q)
    PROVE  row'[on[q].a] = row[on[q].a]
<1> DEFINE b == on[q].a
<1>t. /\ row \in [Attempt -> AttemptRow] /\ b \in Attempt /\ on[p].a \in Attempt
      /\ p \in Run => p \in Attempt
  BY ProcFacts DEF TypeOK, Position
<1>1. /\ row[b].status = "broadcasting" /\ row[b].live = TRUE
      /\ ~ (UserOf(p) /\ on[p].a = b)
  BY DEF HeldAlone, Holds
<1> SUFFICES row'[b] = row[b]
  OBVIOUS
<1> HIDE DEF b
<1>o. ASSUME NEW r, on[p].a # b, row' = [row EXCEPT ![on[p].a] = r]
      PROVE  row'[b] = row[b]
  BY <1>t, <1>o
<1>2. CASE Claim(p) /\ row' # row
  <2>1. Claimable(on[p].a) /\ row' = [row EXCEPT ![on[p].a] = Claimed(row[on[p].a])]
    BY <1>2 DEF Claim
  <2>2. on[p].a # b
    BY <1>1, <2>1 DEF Claimable
  <2> QED  BY <1>o, <2>1, <2>2
<1>3. CASE MarkSubmitted(p) /\ row' # row
  <2>1. on[p].a # b
    BY <1>1, <1>3 DEF MarkSubmitted, UserOf, SeenInv
  <2>2. row' = [row EXCEPT ![on[p].a] = Submitted(row[on[p].a], on[p].tx)]
    BY <1>3 DEF MarkSubmitted
  <2> QED  BY <1>o, <2>1, <2>2
<1>4. CASE Reconcile(p) /\ row' # row
  <2>1. row[on[p].a].status = "submitted" => b \notin {on[p].a} \cup Closes(on[p].a)
    BY <1>1 DEF Closes
  <2>2. /\ row[on[p].a].status = "submitted"
        /\ row'[b] = IF b \in {on[p].a} \cup Closes(on[p].a) THEN Reconciled(row[b]) ELSE row[b]
    BY <1>t, <1>4 DEF Reconcile
  <2> QED  BY <2>1, <2>2
<1>5. CASE MarkFailed(p) /\ row' # row
  <2>1. on[p].a # b
    <3>1. on[p].a = b => on[p].seen = "claimed"
      BY <1>1, <1>5 DEF MarkFailed, SeenInv, Past
    <3> QED  BY <1>1, <1>5, <3>1 DEF MarkFailed, UserOf
  <2>2. row' = [row EXCEPT ![on[p].a] = FailedFor(row[on[p].a], on[p].error)]
    BY <1>5 DEF MarkFailed
  <2> QED  BY <1>o, <2>1, <2>2
<1>6. CASE Register(p) /\ row' # row
  <2>1. Quoted(p, "reg")
    BY <1>6 DEF Register
  <2>2. b # "reg" => row'[b] = row[b]
    BY <1>t, <2>1, QuotedMove, ProcFacts
  <2>3. b = "reg" => row'[b] = row[b]
    BY <1>1, <1>t, <2>1, QuotedMove, ProcFacts
  <2> QED  BY <2>2, <2>3
<1>7. CASE Receipt(p) /\ row' # row
  <2>1. Quoted(p, p) /\ p \in Attempt
    BY <1>7, <1>t DEF Receipt
  <2>2. b # p => row'[b] = row[b]
    BY <1>t, <2>1, QuotedMove
  <2>3. b = p => row'[b] = row[b]
    BY <1>1, <1>t, <2>1, QuotedMove
  <2> QED  BY <2>2, <2>3
<1>8. row' = row => row'[b] = row[b]
  OBVIOUS
<1> QED
  BY <1>2, <1>3, <1>4, <1>5, <1>6, <1>7, <1>8, RowMoves

LEMMA HeldOfProcess ==
    ASSUME TypeOK, RowsMatch, SeenInv, HeldAlone, NEW p \in Proc, Process(p)
    PROVE  HeldAlone'
<1>t. on[p].a \in Attempt /\ row \in [Attempt -> AttemptRow] /\ row[on[p].a] \in AttemptRow
  BY DEF TypeOK, Position
<1>1. ASSUME NEW q \in Proc, q # p, UserOf(q)'
      PROVE  UserOf(q) /\ on'[q] = on[q] /\ Holds(q)'
  <2>1. pc'[q] = pc[q] /\ on'[q] = on[q]
    BY <1>1, OthersStay
  <2>2. UserOf(q) /\ Holds(q)
    BY <1>1, <2>1 DEF UserOf, HeldAlone
  <2>3. row'[on[q].a] = row[on[q].a]
    BY <1>1, <2>2, HeldStays
  <2> QED  BY <2>1, <2>2, <2>3 DEF Holds
<1>2. ASSUME UserOf(p)'
      PROVE  /\ Holds(p)'
             /\ \A q \in Proc : UserOf(q)' /\ on'[q].a = on'[p].a => q = p
  <2>1. CASE Claim(p) /\ Claimable(on[p].a)
    <3>1. row' = [row EXCEPT ![on[p].a] = Claimed(@)]
      BY <2>1 DEF Claim
    <3>2. row'[on[p].a] = Claimed(row[on[p].a])
      BY <1>t, <3>1
    <3>c. /\ row'[on[p].a].status = "broadcasting" /\ row'[on[p].a].live = TRUE
          /\ row'[on[p].a].token = row[on[p].a].claims + 1
      BY <1>t, <3>2, ClaimedRow
    <3>a. on'[p].a = on[p].a /\ on'[p].token = row[on[p].a].claims + 1
      BY <2>1, Positions
    <3>3. Holds(p)'
      BY <3>c, <3>a DEF Holds
    <3>4. ASSUME NEW q \in Proc, UserOf(q)', on'[q].a = on'[p].a, q # p
          PROVE  FALSE
      <4>1. UserOf(q) /\ on[q].a = on[p].a
        BY <1>1, <2>1, <3>4, Positions
      <4>2. row[on[p].a].status = "broadcasting" /\ row[on[p].a].live = TRUE
        BY <4>1 DEF HeldAlone, Holds
      <4> QED  BY <2>1, <4>2 DEF Claimable
    <3> QED  BY <3>3, <3>4
  <2>2. CASE /\ UserOf(p) /\ row' = row
             /\ on'[p].a = on[p].a /\ on'[p].token = on[p].token
    <3>1. Holds(p)'
      BY <2>2 DEF HeldAlone, Holds
    <3>2. ASSUME NEW q \in Proc, UserOf(q)', on'[q].a = on'[p].a, q # p
          PROVE  FALSE
      <4>1. UserOf(q) /\ on[q].a = on[p].a
        BY <1>1, <2>2, <3>2
      <4> QED  BY <2>2, <3>2, <4>1 DEF HeldAlone
    <3> QED  BY <3>1, <3>2
  <2> QED  BY <1>2, <2>1, <2>2, BecomesUser
<1> QED
  <2> SUFFICES ASSUME NEW q \in Proc, UserOf(q)'
               PROVE  /\ Holds(q)'
                      /\ \A r \in Proc : UserOf(r)' /\ on'[r].a = on'[q].a => r = q
    BY DEF HeldAlone, UserOf
  <2>1. CASE q = p
    BY <1>2, <2>1
  <2>2. CASE q # p
    <3>1. UserOf(q) /\ on'[q] = on[q] /\ Holds(q)'
      BY <1>1, <2>2
    <3>2. ASSUME NEW r \in Proc, UserOf(r)', on'[r].a = on'[q].a
          PROVE  r = q
      <4>1. CASE r = p
        BY <1>2, <2>2, <3>2, <4>1
      <4>2. CASE r # p
        <5>1. UserOf(r) /\ on'[r] = on[r]
          BY <1>1, <3>2, <4>2
        <5> QED  BY <3>1, <3>2, <5>1 DEF HeldAlone
      <4> QED  BY <4>1, <4>2
    <3> QED  BY <3>1, <3>2
  <2> QED  BY <2>1, <2>2

\* Without a failure, whoever waits for its transaction goes on waiting until that is decided.
LEMMA FlightOfProcess ==
    ASSUME TypeOK, SendsKnown, FlightIsAwaited, NEW p \in Proc, Process(p), faults = 0, faults' = 0
    PROVE  FlightIsAwaited'
<1>t. /\ pc \in [Proc -> Place] /\ txs \in Seq(Transaction) /\ on[p].a \in Attempt
      /\ DOMAIN txs = 1 .. Len(txs) /\ Len(txs) \in Nat
  BY LenProperties DEF TypeOK, Position
<1>1. ASSUME pc[p] = "await"
      PROVE  txs[on[p].tx].st # "flight"
  <2>1. ~ Fault
    BY DEF Fault
  <2>2. Evidence(p) \/ NoEvidence(p)
    BY <1>1, <2>1 DEF Process, Work, Claim, Send, Evidence, NoEvidence, MarkSubmitted, Look, Reconcile,
       MarkFailed, SweepReads, SweepEnds, SweepTakes, RunTakes, Takes, RunRecovers, RunGoesOn,
       Register, Receipt, SignerFails, Stop, LookFails
  <2> QED  BY <2>2 DEF Evidence, NoEvidence
<1>2. ASSUME NEW n \in DOMAIN txs, txs[n].st = "flight"
      PROVE  \E q \in Proc : pc'[q] = "await" /\ on'[q].tx = n /\ on'[q].a = txs[n].of
  <2>1. PICK q \in Proc : pc[q] = "await" /\ on[q].tx = n /\ on[q].a = txs[n].of
    BY <1>2 DEF FlightIsAwaited
  <2>2. q # p
    BY <1>1, <1>2, <2>1
  <2> QED  BY <2>1, <2>2, OthersStay
<1>3. CASE UNCHANGED txs
  BY <1>2, <1>3 DEF FlightIsAwaited
<1>4. CASE Send(p)
  <2> DEFINE new == [of |-> on[p].a, st |-> "flight"]
  <2>1. txs' = Append(txs, new) /\ new \in Transaction /\ pc'[p] = "await"
    BY <1>t, <1>4 DEF Send, Goto, Transaction
  <2>2. new.of = on[p].a
    OBVIOUS
  <2> HIDE DEF new
  <2>3. /\ DOMAIN txs' = 1 .. Len(txs) + 1 /\ txs'[Len(txs) + 1] = new
        /\ \A n \in DOMAIN txs : txs'[n] = txs[n]
    <3>1. txs' \in Seq(Transaction) /\ Len(txs') = Len(txs) + 1
      BY <1>t, <2>1, AppendProperties
    <3> QED  BY <1>t, <2>1, <3>1, AppendProperties, LenProperties
  <2>4. on'[p].tx = Len(txs) + 1 /\ on'[p].a = on[p].a
    BY <1>4, Positions
  <2>5. ASSUME NEW n \in DOMAIN txs', txs'[n].st = "flight"
        PROVE  \E q \in Proc : pc'[q] = "await" /\ on'[q].tx = n /\ on'[q].a = txs'[n].of
    <3>1. CASE n = Len(txs) + 1
      BY <2>1, <2>2, <2>3, <2>4, <3>1
    <3>2. CASE n # Len(txs) + 1
      <4>1. n \in DOMAIN txs
        BY <1>t, <2>3, <2>5, <3>2
      <4> QED  BY <1>2, <2>3, <2>5, <4>1
    <3> QED  BY <3>1, <3>2
  <2> QED  BY <2>5 DEF FlightIsAwaited
<1> QED  BY <1>3, <1>4, ProcessAndChain DEF chain

\* The chain only takes transactions out of flight.
LEMMA FlightOfChain ==
    ASSUME TypeOK, SendsKnown, FlightIsAwaited, UNCHANGED <<pc, on>>,
           (\E n \in DOMAIN txs : Confirm(n) \/ Lost(n)) \/ Finalize
    PROVE  FlightIsAwaited'
<1>t. txs \in Seq(Transaction) /\ landed \in Seq(1..MaxSends)
      /\ \A i \in DOMAIN landed : landed[i] \in DOMAIN txs
  BY DEF TypeOK, SendsKnown
<1>1. PICK n \in DOMAIN txs, st \in {"confirmed", "final", "failed", "lost"} :
         txs' = [txs EXCEPT ![n].st = st]
  BY <1>t, LandedMove DEF Confirm, Lost, Finalize
<1>2. /\ DOMAIN txs' = DOMAIN txs /\ txs'[n].st # "flight"
      /\ \A m \in DOMAIN txs : m # n => txs'[m] = txs[m]
  BY <1>t, <1>1, StatusRecorded
<1> QED  BY <1>2 DEF FlightIsAwaited

LEMMA NextFlight ==
    ASSUME TypeOK, SendsKnown, RowsMatch, FlightInv, [Next]_vars
    PROVE  FlightInv'
<1> USE DEF FlightInv
<1>t. faults \in Nat /\ (Fault => faults' # 0)
  BY BoundsTyped DEF TypeOK, Fault
<1>1. ASSUME NEW p \in Proc, Process(p)
      PROVE  FlightInv'
  <2>1. faults' = 0 => faults = 0
    BY <1>t, <1>1 DEF Process, Work, Claim, Send, Evidence, NoEvidence, MarkSubmitted, Look, Reconcile,
       MarkFailed, SweepReads, SweepEnds, SweepTakes, RunTakes, Takes, RunRecovers, RunGoesOn,
       Register, Receipt, SignerFails, Stop, LookFails
  <2> QED  BY <1>1, <2>1, SeenOfProcess, HeldOfProcess, FlightOfProcess
<1>2. ASSUME UNCHANGED <<row, local, pc, on, todo, sweeps>>,
             (\E n \in DOMAIN txs : Confirm(n) \/ Lost(n)) \/ Finalize
      PROVE  FlightInv'
  <2>1. faults' = 0 => faults = 0
    BY <1>t, <1>2 DEF Confirm, Lost, Finalize
  <2>2. SeenInv' /\ (HeldAlone => HeldAlone')
    BY <1>2 DEF SeenInv, HeldAlone, UserOf, Holds
  <2> QED  BY <1>2, <2>1, <2>2, FlightOfChain
<1>3. CASE UNCHANGED vars
  BY <1>3 DEF vars, chain, SeenInv, HeldAlone, UserOf, Holds, FlightIsAwaited
<1>4. ASSUME NEW a \in Attempt, LeaseExpires(a)
      PROVE  FlightInv'
  <2>1. row' = [row EXCEPT ![a] = [@ EXCEPT !.live = FALSE]] /\ UNCHANGED <<pc, on, todo, txs>>
        /\ (InUse(a) => Fault) /\ (~ InUse(a) => faults' = faults)
    BY <1>4 DEF LeaseExpires, chain
  <2>2. \A b \in Attempt : row'[b] = IF b = a THEN [row[b] EXCEPT !.live = FALSE] ELSE row[b]
    BY <2>1 DEF TypeOK
  <2>3. \A b \in Attempt : row'[b].status = row[b].status
    BY <2>2, ExpiredRow DEF TypeOK
  <2>4. SeenInv'
    <3>1. \A q \in Proc : on[q].a \in Attempt /\ \A t \in todo[q] : t.a \in Attempt
      BY DEF TypeOK, Position, Copy
    <3> QED  BY <2>1, <2>3, <3>1 DEF SeenInv
  <2>5. ASSUME faults' = 0
        PROVE  HeldAlone' /\ FlightIsAwaited'
    <3>1. faults = 0 /\ ~ InUse(a)
      BY <1>t, <2>1, <2>5
    <3>2. \A p \in Proc : UserOf(p) => on[p].a # a /\ on[p].a \in Attempt
      BY <3>1 DEF HeldAlone, Holds, InUse, UserOf, TypeOK, Position
    <3>3. HeldAlone'
      BY <2>1, <2>2, <3>1, <3>2 DEF HeldAlone, Holds, UserOf
    <3> QED  BY <2>1, <3>1, <3>3 DEF FlightIsAwaited
  <2> QED  BY <2>4, <2>5
<1> QED  BY <1>1, <1>2, <1>3, <1>4, StepKinds

LEMMA InitFlight == Init => FlightInv
<1> SUFFICES ASSUME Init PROVE FlightInv
  OBVIOUS
<1>1. \A p \in Proc : pc[p] = "idle" /\ todo[p] = {}
  BY DEF Init
<1>2. txs = <<>> /\ \A n \in DOMAIN <<>> : FALSE
  BY DEF Init
<1> QED  BY <1>1, <1>2 DEF FlightInv, SeenInv, HeldAlone, UserOf, FlightIsAwaited

\* Unless something failed, an attempt has at most one transaction in flight, by however many
\* runs and sweeps it is claimed.
THEOREM BroadcastsOnce == Spec => []BroadcastOnce
<1> DEFINE I == TypeOK /\ SendsKnown /\ PathInv /\ FlightInv
<1>1. Init => I
  BY InitSends, InitPath, InitFlight
<1>2. I /\ [Next]_vars => I'
  BY NextTyped, NextSends, NextPath, NextFlight DEF PathInv
<1>3. I => BroadcastOnce
  <2> SUFFICES ASSUME I, faults = 0, NEW a \in Attempt
               PROVE  Cardinality(InFlight(a)) <= 1
    BY DEF BroadcastOnce
  <2>1. ASSUME NEW n \in InFlight(a), NEW m \in InFlight(a)
        PROVE  n = m
    <3>1. PICK p \in Proc : pc[p] = "await" /\ on[p].tx = n /\ on[p].a = a
      BY <2>1 DEF InFlight, FlightInv, FlightIsAwaited
    <3>2. PICK q \in Proc : pc[q] = "await" /\ on[q].tx = m /\ on[q].a = a
      BY <2>1 DEF InFlight, FlightInv, FlightIsAwaited
    <3>3. UserOf(p) /\ UserOf(q)
      BY <3>1, <3>2 DEF UserOf, FlightInv, SeenInv
    <3> QED  BY <3>1, <3>2, <3>3 DEF FlightInv, HeldAlone
  <2>2. CASE InFlight(a) = {}
    BY <2>2, FS_EmptySet
  <2>3. ASSUME NEW n \in InFlight(a)
        PROVE  Cardinality(InFlight(a)) <= 1
    <3>1. InFlight(a) = {n}
      BY <2>1, <2>3
    <3>2. Cardinality({n}) = 1
      BY FS_Singleton
    <3> QED  BY <3>1, <3>2
  <2> QED  BY <2>2, <2>3
<1> QED  BY <1>1, <1>2, <1>3, PTL DEF Spec
=============================================================================
