---------------------------- MODULE ChainAttempt ----------------------------
(***************************************************************************)
(* The registration of an external app on chain, as a governance request   *)
(* executes it: an attempt row for the registration, another for the       *)
(* execution receipt of each run, a lease around every broadcast, and      *)
(* local effects only after the finalized account has been read back.      *)
(* Runs of the execution adapter and recovery sweeps work on the rows      *)
(* together; the execution lock does not keep runs apart, because it       *)
(* expires after 30 s and the signer may take minutes.                     *)
(*                                                                         *)
(* One request in mode "required".  The receipt digest contains the run's  *)
(* time, so the receipt attempt of a run is its own row and is named by    *)
(* the run; "reg" is the registration, whose digest is the request's.      *)
(* A transaction is confirmed in some order, and finalized in that order.  *)
(***************************************************************************)
EXTENDS Naturals, Sequences, FiniteSets

CONSTANTS
    Run,            \* calls of executeExternalAppDecision
    Sweep,          \* processes that run the recovery sweep
    None,
    NotMatchesNull, \* does the database's NOT (column = value) hold of NULL?
    MaxSends,       \* bound: transactions sent
    MaxSweeps,      \* bound: sweeps of one process, 0 for any number
    MaxFaults       \* bound: crashes, stalls, lost transactions and answers

ASSUME AttemptAssumption ==
    /\ {MaxSends, MaxSweeps, MaxFaults} \subseteq Nat
    /\ NotMatchesNull \in BOOLEAN
    /\ Run \cap Sweep = {} /\ {None, "reg"} \cap (Run \cup Sweep) = {}
    /\ None \notin {"pending", "active", "txfailed", "repair", "other"}

Attempt == {"reg"} \cup Run
Proc == Run \cup Sweep

VARIABLES
    row,        \* external_app_registry_chain_attempts
    txs,        \* transactions sent: [of, st]
    landed,     \* confirmed transactions that are not final, in their order
    head,       \* the app's record on chain, confirmed
    final,      \* and finalized
    local,      \* registry anchor and execution receipt in the database
    pc,
    on,         \* what a process works on: attempt, claim, transaction, verdict
    todo,       \* attempts, as read, that a sweep or the recovery of a run has still to visit
    sweeps,
    proven,     \* history: the receipts that were final at some time
    faults

chain == <<txs, landed, head, final, proven>>
vars == <<row, chain, local, pc, on, todo, sweeps, faults>>

-----------------------------------------------------------------------------

Active == {"broadcasting", "submitted"}
Verdict == {"none", "desired", "prestate", "conflict", "missing", "txfailed", "pending"}

AttemptRow == [status : {"absent", "quoted", "reconciled", "failed"} \cup Active,
               token : Nat, claims : Nat, live : BOOLEAN, tx : 0..MaxSends,
               slot : BOOLEAN, error : {None, "txfailed", "repair", "other"}]

Transaction == [of : Attempt, st : {"flight", "confirmed", "final", "failed", "lost"}]

AppRecord == [reg : BOOLEAN, receipt : Run \cup {None}]

Local == [anchor : {None, "pending", "active"}, digest : Run \cup {None},
          receipt : Run \cup {None}]

\* Where a process is, what it works on, and what it has read of the rows still to visit
Place == {"idle", "loop", "register", "receipt", "claim", "send", "await",
          "mark", "look", "apply", "fail", "done"}

Position == [a : Attempt, token : Nat, tx : 0..MaxSends, verdict : Verdict,
             seen : {"claimed"} \cup Active, error : {"txfailed", "repair", "other"}]

Copy == [a : Attempt, status : Active, tx : 0..MaxSends]

TypeOK ==
    /\ row \in [Attempt -> AttemptRow]
    /\ txs \in Seq(Transaction)
    /\ landed \in Seq(1..MaxSends)
    /\ {head, final} \subseteq AppRecord
    /\ local \in Local
    /\ pc \in [Proc -> Place]
    /\ on \in [Proc -> Position]
    /\ todo \in [Proc -> SUBSET Copy]
    /\ sweeps \in [Sweep -> 0..MaxSweeps]
    /\ proven \subseteq Run
    /\ faults \in 0..MaxFaults

NoRow == [status |-> "absent", token |-> 0, claims |-> 0, live |-> FALSE, tx |-> 0,
          slot |-> FALSE, error |-> None]
NoRecord == [reg |-> FALSE, receipt |-> None]
Nothing == [a |-> "reg", token |-> 0, tx |-> 0, verdict |-> "none", seen |-> "submitted",
            error |-> "other"]

Init ==
    /\ row = [a \in Attempt |-> NoRow]
    /\ txs = <<>> /\ landed = <<>>
    /\ head = NoRecord /\ final = NoRecord
    /\ local = [anchor |-> None, digest |-> None, receipt |-> None]
    /\ pc = [p \in Proc |-> "idle"]
    /\ on = [p \in Proc |-> Nothing]
    /\ todo = [p \in Proc |-> {}]
    /\ sweeps = [s \in Sweep |-> 0]
    /\ proven = {}
    /\ faults = 0

Fault == faults < MaxFaults /\ faults' = faults + 1

Goto(p, at) == pc' = [pc EXCEPT ![p] = at]

\* A run that cannot go on records a failed receipt under a marker of its own and returns;
\* a sweep goes on with the next attempt.
GivesUp(p) == Goto(p, IF p \in Run THEN "done" ELSE "loop")

-----------------------------------------------------------------------------
\* The chain

Apply(record, a) ==
    IF a = "reg" THEN [reg |-> TRUE, receipt |-> None] ELSE [record EXCEPT !.receipt = a]

\* A receipt needs the app's record.
Confirm(n) ==
    /\ txs[n].st = "flight"
    /\ IF txs[n].of = "reg" \/ head.reg
       THEN /\ txs' = [txs EXCEPT ![n].st = "confirmed"]
            /\ landed' = Append(landed, n)
            /\ head' = Apply(head, txs[n].of)
       ELSE txs' = [txs EXCEPT ![n].st = "failed"] /\ UNCHANGED <<landed, head>>
    /\ UNCHANGED <<row, final, local, pc, on, todo, sweeps, proven, faults>>

Finalize ==
    /\ landed # <<>>
    /\ final' = Apply(final, txs[Head(landed)].of)
    /\ txs' = [txs EXCEPT ![Head(landed)].st = "final"]
    /\ landed' = Tail(landed)
    /\ proven' = proven \cup ({txs[Head(landed)].of} \cap Run)
    /\ UNCHANGED <<row, head, local, pc, on, todo, sweeps, faults>>

\* The blockhash expires first, or the program refuses the transaction.
Lost(n) ==
    /\ Fault
    /\ txs[n].st = "flight"
    /\ \E st \in {"lost", "failed"} : txs' = [txs EXCEPT ![n].st = st]
    /\ UNCHANGED <<row, landed, head, final, local, pc, on, todo, sweeps, proven>>

-----------------------------------------------------------------------------
\* One broadcast: claim, send, wait for confirmation, mark

\* Defect: the lease of another claim is not looked at.
ClaimableByAll(a) == row[a].tx = 0 /\ row[a].status \in {"quoted", "broadcasting"}

Claimable(a) ==
    /\ row[a].tx = 0
    /\ \/ row[a].status = "quoted" /\ row[a].token = 0
       \/ row[a].status = "broadcasting" /\ ~ row[a].live

\* A fresh token, here the number of the claim, and a new lease.
Claimed(r) == [r EXCEPT !.status = "broadcasting", !.live = TRUE, !.token = r.claims + 1,
                        !.claims = r.claims + 1, !.error = None]

Claim(p) ==
    /\ pc[p] = "claim"
    /\ LET a == on[p].a IN
        IF Claimable(a)
        THEN /\ row' = [row EXCEPT ![a] = Claimed(@)]
             /\ on' = [on EXCEPT ![p] = [@ EXCEPT !.token = row[a].claims + 1, !.seen = "claimed"]]
             /\ Goto(p, IF p \in Run THEN "send" ELSE "look")
        ELSE GivesUp(p) /\ UNCHANGED <<row, on>>
    /\ UNCHANGED <<chain, local, todo, sweeps, faults>>

\* The lease outlasts the signer's deadline, two readbacks and a margin: it expires under a
\* process that still works with it only when that process has stalled.
InUse(a) == \E p \in Proc : /\ on[p].a = a /\ on[p].token = row[a].token
                            /\ on[p].seen = "claimed"
                            /\ pc[p] \in {"send", "await", "mark", "look", "fail"}

LeaseExpires(a) ==
    /\ row[a].status = "broadcasting" /\ row[a].live
    /\ IF InUse(a) THEN Fault ELSE UNCHANGED faults
    /\ row' = [row EXCEPT ![a].live = FALSE]
    /\ UNCHANGED <<chain, local, pc, on, todo, sweeps>>

Send(p) ==
    /\ pc[p] = "send"
    /\ Len(txs) < MaxSends
    /\ txs' = Append(txs, [of |-> on[p].a, st |-> "flight"])
    /\ on' = [on EXCEPT ![p].tx = Len(txs) + 1]
    /\ Goto(p, "await")
    /\ UNCHANGED <<row, landed, head, final, local, todo, sweeps, proven, faults>>

Evidence(p) ==
    /\ pc[p] = "await"
    /\ txs[on[p].tx].st \in {"confirmed", "final"}
    /\ Goto(p, "mark")
    /\ UNCHANGED <<row, chain, local, on, todo, sweeps, faults>>

NoEvidence(p) ==
    /\ pc[p] = "await"
    /\ txs[on[p].tx].st \in {"failed", "lost"}
    /\ GivesUp(p)
    /\ UNCHANGED <<row, chain, local, on, todo, sweeps, faults>>

\* The signer is not reached, or does not answer in time; the transaction may be on its way.
SignerFails(p) ==
    /\ Fault
    /\ pc[p] \in {"send", "await"}
    /\ GivesUp(p)
    /\ UNCHANGED <<row, chain, local, on, todo, sweeps>>

\* The WHERE of markAttemptSubmitted.
Own(p) ==
    /\ row[on[p].a].status = "broadcasting" /\ row[on[p].a].tx = 0
    /\ row[on[p].a].token = on[p].token

Submitted(r, tx) == [r EXCEPT !.status = "submitted", !.tx = tx, !.slot = (tx = 0),
                              !.token = 0, !.live = FALSE, !.error = None]

\* A run goes on with the receipt, and after it with the readback.  A sweep reconciles at once
\* what it found on chain, and leaves its own transaction to the next sweep.
MarkSubmitted(p) ==
    /\ pc[p] = "mark"
    /\ LET a == on[p].a IN
        IF Own(p)
        THEN /\ row' = [row EXCEPT ![a] = Submitted(@, on[p].tx)]
             /\ Goto(p, IF p \in Run THEN (IF a = "reg" THEN "receipt" ELSE "idle")
                        ELSE IF on[p].tx = 0 THEN "apply" ELSE "loop")
             /\ on' = [on EXCEPT ![p].seen = "submitted"]
        ELSE GivesUp(p) /\ UNCHANGED <<row, on>>
    /\ UNCHANGED <<chain, local, todo, sweeps, faults>>

\* Any statement may fail, and any process stop.  A run that stops is over.
Stop(p) ==
    /\ Fault
    /\ pc[p] \notin {"idle", "done"}
    /\ Goto(p, IF p \in Run THEN "done" ELSE "idle")
    /\ todo' = [todo EXCEPT ![p] = {}]
    /\ UNCHANGED <<row, chain, local, on, sweeps>>

-----------------------------------------------------------------------------
\* Readback and reconciliation

\* The signature's status, and after it classifyRegistryRecordReadback.  An attempt without a
\* signature of its own is judged by the record alone.
Reading(a, tx) ==
    LET st == IF tx = 0 THEN "final" ELSE txs[tx].st
        itself == a = final.receipt \/ (a = "reg" /\ final.receipt = None)
        before == a # "reg" /\ final.receipt = None
    IN CASE st \in {"flight", "confirmed", "lost"}             -> "pending"
         [] st = "failed"                                      -> "txfailed"
         [] st = "final" /\ ~ final.reg                        -> "missing"
         [] st = "final" /\ final.reg /\ itself                -> "desired"
         [] st = "final" /\ final.reg /\ before                -> "prestate"
         [] OTHER                                              -> "conflict"

\* Defect: a receipt that is not there yet is taken for the frozen one.
ReadingLoosely(a, tx) ==
    IF final.reg /\ a # "reg" /\ final.receipt = None THEN "desired" ELSE "pending"

Classify(a, tx) == Reading(a, tx)

\* Submitted attempts: everything but the desired state, "pending" aside, ends the attempt.
\* Attempts claimed by a sweep: what is still as before the broadcast is sent again.
LookedAt(p, v) ==
    CASE v = "pending" -> IF p \in Run THEN "done" ELSE "loop"
      [] v = "desired" -> IF on[p].seen = "claimed" THEN "mark" ELSE "apply"
      [] on[p].seen = "claimed" /\ v = (IF on[p].a = "reg" THEN "missing" ELSE "prestate") -> "send"
      [] OTHER -> "fail"

Look(p) ==
    /\ pc[p] = "look"
    /\ LET v == Classify(on[p].a, on[p].tx) IN
        /\ on' = [on EXCEPT ![p] = [@ EXCEPT !.verdict = v,
                                !.error = IF v = "txfailed" THEN "txfailed" ELSE "repair"]]
        /\ Goto(p, LookedAt(p, v))
    /\ UNCHANGED <<row, chain, local, todo, sweeps, faults>>

\* The RPC call fails.  For a claimed attempt the sweep goes on; a run reports the attempt as
\* pending; the error of a submitted attempt is normalized to a code that is not among those
\* the sweep keeps for a retry, unless the error is the readback's own timeout.
LookFails(p) ==
    /\ Fault
    /\ pc[p] = "look"
    /\ \/ GivesUp(p) /\ UNCHANGED on
       \/ /\ p \in Sweep /\ on[p].seen = "submitted"
          /\ on' = [on EXCEPT ![p].error = "other"]
          /\ Goto(p, "fail")
    /\ UNCHANGED <<row, chain, local, todo, sweeps>>

\* Defect: the prerequisite is left open.
ClosesNothing(a) == {}

\* A receipt closes the submitted registration in its transaction.
Closes(a) == IF a \in Run /\ row["reg"].status = "submitted" THEN {"reg"} ELSE {}

Effects(a) ==
    IF a = "reg" THEN [local EXCEPT !.anchor = "pending"]
    ELSE [anchor |-> "active", digest |-> a,
          receipt |-> IF local.receipt = None THEN a ELSE local.receipt]

Reconciled(r) == [r EXCEPT !.status = "reconciled", !.slot = TRUE, !.token = 0, !.live = FALSE,
                           !.error = None]

\* The transaction of reconcileExternalAppRegistryChainAttempt.
Reconcile(p) ==
    /\ pc[p] = "apply"
    /\ LET a == on[p].a IN
        IF row[a].status = "submitted"
        THEN /\ row' = [b \in Attempt |->
                          IF b \in {a} \cup Closes(a) THEN Reconciled(row[b]) ELSE row[b]]
             /\ local' = Effects(a)
             /\ Goto(p, IF p \in Run /\ a \in Run THEN "done" ELSE "loop")
             /\ todo' = [todo EXCEPT ![p] = IF a \in Run THEN {} ELSE @]
             /\ UNCHANGED on
        ELSE /\ IF row[a].status = "reconciled" THEN Goto(p, "loop") /\ UNCHANGED on
                ELSE IF p \in Run THEN Goto(p, "done") /\ UNCHANGED on
                ELSE Goto(p, "fail") /\ on' = [on EXCEPT ![p].error = "other"]
             /\ UNCHANGED <<row, local, todo>>
    /\ UNCHANGED <<chain, sweeps, faults>>

FailedFor(r, error) == [r EXCEPT !.status = "failed", !.token = 0, !.live = FALSE,
                                 !.error = error]

\* markAttemptFailed looks at the status only.
MarkFailed(p) ==
    /\ pc[p] = "fail"
    /\ row' = IF row[on[p].a].status \in {"quoted"} \cup Active
              THEN [row EXCEPT ![on[p].a] = FailedFor(@, on[p].error)]
              ELSE row
    /\ GivesUp(p)
    /\ UNCHANGED <<chain, local, on, todo, sweeps, faults>>

-----------------------------------------------------------------------------
\* The recovery sweep

AsRead(S) == {[a |-> a, status |-> row[a].status, tx |-> row[a].tx] : a \in S}

Sendable(a) == row[a].status = "broadcasting" /\ row[a].tx = 0

\* Defect: what was broadcasting when a process stopped is left alone.
DueWhenSubmitted == {a \in Attempt : row[a].status = "submitted"}

Due == {a \in Attempt : \/ row[a].status = "submitted" /\ (row[a].tx # 0 \/ row[a].slot)
                        \/ Sendable(a) /\ ~ row[a].live}

ActiveReceipts == {a \in Run : row[a].status \in Active}

\* A registration with an active receipt is left to that receipt.
Barred == IF "reg" \in Due /\ ActiveReceipts # {}
          THEN (Due \ {"reg"}) \cup (IF Due \cap ActiveReceipts # {} THEN {} ELSE ActiveReceipts)
          ELSE Due

SweepReads(s) ==
    /\ s \in Sweep /\ pc[s] = "idle"
    /\ MaxSweeps = 0 \/ sweeps[s] < MaxSweeps
    /\ Barred # {}
    /\ sweeps' = [sweeps EXCEPT ![s] = IF MaxSweeps = 0 THEN 0 ELSE @ + 1]
    /\ todo' = [todo EXCEPT ![s] = AsRead(Barred)]
    /\ Goto(s, "loop")
    /\ UNCHANGED <<row, chain, local, on, faults>>

\* Receipts come first.
Foremost(S) == LET receipts == {t \in S : t.a \in Run} IN IF receipts # {} THEN receipts ELSE S

\* The next attempt, in the state in which it was read.
Takes(p, t) ==
    /\ pc[p] = "loop" /\ t \in Foremost(todo[p])
    /\ todo' = [todo EXCEPT ![p] = @ \ {t}]
    /\ on' = [on EXCEPT ![p] = [Nothing EXCEPT !.a = t.a, !.tx = t.tx, !.seen = t.status]]

SweepTakes(s, t) ==
    /\ s \in Sweep
    /\ Takes(s, t)
    /\ Goto(s, IF t.status = "broadcasting" THEN "claim" ELSE "look")
    /\ UNCHANGED <<row, chain, local, sweeps, faults>>

SweepEnds(s) ==
    /\ s \in Sweep /\ pc[s] = "loop" /\ todo[s] = {}
    /\ Goto(s, "idle")
    /\ on' = [on EXCEPT ![s] = Nothing]
    /\ UNCHANGED <<row, chain, local, todo, sweeps, faults>>

-----------------------------------------------------------------------------
\* A run of the adapter

\* NOT (error_code = tx_failed)
NotTxFailed(a) == IF row[a].error = None THEN NotMatchesNull ELSE row[a].error # "txfailed"

NotExcluded(a) == NotTxFailed(a)

Recoverable == {a \in Attempt : /\ NotExcluded(a)
                                /\ \/ row[a].status = "submitted" /\ (row[a].tx # 0 \/ row[a].slot)
                                   \/ Sendable(a)}

\* recoverSubmittedRegistryAttemptsBeforeResubmit, before the first broadcast and, when the
\* receipt is submitted, once more.  Without attempts the run goes on, or ends as pending.
RunRecovers(r) ==
    /\ r \in Run /\ pc[r] = "idle"
    /\ todo' = [todo EXCEPT ![r] = AsRead(Recoverable)]
    /\ Goto(r, IF Recoverable # {} THEN "loop"
               ELSE IF on[r].a = r THEN "done" ELSE "register")
    /\ UNCHANGED <<row, chain, local, on, sweeps, faults>>

\* An attempt that is broadcasting ends the run.
RunTakes(r, t) ==
    /\ r \in Run
    /\ Takes(r, t)
    /\ Goto(r, IF t.status = "broadcasting" THEN "done" ELSE "look")
    /\ UNCHANGED <<row, chain, local, sweeps, faults>>

\* Nothing terminal: an executed receipt is returned; otherwise the next stage follows.
RunGoesOn(r) ==
    /\ r \in Run /\ pc[r] = "loop" /\ todo[r] = {}
    /\ Goto(r, IF local.receipt # None \/ row[r].status # "absent" THEN "done" ELSE "register")
    /\ on' = [on EXCEPT ![r] = Nothing]
    /\ UNCHANGED <<row, chain, local, todo, sweeps, faults>>

Quoted(r, a) == row' = IF row[a].status = "absent" THEN [row EXCEPT ![a].status = "quoted"] ELSE row

\* The registration is on chain already: its evidence is found and the stage skipped.
Prior == /\ NotExcluded("reg")
         /\ row["reg"].status \in {"reconciled"} \cup Active
         /\ row["reg"].tx # 0 \/ row["reg"].slot

Register(r) ==
    /\ r \in Run /\ pc[r] = "register"
    /\ IF Prior THEN Goto(r, "receipt") /\ UNCHANGED row
       ELSE Goto(r, "claim") /\ Quoted(r, "reg")
    /\ on' = [on EXCEPT ![r] = [Nothing EXCEPT !.a = "reg"]]
    /\ UNCHANGED <<chain, local, todo, sweeps, faults>>

Receipt(r) ==
    /\ r \in Run /\ pc[r] = "receipt"
    /\ Quoted(r, r)
    /\ on' = [on EXCEPT ![r] = [Nothing EXCEPT !.a = r]]
    /\ Goto(r, "claim")
    /\ UNCHANGED <<chain, local, todo, sweeps, faults>>

-----------------------------------------------------------------------------

Work(p) ==
    \/ Claim(p) \/ Send(p) \/ Evidence(p) \/ NoEvidence(p) \/ MarkSubmitted(p)
    \/ Look(p) \/ Reconcile(p) \/ MarkFailed(p)
    \/ SweepReads(p) \/ SweepEnds(p) \/ \E t \in todo[p] : SweepTakes(p, t) \/ RunTakes(p, t)
    \/ RunRecovers(p) \/ RunGoesOn(p) \/ Register(p) \/ Receipt(p)

Next ==
    \/ \E p \in Proc : Work(p) \/ SignerFails(p) \/ Stop(p) \/ LookFails(p)
    \/ \E n \in DOMAIN txs : Confirm(n) \/ Lost(n)
    \/ Finalize
    \/ \E a \in Attempt : LeaseExpires(a)

Spec == Init /\ [][Next]_vars

\* The sweep runs every minute, the chain goes on, leases end.  Runs are not retried.
FairSpec ==
    /\ Spec
    /\ \A p \in Proc : WF_vars(Work(p))
    /\ \A n \in 1..MaxSends : WF_vars(n \in DOMAIN txs /\ Confirm(n))
    /\ WF_vars(Finalize)
    /\ \A a \in Attempt : WF_vars(LeaseExpires(a) /\ ~ InUse(a))

-----------------------------------------------------------------------------
\* Properties

\* The app becomes active and its decision executed only after the very receipt was final on
\* chain, whatever was lost, sent twice or read late.
ExecutedIsFinal ==
    /\ local.anchor = "active" => local.digest \in proven
    /\ local.receipt # None => local.receipt \in proven

\* The receipt recorded for the request is the one the app's anchor points to.
AnchorIsTheReceipt == local.anchor = "active" => local.digest = local.receipt

\* A reconciled registration does not take an active app back to pending: its effects come
\* before those of the receipt or not at all.
ActiveStaysActive == [][local.anchor = "active" => local'.anchor = "active"]_local

\* An app's anchor, once active, stays active and is the receipt of its request.
AnchorsStand == ActiveStaysActive /\ []AnchorIsTheReceipt

InFlight(a) == {n \in DOMAIN txs : txs[n].of = a /\ txs[n].st = "flight"}

\* Unless something failed, there is one broadcast per attempt.
BroadcastOnce == faults = 0 => \A a \in Attempt : Cardinality(InFlight(a)) <= 1

\* An attempt that was broadcast is settled, by its run or by the sweeps.
AttemptsConverge ==
    \A a \in Attempt : row[a].status \in Active ~> row[a].status \in {"reconciled", "failed"}
=============================================================================
