----------------------------- MODULE MCRuntime -----------------------------
(***************************************************************************)
(* The background work of the query runtime, for one run of TLC; `part'    *)
(* says what a behaviour is about, and the rest stays as it began:         *)
(*   queue  two workers and a job (AiJobQueue, the constants of the cfg);  *)
(*   plain  a task run by runSingletonTask;                                *)
(*   tx     a task run by runSingletonTaskTransaction.                     *)
(* Either task has two processes, one of which has two calls under way.    *)
(***************************************************************************)
EXTENDS AiJobQueue, BackgroundTask, TLC

CONSTANTS r1, r2, r3

\* computeAiJobBackoffMs: doubles, with a limit.
MCBackoff == [n \in 1..MaxAttempts |-> IF 2 ^ (n - 1) > MaxBackoff THEN MaxBackoff ELSE 2 ^ (n - 1)]

MCOwner == r1 :> "p1" @@ r2 :> "p1" @@ r3 :> "p2"

VARIABLES part, txRow, txPc, txAge, txBeat, txLeaseLost, txLocker, txLatest, txQuiet, txFaults

Tx == INSTANCE SingletonTask WITH
    None <- NoLease, Lease <- TaskLease,
    MinInterval <- 4, TxTimeout <- 2, Transactional <- TRUE, MaxFaults <- 3,
    row <- txRow, pc <- txPc, age <- txAge, beat <- txBeat, leaseLost <- txLeaseLost,
    locker <- txLocker, latest <- txLatest, quiet <- txQuiet, faults <- txFaults

ASSUME BothTasks == Task!SingletonConstants /\ Tx!SingletonConstants

txVars == <<txRow, txPc, txAge, txBeat, txLeaseLost, txLocker, txLatest, txQuiet, txFaults>>
all == <<part, vars, taskVars, txVars>>

InQueue(A) == part = "queue" /\ A /\ UNCHANGED <<part, taskVars, txVars>>
InPlain(A) == part = "plain" /\ A /\ UNCHANGED <<part, vars, txVars>>
InTx(A) == part = "tx" /\ A /\ UNCHANGED <<part, vars, taskVars>>

MCInit == part \in {"queue", "plain", "tx"} /\ Init /\ Task!Init /\ Tx!Init

MCNext ==
    /\ \/ part = "queue" /\ Next /\ UNCHANGED <<taskVars, txVars>>
       \/ part = "plain" /\ Task!Next /\ UNCHANGED <<vars, txVars>>
       \/ part = "tx" /\ Tx!Next /\ UNCHANGED <<vars, taskVars>>
    /\ UNCHANGED part

MCSpec ==
    /\ MCInit /\ [][MCNext]_all
    /\ \A w \in Worker :
        /\ WF_all(InQueue(Step(w))) /\ WF_all(InQueue(HandlerReturns(w) \/ HandlerThrows(w)))
    /\ WF_all(InQueue(Tick))
    /\ \A r \in Runner :
        /\ WF_all(InPlain(Task!Run(r))) /\ WF_all(InPlain(Task!TaskReturns(r)))
        /\ WF_all(InTx(Tx!Run(r))) /\ WF_all(InTx(Tx!TaskReturns(r)))
    /\ WF_all(InPlain(Task!Tick)) /\ WF_all(InTx(Tx!Tick))

\* A run in a transaction ran alone too, holds the lease it locked until it commits, and
\* runs are recorded as far apart as the transaction's NOW() allows.
TransactionsToo == Tx!RanAlone /\ Tx!RunsArePaced /\ []Tx!LockerOwnsRow

\* Every job ends, and neither kind of task dies with a call: it runs again and again.
WorkGoesOn ==
    /\ EveryJobEnds
    /\ part = "plain" => Task!RunsForever
    /\ part = "tx" => Tx!RunsForever
=============================================================================
