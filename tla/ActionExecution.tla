-------------------------- MODULE ActionExecution --------------------------
(***************************************************************************)
(* Executing an accepted governance request (executeAcceptedGovernance-    *)
(* Request of services/governance/requestExecution.ts): the route that     *)
(* decided, manual retries and the reconciler's retries run it, in any     *)
(* number of processes.  A run looks for a terminal receipt, takes a Redis *)
(* lock with a time to live, looks again, lets the adapter act, records    *)
(* the receipt and releases the lock.  Clients may post receipts as well   *)
(* (POST /requests/:id/execution-receipts).                                *)
(***************************************************************************)
EXTENDS FiniteSets, Integers

CONSTANTS
    Runs,       \* executions in progress; one that ended may start again
    Posters,    \* clients in POST /execution-receipts
    Posts,      \* what they post: [key, status]
    Provider,   \* TRUE: executionMode is provider_bound_action
    MaxFaults,  \* bound: crashes, expired leases, failing Redis calls, ...
    None

VARIABLES
    receipts,  \* [Keys -> status or None]: governance_execution_receipts
    newest,    \* key of the latest terminal receipt
    lock,      \* the run whose token the Redis key holds
    pc,        \* where a run is
    outcome,   \* what its adapter answered
    posting,   \* [Posters -> what was checked and will be written, or None]
    blocked,   \* authority, cutover or invocation forbid the execution now
    effects,   \* how often the adapter acted
    repeats,   \* faults that let it act once more
    faults

vars == <<receipts, newest, lock, pc, outcome, posting, blocked, effects,
          repeats, faults>>

\* The idempotency keys of a request's receipts: buildTerminalReceiptKey, the
\* same with ":failed:code", with ":mode:code", and any other a client chose.
Keys == {"terminal", "failed", "mode", "other"}
Statuses == {"executed", "skipped", "failed"}

\* Clients post under keys of their own.
OwnKeys ==
    /\ Posts \subseteq [key : Keys \ {"terminal"}, status : Statuses]
    /\ MaxFaults \in Nat
    /\ None \notin Runs /\ None \notin Posts /\ None \notin Statuses /\ None \notin Keys

IsTerminal(k) == receipts[k] \in {"executed", "skipped"}

TypeOK ==
    /\ receipts \in [Keys -> Statuses \cup {None}]
    /\ newest \in Keys \cup {None}
    /\ lock \in Runs \cup {None}
    /\ pc \in [Runs -> {"idle", "looked", "locked", "ready", "record", "release"}]
    /\ outcome \in [Runs -> Statuses \cup {None}]
    /\ posting \in [Posters -> Posts \cup {None}]
    /\ blocked \in BOOLEAN
    /\ effects \in Nat /\ repeats \in Nat /\ faults \in 0 .. MaxFaults

Init ==
    /\ receipts = [k \in Keys |-> None]
    /\ newest = None
    /\ lock = None
    /\ pc = [r \in Runs |-> "idle"]
    /\ outcome = [r \in Runs |-> None]
    /\ posting = [p \in Posters |-> None]
    /\ blocked = FALSE
    /\ effects = 0 /\ repeats = 0 /\ faults = 0

-----------------------------------------------------------------------------
Goto(r, l) == pc' = [pc EXCEPT ![r] = l]

\* recordExecutionReceipt: the receipt that is there under the key is returned.
Insert(k, status) ==
    /\ receipts' = IF receipts[k] = None THEN [receipts EXCEPT ![k] = status]
                   ELSE receipts
    /\ newest' = IF receipts[k] = None /\ status # "failed" THEN k ELSE newest

Unwritten == UNCHANGED <<receipts, newest>>

Fault(repeat) ==
    /\ faults < MaxFaults
    /\ faults' = faults + 1
    /\ repeats' = IF repeat THEN repeats + 1 ELSE repeats

NoFault == UNCHANGED <<faults, repeats>>

-----------------------------------------------------------------------------
(* A run.                                                                  *)

Runnable == ~IsTerminal("terminal")

\* The preflight fails: a skipped receipt with a key of its own.
RefuseNow(r) ==
    /\ pc[r] = "idle" /\ blocked
    /\ Insert("mode", "skipped")
    /\ UNCHANGED <<lock, pc, outcome, posting, blocked, effects>> /\ NoFault

LookUp(r) ==
    /\ pc[r] = "idle" /\ ~blocked
    /\ Runnable
    /\ Goto(r, "looked")
    /\ UNCHANGED <<lock, outcome, posting, blocked, effects>>
    /\ Unwritten /\ NoFault

\* SET key token PX ttl NX
Acquire(r) ==
    /\ pc[r] = "looked"
    /\ lock' = IF lock = None THEN r ELSE lock
    /\ Goto(r, IF lock = None THEN "locked" ELSE "idle")
    /\ UNCHANGED <<outcome, posting, blocked, effects>>
    /\ Unwritten /\ NoFault

\* ... fails, as far as the run can tell; the lock may be set all the same.
AcquireFails(r) ==
    /\ pc[r] = "looked"
    /\ lock' \in {lock, IF lock = None THEN r ELSE lock}
    /\ Goto(r, "idle")
    /\ Fault(FALSE)
    /\ UNCHANGED <<outcome, posting, blocked, effects>> /\ Unwritten

\* Defect: the receipt is not looked for again.
RecheckNothing(r) ==
    /\ pc[r] = "locked"
    /\ Goto(r, "ready")
    /\ UNCHANGED <<lock, outcome, posting, blocked, effects>>
    /\ Unwritten /\ NoFault

\* Under the lock: a terminal receipt ends the run; a provider-bound action is
\* checked against the health of its authority once more.
Recheck(r) ==
    /\ pc[r] = "locked"
    /\ \/ ~Runnable /\ Goto(r, "release") /\ Unwritten
       \/ Runnable /\ Provider /\ blocked /\ Goto(r, "release") /\ Insert("mode", "skipped")
       \/ Runnable /\ ~(Provider /\ blocked) /\ Goto(r, "ready") /\ Unwritten
    /\ UNCHANGED <<lock, outcome, posting, blocked, effects>> /\ NoFault

Answers(r, status) ==
    /\ outcome' = [outcome EXCEPT ![r] = status]
    /\ Goto(r, "record")

\* The adapter: acts, has nothing to do here, refuses or throws.
Act(r) ==
    /\ pc[r] = "ready"
    /\ \E status \in Statuses :
          /\ Answers(r, status)
          /\ effects' = IF status = "executed" THEN effects + 1 ELSE effects
    /\ UNCHANGED <<lock, posting, blocked>> /\ Unwritten /\ NoFault

\* It acts and throws after all.
ActThrows(r) ==
    /\ pc[r] = "ready"
    /\ Answers(r, "failed")
    /\ effects' = effects + 1
    /\ Fault(TRUE)
    /\ UNCHANGED <<lock, posting, blocked>> /\ Unwritten

\* recordFailedExecution, unless somebody ended the request meanwhile, and
\* recordExecutionReceipt.
RecordOutcome(r) ==
    IF outcome[r] = "failed"
    THEN IF IsTerminal("terminal") THEN Unwritten ELSE Insert("failed", "failed")
    ELSE Insert("terminal", outcome[r])

Record(r) ==
    /\ pc[r] = "record"
    /\ RecordOutcome(r)
    /\ Goto(r, "release")
    /\ UNCHANGED <<lock, outcome, posting, blocked, effects>> /\ NoFault

\* if redis.call('get', KEYS[1]) == ARGV[1] then return redis.call('del', ...)
Released(r) == IF lock = r THEN None ELSE lock

Release(r) ==
    /\ pc[r] = "release"
    /\ lock' = Released(r)
    /\ Goto(r, "idle")
    /\ UNCHANGED <<outcome, posting, blocked, effects>> /\ Unwritten /\ NoFault

\* The release fails; the lock is left to its time to live.
ReleaseFails(r) ==
    /\ pc[r] = "release"
    /\ Goto(r, "idle")
    /\ Fault(FALSE)
    /\ UNCHANGED <<lock, outcome, posting, blocked, effects>> /\ Unwritten

Crash(r) ==
    /\ pc[r] # "idle"
    /\ Goto(r, "idle")
    /\ Fault(pc[r] = "record" /\ outcome[r] = "executed")
    /\ UNCHANGED <<lock, outcome, posting, blocked, effects>> /\ Unwritten

-----------------------------------------------------------------------------
(* The lease.                                                              *)

\* The owner is gone: the key expires by itself.
Abandoned == lock # None /\ pc[lock] \in {"idle", "looked"}

LeaseEnds ==
    /\ Abandoned
    /\ lock' = None
    /\ UNCHANGED <<pc, outcome, posting, blocked, effects>> /\ Unwritten /\ NoFault

\* The owner takes longer than the time to live.
LeaseEndsEarly ==
    /\ lock # None /\ ~Abandoned
    /\ lock' = None
    /\ Fault(TRUE)
    /\ UNCHANGED <<pc, outcome, posting, blocked, effects>> /\ Unwritten

-----------------------------------------------------------------------------
(* Posted receipts, and the environment.                                   *)

\* findTerminalExecutionReceipt: the latest, whatever its key.
PostChecks(p) ==
    /\ posting[p] = None
    /\ \E x \in Posts :
          /\ newest # None => newest = x.key /\ receipts[newest] = x.status
          /\ posting' = [posting EXCEPT ![p] = x]
    /\ UNCHANGED <<lock, pc, outcome, blocked, effects>> /\ Unwritten /\ NoFault

PostWrites(p) ==
    /\ posting[p] # None
    /\ Insert(posting[p].key, posting[p].status)
    /\ posting' = [posting EXCEPT ![p] = None]
    /\ UNCHANGED <<lock, pc, outcome, blocked, effects>> /\ NoFault

Block ==
    /\ ~blocked /\ blocked' = TRUE
    /\ Fault(FALSE)
    /\ UNCHANGED <<lock, pc, outcome, posting, effects>> /\ Unwritten

Unblock ==
    /\ blocked /\ blocked' = FALSE
    /\ UNCHANGED <<lock, pc, outcome, posting, effects>> /\ Unwritten /\ NoFault

-----------------------------------------------------------------------------
Run(r) == LookUp(r) \/ Acquire(r) \/ Recheck(r) \/ Act(r) \/ Record(r) \/ Release(r)

Next ==
    \/ \E r \in Runs : RefuseNow(r)
    \/ \E r \in Runs : LookUp(r)
    \/ \E r \in Runs : Acquire(r)
    \/ \E r \in Runs : AcquireFails(r)
    \/ \E r \in Runs : Recheck(r)
    \/ \E r \in Runs : Act(r)
    \/ \E r \in Runs : ActThrows(r)
    \/ \E r \in Runs : Record(r)
    \/ \E r \in Runs : Release(r)
    \/ \E r \in Runs : ReleaseFails(r)
    \/ \E r \in Runs : Crash(r)
    \/ LeaseEnds
    \/ LeaseEndsEarly
    \/ \E p \in Posters : PostChecks(p)
    \/ \E p \in Posters : PostWrites(p)
    \/ Block
    \/ Unblock

Spec == Init /\ [][Next]_vars

\* Somebody retries, runs go on, leases end and what blocks is repaired.
Fairness ==
    /\ \A r \in Runs : WF_vars(Run(r))
    /\ WF_vars(LeaseEnds)
    /\ WF_vars(Unblock)

FairSpec == Spec /\ Fairness

-----------------------------------------------------------------------------
(* Properties.                                                             *)

\* Executing twice takes a fault for every further time: the lease ended under
\* the owner, or a run that acted was lost before its receipt.
EffectsAreAccounted == effects <= 1 + repeats

\* A run keeps its lock until it releases it, dies or its lease ends: a run that
\* lost its lease does not take another's lock with it.
LockIsItsOwners ==
    [][\A r \in Runs :
          lock = r /\ lock' # r /\ pc[r] \in {"locked", "ready", "record"}
             => faults' > faults]_vars

\* The receipt tells what happened: executed is recorded only of an action that
\* acted, and a request the adapter had nothing to do for was not acted on,
\* but for faults.
ReceiptIsTrue ==
    /\ receipts["terminal"] = "executed" => effects > 0
    /\ receipts["terminal"] = "skipped" => effects <= repeats

\* An action is executed once and again only for a fault, its lock is deleted by nobody else,
\* and the receipt says what happened.
ActsOncePerFault == LockIsItsOwners /\ [](TypeOK /\ EffectsAreAccounted /\ ReceiptIsTrue)

\* Neither a failure, nor a refusal, nor a lock somebody left keeps a retried
\* request from its adapter.
RetryReachesTheAdapter ==
    []<>(IsTerminal("terminal") \/ \E r \in Runs : pc[r] = "ready")
=============================================================================
