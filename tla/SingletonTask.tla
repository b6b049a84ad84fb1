--------------------------- MODULE SingletonTask ---------------------------
(***************************************************************************)
(* The background tasks of the query API (heat decay, draft workflow,      *)
(* governance reconciler, peer synchronisation, ...): every instance       *)
(* schedules every task, and a row of query_runtime_task_states with a     *)
(* lease decides which call runs it.                                       *)
(*                                                                         *)
(* One task, so one row.  A runner is one call of runSingletonTask or of   *)
(* runSingletonTaskTransaction; a process has several, because its timer   *)
(* does not wait for the call before.  A runner stands for the lease id it *)
(* drew in its present call.  Times are kept relative to the database's    *)
(* clock: what is left of the lease and of the pause after a run.          *)
(***************************************************************************)
EXTENDS Integers

CONSTANTS
    Runner,          \* calls that may be under way at once
    Owner,           \* the process (ownerId) of each runner
    None,            \* NULL
    Lease,           \* leaseMs, in ticks
    HeartbeatEvery,  \* heartbeatMs, at most a third of the lease in the code
    MinInterval,     \* minIntervalMs
    TxTimeout,       \* how long an interactive transaction may stay open
    Transactional,   \* TRUE: runSingletonTaskTransaction, FALSE: runSingletonTask
    MaxFaults        \* bound: crashes, failing statements and late timers

SingletonConstants ==
    /\ None \notin Runner
    /\ Transactional \in BOOLEAN
    /\ {Lease, MinInterval, TxTimeout, MaxFaults} \subseteq Nat
    /\ HeartbeatEvery \in Nat \ {0}
    /\ HeartbeatEvery < Lease

VARIABLES
    row,        \* the task's row: owner_id, lease_id, lease_until, last_completed_at
    pc,         \* where each call is
    age,        \* how long ago the statement or transaction it is in began, its NOW()
    beat,       \* the heartbeat's timer: ticks since it last fired
    leaseLost,  \* the variable of that name in runSingletonTask
    locker,     \* the transaction that holds the row lock
    latest,     \* history: the last runner that claimed
    quiet,      \* history: ticks since a run was last recorded as completed
    faults

vars == <<row, pc, age, beat, leaseLost, locker, latest, quiet, faults>>

-----------------------------------------------------------------------------

\* A time that lies at least TxTimeout back is as good as NULL: no NOW() is older.
Floor == 0 - TxTimeout

Down(n) == IF n > Floor THEN n - 1 ELSE Floor

NoRow == [owner |-> None, lease |-> None, left |-> Floor, rest |-> Floor]

\* In runSingletonTaskTransaction the lock, the task and the completion share one
\* transaction, and with it one NOW().
InTransaction == {"lock", "effect"}

Owners == {Owner[r] : r \in Runner} \cup {None}

RowRecord ==
    [owner : Owners, lease : Runner \cup {None},
     left : Floor..Lease, rest : Floor..MinInterval]

TypeOK ==
    /\ row \in RowRecord
    /\ pc \in [Runner -> {"idle", "over", "claim", "work", "complete", "begin", "fail"} \cup InTransaction]
    /\ age \in [Runner -> 0..TxTimeout]
    /\ beat \in [Runner -> 0..HeartbeatEvery]
    /\ leaseLost \in [Runner -> BOOLEAN]
    /\ locker \in Runner \cup {None}
    /\ latest \in Runner \cup {None}
    /\ quiet \in 0..MinInterval
    /\ faults \in 0..MaxFaults

Init ==
    /\ row = NoRow
    /\ pc = [r \in Runner |-> "idle"]
    /\ age = [r \in Runner |-> 0]
    /\ beat = [r \in Runner |-> 0]
    /\ leaseLost = [r \in Runner |-> FALSE]
    /\ locker = None
    /\ latest = None
    /\ quiet = MinInterval
    /\ faults = 0

-----------------------------------------------------------------------------
\* The statements

\* Defect: the lease id is left out, so that calls of one process pass for each other.
HoldsByOwner(r) == row.owner = Owner[r] /\ row.left + age[r] > 0

\* owner_id = ... AND lease_id = ... AND lease_until > NOW()
Holds(r) == row.owner = Owner[r] /\ row.lease = r /\ row.left + age[r] > 0

\* Defect: the pause since last_completed_at is forgotten.
ClaimableAtOnce(r) == row.left + age[r] <= 0

\* Defect: only a lease given back may be claimed, never one that expired.
ClaimableIfReleased(r) == row.lease = None /\ row.rest + age[r] <= 0

\* The WHERE of the claim: no live lease, and the last run long enough ago.
Claimable(r) == row.left + age[r] <= 0 /\ row.rest + age[r] <= 0

\* lease_id = NULL, lease_until = NULL
Released == [row EXCEPT !.lease = None, !.left = Floor]

\* Defect: the completion keeps last_completed_at.
CompletedUntimed(r) == Released

\* last_completed_at = NOW()
Completed(r) == [Released EXCEPT !.rest = MinInterval - age[r]]

-----------------------------------------------------------------------------
\* Both ways of running a task begin with tryClaimSingletonTask.  Its statement waits
\* while a transaction holds the row, and keeps the NOW() of its beginning.

Ask(r) ==
    /\ pc[r] = "idle"
    /\ pc' = [pc EXCEPT ![r] = "claim"]
    /\ age' = [age EXCEPT ![r] = 0]
    /\ UNCHANGED <<row, beat, leaseLost, locker, latest, quiet, faults>>

TryClaim(r) ==
    /\ pc[r] = "claim"
    /\ locker = None
    /\ Claimable(r)
    /\ row' = [row EXCEPT !.owner = Owner[r], !.lease = r, !.left = Lease - age[r]]
    /\ pc' = [pc EXCEPT ![r] = IF Transactional THEN "begin" ELSE "work"]
    /\ age' = [age EXCEPT ![r] = 0]
    /\ beat' = [beat EXCEPT ![r] = 0]
    /\ leaseLost' = [leaseLost EXCEPT ![r] = FALSE]
    /\ latest' = r
    /\ UNCHANGED <<locker, quiet, faults>>

Skip(r) ==
    /\ pc[r] = "claim"
    /\ locker = None
    /\ ~ Claimable(r)
    /\ pc' = [pc EXCEPT ![r] = "over"]
    /\ age' = [age EXCEPT ![r] = 0]
    /\ UNCHANGED <<row, beat, leaseLost, locker, latest, quiet, faults>>

\* failSingletonTask: gives the lease back if it is still the caller's.  A row lock
\* is waited for; the lock of another transaction means that the lease is not ours.
Fail(r) ==
    /\ pc[r] = "fail"
    /\ locker = None
    /\ row' = IF Holds(r) THEN Released ELSE row
    /\ pc' = [pc EXCEPT ![r] = "over"]
    /\ UNCHANGED <<age, beat, leaseLost, locker, latest, quiet, faults>>

-----------------------------------------------------------------------------
\* runSingletonTask

HeartbeatDue(r) == pc[r] = "work" /\ beat[r] = HeartbeatEvery

\* runHeartbeatRenewal: the lease is prolonged, or found to be lost.  The timer goes on
\* either way.
Renew(r) ==
    /\ HeartbeatDue(r)
    /\ row' = IF Holds(r) THEN [row EXCEPT !.left = Lease] ELSE row
    /\ beat' = [beat EXCEPT ![r] = 0]
    /\ leaseLost' = [leaseLost EXCEPT ![r] = @ \/ ~ Holds(r)]
    /\ UNCHANGED <<pc, age, locker, latest, quiet, faults>>

\* The task returns; stopHeartbeat has waited for a renewal under way.
TaskReturns(r) ==
    /\ pc[r] = "work"
    /\ pc' = [pc EXCEPT ![r] = IF leaseLost[r] THEN "fail" ELSE "complete"]
    /\ UNCHANGED <<row, age, beat, leaseLost, locker, latest, quiet, faults>>

\* completeSingletonTask found the lease in place: the call returns 'ran'.
Complete(r) ==
    /\ pc[r] = "complete"
    /\ Holds(r)
    /\ row' = Completed(r)
    /\ pc' = [pc EXCEPT ![r] = "over"]
    /\ quiet' = 0
    /\ UNCHANGED <<age, beat, leaseLost, locker, latest, faults>>

CompleteRefused(r) ==
    /\ pc[r] = "complete"
    /\ ~ Holds(r)
    /\ pc' = [pc EXCEPT ![r] = "fail"]
    /\ UNCHANGED <<row, age, beat, leaseLost, locker, latest, quiet, faults>>

-----------------------------------------------------------------------------
\* runSingletonTaskTransaction

Begin(r) ==
    /\ pc[r] = "begin"
    /\ pc' = [pc EXCEPT ![r] = "lock"]
    /\ age' = [age EXCEPT ![r] = 0]
    /\ UNCHANGED <<row, beat, leaseLost, locker, latest, quiet, faults>>

\* lockSingletonTaskLease, SELECT ... FOR UPDATE
LockLease(r) ==
    /\ pc[r] = "lock"
    /\ locker = None
    /\ IF Holds(r)
       THEN /\ locker' = r
            /\ pc' = [pc EXCEPT ![r] = "effect"]
            /\ UNCHANGED age
       ELSE /\ pc' = [pc EXCEPT ![r] = "fail"]
            /\ age' = [age EXCEPT ![r] = 0]
            /\ UNCHANGED locker
    /\ UNCHANGED <<row, beat, leaseLost, latest, quiet, faults>>

\* The task's writes and the completion are committed together.  The answer may be
\* lost: then the call goes on to failSingletonTask although it has run.
Commit(r) ==
    /\ pc[r] = "effect"
    /\ Holds(r)
    /\ row' = Completed(r)
    /\ locker' = None
    /\ age' = [age EXCEPT ![r] = 0]
    /\ quiet' = 0
    /\ \/ pc' = [pc EXCEPT ![r] = "over"] /\ UNCHANGED faults
       \/ /\ faults < MaxFaults
          /\ faults' = faults + 1
          /\ pc' = [pc EXCEPT ![r] = "fail"]
    /\ UNCHANGED <<beat, leaseLost, latest>>

-----------------------------------------------------------------------------
\* Faults and time

Fault == faults < MaxFaults /\ faults' = faults + 1

\* The task throws, its transaction times out, or a statement fails: a transaction is
\* rolled back, and failSingletonTask comes next.
Throws(r) ==
    /\ Fault
    /\ pc[r] \in {"work", "complete", "begin"} \cup InTransaction
    /\ pc' = [pc EXCEPT ![r] = "fail"]
    /\ age' = [age EXCEPT ![r] = 0]
    /\ locker' = IF locker = r THEN None ELSE locker
    /\ UNCHANGED <<row, beat, leaseLost, latest, quiet>>

\* The renewal's statement fails: the call takes the lease for lost, which it may not be.
RenewFails(r) ==
    /\ Fault
    /\ HeartbeatDue(r)
    /\ beat' = [beat EXCEPT ![r] = 0]
    /\ leaseLost' = [leaseLost EXCEPT ![r] = TRUE]
    /\ UNCHANGED <<row, pc, age, locker, latest, quiet>>

\* The process stops, or the claim or the failure's own statement fails: the call is over.
Crash(r) ==
    /\ Fault
    /\ pc[r] \notin {"idle", "over"}
    /\ pc' = [pc EXCEPT ![r] = "over"]
    /\ age' = [age EXCEPT ![r] = 0]
    /\ locker' = IF locker = r THEN None ELSE locker
    /\ UNCHANGED <<row, beat, leaseLost, latest, quiet>>

\* Statements and transactions that have begun grow older with the clock; a call that is
\* over makes room for the next of its timer.
Ageing(r) == pc[r] \in {"claim"} \cup InTransaction

TimePasses ==
    /\ \A r \in Runner : Ageing(r) => age[r] < TxTimeout
    /\ age' = [r \in Runner |-> IF Ageing(r) THEN age[r] + 1 ELSE age[r]]
    /\ beat' = [r \in Runner |-> IF beat[r] < HeartbeatEvery THEN beat[r] + 1 ELSE beat[r]]
    /\ row' = [row EXCEPT !.left = Down(@), !.rest = Down(@)]
    /\ quiet' = IF quiet < MinInterval THEN quiet + 1 ELSE quiet
    /\ pc' = [r \in Runner |-> IF pc[r] = "over" THEN "idle" ELSE pc[r]]
    /\ UNCHANGED <<leaseLost, locker, latest>>

\* A timer is due, or a statement under way that no lock holds up.
Late(r) ==
    \/ HeartbeatDue(r)
    \/ pc[r] \in {"complete", "begin"}
    \/ pc[r] \in {"claim", "lock", "fail"} /\ locker = None

\* In a healthy process timers are on time, and such statements take none.
Tick == TimePasses /\ (\A r \in Runner : ~ Late(r)) /\ UNCHANGED faults

\* The event loop is blocked, or the database slow.
Stall == TimePasses /\ (\E r \in Runner : Late(r)) /\ Fault

Run(r) ==
    \/ Ask(r) \/ TryClaim(r) \/ Skip(r) \/ Fail(r)
    \/ Renew(r) \/ TaskReturns(r) \/ Complete(r) \/ CompleteRefused(r)
    \/ Begin(r) \/ LockLease(r) \/ Commit(r)

Next ==
    \/ \E r \in Runner : Run(r) \/ Throws(r) \/ RenewFails(r) \/ Crash(r)
    \/ Tick
    \/ Stall

Spec == Init /\ [][Next]_vars

\* A call goes on: every promise it waits for settles, and its task returns.  Timers call
\* again, time passes.
FairSpec ==
    /\ Spec
    /\ \A r \in Runner : WF_vars(Run(r))
    /\ \A r \in Runner : WF_vars(TaskReturns(r))
    /\ WF_vars(Tick)

-----------------------------------------------------------------------------
\* Properties

\* A call that is recorded as the task's last run ran it alone from its claim on:
\* no other call, of its own process or another, was let in behind it, whatever
\* leases expired or were renewed late.
RanAlone == [][\A r \in Runner : (Complete(r) \/ Commit(r)) => latest = r]_vars

\* Two recorded runs are minIntervalMs apart.  In a transaction NOW() is the time of its
\* beginning, so that the runs' commits may be closer by as long as a transaction stays open.
RunsArePaced ==
    [][\A r \in Runner : (Complete(r) \/ Commit(r)) =>
            quiet + (IF Transactional THEN TxTimeout ELSE 0) >= MinInterval]_vars

\* A live lease is ended or replaced by its own call only.  In particular a call that
\* lost its lease and fails does not give back the lease of the one that took over.
LiveLeaseIsRespected ==
    [][row.lease # None /\ row.left > 0 /\ row'.lease # row.lease
            => pc[row.lease] # pc'[row.lease] \/ pc[row.lease] \in {"idle", "over"}]_vars

\* The row lock is held by a transaction whose call still owns the row, so that the
\* completion inside the transaction never fails.
LockerOwnsRow == locker # None => row.lease = locker /\ Holds(locker)

\* The task does not die with a call: whatever crashed or failed, it runs again and again.
RunsForever == []<><<\E r \in Runner : Complete(r) \/ Commit(r)>>_vars
=============================================================================
