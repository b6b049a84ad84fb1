---------------------------- MODULE LeasedQueue ----------------------------
(***************************************************************************)
(* What a queue of jobs with leases promises, whatever its workers do:     *)
(* a job is tried a bounded number of times, one worker holds it at a      *)
(* time, only the holder decides how the try ends, and a job that is over  *)
(* stays over.  How a holder loses its job (a lease, a crash) is left open.*)
(***************************************************************************)
EXTENDS Integers

CONSTANTS
    Jobs,       \* the jobs that may be asked for
    Workers,    \* those who work on them
    Nobody,     \* no worker
    MaxTries

VARIABLES
    stage,      \* "absent", "open", "succeeded" or "failed"
    holder,     \* the worker that may decide, or Nobody
    tries       \* how often the job was taken

qvars == <<stage, holder, tries>>

QueueInit ==
    /\ stage = [j \in Jobs |-> "absent"]
    /\ holder = [j \in Jobs |-> Nobody]
    /\ tries = [j \in Jobs |-> 0]

Add(j) ==
    /\ stage[j] = "absent"
    /\ stage' = [stage EXCEPT ![j] = "open"]
    /\ UNCHANGED <<holder, tries>>

Take(j, w) ==
    /\ stage[j] = "open" /\ holder[j] = Nobody /\ tries[j] < MaxTries
    /\ holder' = [holder EXCEPT ![j] = w]
    /\ tries' = [tries EXCEPT ![j] = @ + 1]
    /\ UNCHANGED stage

Succeed(j, w) ==
    /\ holder[j] = w
    /\ holder' = [holder EXCEPT ![j] = Nobody]
    /\ stage' = [stage EXCEPT ![j] = "succeeded"]
    /\ UNCHANGED tries

\* The try is over without a result: it was the last one, or the job is open again.
Drop(S) ==
    /\ \A j \in S : holder[j] # Nobody
    /\ holder' = [j \in Jobs |-> IF j \in S THEN Nobody ELSE holder[j]]
    /\ stage' = [j \in Jobs |-> IF j \in S /\ tries[j] = MaxTries THEN "failed" ELSE stage[j]]
    /\ UNCHANGED tries

\* One statement may end the leases of several jobs.
QueueNext ==
    \/ \E j \in Jobs : Add(j) \/ \E w \in Workers : Take(j, w) \/ Succeed(j, w)
    \/ \E S \in SUBSET Jobs : Drop(S)

QueueSpec == QueueInit /\ [][QueueNext]_qvars
=============================================================================
