--------------------------- MODULE BackgroundTask ---------------------------
(***************************************************************************)
(* A singleton task of the query runtime (SingletonTask) under names of    *)
(* its own, to stand beside the job queue the same processes work on.      *)
(***************************************************************************)
CONSTANTS Runner, Owner, NoLease, TaskLease, HeartbeatEvery, MinInterval, TxTimeout,
          Transactional, MaxTaskFaults

VARIABLES taskRow, taskPc, taskAge, taskBeat, leaseLost, locker, latest, quiet, taskFaults

taskVars == <<taskRow, taskPc, taskAge, taskBeat, leaseLost, locker, latest, quiet, taskFaults>>

Task == INSTANCE SingletonTask WITH
    None <- NoLease, Lease <- TaskLease, MaxFaults <- MaxTaskFaults,
    row <- taskRow, pc <- taskPc, age <- taskAge, beat <- taskBeat, faults <- taskFaults

\* A run that is recorded, by a completion or a commit, was alone: no other call was given the
\* lease since its own.
RanAlone == Task!RanAlone

\* Two recorded runs are minIntervalMs apart, less what a transaction may stay open.
RunsArePaced == Task!RunsArePaced
=============================================================================
