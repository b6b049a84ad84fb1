------------------------------ MODULE MCAiJobs ------------------------------
(***************************************************************************)
(* An instance of AiJobQueue for TLC: two workers, and two jobs that two   *)
(* requesters enqueue under one dedupe key.                                *)
(***************************************************************************)
EXTENDS AiJobQueue, TLC

\* computeAiJobBackoffMs: doubles, with a limit.
MCBackoff == [n \in 1..MaxAttempts |-> IF 2 ^ (n - 1) > MaxBackoff THEN MaxBackoff ELSE 2 ^ (n - 1)]

\* No definition tells one worker or one requester from another.
Interchangeable == Permutations(Worker) \cup Permutations(Requester)

\* Jobs without a key cannot share one: every enqueue asks for the key.
EveryJobHasKey == \A r \in Requester : asking[r].at # "idle" => asking[r].key # None
=============================================================================
