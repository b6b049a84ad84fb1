----------------------------- MODULE AiJobQueue -----------------------------
(***************************************************************************)
(* The queue of AI jobs in the table ai_jobs: requests enqueue jobs, the   *)
(* workers of the query API's processes claim them with a lease, renew it  *)
(* while the handler runs, complete or fail them, and give up the leases   *)
(* of workers that are gone.  Every statement is a step of its own.        *)
(*                                                                         *)
(* A claim token is a fresh UUID; since every claim increments the job's   *)
(* attempts, it is modelled by their number, and 0 is NULL.  The clocks of *)
(* the processes agree.  Times are relative: how long ago a job was        *)
(* claimed, how long until it is available, how long ago a worker took the *)
(* `now' that the statements of its present poll use.                      *)
(***************************************************************************)
EXTENDS Integers, FiniteSets

CONSTANTS
    MaxJobs,        \* bound: rows ever created
    Worker,         \* one per process: runOnce has one active run
    Requester,      \* calls of enqueueAiJob that may be under way at once
    Key,            \* dedupe keys
    Kinds,          \* job types as claimNextAiJob tells them apart
    None,           \* NULL, or no worker
    MaxAttempts,    \* maxAttempts of every job
    Lease,          \* leaseMs, in ticks
    RenewEvery,     \* renewIntervalMs
    Backoff,        \* computeAiJobBackoffMs of an attempt
    MaxBackoff,
    MaxStall,       \* the longest a poll's `now' or a renewal's is old when used
    MaxFaults       \* bound: crashes, failing statements, late timers

ASSUME QueueAssumption ==
    /\ {MaxJobs, MaxBackoff, MaxStall, MaxFaults} \subseteq Nat
    /\ {MaxAttempts, RenewEvery} \subseteq Nat \ {0}
    /\ Lease \in Nat
    /\ MaxStall + RenewEvery < Lease
    /\ Backoff \in [1..MaxAttempts -> 0..MaxBackoff]
    /\ Kinds \subseteq {"other", "trigger", "analyze"}
    /\ None \notin Key \cup Worker \cup Kinds

Jobs == 1..MaxJobs

VARIABLES
    job,        \* the rows of ai_jobs
    pc,         \* where each worker's runOnce is
    began,      \* how long ago its poll took `now'
    expired,    \* the stale rows its poll read: [terminal, retryable]
    found,      \* candidates it read and has not tried
    held,       \* the record it works on: job id and claim token
    seen,       \* attempts as failAiJob read them
    beat,       \* ticks since the renewal timer fired
    asking,     \* where each enqueueAiJob is, and its dedupe key
    claimant,   \* history: the worker whose claim is in the row
    asked,      \* history: the dedupe key a job was enqueued with
    faults

rows == <<job, claimant, asked>>
work == <<held, seen, beat>>
poll == <<began, expired, found>>
vars == <<rows, pc, poll, work, asking, faults>>

-----------------------------------------------------------------------------

JobRecord ==
    [status : {"absent", "queued", "running", "succeeded", "failed"},
     kind : Kinds \cup {None}, key : Key \cup {None},
     attempts : Nat, token : Nat, age : 0..(Lease + MaxStall), wait : (0 - MaxStall)..MaxBackoff]

Polling == {"expire", "requeue", "candidates", "claim", "reread"}
Working == {"work", "complete", "failread", "failwrite"}

TypeOK ==
    /\ job \in [Jobs -> JobRecord]
    /\ pc \in [Worker -> {"idle"} \cup Polling \cup Working]
    /\ began \in [Worker -> 0..MaxStall]
    /\ expired \in [Worker -> [terminal : SUBSET Jobs, retryable : SUBSET Jobs]]
    /\ found \in [Worker -> SUBSET Jobs]
    /\ held \in [Worker -> [id : Jobs \cup {0}, token : Nat]]
    /\ seen \in [Worker -> Nat]
    /\ beat \in [Worker -> 0..RenewEvery]
    /\ asking \in [Requester -> [at : {"idle", "create", "again"}, key : Key \cup {None}]]
    /\ claimant \in [Jobs -> Worker \cup {None}]
    /\ asked \in [Jobs -> Key \cup {None}]
    /\ faults \in 0..MaxFaults

NoRow == [status |-> "absent", kind |-> None, key |-> None, attempts |-> 0, token |-> 0,
          age |-> 0, wait |-> 0]
NothingExpired == [terminal |-> {}, retryable |-> {}]
NothingHeld == [id |-> 0, token |-> 0]

Init ==
    /\ job = [j \in Jobs |-> NoRow]
    /\ pc = [w \in Worker |-> "idle"]
    /\ began = [w \in Worker |-> 0]
    /\ expired = [w \in Worker |-> NothingExpired]
    /\ found = [w \in Worker |-> {}]
    /\ held = [w \in Worker |-> NothingHeld]
    /\ seen = [w \in Worker |-> 0]
    /\ beat = [w \in Worker |-> 0]
    /\ asking = [r \in Requester |-> [at |-> "idle", key |-> None]]
    /\ claimant = [j \in Jobs |-> None]
    /\ asked = [j \in Jobs |-> None]
    /\ faults = 0

-----------------------------------------------------------------------------
\* enqueueAiJob

WithKey(k) == {j \in Jobs : job[j].status # "absent" /\ job[j].key = k /\ k # None}

Lookup(r, k) ==
    /\ asking[r].at = "idle"
    /\ WithKey(k) = {}
    /\ asking' = [asking EXCEPT ![r] = [at |-> "create", key |-> k]]
    /\ UNCHANGED <<rows, pc, poll, work, faults>>

Created(kind, key) ==
    [status |-> "queued", kind |-> kind, key |-> key, attempts |-> 0, token |-> 0,
     age |-> 0, wait |-> 0]

\* Ids are given out in order.  The unique index refuses a second row with the key.
Create(r) ==
    /\ asking[r].at = "create"
    /\ WithKey(asking[r].key) = {}
    /\ \E j \in Jobs, kind \in Kinds :
        /\ job[j].status = "absent" /\ \A i \in 1..(j - 1) : job[i].status # "absent"
        /\ job' = [job EXCEPT ![j] = Created(kind, asking[r].key)]
        /\ asked' = [asked EXCEPT ![j] = asking[r].key]
    /\ asking' = [asking EXCEPT ![r].at = "idle"]
    /\ UNCHANGED <<pc, poll, work, claimant, faults>>

Conflict(r) ==
    /\ asking[r].at = "create"
    /\ WithKey(asking[r].key) # {}
    /\ asking' = [asking EXCEPT ![r].at = "again"]
    /\ UNCHANGED <<rows, pc, poll, work, faults>>

\* The row of the conflict is returned, or, when its job ended meanwhile, the error thrown.
LookupAgain(r) ==
    /\ asking[r].at = "again"
    /\ asking' = [asking EXCEPT ![r].at = "idle"]
    /\ UNCHANGED <<rows, pc, poll, work, faults>>

-----------------------------------------------------------------------------
\* claimNextAiJob, beginning with requeueStaleAiJobs

\* Defect: the lease is not waited for.
StaleAtOnce(j, w) == job[j].status = "running"

\* status = 'running' and claimedAt <= now - leaseMs
IsStale(j, w) == job[j].status = "running" /\ job[j].age - began[w] >= Lease

\* No attempt is left.
Exhausted(n) == n >= MaxAttempts

\* `now' is taken and the stale rows are read.
Poll(w) ==
    /\ pc[w] = "idle"
    /\ began' = [began EXCEPT ![w] = 0]
    /\ LET stale == {j \in Jobs : job[j].status = "running" /\ job[j].age >= Lease}
           last == {j \in stale : Exhausted(job[j].attempts)}
       IN /\ expired' = [expired EXCEPT ![w] = [terminal |-> last, retryable |-> stale \ last]]
          /\ pc' = [pc EXCEPT ![w] = IF stale = {} THEN "candidates" ELSE "expire"]
    /\ UNCHANGED <<rows, found, work, asking, faults>>

\* Defect: the retry forgets the key.
ReleasedWithoutKey(row, wait) ==
    [row EXCEPT !.status = "queued", !.token = 0, !.age = 0, !.wait = wait, !.key = None]

\* Back in the queue, available after a while.
Released(row, wait) == [row EXCEPT !.status = "queued", !.token = 0, !.age = 0, !.wait = wait]

\* Over for good: the claim and the dedupe key are cleared.
Ended(row, status) == [row EXCEPT !.status = status, !.token = 0, !.age = 0, !.key = None]

\* The first updateMany; it looks at each row again.
ExpireTerminal(w) ==
    /\ pc[w] = "expire"
    /\ job' = [j \in Jobs |-> IF j \in expired[w].terminal /\ IsStale(j, w)
                              THEN Ended(job[j], "failed") ELSE job[j]]
    /\ pc' = [pc EXCEPT ![w] = "requeue"]
    /\ UNCHANGED <<poll, work, asking, claimant, asked, faults>>

\* The second one: available since `now'.
Requeue(w) ==
    /\ pc[w] = "requeue"
    /\ job' = [j \in Jobs |-> IF j \in expired[w].retryable /\ IsStale(j, w)
                              THEN Released(job[j], 0 - began[w]) ELSE job[j]]
    /\ expired' = [expired EXCEPT ![w] = NothingExpired]
    /\ pc' = [pc EXCEPT ![w] = "candidates"]
    /\ UNCHANGED <<began, found, work, asking, claimant, asked, faults>>

Available(w, k) ==
    {j \in Jobs : job[j].status = "queued" /\ job[j].kind = k /\ job[j].wait + began[w] <= 0}

AtMostOne(S) == IF S = {} THEN {{}} ELSE {{j} : j \in S}

\* One candidate of the other kinds, and one of the discussion kinds, of which the
\* trigger comes first.  Which of several available ones is left open.
FindCandidates(w) ==
    /\ pc[w] = "candidates"
    /\ \E a \in AtMostOne(Available(w, "other")) :
       \E b \in AtMostOne(IF Available(w, "trigger") # {} THEN Available(w, "trigger")
                                                          ELSE Available(w, "analyze")) :
        /\ found' = [found EXCEPT ![w] = a \cup b]
        /\ pc' = [pc EXCEPT ![w] = IF a \cup b = {} THEN "idle" ELSE "claim"]
    /\ UNCHANGED <<rows, began, expired, work, asking, faults>>

\* status = 'queued' and claimToken = null
Claimable(j) == job[j].status = "queued" /\ job[j].token = 0

\* A fresh token, one attempt more, claimed at `now'.
Claimed(row, age) ==
    [row EXCEPT !.status = "running", !.age = age,
                !.attempts = row.attempts + 1, !.token = row.attempts + 1]

Claim(w, j) ==
    /\ pc[w] = "claim" /\ j \in found[w] /\ Claimable(j)
    /\ job' = [job EXCEPT ![j] = Claimed(job[j], began[w])]
    /\ claimant' = [claimant EXCEPT ![j] = w]
    /\ held' = [held EXCEPT ![w] = [id |-> j, token |-> 0]]
    /\ pc' = [pc EXCEPT ![w] = "reread"]
    /\ UNCHANGED <<poll, seen, beat, asking, asked, faults>>

\* Another worker was faster: the next candidate, if there is one.
ClaimLost(w, j) ==
    /\ pc[w] = "claim" /\ j \in found[w] /\ ~ Claimable(j)
    /\ found' = [found EXCEPT ![w] = @ \ {j}]
    /\ pc' = [pc EXCEPT ![w] = IF found[w] = {j} THEN "idle" ELSE "claim"]
    /\ UNCHANGED <<rows, began, expired, work, asking, faults>>

\* The record is read in a statement of its own, and with it the token.  Without a handler
\* for its type the job is failed at once.
ReadClaimed(w) ==
    /\ pc[w] = "reread"
    /\ held' = [held EXCEPT ![w].token = job[held[w].id].token]
    /\ beat' = [beat EXCEPT ![w] = 0]
    /\ found' = [found EXCEPT ![w] = {}]
    /\ began' = [began EXCEPT ![w] = 0]
    /\ \E next \in {"work", "failread"} : pc' = [pc EXCEPT ![w] = next]
    /\ UNCHANGED <<rows, expired, seen, asking, faults>>

-----------------------------------------------------------------------------
\* The handler and its end

\* Defect: the token is not compared.
HoldsById(w) == job[held[w].id].status = "running"

\* id and claimToken of the WHERE
Holds(w) == held[w].token # 0 /\ job[held[w].id].token = held[w].token

Renewed(row, age) == [row EXCEPT !.age = age]

\* The timer fires; its statement takes effect d ticks after its own `now'.
Renew(w) ==
    /\ pc[w] = "work" /\ beat[w] = RenewEvery
    /\ \E d \in 0..MaxStall :
        job' = IF Holds(w) THEN [job EXCEPT ![held[w].id] = Renewed(job[held[w].id], d)] ELSE job
    /\ beat' = [beat EXCEPT ![w] = 0]
    /\ UNCHANGED <<pc, poll, held, seen, asking, claimant, asked, faults>>

HandlerReturns(w) ==
    /\ pc[w] = "work"
    /\ pc' = [pc EXCEPT ![w] = "complete"]
    /\ UNCHANGED <<rows, poll, work, asking, faults>>

HandlerThrows(w) ==
    /\ pc[w] = "work"
    /\ pc' = [pc EXCEPT ![w] = "failread"]
    /\ UNCHANGED <<rows, poll, work, asking, faults>>

LetGo(w) == held' = [held EXCEPT ![w] = NothingHeld]

Completion(w) ==
    job' = IF Holds(w) THEN [job EXCEPT ![held[w].id] = Ended(job[held[w].id], "succeeded")] ELSE job

\* completeAiJob: without effect when the claim is another's by now.
Complete(w) ==
    /\ pc[w] = "complete"
    /\ Completion(w)
    /\ LetGo(w)
    /\ pc' = [pc EXCEPT ![w] = "idle"]
    /\ UNCHANGED <<poll, seen, beat, asking, claimant, asked, faults>>

\* failAiJob reads the attempts first and uses them in the update.
FailRead(w) ==
    /\ pc[w] = "failread"
    /\ seen' = [seen EXCEPT ![w] = job[held[w].id].attempts]
    /\ pc' = [pc EXCEPT ![w] = "failwrite"]
    /\ UNCHANGED <<rows, poll, held, beat, asking, faults>>

FailWrite(w) ==
    /\ pc[w] = "failwrite"
    /\ LET row == job[held[w].id]
       IN job' = IF ~ Holds(w) THEN job
                 ELSE [job EXCEPT ![held[w].id] =
                        IF Exhausted(seen[w]) THEN Ended(row, "failed")
                                              ELSE Released(row, Backoff[seen[w]])]
    /\ LetGo(w)
    /\ pc' = [pc EXCEPT ![w] = "idle"]
    /\ UNCHANGED <<poll, seen, beat, asking, claimant, asked, faults>>

-----------------------------------------------------------------------------
\* Faults and time

Fault == faults < MaxFaults /\ faults' = faults + 1

\* The statement of a completion fails, or its answer is lost: failAiJob comes next.
CompleteFails(w) ==
    /\ Fault
    /\ pc[w] = "complete"
    /\ Completion(w) \/ UNCHANGED job
    /\ pc' = [pc EXCEPT ![w] = "failread"]
    /\ UNCHANGED <<poll, work, asking, claimant, asked>>

\* The renewal's statement fails: it is reported, and the timer goes on.
RenewFails(w) ==
    /\ Fault
    /\ pc[w] = "work" /\ beat[w] = RenewEvery
    /\ beat' = [beat EXCEPT ![w] = 0]
    /\ UNCHANGED <<rows, pc, poll, held, seen, asking>>

\* The process stops, or another statement fails and the poll is given up.
Crash(w) ==
    /\ Fault
    /\ pc[w] # "idle"
    /\ pc' = [pc EXCEPT ![w] = "idle"]
    /\ found' = [found EXCEPT ![w] = {}]
    /\ expired' = [expired EXCEPT ![w] = NothingExpired]
    /\ LetGo(w)
    /\ UNCHANGED <<rows, began, seen, beat, asking>>

\* What lies further back than any lease or any `now' is not told apart.
Aged(row) ==
    [row EXCEPT !.age = IF row.status = "running" /\ @ < Lease + MaxStall THEN @ + 1 ELSE @,
                !.wait = IF row.status = "queued" /\ @ > 0 - MaxStall THEN @ - 1 ELSE @]

TimePasses ==
    /\ \A w \in Worker : pc[w] \in Polling => began[w] < MaxStall
    /\ began' = [w \in Worker |-> IF pc[w] \in Polling THEN began[w] + 1 ELSE began[w]]
    /\ beat' = [w \in Worker |-> IF pc[w] = "work" /\ beat[w] < RenewEvery
                                 THEN beat[w] + 1 ELSE beat[w]]
    /\ job' = [j \in Jobs |-> Aged(job[j])]
    /\ UNCHANGED <<pc, expired, found, held, seen, asking, claimant, asked>>

RenewalDue == \E w \in Worker : pc[w] = "work" /\ beat[w] = RenewEvery

Tick == TimePasses /\ ~ RenewalDue /\ UNCHANGED faults

\* The event loop is blocked while a renewal is due.
Stall == TimePasses /\ RenewalDue /\ Fault

Step(w) ==
    \/ Poll(w) \/ ExpireTerminal(w) \/ Requeue(w) \/ FindCandidates(w)
    \/ \E j \in Jobs : Claim(w, j) \/ ClaimLost(w, j)
    \/ ReadClaimed(w) \/ Renew(w) \/ HandlerReturns(w) \/ HandlerThrows(w)
    \/ Complete(w) \/ FailRead(w) \/ FailWrite(w)

Enqueue(r) == Create(r) \/ Conflict(r) \/ LookupAgain(r)

Next ==
    \/ \E w \in Worker : Step(w) \/ CompleteFails(w) \/ RenewFails(w) \/ Crash(w)
    \/ \E r \in Requester : Enqueue(r) \/ \E k \in Key \cup {None} : Lookup(r, k)
    \/ Tick
    \/ Stall

Spec == Init /\ [][Next]_vars

\* A worker goes on: its promises settle, its handler ends.  Time passes.
FairSpec ==
    /\ Spec
    /\ \A w \in Worker : WF_vars(Step(w)) /\ WF_vars(HandlerReturns(w) \/ HandlerThrows(w))
    /\ WF_vars(Tick)

-----------------------------------------------------------------------------
\* Properties

Unfinished(j) == job[j].status \in {"queued", "running"}

\* Two jobs enqueued with one dedupe key are never both unfinished, over retries,
\* expired leases and enqueues that race.
OneJobPerKey ==
    \A i, j \in Jobs : Unfinished(i) /\ Unfinished(j) /\ asked[i] = asked[j] /\ asked[i] # None
                            => i = j

\* No two workers act for one claim: the token a worker read back is its own, though
\* it is read in a second statement.
TokensAreOwn ==
    \A w \in Worker : pc[w] \in Working /\ Holds(w) => claimant[held[w].id] = w

\* While nothing fails, a job whose handler runs keeps its lease, however long it takes:
\* no other worker is given it.
WorkIsUndisturbed == faults = 0 => \A w \in Worker : pc[w] = "work" => Holds(w)

\* Every job that was enqueued ends.
EveryJobEnds == \A j \in Jobs : job[j].status = "queued" ~> job[j].status \in {"succeeded", "failed"}

\* The queue keeps the promises of LeasedQueue: a bounded number of tries, the outcome
\* by the latest claimant only, nothing after the end.
Leased == INSTANCE LeasedQueue WITH
    Workers <- Worker, Nobody <- None, MaxTries <- MaxAttempts,
    stage <- [j \in Jobs |-> IF Unfinished(j) THEN "open" ELSE job[j].status],
    holder <- [j \in Jobs |-> IF job[j].status = "running" THEN claimant[j] ELSE None],
    tries <- [j \in Jobs |-> job[j].attempts]

ImplementsLeasedQueue == Leased!QueueSpec
=============================================================================
