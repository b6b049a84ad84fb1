----------------------------- MODULE AiJobProofs -----------------------------
(***************************************************************************)
(* Proofs about AiJobQueue, for any number of jobs, workers, requests,     *)
(* attempts and faults, and any lease longer than a poll's or a renewal's  *)
(* delay; and about the singleton tasks of the same processes.             *)
(***************************************************************************)
EXTENDS AiJobQueue, BackgroundTask, TLAPS

\* The constants are numbers of the expected kind, and a lease outlives every delay.
LEMMA Constants ==
    /\ MaxJobs \in Nat /\ MaxBackoff \in Nat /\ MaxStall \in Nat /\ MaxFaults \in Nat
    /\ MaxAttempts \in Nat /\ MaxAttempts > 0 /\ RenewEvery \in Nat /\ RenewEvery > 0
    /\ Lease \in Nat /\ MaxStall < Lease /\ MaxStall + RenewEvery < Lease
    /\ None \notin Key /\ None \notin Worker
    BY QueueAssumption

-----------------------------------------------------------------------------
\* What each statement makes of a row

\* A row as enqueueAiJob inserts it.
LEMMA CreatedRow ==
    ASSUME NEW kind \in Kinds, NEW key \in Key \cup {None}
    PROVE  LET q == Created(kind, key)
           IN q \in JobRecord /\ q.status = "queued" /\ q.key = key /\ q.attempts = 0 /\ q.token = 0
    BY Constants DEF Created, JobRecord

\* A row given back keeps its key and its attempts.
LEMMA ReleasedRow ==
    ASSUME NEW row \in JobRecord, NEW wait \in (0 - MaxStall)..MaxBackoff
    PROVE  LET q == Released(row, wait)
           IN /\ q \in JobRecord /\ q.status = "queued" /\ q.token = 0
              /\ q.key = row.key /\ q.attempts = row.attempts
<1>1. 0 \in 0..(Lease + MaxStall)
    BY Constants
<1>2. Released(row, wait) \in JobRecord
    BY <1>1, Constants DEF Released, JobRecord
<1> QED
    BY <1>2 DEF Released, JobRecord

\* A row that is over keeps its attempts.
LEMMA EndedRow ==
    ASSUME NEW row \in JobRecord, NEW status \in {"succeeded", "failed"}
    PROVE  LET q == Ended(row, status)
           IN /\ q \in JobRecord /\ q.status = status /\ q.token = 0
              /\ q.key = None /\ q.attempts = row.attempts
<1>1. 0 \in 0..(Lease + MaxStall)
    BY Constants
<1>2. Ended(row, status) \in JobRecord
    BY <1>1, Constants DEF Ended, JobRecord
<1> QED
    BY <1>2 DEF Ended, JobRecord

\* A claimed row has one attempt more, and its number as the token.
LEMMA ClaimedRow ==
    ASSUME NEW row \in JobRecord, NEW age \in 0..MaxStall
    PROVE  LET q == Claimed(row, age)
           IN /\ q \in JobRecord /\ q.status = "running" /\ q.age = age /\ q.key = row.key
              /\ q.attempts = row.attempts + 1 /\ q.token = q.attempts
<1>1. age \in 0..(Lease + MaxStall) /\ row.attempts + 1 \in Nat
    BY Constants DEF JobRecord
<1>2. Claimed(row, age) \in JobRecord
    BY <1>1, Constants DEF Claimed, JobRecord
<1> QED
    BY <1>2 DEF Claimed, JobRecord

\* A renewed row has a new age and nothing else.
LEMMA RenewedRow ==
    ASSUME NEW row \in JobRecord, NEW age \in 0..MaxStall
    PROVE  LET q == Renewed(row, age)
           IN /\ q \in JobRecord /\ q.status = row.status /\ q.age = age /\ q.key = row.key
              /\ q.attempts = row.attempts /\ q.token = row.token
    BY Constants DEF Renewed, JobRecord

\* Time changes the age and the wait.
LEMMA AgedRow ==
    ASSUME NEW row \in JobRecord
    PROVE  LET q == Aged(row)
           IN /\ q \in JobRecord /\ q.status = row.status /\ q.key = row.key
              /\ q.attempts = row.attempts /\ q.token = row.token
              /\ q.age \in {row.age, row.age + 1}
<1> DEFINE a == IF row.status = "running" /\ row.age < Lease + MaxStall THEN row.age + 1 ELSE row.age
           b == IF row.status = "queued" /\ row.wait > 0 - MaxStall THEN row.wait - 1 ELSE row.wait
<1>1. a \in 0..(Lease + MaxStall) /\ a \in {row.age, row.age + 1}
    BY Constants DEF JobRecord
<1>2. b \in (0 - MaxStall)..MaxBackoff
    BY Constants DEF JobRecord
<1>3. Aged(row) = [row EXCEPT !.age = a, !.wait = b]
    BY DEF Aged
<1> HIDE DEF a, b
<1> QED
    BY <1>1, <1>2, <1>3 DEF JobRecord

\* The types of a row's fields.
LEMMA RowFields ==
    ASSUME NEW row \in JobRecord
    PROVE  /\ row.status \in {"absent", "queued", "running", "succeeded", "failed"}
           /\ row.key \in Key \cup {None} /\ row.attempts \in Nat /\ row.token \in Nat
           /\ row.age \in Nat /\ row.age \in 0..(Lease + MaxStall)
    BY Constants DEF JobRecord

-----------------------------------------------------------------------------
\* The invariant

\* A row is consistent: a token with and only with a claim, attempts within the limit.
RowShape ==
    \A j \in Jobs :
        /\ job[j].status = "running" =>
                job[j].token = job[j].attempts /\ job[j].attempts > 0 /\ claimant[j] \in Worker
        /\ job[j].status # "running" => job[j].token = 0
        /\ job[j].attempts <= MaxAttempts
        /\ job[j].status = "queued" => job[j].attempts < MaxAttempts
        /\ job[j].status = "absent" => job[j].attempts = 0 /\ job[j].key = None

\* What a worker remembers of the job it works on.
Memory ==
    \A w \in Worker :
        /\ pc[w] \in Working \cup {"reread"} => held[w].id \in Jobs
        /\ pc[w] \in Working => held[w].token <= job[held[w].id].attempts
        /\ pc[w] = "failwrite" =>
                held[w].token <= seen[w] /\ seen[w] <= job[held[w].id].attempts

\* A claim that has not been read back is fresh, and its worker's.
Fresh ==
    \A w \in Worker : pc[w] = "reread" =>
        /\ job[held[w].id].status = "running"
        /\ claimant[held[w].id] = w
        /\ job[held[w].id].age <= began[w]

\* The lists of stale rows: the rows of the first have no attempt left; a row of the second
\* that has none by now was claimed too late to be stale.
Lists ==
    \A w \in Worker :
        /\ pc[w] \notin {"expire", "requeue"} => expired[w] = NothingExpired
        /\ \A j \in expired[w].terminal : job[j].attempts >= MaxAttempts
        /\ \A j \in expired[w].retryable :
                job[j].status = "running" /\ job[j].attempts >= MaxAttempts
                    => job[j].age - began[w] < Lease

QueueInv == TypeOK /\ RowShape /\ Memory /\ Fresh /\ Lists /\ TokensAreOwn

LEMMA InvInit == Init => QueueInv
    BY Constants DEF Init, QueueInv, TypeOK, RowShape, Memory, Fresh, Lists, TokensAreOwn,
        NoRow, NothingExpired, NothingHeld, Polling, Working, JobRecord

\* A step that changes no row, no claim and no memory keeps the rows' shape.
LEMMA InvStep == QueueInv /\ [Next]_vars => QueueInv'
<1> SUFFICES ASSUME QueueInv, [Next]_vars PROVE QueueInv'
    OBVIOUS
<1> USE Constants DEF QueueInv, Polling, Working
<1>t. /\ job \in [Jobs -> JobRecord] /\ TypeOK
    BY DEF TypeOK
<1>f. \A j \in Jobs : /\ job[j] \in JobRecord
                      /\ job[j].status \in {"absent", "queued", "running", "succeeded", "failed"}
                      /\ job[j].key \in Key \cup {None} /\ job[j].attempts \in Nat
                      /\ job[j].token \in Nat /\ job[j].age \in Nat
    BY <1>t, RowFields
<1>1. ASSUME NEW w \in Worker, Poll(w) PROVE QueueInv'
  <2>1. TypeOK'
    BY <1>1 DEF Poll, TypeOK, rows, work
  <2>2. RowShape' /\ Memory' /\ Fresh' /\ TokensAreOwn'
    BY <1>1, <1>t DEF Poll, rows, work, RowShape, Memory, Fresh, TokensAreOwn, Holds, TypeOK
  <2>3. Lists'
    BY <1>1, <1>f, <1>t DEF Poll, rows, work, Lists, TypeOK, Exhausted, NothingExpired
  <2> QED BY <2>1, <2>2, <2>3
<1>2. ASSUME NEW w \in Worker, ExpireTerminal(w) PROVE QueueInv'
  <2>1. \A j \in Jobs : \/ job'[j] = job[j]
                        \/ /\ job'[j] \in JobRecord /\ job'[j].status = "failed" /\ job'[j].token = 0
                           /\ job'[j].attempts = job[j].attempts
                           /\ IsStale(j, w)
    BY <1>2, <1>f, EndedRow DEF ExpireTerminal
  <2>2. \A j \in Jobs, v \in Worker : pc[v] = "reread" /\ held[v].id = j => ~ IsStale(j, w)
    BY <1>f, <1>t, <1>2 DEF IsStale, Fresh, TypeOK
  <2>3. TypeOK'
    BY <1>2, <2>1, <1>f DEF ExpireTerminal, TypeOK, poll, work
  <2>4. \A j \in Jobs : job'[j].attempts = job[j].attempts
    BY <2>1
  <2>5. RowShape'
    BY <1>2, <2>1, <1>f DEF ExpireTerminal, RowShape
  <2>6. Memory'
    BY <1>2, <2>4 DEF ExpireTerminal, Memory, work, poll
  <2>7. Fresh'
    BY <1>2, <2>1, <2>2 DEF ExpireTerminal, Fresh, Memory, work, poll
  <2>8. Lists'
    BY <1>2, <2>1, <2>4, <1>f, <1>t DEF ExpireTerminal, Lists, work, poll, TypeOK
  <2>9. TokensAreOwn'
    BY <1>2, <2>1 DEF ExpireTerminal, TokensAreOwn, Holds, Memory, work, poll
  <2> QED BY <2>3, <2>5, <2>6, <2>7, <2>8, <2>9
<1>3. ASSUME NEW w \in Worker, Requeue(w) PROVE QueueInv'
  <2>0. 0 - began[w] \in (0 - MaxStall)..MaxBackoff
    BY <1>t DEF TypeOK
  <2>1. \A j \in Jobs : \/ job'[j] = job[j]
                        \/ /\ job'[j] \in JobRecord /\ job'[j].status = "queued" /\ job'[j].token = 0
                           /\ job'[j].attempts = job[j].attempts
                           /\ IsStale(j, w) /\ j \in expired[w].retryable
    BY <1>3, <1>f, <2>0, ReleasedRow DEF Requeue
  <2>2. \A j \in Jobs, v \in Worker : pc[v] = "reread" /\ held[v].id = j => ~ IsStale(j, w)
    BY <1>f, <1>t, <1>3 DEF IsStale, Fresh, TypeOK
  <2>r. \A j \in expired[w].retryable : IsStale(j, w) => job[j].attempts < MaxAttempts
    BY <1>f, <1>t DEF Lists, IsStale, TypeOK
  <2>3. TypeOK'
    BY <1>3, <2>1, <1>f DEF Requeue, TypeOK, poll, work, NothingExpired
  <2>4. \A j \in Jobs : job'[j].attempts = job[j].attempts
    BY <2>1
  <2>5. RowShape'
    BY <1>3, <2>1, <1>f, <2>r DEF Requeue, RowShape
  <2>6. Memory'
    BY <1>3, <2>4 DEF Requeue, Memory, work, poll
  <2>7. Fresh'
    BY <1>3, <2>1, <2>2 DEF Requeue, Fresh, Memory, work, poll
  <2>8. Lists'
    BY <1>3, <2>1, <2>4, <1>f, <1>t DEF Requeue, Lists, work, poll, TypeOK, NothingExpired
  <2>9. TokensAreOwn'
    BY <1>3, <2>1 DEF Requeue, TokensAreOwn, Holds, Memory, work, poll
  <2> QED BY <2>3, <2>5, <2>6, <2>7, <2>8, <2>9
<1>4. ASSUME NEW w \in Worker, FindCandidates(w) PROVE QueueInv'
  <2>1. PICK a \in AtMostOne(Available(w, "other")),
             b \in AtMostOne(IF Available(w, "trigger") # {} THEN Available(w, "trigger")
                                                          ELSE Available(w, "analyze")) :
            /\ found' = [found EXCEPT ![w] = a \cup b]
            /\ pc' = [pc EXCEPT ![w] = IF a \cup b = {} THEN "idle" ELSE "claim"]
    BY <1>4 DEF FindCandidates
  <2>2. a \cup b \subseteq Jobs
    BY DEF AtMostOne, Available
  <2>3. UNCHANGED <<job, claimant, asked, began, expired, held, seen, beat, asking, faults>>
        /\ pc[w] = "candidates"
    BY <1>4 DEF FindCandidates, rows, work
  <2>4. TypeOK'
    BY <2>1, <2>2, <2>3 DEF TypeOK
  <2>5. RowShape' /\ Memory' /\ Fresh' /\ TokensAreOwn' /\ Lists'
    BY <2>1, <2>3, <1>t DEF RowShape, Memory, Fresh, TokensAreOwn, Holds, Lists, TypeOK
  <2> QED BY <2>4, <2>5
<1>5. ASSUME NEW w \in Worker, NEW j \in Jobs, Claim(w, j) PROVE QueueInv'
  <2>1. /\ job' = [job EXCEPT ![j] = Claimed(job[j], began[w])]
        /\ job[j].status = "queued" /\ pc[w] = "claim"
        /\ claimant' = [claimant EXCEPT ![j] = w]
        /\ held' = [held EXCEPT ![w] = [id |-> j, token |-> 0]]
        /\ pc' = [pc EXCEPT ![w] = "reread"]
        /\ UNCHANGED <<began, expired, found, seen, beat, asking, asked, faults>>
    BY <1>5 DEF Claim, Claimable, poll
  <2>2. /\ job'[j] \in JobRecord /\ job'[j].status = "running" /\ job'[j].age = began[w]
        /\ job'[j].attempts = job[j].attempts + 1 /\ job'[j].token = job'[j].attempts
        /\ began[w] \in 0..MaxStall
    <3>1. job'[j] = Claimed(job[j], began[w]) /\ job[j] \in JobRecord
        BY <2>1, <1>t
    <3>2. began[w] \in 0..MaxStall
        BY <1>t DEF TypeOK
    <3> QED BY <3>1, <3>2, ClaimedRow
  <2>3. \A i \in Jobs \ {j} : job'[i] = job[i]
    BY <2>1, <1>t
  <2>4. TypeOK'
    BY <2>1, <2>2, <1>t DEF TypeOK
  <2>5. RowShape'
    BY <2>1, <2>2, <2>3, <1>f, <1>t DEF RowShape, TypeOK
  <2>6. Memory'
    BY <2>1, <2>2, <2>3, <1>f, <1>t DEF Memory, TypeOK
  <2>7. Fresh'
    BY <2>1, <2>2, <2>3, <1>f, <1>t DEF Fresh, Memory, TypeOK
  <2>8. Lists'
    BY <2>1, <2>2, <2>3, <1>f, <1>t DEF Lists, TypeOK
  <2>9. TokensAreOwn'
    BY <2>1, <2>2, <2>3, <1>f, <1>t DEF TokensAreOwn, Memory, Holds, TypeOK
  <2> QED BY <2>4, <2>5, <2>6, <2>7, <2>8, <2>9
<1>6. ASSUME NEW w \in Worker, NEW j \in Jobs, ClaimLost(w, j) PROVE QueueInv'
  <2>1. TypeOK'
    BY <1>6 DEF ClaimLost, TypeOK, rows, work
  <2>2. RowShape' /\ Memory' /\ Fresh' /\ TokensAreOwn' /\ Lists'
    BY <1>6, <1>t DEF ClaimLost, rows, work, RowShape, Memory, Fresh, TokensAreOwn, Holds, Lists, TypeOK
  <2> QED BY <2>1, <2>2
<1>7. ASSUME NEW w \in Worker, ReadClaimed(w) PROVE QueueInv'
  <2>1. /\ pc[w] = "reread" /\ held[w].id \in Jobs
        /\ held' = [held EXCEPT ![w].token = job[held[w].id].token]
        /\ pc' \in {[pc EXCEPT ![w] = "work"], [pc EXCEPT ![w] = "failread"]}
        /\ began' = [began EXCEPT ![w] = 0]
        /\ UNCHANGED <<job, claimant, asked, expired, seen, asking, faults>>
    BY <1>7 DEF ReadClaimed, rows, Memory
  <2>2. TypeOK'
    <3>0. job[held[w].id].token \in Nat /\ held \in [Worker -> [id : Jobs \cup {0}, token : Nat]]
        BY <2>1, <1>t, <1>f DEF TypeOK
    <3>1. held' \in [Worker -> [id : Jobs \cup {0}, token : Nat]]
        BY <2>1, <3>0
    <3>2. found' \in [Worker -> SUBSET Jobs] /\ beat' \in [Worker -> 0..RenewEvery]
        BY <1>7, <1>t DEF ReadClaimed, TypeOK
    <3>3. began' \in [Worker -> 0..MaxStall]
        BY <2>1, <1>t DEF TypeOK
    <3>4. pc' \in [Worker -> {"idle"} \cup Polling \cup Working]
        BY <2>1, <1>t DEF TypeOK
    <3> QED BY <3>1, <3>2, <3>3, <3>4, <2>1, <1>t DEF TypeOK
  <2>3. RowShape'
    BY <2>1 DEF RowShape
  <2>4. /\ held'[w].id = held[w].id /\ held'[w].token = job[held[w].id].token
        /\ \A v \in Worker \ {w} : held'[v] = held[v]
    BY <2>1, <1>t DEF TypeOK
  <2>5. Memory'
    <3>1. /\ pc'[w] \in {"work", "failread"} /\ job[held[w].id].attempts \in Nat
          /\ \A v \in Worker \ {w} : pc'[v] = pc[v]
        BY <2>1, <1>t DEF TypeOK, JobRecord
    <3>2. job[held[w].id].token <= job[held[w].id].attempts
        BY <2>1, <3>1, <1>f DEF RowShape
    <3> QED BY <2>1, <2>4, <3>1, <3>2, <1>f DEF Memory
  <2>6. Fresh'
    BY <2>1, <2>4, <1>t DEF Fresh, TypeOK
  <2>7. TokensAreOwn'
    BY <2>1, <2>4, <1>t DEF Fresh, TypeOK, TokensAreOwn, Holds
  <2>8. Lists'
    <3>1. \A v \in Worker : expired[v] # NothingExpired => began'[v] = began[v] /\ v # w
        BY <2>1, <1>t DEF Lists, TypeOK
    <3> QED BY <2>1, <3>1, <1>t DEF Lists, TypeOK, NothingExpired
  <2> QED BY <2>2, <2>3, <2>5, <2>6, <2>7, <2>8
<1>8. ASSUME NEW w \in Worker, Renew(w) PROVE QueueInv'
  <2>1. PICK d \in 0..MaxStall :
            job' = IF Holds(w) THEN [job EXCEPT ![held[w].id] = Renewed(job[held[w].id], d)] ELSE job
    BY <1>8 DEF Renew
  <2>2. /\ pc[w] = "work" /\ held[w].id \in Jobs
        /\ UNCHANGED <<pc, began, expired, found, held, seen, asking, claimant, asked, faults>>
        /\ beat' = [beat EXCEPT ![w] = 0]
    BY <1>8 DEF Renew, poll, Memory
  <2>3. \A i \in Jobs : \/ job'[i] = job[i]
                        \/ /\ job'[i] \in JobRecord /\ job'[i].status = job[i].status
                           /\ job'[i].age \in 0..MaxStall /\ job'[i].token = job[i].token
                           /\ job'[i].attempts = job[i].attempts /\ job'[i].key = job[i].key
                           /\ Holds(w) /\ i = held[w].id
    BY <2>1, <2>2, <1>t, <1>f, RenewedRow
  <2>4. TypeOK'
    BY <2>1, <2>2, <2>3, <1>t, <1>f DEF TypeOK
  <2>5. RowShape'
    BY <2>2, <2>3, <1>f DEF RowShape
  <2>6. Memory' /\ TokensAreOwn'
    BY <2>2, <2>3 DEF Memory, TokensAreOwn, Holds
  <2>7. Fresh'
    BY <2>2, <2>3 DEF Fresh, TokensAreOwn, Memory
  <2>8. Lists'
    <3>1. \A v \in Worker : began[v] \in Nat
        BY <1>t DEF TypeOK
    <3>2. \A i \in Jobs, v \in Worker : job'[i].age \in 0..MaxStall => job'[i].age - began[v] < Lease
        BY <3>1
    <3>3. \A v \in Worker : \A i \in expired[v].retryable \cup expired[v].terminal : i \in Jobs
        BY <1>t DEF TypeOK
    <3> QED BY <2>2, <2>3, <3>2, <3>3 DEF Lists
  <2> QED BY <2>4, <2>5, <2>6, <2>7, <2>8
<1>9. ASSUME NEW w \in Worker, HandlerReturns(w) \/ HandlerThrows(w) PROVE QueueInv'
  <2>1. /\ pc[w] = "work" /\ pc' \in {[pc EXCEPT ![w] = "complete"], [pc EXCEPT ![w] = "failread"]}
        /\ UNCHANGED <<job, claimant, asked, began, expired, found, held, seen, beat, asking, faults>>
    BY <1>9 DEF HandlerReturns, HandlerThrows, rows, poll, work
  <2>2. TypeOK'
    BY <2>1, <1>t DEF TypeOK
  <2>3. RowShape' /\ Lists'
    BY <2>1, <1>t DEF RowShape, Lists, TypeOK
  <2>4. Memory' /\ Fresh' /\ TokensAreOwn'
    BY <2>1, <1>t DEF Memory, Fresh, TokensAreOwn, Holds, TypeOK
  <2> QED BY <2>2, <2>3, <2>4
<1>10. ASSUME NEW w \in Worker, pc[w] \in {"complete", "failwrite"}, held[w].id \in Jobs,
              NEW row \in JobRecord, row.attempts = job[held[w].id].attempts,
              row.token = 0, row.status # "running", row.status # "absent",
              row.status = "queued" => row.attempts < MaxAttempts,
              job' \in {job, [job EXCEPT ![held[w].id] = row]},
              job' # job => Holds(w),
              NEW p \in {"idle", "failread"}, pc' = [pc EXCEPT ![w] = p],
              (held' = [held EXCEPT ![w] = NothingHeld] /\ p = "idle") \/ held' = held,
              faults' \in 0..MaxFaults,
              UNCHANGED <<claimant, asked, began, expired, found, seen, beat, asking>>
       PROVE QueueInv'
  <2>1. \A i \in Jobs : \/ job'[i] = job[i]
                        \/ i = held[w].id /\ job'[i] = row /\ Holds(w)
    BY <1>10, <1>t
  <2>2. \A i \in Jobs : job'[i].attempts = job[i].attempts
    BY <2>1, <1>10
  <2>3. TypeOK'
    <3>1. job' \in [Jobs -> JobRecord]
        BY <1>10, <1>t
    <3>0. /\ held \in [Worker -> [id : Jobs \cup {0}, token : Nat]]
          /\ NothingHeld \in [id : Jobs \cup {0}, token : Nat]
        BY <1>t DEF TypeOK, NothingHeld
    <3>2. held' \in [Worker -> [id : Jobs \cup {0}, token : Nat]]
        BY <3>0, <1>10
    <3>3. pc' \in [Worker -> {"idle"} \cup Polling \cup Working]
        BY <1>10, <1>t DEF TypeOK
    <3> QED BY <3>1, <3>2, <3>3, <1>10, <1>t DEF TypeOK
  <2>4. RowShape'
    BY <2>1, <1>10, <1>f DEF RowShape
  <2>5. \A v \in Worker \ {w} : held'[v] = held[v] /\ pc'[v] = pc[v]
    BY <1>10, <1>t DEF TypeOK
  <2>6. pc'[w] = p /\ (p = "failread" => held'[w] = held[w])
    BY <1>10, <1>t DEF TypeOK, NothingHeld
  <2>7. Memory'
    BY <2>2, <2>5, <2>6, <1>10 DEF Memory
  <2>8. Fresh'
    BY <2>1, <2>5, <2>6, <1>10 DEF Fresh, Memory, TokensAreOwn
  <2>9. Lists'
    BY <2>1, <2>2, <2>5, <2>6, <1>10, <1>t DEF Lists, TypeOK
  <2>10. TokensAreOwn'
    BY <2>1, <2>5, <2>6, <1>10 DEF TokensAreOwn, Holds, Memory
  <2> QED BY <2>3, <2>4, <2>7, <2>8, <2>9, <2>10
<1>11. ASSUME NEW w \in Worker, Complete(w) PROVE QueueInv'
  <2>1. held[w].id \in Jobs /\ pc[w] = "complete"
    BY <1>11 DEF Complete, Memory
  <2>2. LET row == Ended(job[held[w].id], "succeeded")
        IN /\ row \in JobRecord /\ row.status = "succeeded" /\ row.token = 0
           /\ row.attempts = job[held[w].id].attempts
    BY <2>1, <1>f, EndedRow
  <2>3. faults' \in 0..MaxFaults
    BY <1>11, <1>t DEF Complete, TypeOK
  <2> QED BY <1>10, <1>11, <2>1, <2>2, <2>3 DEF Complete, Completion, LetGo, poll
<1>12. ASSUME NEW w \in Worker, FailRead(w) PROVE QueueInv'
  <2>1. /\ pc[w] = "failread" /\ held[w].id \in Jobs
        /\ seen' = [seen EXCEPT ![w] = job[held[w].id].attempts]
        /\ pc' = [pc EXCEPT ![w] = "failwrite"]
        /\ UNCHANGED <<job, claimant, asked, began, expired, found, held, beat, asking, faults>>
    BY <1>12 DEF FailRead, rows, poll, Memory
  <2>2. TypeOK'
    BY <2>1, <1>t, <1>f DEF TypeOK
  <2>3. RowShape' /\ Fresh' /\ TokensAreOwn' /\ Lists'
    BY <2>1, <1>t DEF RowShape, Fresh, TokensAreOwn, Holds, Lists, TypeOK
  <2>4. Memory'
    BY <2>1, <1>t, <1>f DEF Memory, TypeOK
  <2> QED BY <2>2, <2>3, <2>4
<1>13. ASSUME NEW w \in Worker, FailWrite(w) PROVE QueueInv'
  <2>1. /\ held[w].id \in Jobs /\ pc[w] = "failwrite"
        /\ held[w].token <= seen[w] /\ seen[w] <= job[held[w].id].attempts
        /\ held[w].token \in Nat /\ seen[w] \in Nat
    BY <1>13, <1>t DEF FailWrite, Memory, TypeOK
  <2>2. ASSUME Holds(w)
        PROVE  seen[w] = job[held[w].id].attempts /\ seen[w] \in 1..MaxAttempts
    BY <2>1, <2>2, <1>f DEF Holds, RowShape
  <2>3. faults' \in 0..MaxFaults
    BY <1>13, <1>t DEF FailWrite, TypeOK
  <2>4. CASE ~ Holds(w)
    <3>1. job' = job
        BY <1>13, <2>4 DEF FailWrite
    <3>2. LET row == Ended(job[held[w].id], "failed")
          IN /\ row \in JobRecord /\ row.status = "failed" /\ row.token = 0
             /\ row.attempts = job[held[w].id].attempts
        BY <2>1, <1>f, EndedRow
    <3> QED BY <1>10, <1>13, <2>1, <2>3, <3>1, <3>2 DEF FailWrite, LetGo, poll
  <2>5. CASE Holds(w) /\ Exhausted(seen[w])
    <3>1. LET row == Ended(job[held[w].id], "failed")
          IN /\ row \in JobRecord /\ row.status = "failed" /\ row.token = 0
             /\ row.attempts = job[held[w].id].attempts
        BY <2>1, <1>f, EndedRow
    <3>2. job' = [job EXCEPT ![held[w].id] = Ended(job[held[w].id], "failed")]
        BY <1>13, <2>5 DEF FailWrite
    <3> QED BY <1>10, <1>13, <2>1, <2>3, <2>5, <3>1, <3>2 DEF FailWrite, LetGo, poll
  <2>6. CASE Holds(w) /\ ~ Exhausted(seen[w])
    <3>0. Backoff[seen[w]] \in (0 - MaxStall)..MaxBackoff
        <4>1. Backoff \in [1..MaxAttempts -> 0..MaxBackoff]
            BY QueueAssumption
        <4>2. Backoff[seen[w]] \in 0..MaxBackoff
            BY <4>1, <2>2, <2>6
        <4> QED BY <4>2
    <3>1. LET row == Released(job[held[w].id], Backoff[seen[w]])
          IN /\ row \in JobRecord /\ row.status = "queued" /\ row.token = 0
             /\ row.attempts = job[held[w].id].attempts
        BY <2>1, <1>f, <3>0, ReleasedRow
    <3>2. job' = [job EXCEPT ![held[w].id] = Released(job[held[w].id], Backoff[seen[w]])]
        BY <1>13, <2>6 DEF FailWrite
    <3>3. job[held[w].id].attempts < MaxAttempts
        BY <2>2, <2>6 DEF Exhausted
    <3> QED BY <1>10, <1>13, <2>1, <2>3, <2>6, <3>1, <3>2, <3>3 DEF FailWrite, LetGo, poll
  <2> QED BY <2>4, <2>5, <2>6
<1>14. ASSUME NEW w \in Worker, CompleteFails(w) PROVE QueueInv'
  <2>1. held[w].id \in Jobs /\ pc[w] = "complete"
    BY <1>14 DEF CompleteFails, Memory
  <2>2. LET row == Ended(job[held[w].id], "succeeded")
        IN /\ row \in JobRecord /\ row.status = "succeeded" /\ row.token = 0
           /\ row.attempts = job[held[w].id].attempts
    BY <2>1, <1>f, EndedRow
  <2>3. faults' \in 0..MaxFaults
    BY <1>14, <1>t DEF CompleteFails, Fault, TypeOK
  <2> QED BY <1>10, <1>14, <2>1, <2>2, <2>3 DEF CompleteFails, Completion, poll, work
<1>15. ASSUME NEW w \in Worker, RenewFails(w) PROVE QueueInv'
  <2>1. TypeOK'
    BY <1>15 DEF RenewFails, Fault, TypeOK, rows, poll
  <2>2. RowShape' /\ Memory' /\ Fresh' /\ TokensAreOwn' /\ Lists'
    BY <1>15 DEF RenewFails, rows, poll, RowShape, Memory, Fresh, TokensAreOwn, Holds, Lists
  <2> QED BY <2>1, <2>2
<1>16. ASSUME NEW w \in Worker, Crash(w) PROVE QueueInv'
  <2>1. /\ pc' = [pc EXCEPT ![w] = "idle"]
        /\ expired' = [expired EXCEPT ![w] = NothingExpired]
        /\ held' = [held EXCEPT ![w] = NothingHeld]
        /\ UNCHANGED <<job, claimant, asked, began, seen, beat, asking>>
    BY <1>16 DEF Crash, LetGo, rows
  <2>2. TypeOK'
    BY <1>16, <2>1 DEF Crash, Fault, TypeOK, NothingExpired, NothingHeld
  <2>3. RowShape' /\ Memory' /\ Fresh' /\ TokensAreOwn' /\ Lists'
    BY <2>1, <1>t DEF RowShape, Memory, Fresh, TokensAreOwn, Holds, Lists, NothingExpired, TypeOK
  <2> QED BY <2>2, <2>3
<1>17. ASSUME NEW r \in Requester, Create(r) PROVE QueueInv'
  <2>1. PICK j \in Jobs, kind \in Kinds :
            /\ job[j].status = "absent"
            /\ job' = [job EXCEPT ![j] = Created(kind, asking[r].key)]
            /\ asked' = [asked EXCEPT ![j] = asking[r].key]
    BY <1>17 DEF Create
  <2>2. /\ asking[r].key \in Key \cup {None}
        /\ asking' = [asking EXCEPT ![r].at = "idle"]
        /\ UNCHANGED <<pc, began, expired, found, held, seen, beat, claimant, faults>>
    BY <1>17, <1>t DEF Create, TypeOK, poll, work
  <2>3. /\ job'[j] \in JobRecord /\ job'[j].status = "queued" /\ job'[j].attempts = 0
        /\ job'[j].token = 0 /\ \A i \in Jobs \ {j} : job'[i] = job[i]
        /\ job[j].attempts = 0
    BY <2>1, <2>2, <1>t, CreatedRow DEF RowShape
  <2>4. TypeOK'
    BY <2>1, <2>2, <2>3, <1>t DEF TypeOK
  <2>5. RowShape'
    BY <2>1, <2>2, <2>3, <1>f DEF RowShape
  <2>6. Memory'
    BY <2>1, <2>2, <2>3 DEF Memory
  <2>7. Fresh'
    BY <2>1, <2>2, <2>3 DEF Fresh, Memory
  <2>8. Lists'
    BY <2>1, <2>2, <2>3, <1>t, <1>f DEF Lists, TypeOK
  <2>9. TokensAreOwn'
    BY <2>1, <2>2, <2>3 DEF TokensAreOwn, Holds, Memory
  <2> QED BY <2>4, <2>5, <2>6, <2>7, <2>8, <2>9
<1>18. ASSUME NEW r \in Requester,
              Conflict(r) \/ LookupAgain(r) \/ \E k \in Key \cup {None} : Lookup(r, k)
       PROVE QueueInv'
  <2>1. /\ asking' \in [Requester -> [at : {"idle", "create", "again"}, key : Key \cup {None}]]
        /\ UNCHANGED <<job, claimant, asked, pc, began, expired, found, held, seen, beat, faults>>
    BY <1>18, <1>t DEF Conflict, LookupAgain, Lookup, TypeOK, rows, poll, work
  <2>2. TypeOK'
    BY <2>1, <1>t DEF TypeOK
  <2>3. RowShape' /\ Memory' /\ Fresh' /\ TokensAreOwn' /\ Lists'
    BY <2>1 DEF RowShape, Memory, Fresh, TokensAreOwn, Holds, Lists
  <2> QED BY <2>2, <2>3
<1>19. ASSUME TimePasses, faults' \in 0..MaxFaults PROVE QueueInv'
  <2>1. \A j \in Jobs :
            /\ job'[j] \in JobRecord /\ job'[j].status = job[j].status /\ job'[j].key = job[j].key
            /\ job'[j].attempts = job[j].attempts /\ job'[j].token = job[j].token
            /\ job'[j].age \in {job[j].age, job[j].age + 1}
    BY <1>19, <1>f, AgedRow DEF TimePasses
  <2>2. /\ \A w \in Worker : pc[w] \in Polling => began'[w] = began[w] + 1
        /\ began' \in [Worker -> 0..MaxStall]
        /\ UNCHANGED <<pc, expired, found, held, seen, asking, claimant, asked>>
    BY <1>19, <1>t DEF TimePasses, TypeOK
  <2>3. TypeOK'
    <3>1. job' \in [Jobs -> JobRecord]
        BY <1>19, <2>1 DEF TimePasses
    <3>2. beat' \in [Worker -> 0..RenewEvery]
        BY <1>19, <1>t DEF TimePasses, TypeOK
    <3> QED BY <3>1, <3>2, <2>2, <1>19, <1>t DEF TypeOK
  <2>4. RowShape'
    BY <2>1, <2>2 DEF RowShape
  <2>5. Memory' /\ TokensAreOwn'
    BY <2>1, <2>2 DEF Memory, TokensAreOwn, Holds
  <2>6. Fresh'
    <3>1. \A w \in Worker : pc[w] = "reread" => held[w].id \in Jobs /\ began'[w] = began[w] + 1 /\ began[w] \in Nat
        BY <2>2, <1>t DEF Memory, TypeOK
    <3>2. \A w \in Worker : pc[w] = "reread" => job'[held[w].id].age <= began'[w]
        BY <3>1, <2>1, <1>f DEF Fresh
    <3> QED BY <2>1, <2>2, <3>1, <3>2 DEF Fresh
  <2>7. Lists'
    <3>1. \A w \in Worker : expired[w] # NothingExpired => began'[w] = began[w] + 1
        BY <2>2 DEF Lists
    <3>2. \A w \in Worker : \A j \in expired[w].retryable \cup expired[w].terminal :
            j \in Jobs /\ began[w] \in Nat /\ began'[w] = began[w] + 1
        BY <3>1, <1>t DEF NothingExpired, TypeOK
    <3>3. \A w \in Worker : \A j \in expired[w].retryable :
            job[j].age - began[w] < Lease => job'[j].age - began'[w] < Lease
        BY <3>2, <2>1, <1>f
    <3> QED BY <2>1, <2>2, <3>2, <3>3 DEF Lists
  <2> QED BY <2>3, <2>4, <2>5, <2>6, <2>7
<1>20. ASSUME Tick \/ Stall PROVE QueueInv'
    BY <1>19, <1>20, <1>t DEF Tick, Stall, Fault, TypeOK
<1>21. ASSUME UNCHANGED vars PROVE QueueInv'
  <2>1. TypeOK'
    BY <1>21 DEF vars, rows, work, poll, TypeOK
  <2>2. RowShape' /\ Memory' /\ Fresh' /\ TokensAreOwn' /\ Lists'
    BY <1>21 DEF vars, rows, work, poll, RowShape, Memory, Fresh, TokensAreOwn, Holds, Lists
  <2> QED BY <2>1, <2>2
<1> QED
    BY <1>1, <1>2, <1>3, <1>4, <1>5, <1>6, <1>7, <1>8, <1>9, <1>11, <1>12, <1>13, <1>14,
       <1>15, <1>16, <1>17, <1>18, <1>20, <1>21 DEF Next, Step, Enqueue

\* The inductive invariant: rows, claims, what workers remember and what their lists of
\* stale rows say agree, however long ago each of them was read.
THEOREM QueueInvariance == Spec => []QueueInv
<1>1. Init => QueueInv
    BY InvInit
<1>2. QueueInv /\ [Next]_vars => QueueInv'
    BY InvStep
<1> QED BY <1>1, <1>2, PTL DEF Spec

\* Every variable keeps its type.
THEOREM QueueTyped == Spec => []TypeOK
<1>1. QueueInv => TypeOK
    BY DEF QueueInv
<1> QED BY <1>1, QueueInvariance, PTL

\* No two workers act for one claim of claimNextAiJob.
THEOREM ClaimsAreOwn == Spec => []TokensAreOwn
<1>1. QueueInv => TokensAreOwn
    BY DEF QueueInv
<1> QED BY <1>1, QueueInvariance, PTL

-----------------------------------------------------------------------------
\* What a step may do to the rows

Kept(j) ==
    /\ job'[j].status = job[j].status /\ job'[j].key = job[j].key
    /\ job'[j].attempts = job[j].attempts /\ claimant'[j] = claimant[j]

\* The claim of a row ends: with the last attempt for good, before it for a retry.
Dropped(j) ==
    /\ job[j].status = "running" /\ job'[j].attempts = job[j].attempts
    /\ claimant'[j] = claimant[j]
    /\ \/ /\ job'[j].status = "queued" /\ job[j].attempts < MaxAttempts
          /\ job'[j].key = job[j].key
       \/ /\ job'[j].status = "failed" /\ job[j].attempts = MaxAttempts
          /\ job'[j].key = None

KeepAll == \A j \in Jobs : Kept(j)
DropSome == \A j \in Jobs : Kept(j) \/ Dropped(j)

ClaimOne == \E j \in Jobs, w \in Worker :
    /\ job[j].status = "queued" /\ job'[j].status = "running" /\ job'[j].key = job[j].key
    /\ job'[j].attempts = job[j].attempts + 1 /\ claimant'[j] = w
    /\ \A i \in Jobs \ {j} : Kept(i)

FinishOne == \E j \in Jobs :
    /\ job[j].status = "running" /\ job'[j].status = "succeeded" /\ job'[j].key = None
    /\ job'[j].attempts = job[j].attempts /\ claimant'[j] = claimant[j]
    /\ \A i \in Jobs \ {j} : Kept(i)

CreateOne == \E j \in Jobs, k \in Key \cup {None} :
    /\ job[j].status = "absent" /\ job'[j].status = "queued" /\ job'[j].attempts = 0
    /\ job'[j].key = k /\ asked' = [asked EXCEPT ![j] = k] /\ WithKey(k) = {}
    /\ claimant'[j] = claimant[j]
    /\ \A i \in Jobs \ {j} : Kept(i)

\* Every step of the queue keeps all rows, ends claims, claims, finishes or creates one row.
LEMMA RowSteps ==
    ASSUME QueueInv, [Next]_vars
    PROVE  CreateOne \/ (asked' = asked /\ (KeepAll \/ DropSome \/ ClaimOne \/ FinishOne))
<1> USE Constants DEF QueueInv
<1>t. job \in [Jobs -> JobRecord] /\ TypeOK
    BY DEF TypeOK
<1>f. \A j \in Jobs : /\ job[j] \in JobRecord
                      /\ job[j].attempts \in Nat /\ job[j].token \in Nat /\ job[j].age \in Nat
    BY <1>t, RowFields
<1>1. ASSUME UNCHANGED <<job, claimant, asked>> PROVE asked' = asked /\ KeepAll
    BY <1>1 DEF KeepAll, Kept
<1>2. ASSUME NEW w \in Worker, ExpireTerminal(w) PROVE asked' = asked /\ DropSome
  <2>1. \A j \in Jobs : j \in expired[w].terminal => job[j].attempts = MaxAttempts
    BY <1>f DEF Lists, RowShape
  <2>2. \A j \in Jobs : \/ job'[j] = job[j]
                        \/ /\ j \in expired[w].terminal /\ IsStale(j, w)
                           /\ job'[j] = Ended(job[j], "failed")
    BY <1>2 DEF ExpireTerminal
  <2> QED BY <1>2, <1>f, <2>1, <2>2, EndedRow DEF ExpireTerminal, DropSome, Kept, Dropped, IsStale
<1>3. ASSUME NEW w \in Worker, Requeue(w) PROVE asked' = asked /\ DropSome
  <2>0. 0 - began[w] \in (0 - MaxStall)..MaxBackoff
    BY <1>t DEF TypeOK
  <2>1. \A j \in Jobs : j \in expired[w].retryable /\ IsStale(j, w) => job[j].attempts < MaxAttempts
    BY <1>f, <1>t DEF Lists, IsStale, TypeOK
  <2>2. \A j \in Jobs : \/ job'[j] = job[j]
                        \/ /\ j \in expired[w].retryable /\ IsStale(j, w)
                           /\ job'[j] = Released(job[j], 0 - began[w])
    BY <1>3 DEF Requeue
  <2>3. asked' = asked /\ claimant' = claimant
    BY <1>3 DEF Requeue
  <2>4. ASSUME NEW j \in Jobs PROVE Kept(j) \/ Dropped(j)
    <3>1. CASE job'[j] = job[j]
      BY <2>3, <3>1 DEF Kept
    <3>2. CASE /\ j \in expired[w].retryable /\ IsStale(j, w)
               /\ job'[j] = Released(job[j], 0 - began[w])
      <4>0. job[j] \in JobRecord
        BY <1>f
      <4>1. /\ job'[j].status = "queued" /\ job'[j].key = job[j].key
            /\ job'[j].attempts = job[j].attempts
        BY <3>2, <4>0, <2>0, ReleasedRow
      <4> QED BY <4>1, <2>1, <2>3, <3>2 DEF Dropped, IsStale
    <3> QED BY <2>2, <3>1, <3>2
  <2> QED BY <2>3, <2>4 DEF DropSome
<1>4. ASSUME NEW w \in Worker, NEW j \in Jobs, Claim(w, j) PROVE asked' = asked /\ ClaimOne
  <2>1. /\ job' = [job EXCEPT ![j] = Claimed(job[j], began[w])] /\ job[j].status = "queued"
        /\ claimant' = [claimant EXCEPT ![j] = w] /\ asked' = asked
        /\ began[w] \in 0..MaxStall
    BY <1>4, <1>t DEF Claim, Claimable, TypeOK
  <2>2. /\ job'[j].status = "running" /\ job'[j].key = job[j].key
        /\ job'[j].attempts = job[j].attempts + 1 /\ claimant'[j] = w
    BY <2>1, <1>t, <1>f, ClaimedRow DEF TypeOK
  <2>3. \A i \in Jobs \ {j} : Kept(i)
    BY <2>1, <1>t DEF Kept, TypeOK
  <2> QED BY <2>1, <2>2, <2>3 DEF ClaimOne
<1>5. ASSUME NEW w \in Worker, Renew(w) PROVE asked' = asked /\ KeepAll
  <2>1. PICK d \in 0..MaxStall :
            job' = IF Holds(w) THEN [job EXCEPT ![held[w].id] = Renewed(job[held[w].id], d)] ELSE job
    BY <1>5 DEF Renew
  <2>2. held[w].id \in Jobs /\ UNCHANGED <<claimant, asked>>
    BY <1>5 DEF Renew, Memory, Working
  <2>3. Renewed(job[held[w].id], d).status = job[held[w].id].status
        /\ Renewed(job[held[w].id], d).key = job[held[w].id].key
        /\ Renewed(job[held[w].id], d).attempts = job[held[w].id].attempts
    BY <2>2, <1>f, RenewedRow
  <2> QED BY <2>1, <2>2, <2>3, <1>t DEF KeepAll, Kept
<1>6. ASSUME NEW w \in Worker, pc[w] \in Working, Completion(w), UNCHANGED <<claimant, asked>>
      PROVE  asked' = asked /\ (KeepAll \/ FinishOne)
  <2>1. held[w].id \in Jobs
    BY <1>6 DEF Memory
  <2>2. LET row == Ended(job[held[w].id], "succeeded")
        IN row.status = "succeeded" /\ row.key = None /\ row.attempts = job[held[w].id].attempts
    BY <2>1, <1>f, EndedRow
  <2>3. CASE Holds(w)
    <3>1. job[held[w].id].status = "running"
        BY <2>1, <2>3 DEF Holds, RowShape
    <3>2. job' = [job EXCEPT ![held[w].id] = Ended(job[held[w].id], "succeeded")]
        BY <1>6, <2>3 DEF Completion
    <3>3. \A i \in Jobs \ {held[w].id} : Kept(i)
        BY <3>2, <1>6, <1>t DEF Kept
    <3> QED BY <1>6, <2>1, <2>2, <3>1, <3>2, <3>3, <1>t DEF FinishOne
  <2>4. CASE ~ Holds(w)
    BY <1>6, <2>4, <1>1 DEF Completion
  <2> QED BY <2>3, <2>4
<1>7. ASSUME NEW w \in Worker, FailWrite(w) PROVE asked' = asked /\ (KeepAll \/ DropSome)
  <2>1. /\ held[w].id \in Jobs /\ UNCHANGED <<claimant, asked>>
        /\ held[w].token <= seen[w] /\ seen[w] <= job[held[w].id].attempts
        /\ held[w].token \in Nat /\ seen[w] \in Nat
    BY <1>7, <1>t DEF FailWrite, Memory, TypeOK, Working
  <2>2. CASE ~ Holds(w)
    BY <1>7, <1>1, <2>1, <2>2 DEF FailWrite
  <2>3. CASE Holds(w)
    <3>1. /\ seen[w] = job[held[w].id].attempts /\ seen[w] \in 1..MaxAttempts
          /\ job[held[w].id].status = "running"
        BY <2>1, <2>3, <1>f DEF Holds, RowShape
    <3>2. CASE Exhausted(seen[w])
      <4>1. job' = [job EXCEPT ![held[w].id] = Ended(job[held[w].id], "failed")]
            /\ job[held[w].id].attempts = MaxAttempts
        <5>1. job' = [job EXCEPT ![held[w].id] = Ended(job[held[w].id], "failed")]
            BY <1>7, <2>3, <3>2 DEF FailWrite
        <5>2. job[held[w].id].attempts >= MaxAttempts /\ job[held[w].id].attempts <= MaxAttempts
            BY <2>1, <3>1, <3>2 DEF Exhausted, RowShape
        <5> QED BY <5>1, <5>2, <2>1, <1>f
      <4>2. LET row == Ended(job[held[w].id], "failed")
            IN row.status = "failed" /\ row.key = None /\ row.attempts = job[held[w].id].attempts
        BY <2>1, <1>f, EndedRow
      <4> QED BY <2>1, <3>1, <4>1, <4>2, <1>t DEF DropSome, Kept, Dropped
    <3>3. CASE ~ Exhausted(seen[w])
      <4>0. Backoff[seen[w]] \in (0 - MaxStall)..MaxBackoff
        <5>1. Backoff \in [1..MaxAttempts -> 0..MaxBackoff]
            BY QueueAssumption
        <5>2. Backoff[seen[w]] \in 0..MaxBackoff
            BY <5>1, <3>1
        <5> QED BY <5>2
      <4>1. job' = [job EXCEPT ![held[w].id] = Released(job[held[w].id], Backoff[seen[w]])]
            /\ job[held[w].id].attempts < MaxAttempts
        <5>1. job' = [job EXCEPT ![held[w].id] = Released(job[held[w].id], Backoff[seen[w]])]
            BY <1>7, <2>3, <3>3 DEF FailWrite
        <5>2. job[held[w].id].attempts < MaxAttempts
            BY <3>1, <3>3 DEF Exhausted
        <5> QED BY <5>1, <5>2
      <4>2. LET row == Released(job[held[w].id], Backoff[seen[w]])
            IN row.status = "queued" /\ row.key = job[held[w].id].key
               /\ row.attempts = job[held[w].id].attempts
        BY <2>1, <1>f, <4>0, ReleasedRow
      <4> QED BY <2>1, <3>1, <4>1, <4>2, <1>t DEF DropSome, Kept, Dropped
    <3> QED BY <3>2, <3>3
  <2> QED BY <2>2, <2>3
<1>8. ASSUME NEW r \in Requester, Create(r) PROVE CreateOne
  <2>1. PICK j \in Jobs, kind \in Kinds :
            /\ job[j].status = "absent"
            /\ job' = [job EXCEPT ![j] = Created(kind, asking[r].key)]
            /\ asked' = [asked EXCEPT ![j] = asking[r].key]
    BY <1>8 DEF Create
  <2>2. asking[r].key \in Key \cup {None} /\ WithKey(asking[r].key) = {} /\ claimant' = claimant
    BY <1>8, <1>t DEF Create, TypeOK
  <2>3. job'[j].status = "queued" /\ job'[j].attempts = 0 /\ job'[j].key = asking[r].key
    BY <2>1, <2>2, <1>t, CreatedRow
  <2>4. \A i \in Jobs \ {j} : Kept(i)
    BY <2>1, <2>2, <1>t DEF Kept
  <2> QED BY <2>1, <2>2, <2>3, <2>4 DEF CreateOne
<1>9. ASSUME TimePasses PROVE asked' = asked /\ KeepAll
    BY <1>9, <1>f, AgedRow DEF TimePasses, KeepAll, Kept
<1>10. ASSUME NEW w \in Worker, Complete(w) \/ CompleteFails(w)
       PROVE  asked' = asked /\ (KeepAll \/ FinishOne)
    BY <1>10, <1>6, <1>1 DEF Complete, CompleteFails, Working
<1>11. ASSUME NEW w \in Worker,
              \/ Poll(w) \/ FindCandidates(w) \/ ReadClaimed(w) \/ HandlerReturns(w)
              \/ HandlerThrows(w) \/ FailRead(w) \/ RenewFails(w) \/ Crash(w)
              \/ \E j \in Jobs : ClaimLost(w, j)
       PROVE  asked' = asked /\ KeepAll
    BY <1>11, <1>1 DEF Poll, FindCandidates, ReadClaimed, HandlerReturns, HandlerThrows, FailRead,
        RenewFails, Crash, ClaimLost, rows
<1>12. ASSUME NEW r \in Requester,
              Conflict(r) \/ LookupAgain(r) \/ \E k \in Key \cup {None} : Lookup(r, k)
       PROVE  asked' = asked /\ KeepAll
    BY <1>12, <1>1 DEF Conflict, LookupAgain, Lookup, rows
<1>13. ASSUME UNCHANGED vars PROVE asked' = asked /\ KeepAll
    BY <1>13, <1>1 DEF vars, rows
<1> QED
    BY <1>2, <1>3, <1>4, <1>5, <1>7, <1>8, <1>9, <1>10, <1>11, <1>12, <1>13
       DEF Next, Step, Enqueue, Tick, Stall

-----------------------------------------------------------------------------
\* Dedupe keys

KeysAgree ==
    /\ \A j \in Jobs : Unfinished(j) => job[j].key = asked[j]
    /\ \A i, j \in Jobs : job[i].key = job[j].key /\ job[i].key # None => i = j

KeyInv == QueueInv /\ KeysAgree

\* The unique index and the keys that retries keep.
LEMMA KeysStep == KeyInv /\ [Next]_vars => KeysAgree'
<1> SUFFICES ASSUME KeyInv, [Next]_vars PROVE KeysAgree'
    OBVIOUS
<1> USE DEF KeyInv
<1>t. asked \in [Jobs -> Key \cup {None}] /\ RowShape
    BY DEF QueueInv, TypeOK
<1>1. CASE asked' = asked /\ (KeepAll \/ DropSome)
    BY <1>1 DEF KeepAll, DropSome, Kept, Dropped, KeysAgree, Unfinished
<1>2. CASE asked' = asked /\ ClaimOne
    BY <1>2 DEF ClaimOne, Kept, KeysAgree, Unfinished
<1>3. CASE asked' = asked /\ FinishOne
    BY <1>3 DEF FinishOne, Kept, KeysAgree, Unfinished
<1>4. CASE CreateOne
  <2>1. PICK j \in Jobs, k \in Key \cup {None} :
            /\ job[j].status = "absent" /\ job'[j].status = "queued"
            /\ job'[j].key = k /\ asked' = [asked EXCEPT ![j] = k] /\ WithKey(k) = {}
            /\ \A i \in Jobs \ {j} : Kept(i)
    BY <1>4 DEF CreateOne
  <2>2. \A i \in Jobs : job[i].key = k /\ k # None => FALSE
    BY <2>1, <1>t DEF WithKey, RowShape
  <2>3. \A i \in Jobs \ {j} : asked'[i] = asked[i] /\ job'[i].key = job[i].key
                              /\ job'[i].status = job[i].status
    BY <2>1, <1>t DEF Kept
  <2> QED BY <2>1, <2>2, <2>3, <1>t DEF KeysAgree, Unfinished
<1> QED BY <1>1, <1>2, <1>3, <1>4, RowSteps

\* Two unfinished jobs never share the key they were enqueued with.
THEOREM KeysAreUnique == Spec => []OneJobPerKey
<1>1. Init => KeyInv
    BY InvInit DEF Init, KeyInv, KeysAgree, NoRow, Unfinished
<1>2. KeyInv /\ [Next]_vars => KeyInv'
    BY InvStep, KeysStep DEF KeyInv
<1>3. KeyInv => OneJobPerKey
    BY DEF KeyInv, KeysAgree, OneJobPerKey, Unfinished
<1> QED BY <1>1, <1>2, <1>3, PTL DEF Spec

-----------------------------------------------------------------------------
\* A running handler keeps its claim

\* Without faults the renewals of a running handler are never late.
Undisturbed ==
    faults = 0 => \A w \in Worker : pc[w] = "work" =>
        Holds(w) /\ job[held[w].id].age <= beat[w] + MaxStall

LEMMA UndisturbedStep == QueueInv /\ Undisturbed /\ [Next]_vars => Undisturbed'
<1> SUFFICES ASSUME QueueInv, Undisturbed, [Next]_vars, faults' = 0,
                    NEW v \in Worker, pc'[v] = "work"
             PROVE  Holds(v)' /\ job'[held'[v].id].age <= beat'[v] + MaxStall
    BY DEF Undisturbed
<1> USE Constants DEF QueueInv
<1>t. job \in [Jobs -> JobRecord] /\ TypeOK
    BY DEF TypeOK
<1>f. \A j \in Jobs : /\ job[j] \in JobRecord
                      /\ job[j].attempts \in Nat /\ job[j].token \in Nat /\ job[j].age \in Nat
    BY <1>t, RowFields
<1> DEFINE i == held[v].id
<1>g. ASSUME pc[v] = "work", faults = 0
      PROVE  /\ i \in Jobs /\ Holds(v) /\ claimant[i] = v /\ job[i].status = "running"
             /\ job[i].age <= beat[v] + MaxStall /\ beat[v] \in 0..RenewEvery
             /\ \A u \in Worker : ~ IsStale(i, u)
             /\ \A u \in Worker : pc[u] \in Working /\ Holds(u) /\ held[u].id = i => u = v
  <2>1. i \in Jobs /\ Holds(v) /\ job[i].age <= beat[v] + MaxStall
    BY <1>g DEF Undisturbed, Memory, Working
  <2>2. beat[v] \in 0..RenewEvery /\ \A u \in Worker : began[u] \in Nat
    BY <1>t DEF TypeOK
  <2>3. claimant[i] = v /\ job[i].status = "running"
    BY <1>g, <2>1 DEF TokensAreOwn, Working, Holds, RowShape
  <2>4. \A u \in Worker : ~ IsStale(i, u)
    BY <2>1, <2>2, <1>f DEF IsStale
  <2>5. \A u \in Worker : pc[u] \in Working /\ Holds(u) /\ held[u].id = i => u = v
    BY <2>3 DEF TokensAreOwn
  <2> QED BY <2>1, <2>2, <2>3, <2>4, <2>5
<1>s. ASSUME pc[v] = "work", faults = 0, held'[v] = held[v], beat'[v] = beat[v], job'[i] = job[i]
      PROVE  Holds(v)' /\ job'[held'[v].id].age <= beat'[v] + MaxStall
    BY <1>g, <1>s DEF Holds
<1>1. ASSUME NEW w \in Worker, ExpireTerminal(w) \/ Requeue(w)
      PROVE  Holds(v)' /\ job'[held'[v].id].age <= beat'[v] + MaxStall
  <2>1. pc[v] = "work" /\ faults = 0 /\ held' = held /\ beat' = beat
    BY <1>1, <1>t DEF ExpireTerminal, Requeue, TypeOK, work
  <2>2. job'[i] = job[i]
    BY <1>1, <1>g, <2>1 DEF ExpireTerminal, Requeue
  <2> QED BY <1>s, <2>1, <2>2
<1>2. ASSUME NEW w \in Worker, NEW j \in Jobs, Claim(w, j)
      PROVE  Holds(v)' /\ job'[held'[v].id].age <= beat'[v] + MaxStall
  <2>1. pc[v] = "work" /\ faults = 0 /\ held'[v] = held[v] /\ beat' = beat
    BY <1>2, <1>t DEF Claim, TypeOK
  <2>2. job'[i] = job[i]
    BY <1>2, <1>g, <2>1, <1>t DEF Claim, Claimable
  <2> QED BY <1>s, <2>1, <2>2
<1>3. ASSUME NEW w \in Worker, ReadClaimed(w)
      PROVE  Holds(v)' /\ job'[held'[v].id].age <= beat'[v] + MaxStall
  <2>1. /\ held' = [held EXCEPT ![w].token = job[held[w].id].token] /\ job' = job /\ faults = 0
        /\ beat' = [beat EXCEPT ![w] = 0] /\ pc[w] = "reread"
    BY <1>3 DEF ReadClaimed, rows
  <2>2. CASE v # w
    <3>1. pc[v] = "work" /\ held'[v] = held[v] /\ beat'[v] = beat[v]
        BY <1>3, <2>1, <2>2, <1>t DEF ReadClaimed, TypeOK
    <3> QED BY <1>s, <2>1, <3>1
  <2>3. CASE v = w
    <3>1. /\ i \in Jobs /\ job[i].status = "running" /\ job[i].age <= began[w] /\ began[w] \in 0..MaxStall
        BY <2>1, <2>3, <1>t DEF Memory, Fresh, TypeOK
    <3>2. held'[v].id = i /\ held'[v].token = job[i].token /\ beat'[v] = 0
        BY <2>1, <2>3, <1>t DEF TypeOK
    <3>3. job[i].token # 0 /\ job[i].age <= 0 + MaxStall
        BY <3>1, <1>f DEF RowShape
    <3> QED BY <2>1, <3>2, <3>3 DEF Holds
  <2> QED BY <2>2, <2>3
<1>4. ASSUME NEW w \in Worker, Renew(w)
      PROVE  Holds(v)' /\ job'[held'[v].id].age <= beat'[v] + MaxStall
  <2>1. PICK d \in 0..MaxStall :
            job' = IF Holds(w) THEN [job EXCEPT ![held[w].id] = Renewed(job[held[w].id], d)] ELSE job
    BY <1>4 DEF Renew
  <2>2. /\ pc[v] = "work" /\ faults = 0 /\ held' = held /\ beat' = [beat EXCEPT ![w] = 0]
        /\ pc[w] \in Working
    BY <1>4 DEF Renew, Working
  <2>3. CASE v # w
    <3>1. job'[i] = job[i]
        BY <2>1, <2>2, <2>3, <1>g, <1>t
    <3> QED BY <1>s, <2>2, <2>3, <3>1, <1>t DEF TypeOK
  <2>4. CASE v = w
    <3>1. job' = [job EXCEPT ![i] = Renewed(job[i], d)] /\ beat'[v] = 0
        BY <2>1, <2>2, <2>4, <1>g, <1>t DEF TypeOK
    <3>2. job'[i].age = d /\ job'[i].token = job[i].token
        BY <3>1, <2>2, <1>g, <1>t, <1>f, RenewedRow
    <3> QED BY <2>2, <3>1, <3>2, <1>g DEF Holds
  <2> QED BY <2>3, <2>4
<1>5. ASSUME NEW w \in Worker, Complete(w) \/ FailWrite(w)
      PROVE  Holds(v)' /\ job'[held'[v].id].age <= beat'[v] + MaxStall
  <2>1. /\ pc[v] = "work" /\ faults = 0 /\ held'[v] = held[v] /\ beat' = beat /\ v # w
        /\ pc[w] \in Working
    BY <1>5, <1>t DEF Complete, FailWrite, LetGo, Working, TypeOK
  <2>2. Holds(w) => held[w].id # i
    BY <2>1, <1>g
  <2>3. held[w].id \in Jobs
    BY <2>1 DEF Memory
  <2>4. job'[i] = job[i]
    BY <1>5, <2>1, <2>2, <2>3, <1>g, <1>t DEF Complete, Completion, FailWrite
  <2> QED BY <1>s, <2>1, <2>4
<1>6. ASSUME NEW w \in Worker, CompleteFails(w) \/ RenewFails(w) \/ Crash(w)
      PROVE  FALSE
    BY <1>6, <1>t DEF CompleteFails, RenewFails, Crash, Fault, TypeOK
<1>7. ASSUME NEW r \in Requester, Create(r)
      PROVE  Holds(v)' /\ job'[held'[v].id].age <= beat'[v] + MaxStall
  <2>1. pc[v] = "work" /\ faults = 0 /\ held' = held /\ beat' = beat
    BY <1>7 DEF Create, work
  <2>2. job'[i] = job[i]
    BY <1>7, <1>g, <2>1, <1>t DEF Create
  <2> QED BY <1>s, <2>1, <2>2
<1>8. ASSUME Tick
      PROVE  Holds(v)' /\ job'[held'[v].id].age <= beat'[v] + MaxStall
  <2>1. /\ pc[v] = "work" /\ faults = 0 /\ held' = held /\ beat[v] < RenewEvery
        /\ beat'[v] = beat[v] + 1
    <3>1. pc[v] = "work" /\ faults = 0 /\ held' = held
        BY <1>8 DEF Tick, TimePasses
    <3>2. beat[v] # RenewEvery /\ beat[v] \in 0..RenewEvery
        BY <1>8, <3>1, <1>t DEF Tick, RenewalDue, TypeOK
    <3>3. beat[v] < RenewEvery
        BY <3>2
    <3>4. beat'[v] = beat[v] + 1
        BY <1>8, <3>1, <3>3 DEF Tick, TimePasses
    <3> QED BY <3>1, <3>3, <3>4
  <2>2. job'[i].age \in {job[i].age, job[i].age + 1} /\ job'[i].token = job[i].token
    BY <1>8, <2>1, <1>g, <1>f, AgedRow DEF Tick, TimePasses
  <2> QED BY <2>1, <2>2, <1>g, <1>f DEF Holds
<1>9. ASSUME Stall PROVE FALSE
    BY <1>9, <1>t DEF Stall, Fault, TypeOK
<1>10. ASSUME NEW w \in Worker,
              \/ Poll(w) \/ FindCandidates(w) \/ HandlerReturns(w) \/ HandlerThrows(w) \/ FailRead(w)
              \/ \E j \in Jobs : ClaimLost(w, j)
       PROVE  Holds(v)' /\ job'[held'[v].id].age <= beat'[v] + MaxStall
  <2>1. pc[v] = "work" /\ faults = 0 /\ held' = held /\ beat' = beat /\ job' = job
    BY <1>10, <1>t DEF Poll, FindCandidates, HandlerReturns, HandlerThrows, FailRead, ClaimLost,
        rows, work, TypeOK
  <2> QED BY <1>s, <2>1
<1>11. ASSUME NEW r \in Requester,
              Conflict(r) \/ LookupAgain(r) \/ \E k \in Key \cup {None} : Lookup(r, k)
       PROVE  Holds(v)' /\ job'[held'[v].id].age <= beat'[v] + MaxStall
  <2>1. pc[v] = "work" /\ faults = 0 /\ held' = held /\ beat' = beat /\ job' = job
    BY <1>11 DEF Conflict, LookupAgain, Lookup, rows, work
  <2> QED BY <1>s, <2>1
<1>12. ASSUME UNCHANGED vars
       PROVE  Holds(v)' /\ job'[held'[v].id].age <= beat'[v] + MaxStall
    BY <1>12, <1>s DEF vars, rows, work
<1> QED
    BY <1>1, <1>2, <1>3, <1>4, <1>5, <1>6, <1>7, <1>8, <1>9, <1>10, <1>11, <1>12
       DEF Next, Step, Enqueue

\* As long as nothing fails and no timer is late, renewAiJobLease keeps a handler's job for it.
THEOREM WorkGoesUndisturbed == Spec => []WorkIsUndisturbed
<1>1. Init => QueueInv /\ Undisturbed
    BY InvInit DEF Init, Undisturbed
<1>2. QueueInv /\ Undisturbed /\ [Next]_vars => QueueInv' /\ Undisturbed'
    BY InvStep, UndisturbedStep
<1>3. Undisturbed => WorkIsUndisturbed
    BY DEF Undisturbed, WorkIsUndisturbed
<1> QED BY <1>1, <1>2, <1>3, PTL DEF Spec

-----------------------------------------------------------------------------
\* The refinement

LEMMA LeasedInit == Init => Leased!QueueInit
    BY DEF Init, NoRow, Unfinished, Leased!QueueInit

\* Every step of the queue is a step of the leased queue, or leaves it as it is.
LEMMA LeasedStep == QueueInv /\ [Next]_vars => [Leased!QueueNext]_(Leased!qvars)
<1> SUFFICES ASSUME QueueInv, [Next]_vars PROVE [Leased!QueueNext]_(Leased!qvars)
    OBVIOUS
<1> DEFINE stage == [j \in Jobs |-> IF Unfinished(j) THEN "open" ELSE job[j].status]
           holder == [j \in Jobs |-> IF job[j].status = "running" THEN claimant[j] ELSE None]
           tries == [j \in Jobs |-> job[j].attempts]
<1>t. RowShape /\ None \notin Worker
    BY Constants DEF QueueInv
<1>1. CASE KeepAll
    BY <1>1 DEF KeepAll, Kept, Leased!qvars, Unfinished
<1>2. CASE DropSome
  <2> DEFINE S == {j \in Jobs : Dropped(j)}
  <2>1. S \in SUBSET Jobs
    OBVIOUS
  <2>2. \A j \in S : holder[j] # None
    BY <1>t DEF Dropped, RowShape
  <2>3. holder' = [j \in Jobs |-> IF j \in S THEN None ELSE holder[j]]
    BY <1>2 DEF DropSome, Kept, Dropped
  <2>4. stage' = [j \in Jobs |-> IF j \in S /\ tries[j] = MaxAttempts THEN "failed" ELSE stage[j]]
    BY <1>2, Constants DEF DropSome, Kept, Dropped, Unfinished
  <2>5. tries' = tries
    BY <1>2 DEF DropSome, Kept, Dropped
  <2> QED BY <2>1, <2>2, <2>3, <2>4, <2>5 DEF Leased!QueueNext, Leased!Drop
<1>3. CASE ClaimOne
  <2>1. PICK j \in Jobs, w \in Worker :
            /\ job[j].status = "queued" /\ job'[j].status = "running"
            /\ job'[j].attempts = job[j].attempts + 1 /\ claimant'[j] = w
            /\ \A i \in Jobs \ {j} : Kept(i)
    BY <1>3 DEF ClaimOne
  <2>2. stage[j] = "open" /\ holder[j] = None /\ tries[j] < MaxAttempts
    BY <2>1, <1>t DEF Unfinished, RowShape
  <2>3. holder' = [holder EXCEPT ![j] = w] /\ tries' = [tries EXCEPT ![j] = @ + 1] /\ stage' = stage
    BY <2>1 DEF Kept, Unfinished
  <2> QED BY <2>1, <2>2, <2>3 DEF Leased!QueueNext, Leased!Take
<1>4. CASE FinishOne
  <2>1. PICK j \in Jobs :
            /\ job[j].status = "running" /\ job'[j].status = "succeeded"
            /\ job'[j].attempts = job[j].attempts
            /\ \A i \in Jobs \ {j} : Kept(i)
    BY <1>4 DEF FinishOne
  <2>2. holder[j] = claimant[j] /\ claimant[j] \in Worker
    BY <2>1, <1>t DEF RowShape
  <2>3. holder' = [holder EXCEPT ![j] = None] /\ stage' = [stage EXCEPT ![j] = "succeeded"]
        /\ tries' = tries
    BY <2>1 DEF Kept, Unfinished
  <2> QED BY <2>2, <2>3 DEF Leased!QueueNext, Leased!Succeed
<1>5. CASE CreateOne
  <2>1. PICK j \in Jobs :
            /\ job[j].status = "absent" /\ job'[j].status = "queued" /\ job'[j].attempts = 0
            /\ \A i \in Jobs \ {j} : Kept(i)
    BY <1>5 DEF CreateOne
  <2>2. stage[j] = "absent" /\ tries[j] = 0
    BY <2>1, <1>t DEF Unfinished, RowShape
  <2>3. stage' = [stage EXCEPT ![j] = "open"] /\ holder' = holder /\ tries' = tries
    BY <2>1, <2>2 DEF Kept, Unfinished
  <2> QED BY <2>2, <2>3 DEF Leased!QueueNext, Leased!Add
<1> QED BY <1>1, <1>2, <1>3, <1>4, <1>5, RowSteps

\* The table and its statements implement the abstract queue with leases.
THEOREM ImplementsLeases == Spec => ImplementsLeasedQueue
<1>1. Init => Leased!QueueInit
    BY LeasedInit
<1>2. QueueInv /\ [Next]_vars => [Leased!QueueNext]_(Leased!qvars)
    BY LeasedStep
<1> QED BY <1>1, <1>2, QueueInvariance, PTL DEF Spec, ImplementsLeasedQueue, Leased!QueueSpec
-----------------------------------------------------------------------------
(***************************************************************************)
(* The leases of the background tasks (SingletonTask), for any number of   *)
(* runners and processes, any lease, pause and transaction time, and any   *)
(* number of faults.                                                       *)
(***************************************************************************)

\* How much closer than minIntervalMs two runs may be recorded.
Slack == IF Transactional THEN TxTimeout ELSE 0

\* A lease in the row is the last one that was given, and was given after the pause.
LeaseIsLatest == taskRow.lease # NoLease => latest = taskRow.lease /\ taskRow.rest <= 0

\* What is left of the pause tells how long ago the last run was recorded.
PauseIsKept == quiet = MinInterval \/ taskRow.rest >= MinInterval - quiet - Slack

\* Only a statement under way has an old NOW(); without a transaction none is old at
\* the completion.
AgesAreFresh ==
    /\ \A r \in Runner : ~ Task!Ageing(r) => taskAge[r] = 0
    /\ ~ Transactional => \A r \in Runner : taskPc[r] \notin {"begin"} \cup Task!InTransaction

TaskInv == Task!TypeOK /\ LeaseIsLatest /\ PauseIsKept /\ AgesAreFresh

-----------------------------------------------------------------------------

\* SingletonConstants, spelled out for the provers.
LEMMA TaskConstants ==
    ASSUME Task!SingletonConstants
    PROVE
    /\ NoLease \notin Runner
    /\ Transactional \in BOOLEAN
    /\ TaskLease \in Nat /\ MinInterval \in Nat /\ TxTimeout \in Nat /\ MaxTaskFaults \in Nat
    /\ HeartbeatEvery \in Nat /\ HeartbeatEvery > 0
  BY DEF Task!SingletonConstants

LEMMA TaskInit == ASSUME Task!SingletonConstants, Task!Init PROVE TaskInv
  BY TaskConstants DEF Task!Init, Task!RowRecord, Task!Owners, TaskInv, Task!TypeOK, LeaseIsLatest, PauseIsKept, AgesAreFresh, Task!NoRow, Task!Floor,
     Task!Ageing, Task!InTransaction

\* What the type of the row says of its fields.
LEMMA TaskRowFields ==
    ASSUME Task!SingletonConstants, taskRow \in Task!RowRecord
    PROVE  /\ taskRow.owner \in Task!Owners /\ taskRow.lease \in Runner \cup {NoLease}
           /\ taskRow.left \in Int /\ Task!Floor <= taskRow.left /\ taskRow.left <= TaskLease
           /\ taskRow.rest \in Int /\ Task!Floor <= taskRow.rest /\ taskRow.rest <= MinInterval
           /\ Task!Floor \in Int /\ Task!Floor = 0 - TxTimeout
  BY TaskConstants DEF Task!RowRecord, Task!Floor

\* The row of a claim.
LEMMA TaskClaimed ==
    ASSUME Task!SingletonConstants, taskRow \in Task!RowRecord, NEW r \in Runner, NEW a \in 0..TxTimeout,
           taskRow' = [taskRow EXCEPT !.owner = Owner[r], !.lease = r, !.left = TaskLease - a]
    PROVE  taskRow' \in Task!RowRecord /\ taskRow'.lease = r /\ taskRow'.rest = taskRow.rest
<1>1. TaskLease - a \in Task!Floor..TaskLease /\ Owner[r] \in Task!Owners
  BY TaskRowFields, TaskConstants DEF Task!Owners
<1> QED
  BY <1>1 DEF Task!RowRecord

\* The row of a renewal.
LEMMA TaskRenewed ==
    ASSUME Task!SingletonConstants, taskRow \in Task!RowRecord, taskRow' = [taskRow EXCEPT !.left = TaskLease]
    PROVE  taskRow' \in Task!RowRecord /\ taskRow'.lease = taskRow.lease /\ taskRow'.rest = taskRow.rest
<1>1. TaskLease \in Task!Floor..TaskLease
  BY TaskRowFields, TaskConstants
<1> QED
  BY <1>1 DEF Task!RowRecord

\* The row of a failure.
LEMMA TaskReleased ==
    ASSUME Task!SingletonConstants, taskRow \in Task!RowRecord, taskRow' = Task!Released
    PROVE  taskRow' \in Task!RowRecord /\ taskRow'.lease = NoLease /\ taskRow'.rest = taskRow.rest
<1>1. Task!Floor \in Task!Floor..TaskLease
  BY TaskRowFields, TaskConstants
<1> QED
  BY <1>1 DEF Task!RowRecord, Task!Released

\* The row of a completion.
LEMMA TaskCompleted ==
    ASSUME Task!SingletonConstants, taskRow \in Task!RowRecord, NEW r \in Runner, taskAge[r] \in 0..TxTimeout, taskRow' = Task!Completed(r)
    PROVE  taskRow' \in Task!RowRecord /\ taskRow'.lease = NoLease /\ taskRow'.rest = MinInterval - taskAge[r]
<1>1. Task!Floor \in Task!Floor..TaskLease /\ MinInterval - taskAge[r] \in Task!Floor..MinInterval
  BY TaskRowFields, TaskConstants
<1> QED
  BY <1>1 DEF Task!RowRecord, Task!Released, Task!Completed

\* The row a tick later.
LEMMA TaskLater ==
    ASSUME Task!SingletonConstants, taskRow \in Task!RowRecord, taskRow' = [taskRow EXCEPT !.left = Task!Down(@), !.rest = Task!Down(@)]
    PROVE  /\ taskRow' \in Task!RowRecord /\ taskRow'.lease = taskRow.lease
           /\ taskRow'.rest = IF taskRow.rest > Task!Floor THEN taskRow.rest - 1 ELSE Task!Floor
<1>1. Task!Down(taskRow.left) \in Task!Floor..TaskLease /\ Task!Down(taskRow.rest) \in Task!Floor..MinInterval
  BY TaskRowFields, TaskConstants DEF Task!Down
<1> QED
  BY <1>1 DEF Task!RowRecord, Task!Down

\* The statements of a call keep the invariant.
LEMMA TaskRun == ASSUME Task!SingletonConstants, TaskInv, NEW r \in Runner, Task!Run(r) PROVE TaskInv'
<1>a. taskRow \in Task!RowRecord /\ taskAge[r] \in 0..TxTimeout
  BY DEF TaskInv, Task!TypeOK
<1> USE TaskConstants, <1>a, TaskRowFields DEF TaskInv, Task!TypeOK, LeaseIsLatest, PauseIsKept, AgesAreFresh, Task!Ageing,
        Task!InTransaction, Task!Floor, Slack
<1>1. CASE Task!Ask(r)
  BY <1>1 DEF Task!Ask
<1>2. CASE Task!TryClaim(r)
  <2>1. /\ taskRow.rest + taskAge[r] <= 0 /\ taskRow' \in Task!RowRecord
        /\ taskRow'.lease = r /\ taskRow'.rest = taskRow.rest
    BY <1>2, TaskClaimed DEF Task!TryClaim, Task!Claimable
  <2>2. Task!TypeOK'
    BY <1>2, <2>1 DEF Task!TryClaim
  <2>3. LeaseIsLatest' /\ PauseIsKept'
    BY <1>2, <2>1 DEF Task!TryClaim
  <2>4. AgesAreFresh'
    BY <1>2 DEF Task!TryClaim
  <2> QED
    BY <2>2, <2>3, <2>4
<1>3. CASE Task!Skip(r)
  BY <1>3 DEF Task!Skip
<1>4. CASE Task!Fail(r)
  BY <1>4, TaskReleased DEF Task!Fail
<1>5. CASE Task!Renew(r)
  BY <1>5, TaskRenewed DEF Task!Renew
<1>6. CASE Task!TaskReturns(r)
  BY <1>6 DEF Task!TaskReturns
<1>7. CASE Task!Complete(r)
  BY <1>7, TaskCompleted DEF Task!Complete, Task!Holds
<1>8. CASE Task!CompleteRefused(r)
  BY <1>8 DEF Task!CompleteRefused
<1>9. CASE Task!Begin(r)
  BY <1>9 DEF Task!Begin
<1>10. CASE Task!LockLease(r)
  BY <1>10 DEF Task!LockLease
<1>11. CASE Task!Commit(r)
  BY <1>11, TaskCompleted DEF Task!Commit, Task!Holds
<1> QED
  BY <1>1, <1>2, <1>3, <1>4, <1>5, <1>6, <1>7, <1>8, <1>9, <1>10, <1>11 DEF Task!Run

\* So do faults and time.
LEMMA TaskFault ==
    ASSUME Task!SingletonConstants, TaskInv,
           \/ \E r \in Runner : Task!Throws(r) \/ Task!RenewFails(r) \/ Task!Crash(r)
           \/ Task!Tick \/ Task!Stall
    PROVE  TaskInv'
<1> USE TaskConstants DEF TaskInv, Task!TypeOK, LeaseIsLatest, PauseIsKept, AgesAreFresh, Task!Ageing,
        Task!InTransaction, Task!Floor, Slack
<1>1. CASE \E r \in Runner : Task!Throws(r)
  BY <1>1 DEF Task!Throws, Task!Fault
<1>2. CASE \E r \in Runner : Task!RenewFails(r)
  BY <1>2 DEF Task!RenewFails, Task!Fault
<1>3. CASE \E r \in Runner : Task!Crash(r)
  BY <1>3 DEF Task!Crash, Task!Fault
<1>4. ASSUME Task!TimePasses, taskFaults' \in 0..MaxTaskFaults PROVE TaskInv'
  <2>1. taskRow \in Task!RowRecord
    BY DEF TaskInv, Task!TypeOK
  <2> QED
    BY <1>4, <2>1, TaskRowFields, TaskLater DEF Task!TimePasses
<1>5. CASE Task!Tick
  BY <1>4, <1>5 DEF Task!Tick
<1>6. CASE Task!Stall
  BY <1>4, <1>6 DEF Task!Stall, Task!Fault
<1> QED
  BY <1>1, <1>2, <1>3, <1>5, <1>6

LEMMA TaskNext == ASSUME Task!SingletonConstants, TaskInv, [Task!Next]_(Task!vars) PROVE TaskInv'
<1>1. CASE UNCHANGED Task!vars
  BY <1>1 DEF TaskInv, Task!TypeOK, LeaseIsLatest, PauseIsKept, AgesAreFresh, Task!Ageing, Task!vars
<1>2. CASE Task!Next
  BY <1>2, TaskRun, TaskFault DEF Task!Next
<1> QED
  BY <1>1, <1>2

\* The inductive invariant, of which the theorems below are consequences.
THEOREM SingletonInvariance == ASSUME Task!SingletonConstants PROVE Task!Spec => []TaskInv
<1>1. Task!Init => TaskInv
  BY TaskInit
<1>2. TaskInv /\ [Task!Next]_(Task!vars) => TaskInv'
  BY TaskNext
<1> QED
  BY <1>1, <1>2, PTL DEF Task!Spec

\* Every variable keeps its type; in particular no time leaves its range.
THEOREM SingletonTyped == ASSUME Task!SingletonConstants PROVE Task!Spec => []Task!TypeOK
  BY SingletonInvariance, PTL DEF TaskInv

\* A call recorded as the last run was not joined by another behind it.
THEOREM RecordedRunsAreAlone == ASSUME Task!SingletonConstants PROVE Task!Spec => RanAlone
<1>1. TaskInv /\ [Task!Next]_(Task!vars) => [\A r \in Runner : (Task!Complete(r) \/ Task!Commit(r)) => latest = r]_(Task!vars)
  BY TaskConstants DEF TaskInv, LeaseIsLatest, Task!Complete, Task!Commit, Task!Holds
<1> QED
  BY <1>1, SingletonInvariance, PTL DEF Task!Spec, RanAlone, Task!RanAlone

\* Recorded runs are minIntervalMs apart, less the time a transaction may stay open.
THEOREM RecordedRunsArePaced == ASSUME Task!SingletonConstants PROVE Task!Spec => RunsArePaced
<1>1. TaskInv /\ [Task!Next]_(Task!vars) =>
        [\A r \in Runner : (Task!Complete(r) \/ Task!Commit(r)) =>
            quiet + (IF Transactional THEN TxTimeout ELSE 0) >= MinInterval]_(Task!vars)
  <2> SUFFICES ASSUME TaskInv, NEW r \in Runner, Task!Complete(r) \/ Task!Commit(r)
               PROVE  quiet + Slack >= MinInterval
    BY DEF Slack
  <2>1. taskRow.lease # NoLease
    BY TaskConstants DEF Task!Complete, Task!Commit, Task!Holds
  <2> QED
    BY <2>1, TaskConstants, TaskRowFields DEF TaskInv, Task!TypeOK, LeaseIsLatest, PauseIsKept, Slack
<1> QED
  BY <1>1, SingletonInvariance, PTL DEF Task!Spec, RunsArePaced, Task!RunsArePaced

\* Only its own call ends or replaces a lease that has not expired.
THEOREM LiveLeasesAreRespected == ASSUME Task!SingletonConstants PROVE Task!Spec => Task!LiveLeaseIsRespected
<1> DEFINE Respected ==
      taskRow.lease # NoLease /\ taskRow.left > 0 /\ taskRow'.lease # taskRow.lease
         => taskPc[taskRow.lease] # taskPc'[taskRow.lease] \/ taskPc[taskRow.lease] \in {"idle", "over"}
<1>1. ASSUME TaskInv, [Task!Next]_(Task!vars) PROVE Respected
  <2> USE <1>1, TaskConstants, TaskRowFields DEF TaskInv, Task!TypeOK
  <2>1. ASSUME NEW r \in Runner, Task!Run(r) PROVE Respected
    <3>1. CASE Task!TryClaim(r)
      BY <3>1 DEF Task!TryClaim, Task!Claimable
    <3>2. CASE Task!Fail(r)
      BY <3>2 DEF Task!Fail, Task!Holds, Task!Completed, Task!Released
    <3>3. CASE Task!Complete(r)
      BY <3>3 DEF Task!Complete, Task!Holds, Task!Completed, Task!Released
    <3>4. CASE Task!Commit(r)
      BY <3>4 DEF Task!Commit, Task!Holds, Task!Completed, Task!Released
    <3>5. CASE Task!Renew(r)
      BY <3>5 DEF Task!Renew
    <3> QED
      BY <2>1, <3>1, <3>2, <3>3, <3>4, <3>5
         DEF Task!Run, Task!Ask, Task!Skip, Task!TaskReturns, Task!CompleteRefused, Task!Begin, Task!LockLease
  <2>2. CASE UNCHANGED Task!vars
    BY <2>2 DEF Task!vars
  <2>3. ASSUME NEW r \in Runner, Task!Throws(r) \/ Task!RenewFails(r) \/ Task!Crash(r) PROVE Respected
    BY <2>3 DEF Task!Throws, Task!RenewFails, Task!Crash
  <2>4. CASE Task!Tick \/ Task!Stall
    <3>1. taskRow'.lease = taskRow.lease
      BY <2>4 DEF Task!Tick, Task!Stall, Task!TimePasses, Task!RowRecord
    <3> QED
      BY <3>1
  <2> QED
    BY <2>1, <2>2, <2>3, <2>4 DEF Task!Next
<1>2. TaskInv /\ [Task!Next]_(Task!vars) => [Respected]_(Task!vars)
  BY <1>1
<1> QED
  BY <1>2, SingletonInvariance, PTL DEF Task!Spec, Task!LiveLeaseIsRespected

\* The row lock is with the transaction at work, and with one whose lease holds.
LockIsHeld ==
    /\ \A r \in Runner : taskPc[r] = "effect" => locker = r
    /\ locker # NoLease => taskPc[locker] = "effect" /\ Task!Holds(locker)

LEMMA LockStep ==
    ASSUME Task!SingletonConstants, TaskInv, LockIsHeld, [Task!Next]_(Task!vars) PROVE LockIsHeld'
<1> USE TaskConstants DEF TaskInv, Task!TypeOK, LockIsHeld, Task!Holds
<1>1. locker \in Runner \cup {NoLease} /\ NoLease \notin Runner
  OBVIOUS
<1>2. ASSUME NEW r \in Runner, Task!Run(r) PROVE LockIsHeld'
  <2>1. CASE Task!Ask(r) \/ Task!Skip(r) \/ Task!TaskReturns(r) \/ Task!CompleteRefused(r) \/ Task!Begin(r)
    BY <2>1 DEF Task!Ask, Task!Skip, Task!TaskReturns, Task!CompleteRefused, Task!Begin
  <2>2. CASE Task!TryClaim(r) \/ Task!Fail(r) \/ Task!LockLease(r)
    BY <2>2 DEF Task!TryClaim, Task!Fail, Task!LockLease
  <2>3. CASE Task!Renew(r)
    BY <2>3 DEF Task!Renew, Task!HeartbeatDue
  <2>4. CASE Task!Complete(r)
    BY <2>4 DEF Task!Complete
  <2>5. CASE Task!Commit(r)
    BY <2>5 DEF Task!Commit
  <2> QED BY <1>2, <2>1, <2>2, <2>3, <2>4, <2>5 DEF Task!Run
<1>3. ASSUME NEW r \in Runner, Task!Throws(r) \/ Task!RenewFails(r) \/ Task!Crash(r) PROVE LockIsHeld'
  BY <1>3 DEF Task!Throws, Task!RenewFails, Task!Crash, Task!HeartbeatDue
<1>4. ASSUME Task!TimePasses PROVE LockIsHeld'
  <2>1. locker' = locker /\ \A r \in Runner : taskPc[r] = "effect" <=> taskPc'[r] = "effect"
    BY <1>4 DEF Task!TimePasses
  <2>2. ASSUME locker # NoLease PROVE Task!Holds(locker)'
    <3>1. locker \in Runner /\ taskPc[locker] = "effect" /\ taskAge[locker] \in 0..TxTimeout
      BY <1>1, <2>2
    <3>2. taskAge'[locker] = taskAge[locker] + 1
      BY <1>4, <3>1 DEF Task!TimePasses, Task!Ageing, Task!InTransaction
    <3>3. taskRow'.owner = taskRow.owner /\ taskRow'.lease = taskRow.lease
          /\ taskRow'.left = Task!Down(taskRow.left)
      BY <1>4 DEF Task!TimePasses, Task!RowRecord
    <3>4. taskRow.left + taskAge[locker] > 0
      BY <2>2
    <3>5. Task!Down(taskRow.left) = taskRow.left - 1
      BY <3>1, <3>4, TaskRowFields DEF Task!Down
    <3>6. taskRow'.left + taskAge'[locker] > 0
      BY <3>1, <3>2, <3>3, <3>4, <3>5, TaskRowFields
    <3> QED BY <2>1, <2>2, <3>3, <3>6
  <2> QED BY <1>1, <2>1, <2>2
<1>5. CASE UNCHANGED Task!vars
  BY <1>5 DEF Task!vars
<1> QED BY <1>2, <1>3, <1>4, <1>5 DEF Task!Next, Task!Tick, Task!Stall

\* The row is locked by the transaction of the call that holds the lease, so that a
\* completion inside a transaction never finds the lease gone.
THEOREM RowLockIsOwned == ASSUME Task!SingletonConstants PROVE Task!Spec => []Task!LockerOwnsRow
<1>1. Task!Init => LockIsHeld
  BY TaskConstants DEF Task!Init, LockIsHeld
<1>2. TaskInv /\ LockIsHeld /\ [Task!Next]_(Task!vars) => LockIsHeld'
  BY LockStep
<1>3. LockIsHeld => Task!LockerOwnsRow
  BY DEF LockIsHeld, Task!LockerOwnsRow, Task!Holds
<1> QED
  BY <1>1, <1>2, <1>3, SingletonInvariance, PTL DEF Task!Spec
=============================================================================
