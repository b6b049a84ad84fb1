---------------------------- MODULE VoiceProofs ----------------------------
(***************************************************************************)
(* Theorems about VoiceSession, for any members, moderators and webhook    *)
(* handlers, any limit and strategy and any use of tokens and commands.    *)
(*                                                                         *)
(* A request reads the rows in one step and writes in another.  The heart  *)
(* of the invariant is ReadsAreTrue: while nobody has raced, what a        *)
(* request under way has read and is not marked stale for is still so - a  *)
(* seat is free, nobody is ahead, the one who leaves held a seat, the list *)
(* of a promotion fits the free seats and is the head of the queue.  Then  *)
(* the limit holds (LimitInv), and a seat that is free beside a queue is   *)
(* being given away (SeatInv).                                             *)
(***************************************************************************)
EXTENDS VoiceSession, FiniteSetTheorems, SequenceTheorems, TLAPS

Speaking == Active(row)
Queue == Waiting(row)

RowType == [role : Roles, joined : Nat, left : BOOLEAN, muted : BOOLEAN]
AskType == [step : {"idle", "decided"}, role : Roles, pub : BOOLEAN]
ModType ==
    [step : {"idle", "counted", "command"}, who : Members \cup {"none"},
     kind : {"none", "approve", "deny", "mute", "unmute", "kick"}]
WorkType ==
    [step : {"idle", "read", "written", "listed", "unmuted"}, who : Members \cup {"none"},
     left : BOOLEAN, pub : BOOLEAN, role : Roles, was : BOOLEAN, list : SUBSET Members,
     next : Members \cup {"none"}]
HookType == [who : Members, left : BOOLEAN, pub : BOOLEAN]

Known == {w \in Members : row[w].role # "none"}

VoiceTypes ==
    /\ row \in [Members -> RowType]
    /\ \A w \in Members : row[w].joined <= clock /\ (row[w].role = "none" => row[w].joined = 0)
    /\ status \in {"active", "expired", "ended"}
    /\ clock \in Nat /\ clock <= Cardinality(Known)
    /\ room \in [Members -> {"out", "listening", "publishing"}]
    /\ grants \in [Members -> SUBSET BOOLEAN]
    /\ hooks \in [Members -> Seq(HookType)]
    /\ \A w \in Members : Len(hooks[w]) <= MaxHooks
    /\ asked \in 0 .. MaxRequests
    /\ causes \subseteq Causes

\* What a request under way knows of whom it is about.
Requests ==
    /\ ask \in [Members -> AskType] /\ mod \in [Moderators -> ModType]
    /\ work \in [Workers -> WorkType]
    /\ \A w \in Members : /\ ask[w].pub => ask[w].role = "speaker"
                          /\ ask[w].step = "decided" => ask[w].role # "none"
    /\ \A m \in Moderators : mod[m].step # "idle" => mod[m].who \in Members
    /\ \A k \in Workers : /\ work[k].step # "idle" => work[k].who \in Members
                          /\ work[k].step = "read" => work[k].role # "none"
                          /\ work[k].step = "unmuted" => work[k].next \in work[k].list

\* What a request that nobody disturbed has read is still so.
AskTrue(w) ==
    /\ ask[w].pub =>
         /\ Cardinality(Speaking \ {w}) < MaxSpeakers
         /\ Strategy = "queue" => \A v \in Queue \ {w} : ~Sooner(v, w)
    /\ ask[w].role = "queued" /\ Strategy = "queue" =>
         Cardinality(Speaking \ {w}) >= MaxSpeakers \/ Queue \ {w} # {}

ModTrue(m) == Cardinality(Speaking \ {mod[m].who}) < MaxSpeakers

ListTrue(k) ==
    /\ work[k].list \subseteq Queue
    /\ NextOnes(work[k].list)
    /\ Cardinality(Speaking) + Cardinality(work[k].list) <= MaxSpeakers
    /\ Cardinality(Speaking) + Cardinality(work[k].list) = MaxSpeakers \/ work[k].list = Queue
    /\ work[k].step = "unmuted" => \A v \in work[k].list : ~Sooner(v, work[k].next)

WorkTrue(k) ==
    IF work[k].step = "read" THEN work[k].was <=> work[k].who \in Speaking ELSE ListTrue(k)

ReadsAreTrue ==
    /\ \A w \in Members : ask[w].step = "decided" /\ <<"ask", w>> \notin stale => AskTrue(w)
    /\ \A m \in Moderators : mod[m].step = "counted" /\ <<"mod", m>> \notin stale => ModTrue(m)
    /\ \A k \in Workers :
          work[k].step \in {"read", "listed", "unmuted"} /\ <<"work", k>> \notin stale => WorkTrue(k)

Promoting == \E k \in Workers : work[k].step \in {"written", "listed", "unmuted"}

LimitInv ==
    causes \cap {"raced", "unmuted", "rejoined"} = {} => Cardinality(Speaking) <= MaxSpeakers

SeatInv ==
    /\ Strategy = "queue" /\ Cardinality(Speaking) < MaxSpeakers /\ Queue # {}
    /\ causes \cap {"raced", "moderated", "stepped", "demoted", "resumed", "unreachable"} = {}
    => Promoting

VoiceInv ==
    /\ VoiceTypes /\ Requests /\ stale \subseteq Pending
    /\ "raced" \notin causes => ReadsAreTrue
    /\ LimitInv /\ SeatInv

-----------------------------------------------------------------------------
LEMMA Constants ==
    ASSUME VoiceConstants
    PROVE  /\ IsFiniteSet(Members) /\ MaxSpeakers \in Nat /\ MaxSpeakers > 0
           /\ MaxHooks \in Nat /\ MaxHooks > 0 /\ MaxRequests \in Nat
           /\ Allowed \subseteq BOOLEAN
  BY DEF VoiceConstants

LEMMA SizeOfMembers ==
    ASSUME VoiceConstants, NEW S, S \subseteq Members
    PROVE  IsFiniteSet(S) /\ Cardinality(S) \in Nat
  BY Constants, FS_Subset, FS_CardinalityType

\* One row is written.
LEMMA RowWritten ==
    ASSUME VoiceConstants, VoiceTypes, NEW w \in Members, NEW x \in RowType, x.role # "none",
           row' = [row EXCEPT ![w] = x], clock' = clock,
           IF row[w].role = "none" THEN x.joined <= clock ELSE x.joined = row[w].joined
    PROVE  /\ row' \in [Members -> RowType]
           /\ \A v \in Members : row'[v].joined <= clock' /\ (row'[v].role = "none" => row'[v].joined = 0)
           /\ clock' \in Nat /\ clock' <= Cardinality(Known')
<1> USE DEF VoiceTypes
<1>1. row' \in [Members -> RowType]
  OBVIOUS
<1>2. \A v \in Members : row'[v].joined <= clock' /\ (row'[v].role = "none" => row'[v].joined = 0)
  OBVIOUS
<1>3. Known \subseteq Known' /\ Known' \subseteq Members
  BY DEF Known
<1>4. Cardinality(Known) <= Cardinality(Known')
  BY <1>3, SizeOfMembers, FS_Subset
<1>5. Cardinality(Known) \in Nat /\ Cardinality(Known') \in Nat
  BY <1>3, SizeOfMembers
<1> QED BY <1>1, <1>2, <1>4, <1>5

LEMMA RowCreated ==
    ASSUME VoiceConstants, VoiceTypes, NEW w \in Members, NEW x \in RowType, x.role # "none",
           row' = [row EXCEPT ![w] = x], row[w].role = "none", clock' = clock + 1, x.joined = clock'
    PROVE  /\ row' \in [Members -> RowType]
           /\ \A v \in Members : row'[v].joined <= clock' /\ (row'[v].role = "none" => row'[v].joined = 0)
           /\ clock' \in Nat /\ clock' <= Cardinality(Known')
<1> USE DEF VoiceTypes
<1>1. row' \in [Members -> RowType]
  OBVIOUS
<1>2. \A v \in Members : row'[v].joined <= clock' /\ (row'[v].role = "none" => row'[v].joined = 0)
  <2> TAKE v \in Members
  <2>1. row[v].joined \in Nat /\ row[v].joined <= clock
    BY DEF RowType
  <2> QED BY <2>1
<1>3. Known' = Known \cup {w} /\ w \notin Known
  BY DEF Known
<1>4. IsFiniteSet(Known) /\ Cardinality(Known) \in Nat
  BY SizeOfMembers DEF Known
<1>5. Cardinality(Known') = Cardinality(Known) + 1
  BY <1>3, <1>4, FS_AddElement
<1> QED BY <1>1, <1>2, <1>4, <1>5

\* The part of VoiceTypes that a row's write can change.
RowTypes ==
    /\ row \in [Members -> RowType]
    /\ \A v \in Members : row[v].joined <= clock /\ (row[v].role = "none" => row[v].joined = 0)
    /\ clock \in Nat /\ clock <= Cardinality(Known)

\* How each handler leaves the row it writes: who it was about, and the first joinedAt.
RowStep(w, x) ==
    /\ w \in Members /\ x \in RowType /\ x.role # "none"
    /\ row' = [row EXCEPT ![w] = x]
    /\ row[w].role # "none" => x.joined = row[w].joined

LEMMA AskWriteRow ==
    ASSUME VoiceTypes, Requests, NEW w \in Members, AskWrite(w)
    PROVE  /\ \E x : RowStep(w, x) /\ x.role = ask[w].role /\ ~x.left /\ (x.muted <=> ~ask[w].pub)
                     /\ (row[w].role = "none" => x.joined = clock + 1)
           /\ clock' = IF row[w].role = "none" THEN clock + 1 ELSE clock
<1> DEFINE new == [role |-> ask[w].role, joined |-> clock + 1, left |-> FALSE, muted |-> ~ask[w].pub]
           x == IF row[w].role = "none" THEN new ELSE [new EXCEPT !.joined = row[w].joined]
<1>1. row' = [row EXCEPT ![w] = x]
  BY DEF AskWrite, Commit, Upsert
<1>2. ask[w] \in AskType /\ ask[w].role # "none" /\ row[w] \in RowType /\ clock + 1 \in Nat
  BY DEF AskWrite, Requests, VoiceTypes
<1>3. x \in RowType
  BY <1>2 DEF RowType, AskType
<1>4. RowStep(w, x) /\ x.role = ask[w].role /\ ~x.left /\ (x.muted <=> ~ask[w].pub)
      /\ (row[w].role = "none" => x.joined = clock + 1)
  BY <1>1, <1>2, <1>3 DEF RowStep
<1> HIDE DEF x
<1> QED BY <1>4 DEF AskWrite

LEMMA ApproveWriteRow ==
    ASSUME VoiceTypes, Requests, NEW m \in Moderators, ApproveWrite(m)
    PROVE  /\ \E x : RowStep(mod[m].who, x) /\ x.role = "speaker" /\ ~x.left /\ ~x.muted
                     /\ (row[mod[m].who].role = "none" => x.joined = clock + 1)
           /\ clock' = IF row[mod[m].who].role = "none" THEN clock + 1 ELSE clock
<1> DEFINE w == mod[m].who
           new == [role |-> "speaker", joined |-> clock + 1, left |-> FALSE, muted |-> FALSE]
           x == IF row[w].role = "none" THEN new ELSE [new EXCEPT !.joined = row[w].joined]
<1>1. w \in Members
  BY DEF ApproveWrite, Requests
<1>2. row' = [row EXCEPT ![w] = x]
  BY <1>1 DEF ApproveWrite, Commit, Upsert
<1>3. row[w] \in RowType /\ clock + 1 \in Nat
  BY <1>1 DEF VoiceTypes
<1>4. x \in RowType
  BY <1>3 DEF RowType, Roles
<1>5. RowStep(w, x) /\ x.role = "speaker" /\ ~x.left /\ ~x.muted /\ (row[w].role = "none" => x.joined = clock + 1)
  BY <1>1, <1>2, <1>4 DEF RowStep
<1>6. clock' = IF row[w].role = "none" THEN clock + 1 ELSE clock
  BY DEF ApproveWrite
<1> HIDE DEF x
<1> QED BY <1>5, <1>6

LEMMA ModerateWriteRow ==
    ASSUME VoiceTypes, Requests, NEW m \in Moderators, NEW w \in Members,
           NEW kind \in {"deny", "mute", "unmute", "kick"}, ModerateWrite(m, kind, w)
    PROVE  /\ \E x : RowStep(w, x) /\ (row[w].role = "none" => x.joined = 0)
                     /\ (x.role = "queued" => row[w].role = "queued" /\ (row[w].left => x.left))
           /\ clock' = clock
<1> DEFINE create == [NoRow EXCEPT !.role = "speaker"]
           old == row[w]
           given(c, u) == IF old.role = "none" THEN c ELSE u
           x == CASE kind = "deny"   -> given([create EXCEPT !.role = "listener", !.muted = TRUE],
                                              [old EXCEPT !.role = "listener", !.muted = TRUE])
                  [] kind = "mute"   -> given([create EXCEPT !.muted = TRUE], [old EXCEPT !.muted = TRUE])
                  [] kind = "unmute" -> given(create, [old EXCEPT !.muted = FALSE])
                  [] kind = "kick"   -> given([create EXCEPT !.left = TRUE], [old EXCEPT !.left = TRUE])
<1>1. row' = [row EXCEPT ![w] = x]
  BY DEF ModerateWrite, Commit, Moderated, Upsert
<1>2. old \in RowType
  BY DEF VoiceTypes
<1>3. /\ x \in RowType /\ x.role # "none"
      /\ x.joined = IF row[w].role = "none" THEN 0 ELSE row[w].joined
      /\ x.role = "queued" => row[w].role = "queued" /\ (row[w].left => x.left)
  <2> USE DEF RowType, Roles, NoRow
  <2>1. CASE old.role = "none"
    BY <1>2, <2>1
  <2>2. CASE old.role # "none"
    BY <1>2, <2>2
  <2> QED BY <2>1, <2>2
<1>4. clock' = clock
  BY DEF ModerateWrite
<1> HIDE DEF x
<1> QED BY <1>1, <1>3, <1>4 DEF RowStep

LEMMA HookWriteRow ==
    ASSUME VoiceTypes, Requests, NEW k \in Workers, HookWrite(k)
    PROVE  /\ \E x : RowStep(work[k].who, x) /\ (x.left <=> work[k].left)
                     /\ (row[work[k].who].role = "none" => x.joined = IF work[k].left THEN 0 ELSE clock + 1)
           /\ clock' = IF row[work[k].who].role = "none" /\ ~work[k].left THEN clock + 1 ELSE clock
<1> DEFINE w == work[k].who
           new == [role |-> work[k].role, left |-> work[k].left, muted |-> ~work[k].pub,
                   joined |-> IF work[k].left THEN 0 ELSE clock + 1]
           x == IF row[w].role = "none" THEN new ELSE [new EXCEPT !.joined = row[w].joined]
<1>1. w \in Members /\ work[k] \in WorkType /\ work[k].role # "none"
  BY DEF HookWrite, Requests
<1>2. row' = [row EXCEPT ![w] = x]
  BY <1>1 DEF HookWrite, Commit, Upsert
<1>3. row[w] \in RowType /\ clock + 1 \in Nat
  BY <1>1 DEF VoiceTypes
<1>4. x \in RowType
  BY <1>1, <1>3 DEF RowType, WorkType
<1>5. RowStep(w, x) /\ (x.left <=> work[k].left)
      /\ (row[w].role = "none" => x.joined = IF work[k].left THEN 0 ELSE clock + 1)
  BY <1>1, <1>2, <1>4 DEF RowStep
<1>6. clock' = IF row[w].role = "none" /\ ~work[k].left THEN clock + 1 ELSE clock
  BY DEF HookWrite
<1> HIDE DEF x
<1> QED BY <1>5, <1>6

LEMMA PromoteUpdateRow ==
    ASSUME VoiceTypes, Requests, NEW k \in Workers, PromoteUpdate(k)
    PROVE  /\ \E x : RowStep(work[k].next, x) /\ x.role = "speaker" /\ ~x.left /\ ~x.muted
                     /\ x.joined = row[work[k].next].joined
           /\ clock' = clock
<1> DEFINE w == work[k].next
           x == [row[w] EXCEPT !.role = "speaker", !.muted = FALSE, !.left = FALSE]
<1>1. work[k] \in WorkType /\ w \in work[k].list
  BY DEF PromoteUpdate, Requests
<1>2. w \in Members
  BY <1>1 DEF WorkType
<1>3. row[w] \in RowType
  BY <1>2 DEF VoiceTypes
<1>4. row' = [row EXCEPT ![w] = x] /\ clock' = clock
  BY DEF PromoteUpdate, Commit
<1>5. x \in RowType
  BY <1>3 DEF RowType, Roles
<1>6. RowStep(w, x) /\ x.role = "speaker" /\ ~x.left /\ ~x.muted /\ x.joined = row[w].joined
  BY <1>2, <1>3, <1>4, <1>5 DEF RowStep, RowType
<1> HIDE DEF x
<1> QED BY <1>4, <1>6

LEMMA RowTypesKept ==
    ASSUME VoiceConstants, VoiceTypes, NEW w, NEW x, RowStep(w, x),
           \/ clock' = clock /\ (row[w].role = "none" => x.joined = 0)
           \/ clock' = clock /\ row[w].role # "none"
           \/ clock' = clock + 1 /\ row[w].role = "none" /\ x.joined = clock + 1
    PROVE  RowTypes'
<1>1. CASE clock' = clock
  <2>1. IF row[w].role = "none" THEN x.joined <= clock ELSE x.joined = row[w].joined
    BY <1>1 DEF RowStep, VoiceTypes
  <2> QED BY <1>1, <2>1, RowWritten DEF RowStep, RowTypes
<1>2. CASE clock' = clock + 1 /\ row[w].role = "none" /\ x.joined = clock + 1
  BY <1>2, RowCreated DEF RowStep, RowTypes
<1> QED BY <1>1, <1>2

-----------------------------------------------------------------------------
\* The other variables.
OtherTypes ==
    /\ status \in {"active", "expired", "ended"}
    /\ room \in [Members -> {"out", "listening", "publishing"}]
    /\ grants \in [Members -> SUBSET BOOLEAN]
    /\ hooks \in [Members -> Seq(HookType)]
    /\ \A w \in Members : Len(hooks[w]) <= MaxHooks
    /\ asked \in 0 .. MaxRequests
    /\ causes \subseteq Causes

LEMMA TypeParts == VoiceTypes <=> RowTypes /\ OtherTypes
  BY DEF VoiceTypes, RowTypes, OtherTypes

LEMMA OneMoreHook ==
    ASSUME OtherTypes, NEW w \in Members, NEW h \in HookType,
           hooks' = [hooks EXCEPT ![w] = Append(@, h)], Bounded(w)
    PROVE  hooks' \in [Members -> Seq(HookType)] /\ \A v \in Members : Len(hooks'[v]) <= MaxHooks
<1>1. Append(hooks[w], h) \in Seq(HookType)
  BY AppendProperties DEF OtherTypes
<1> QED BY <1>1 DEF OtherTypes, Bounded

LEMMA HookIsTyped ==
    ASSUME NEW w \in Members, NEW l \in BOOLEAN, NEW p \in BOOLEAN
    PROVE  Hook(w, l, p) \in HookType
  BY DEF Hook, HookType

LEMMA RequestCounted ==
    ASSUME VoiceConstants, OtherTypes, Request PROVE asked' \in 0 .. MaxRequests
  BY Constants DEF Request, OtherTypes

LEMMA ConnectTypes ==
    ASSUME VoiceConstants, OtherTypes, NEW w \in Members, Connect(w) PROVE OtherTypes'
<1>1. PICK pub \in grants[w] :
        /\ room' = [room EXCEPT ![w] = IF pub THEN "publishing" ELSE "listening"]
        /\ hooks' = [hooks EXCEPT ![w] = @ \o
                       (IF room[w] = "out" THEN <<>> ELSE <<Hook(w, TRUE, Speaks(w))>>)
                       \o <<Hook(w, FALSE, pub)>>]
        /\ Bounded(w)
  BY DEF Connect
<1>2. pub \in BOOLEAN /\ Speaks(w) \in BOOLEAN
  BY DEF OtherTypes, Speaks
<1>3. Hook(w, TRUE, Speaks(w)) \in HookType /\ Hook(w, FALSE, pub) \in HookType
  BY <1>2, HookIsTyped
<1> DEFINE gone == IF room[w] = "out" THEN <<>> ELSE <<Hook(w, TRUE, Speaks(w))>>
<1>4. gone \in Seq(HookType) /\ <<Hook(w, FALSE, pub)>> \in Seq(HookType) /\ hooks[w] \in Seq(HookType)
  <2>1. \A h \in HookType : <<h>> \in Seq(HookType)
    OBVIOUS
  <2>2. <<>> \in Seq(HookType)
    OBVIOUS
  <2>3. gone \in Seq(HookType)
    BY <1>3, <2>1, <2>2, Zenon
  <2> QED BY <1>3, <2>1, <2>3 DEF OtherTypes
<1>5. hooks[w] \o gone \o <<Hook(w, FALSE, pub)>> \in Seq(HookType)
  BY <1>4, ConcatProperties
<1>6. hooks' \in [Members -> Seq(HookType)] /\ \A v \in Members : Len(hooks'[v]) <= MaxHooks
  BY <1>1, <1>5 DEF OtherTypes, Bounded
<1>7. room' \in [Members -> {"out", "listening", "publishing"}]
  BY <1>1 DEF OtherTypes
<1>8. grants' \in [Members -> SUBSET BOOLEAN]
  BY DEF OtherTypes, Connect
<1> QED BY <1>6, <1>7, <1>8 DEF OtherTypes, Connect

LEMMA DisconnectTypes ==
    ASSUME VoiceConstants, OtherTypes, NEW w \in Members, Disconnect(w) PROVE OtherTypes'
<1>1. Hook(w, TRUE, Speaks(w)) \in HookType
  BY HookIsTyped DEF Speaks
<1>2. hooks' \in [Members -> Seq(HookType)] /\ \A v \in Members : Len(hooks'[v]) <= MaxHooks
  BY <1>1, OneMoreHook DEF Disconnect
<1>3. room' \in [Members -> {"out", "listening", "publishing"}]
  BY DEF OtherTypes, Disconnect
<1> QED BY <1>2, <1>3 DEF OtherTypes, Disconnect

LEMMA CommandTypes ==
    ASSUME VoiceConstants, OtherTypes, Requests, NEW m \in Moderators, Command(m) PROVE OtherTypes'
<1> DEFINE w == mod[m].who
<1>1. w \in Members
  BY DEF Command, Requests
<1>2. UNCHANGED <<asked, status, grants, causes>>
  BY DEF Command
<1>3. CASE hooks' = hooks
  <2>1. room' \in [Members -> {"out", "listening", "publishing"}]
    BY DEF OtherTypes, Command, SetPermission
  <2> QED BY <1>2, <1>3, <2>1 DEF OtherTypes
<1>4. CASE hooks' # hooks
  <2>1. /\ room' = [room EXCEPT ![w] = "out"] /\ Bounded(w)
        /\ hooks' = [hooks EXCEPT ![w] = Append(@, Hook(w, TRUE, Speaks(w)))]
    BY <1>4 DEF Command
  <2>2. Hook(w, TRUE, Speaks(w)) \in HookType
    BY <1>1, HookIsTyped DEF Speaks
  <2>3. hooks' \in [Members -> Seq(HookType)] /\ \A v \in Members : Len(hooks'[v]) <= MaxHooks
    BY <1>1, <2>1, <2>2, OneMoreHook
  <2>4. room' \in [Members -> {"out", "listening", "publishing"}]
    BY <2>1 DEF OtherTypes
  <2> QED BY <1>2, <2>3, <2>4 DEF OtherTypes
<1> QED BY <1>3, <1>4

LEMMA HookReadTypes ==
    ASSUME VoiceConstants, OtherTypes, NEW k \in Workers, NEW w \in Members, HookRead(k, w)
    PROVE  OtherTypes'
<1>1. PICK i \in 1 .. Len(hooks[w]) : hooks' = [hooks EXCEPT ![w] = RemoveAt(@, i)]
  BY DEF HookRead
<1> DEFINE s == hooks[w]
<1>2. s \in Seq(HookType) /\ Len(s) \in Nat /\ i \in Nat /\ 1 <= i /\ i <= Len(s)
  BY <1>1 DEF OtherTypes
<1>3. /\ SubSeq(s, 1, i - 1) \in Seq(HookType) /\ Len(SubSeq(s, 1, i - 1)) = i - 1
      /\ SubSeq(s, i + 1, Len(s)) \in Seq(HookType) /\ Len(SubSeq(s, i + 1, Len(s))) = Len(s) - i
  <2>1. \A j \in 1 .. i - 1 : s[j] \in HookType
    BY <1>2
  <2>2. \A j \in i + 1 .. Len(s) : s[j] \in HookType
    BY <1>2
  <2>3. i - 1 \in Int /\ i + 1 \in Int /\ Len(s) \in Int
    BY <1>2
  <2> HIDE DEF s
  <2>4. SubSeq(s, 1, i - 1) \in Seq(HookType) /\ Len(SubSeq(s, 1, i - 1)) = i - 1
    <3>1. Len(SubSeq(s, 1, i - 1)) = IF 1 <= i - 1 THEN i - 1 - 1 + 1 ELSE 0
      BY <2>1, <2>3, SubSeqProperties
    <3>2. SubSeq(s, 1, i - 1) \in Seq(HookType)
      BY <2>1, <2>3, SubSeqProperties
    <3> QED BY <1>2, <3>1, <3>2
  <2>5. SubSeq(s, i + 1, Len(s)) \in Seq(HookType) /\ Len(SubSeq(s, i + 1, Len(s))) = Len(s) - i
    <3>1. Len(SubSeq(s, i + 1, Len(s))) = IF i + 1 <= Len(s) THEN Len(s) - (i + 1) + 1 ELSE 0
      BY <2>2, <2>3, SubSeqProperties
    <3>2. SubSeq(s, i + 1, Len(s)) \in Seq(HookType)
      BY <2>2, <2>3, SubSeqProperties
    <3> QED BY <1>2, <3>1, <3>2
  <2> QED BY <2>4, <2>5
<1>4. RemoveAt(s, i) \in Seq(HookType) /\ Len(RemoveAt(s, i)) <= Len(s)
  <2> DEFINE a == SubSeq(s, 1, i - 1)
             b == SubSeq(s, i + 1, Len(s))
  <2>1. RemoveAt(s, i) = a \o b
    BY DEF RemoveAt
  <2>2. a \in Seq(HookType) /\ b \in Seq(HookType) /\ Len(a) = i - 1 /\ Len(b) = Len(s) - i
    BY <1>3
  <2> HIDE DEF s, a, b
  <2>3. a \o b \in Seq(HookType) /\ Len(a \o b) = Len(a) + Len(b)
    BY <2>2, ConcatProperties
  <2>4. Len(a) + Len(b) <= Len(s)
    BY <1>2, <2>2
  <2> QED BY <2>1, <2>3, <2>4
<1>5. hooks' \in [Members -> Seq(HookType)] /\ \A v \in Members : Len(hooks'[v]) <= MaxHooks
  <2>1. Len(s) <= MaxHooks /\ MaxHooks \in Nat
    BY Constants DEF OtherTypes
  <2>2. RemoveAt(s, i) \in Seq(HookType) /\ Len(RemoveAt(s, i)) <= MaxHooks
    BY <1>2, <1>4, <2>1
  <2> QED BY <1>1, <2>2 DEF OtherTypes
<1> QED BY <1>5 DEF OtherTypes, HookRead

LEMMA CausesOf ==
    ASSUME NEW w, NEW n
    PROVE  /\ Vacates(w, n, "stepped") \subseteq Causes /\ Vacates(w, n, "moderated") \subseteq Causes
           /\ Seats(w, n, "unmuted") \subseteq Causes /\ Seats(w, n, "rejoined") \subseteq Causes
           /\ Vacates(w, n, "demoted") \subseteq Causes
  BY DEF Vacates, Seats, Causes

\* Who commits leaves these variables as they were typed.
LEMMA CommitTypes ==
    ASSUME OtherTypes, NEW r, NEW why, why \subseteq Causes, Commit(r, row', why),
           UNCHANGED <<status, room, hooks>>, grants' \in [Members -> SUBSET BOOLEAN],
           asked' \in 0 .. MaxRequests
    PROVE  OtherTypes'
<1>1. causes' \subseteq Causes
  BY DEF Commit, OtherTypes, Causes
<1> QED BY <1>1 DEF OtherTypes

LEMMA OtherTypesKept ==
    ASSUME VoiceConstants, OtherTypes, Requests, Next PROVE OtherTypes'
<1>1. ASSUME NEW w \in Members, AskDecide(w) PROVE OtherTypes'
  BY <1>1, RequestCounted DEF AskDecide, OtherTypes
<1>2. ASSUME NEW w \in Members, AskWrite(w) PROVE OtherTypes'
  <2>1. \E why : why \subseteq Causes /\ Commit(<<"ask", w>>, row', why)
    BY <1>2, CausesOf DEF AskWrite, Commit
  <2>2. grants' \in [Members -> SUBSET BOOLEAN]
    <3>1. ask[w].pub \in BOOLEAN
      BY DEF Requests, AskType
    <3> QED BY <1>2, <3>1 DEF AskWrite, OtherTypes
  <2> QED BY <1>2, <2>1, <2>2, CommitTypes DEF AskWrite, OtherTypes
<1>3. ASSUME NEW w \in Members, GrantExpires(w) PROVE OtherTypes'
  BY <1>3 DEF GrantExpires, OtherTypes
<1>4. ASSUME NEW m \in Moderators, NEW w \in Members, ApproveCount(m, w) PROVE OtherTypes'
  BY <1>4, RequestCounted DEF ApproveCount, OtherTypes
<1>5. ASSUME NEW m \in Moderators, ApproveWrite(m) PROVE OtherTypes'
  <2>1. Commit(<<"mod", m>>, row', {})
    BY <1>5 DEF ApproveWrite, Commit
  <2> QED BY <1>5, <2>1, CommitTypes DEF ApproveWrite, OtherTypes
<1>6. ASSUME NEW m \in Moderators, NEW w \in Members, NEW kind \in {"deny", "mute", "unmute", "kick"},
             ModerateWrite(m, kind, w)
      PROVE  OtherTypes'
  <2> DEFINE why == Vacates(w, row', "moderated") \cup Seats(w, row', "unmuted")
  <2>1. why \subseteq Causes
    BY CausesOf
  <2>2. Commit(<<"mod", m>>, row', why)
    BY <1>6 DEF ModerateWrite, Commit
  <2>3. asked' \in 0 .. MaxRequests
    BY <1>6, RequestCounted DEF ModerateWrite
  <2> HIDE DEF why
  <2> QED BY <1>6, <2>1, <2>2, <2>3, CommitTypes DEF ModerateWrite, OtherTypes
<1>7. ASSUME NEW m \in Moderators, End(m) PROVE OtherTypes'
  BY <1>7, RequestCounted DEF End, OtherTypes
<1>8. CASE Expire \/ RoomFinished
  BY <1>8 DEF Expire, RoomFinished, OtherTypes
<1>9. ASSUME NEW k \in Workers, HookWrite(k) PROVE OtherTypes'
  <2> DEFINE w == work[k].who
             why == Seats(w, row', "rejoined")
                       \cup (IF work[k].left THEN {} ELSE Vacates(w, row', "demoted"))
                       \cup (IF w \in Waiting(row') \ Waiting(row) THEN {"resumed"} ELSE {})
  <2>1. why \subseteq Causes
    BY CausesOf DEF Causes
  <2>2. Commit(<<"work", k>>, row', why)
    BY <1>9 DEF HookWrite, Commit
  <2> HIDE DEF why
  <2> QED BY <1>9, <2>1, <2>2, CommitTypes DEF HookWrite, OtherTypes
<1>10. ASSUME NEW k \in Workers, PromoteList(k) PROVE OtherTypes'
  BY <1>10 DEF PromoteList, OtherTypes
<1>11. ASSUME NEW k \in Workers, PromoteUnmute(k) PROVE OtherTypes'
  <2>1. room' \in [Members -> {"out", "listening", "publishing"}]
    BY <1>11 DEF PromoteUnmute, SetPermission, OtherTypes
  <2>2. causes' \subseteq Causes
    BY <1>11 DEF PromoteUnmute, OtherTypes, Causes
  <2> QED BY <1>11, <2>1, <2>2 DEF PromoteUnmute, OtherTypes
<1>12. ASSUME NEW k \in Workers, PromoteUpdate(k) PROVE OtherTypes'
  <2>1. Commit(<<"work", k>>, row', {})
    BY <1>12 DEF PromoteUpdate, Commit
  <2> QED BY <1>12, <2>1, CommitTypes DEF PromoteUpdate, OtherTypes
<1> QED BY <1>1, <1>2, <1>3, <1>4, <1>5, <1>6, <1>7, <1>8, <1>9, <1>10, <1>11, <1>12,
           ConnectTypes, DisconnectTypes, CommandTypes, HookReadTypes DEF Next

\* The steps that write no row.
Quiet ==
    \/ \E w \in Members : AskDecide(w) \/ Connect(w) \/ Disconnect(w) \/ GrantExpires(w)
    \/ \E m \in Moderators, w \in Members : ApproveCount(m, w)
    \/ \E m \in Moderators : Command(m) \/ End(m)
    \/ Expire \/ RoomFinished
    \/ \E k \in Workers, w \in Members : HookRead(k, w)
    \/ \E k \in Workers : PromoteList(k) \/ PromoteUnmute(k)

LEMMA QuietRows == ASSUME Quiet PROVE row' = row /\ clock' = clock
  BY DEF Quiet, AskDecide, Connect, Disconnect, GrantExpires, ApproveCount, Command, End, Expire,
         RoomFinished, HookRead, PromoteList, PromoteUnmute

\* The steps that do.
Writes ==
    \/ \E w \in Members : AskWrite(w)
    \/ \E m \in Moderators, w \in Members, kind \in {"deny", "mute", "unmute", "kick"} : ModerateWrite(m, kind, w)
    \/ \E m \in Moderators : ApproveWrite(m)
    \/ \E k \in Workers : HookWrite(k) \/ PromoteUpdate(k)

LEMMA NextSplit == Next => Quiet \/ Writes
  BY DEF Next, Quiet, Writes

\* Rows stay typed, a row is never taken away and its joinedAt stays the first.
LEMMA RowsStep ==
    ASSUME VoiceConstants, VoiceTypes, Requests, Writes
    PROVE  /\ RowTypes'
           /\ \A v \in Members : row[v].role # "none" =>
                 row'[v].role # "none" /\ row'[v].joined = row[v].joined
<1> DEFINE Kept == \A v \in Members : row[v].role # "none" =>
                      row'[v].role # "none" /\ row'[v].joined = row[v].joined
<1>1. ASSUME NEW w, NEW x, RowStep(w, x) PROVE Kept
  BY <1>1 DEF RowStep, VoiceTypes
<1> HIDE DEF Kept
<1>2. ASSUME NEW w \in Members, AskWrite(w) PROVE RowTypes' /\ Kept
  BY <1>1, <1>2, AskWriteRow, RowTypesKept
<1>3. ASSUME NEW m \in Moderators, ApproveWrite(m) PROVE RowTypes' /\ Kept
  BY <1>1, <1>3, ApproveWriteRow, RowTypesKept
<1>4. ASSUME NEW m \in Moderators, NEW w \in Members, NEW kind \in {"deny", "mute", "unmute", "kick"},
             ModerateWrite(m, kind, w)
      PROVE  RowTypes' /\ Kept
  BY <1>1, <1>4, ModerateWriteRow, RowTypesKept
<1>5. ASSUME NEW k \in Workers, HookWrite(k) PROVE RowTypes' /\ Kept
  BY <1>1, <1>5, HookWriteRow, RowTypesKept
<1>6. ASSUME NEW k \in Workers, PromoteUpdate(k) PROVE RowTypes' /\ Kept
  <2>1. PICK x : RowStep(work[k].next, x) /\ x.joined = row[work[k].next].joined
    BY <1>6, PromoteUpdateRow
  <2>2. clock' = clock
    BY <1>6 DEF PromoteUpdate
  <2>3. row[work[k].next].role = "none" => x.joined = 0
    BY <2>1 DEF RowStep, VoiceTypes
  <2> QED BY <1>1, <2>1, <2>2, <2>3, RowTypesKept
<1> QED BY <1>2, <1>3, <1>4, <1>5, <1>6 DEF Writes, Kept

LEMMA TypesStep ==
    ASSUME VoiceConstants, VoiceTypes, Requests, Next PROVE VoiceTypes'
<1>1. OtherTypes'
  BY TypeParts, OtherTypesKept
<1>2. RowTypes'
  <2>1. CASE Quiet
    BY <2>1, QuietRows DEF RowTypes, VoiceTypes, Known
  <2> QED BY <2>1, NextSplit, RowsStep
<1> QED BY <1>1, <1>2 DEF VoiceTypes, RowTypes, OtherTypes

-----------------------------------------------------------------------------
\* What the handlers remember between their steps.
LEMMA DecisionIs ==
    ASSUME VoiceConstants, NEW w \in Members, NEW allowed \in BOOLEAN
    PROVE  /\ Decision(w, allowed).role \in {"speaker", "queued", "listener"}
           /\ Decision(w, allowed).pub \in BOOLEAN
           /\ Decision(w, allowed).pub <=> Decision(w, allowed).role = "speaker"
           /\ Decision(w, allowed).pub =>
                 ~Full(w) /\ (Strategy = "queue" => Ahead(w) = {})
           /\ Decision(w, allowed).role = "queued" /\ Strategy = "queue" => Full(w) \/ Ahead(w) # {}
  BY DEF Decision

LEMMA RequestsStep ==
    ASSUME VoiceConstants, VoiceTypes, Requests, Next PROVE Requests'
<1> USE DEF Requests, NoAsk, NoMod, NoWork
<1>1. ASSUME NEW w \in Members, AskDecide(w) PROVE Requests'
  <2>1. PICK allowed \in Allowed :
          ask' = [ask EXCEPT ![w] = [step |-> "decided", role |-> Decision(w, allowed).role,
                                     pub |-> Decision(w, allowed).pub]]
    BY <1>1 DEF AskDecide
  <2> DEFINE d == Decision(w, allowed)
  <2>2. d.role \in Roles /\ d.role # "none" /\ d.pub \in BOOLEAN /\ (d.pub => d.role = "speaker")
    BY DecisionIs, Constants DEF Roles
  <2> HIDE DEF d
  <2>3. ask' = [ask EXCEPT ![w] = [step |-> "decided", role |-> d.role, pub |-> d.pub]]
    BY <2>1 DEF d
  <2>4. ask' \in [Members -> AskType]
    BY <2>2, <2>3 DEF AskType
  <2> QED BY <1>1, <2>2, <2>3, <2>4 DEF AskDecide
<1>2. ASSUME NEW w \in Members, AskWrite(w) PROVE Requests'
  <2>1. ask' = [ask EXCEPT ![w] = NoAsk] /\ UNCHANGED <<mod, work>>
    BY <1>2 DEF AskWrite
  <2>2. ask' \in [Members -> AskType]
    BY <2>1 DEF AskType, Roles
  <2> QED BY <2>1, <2>2
<1>3. ASSUME UNCHANGED <<ask, mod, work>> PROVE Requests'
  BY <1>3
<1>4. ASSUME NEW m \in Moderators, NEW x \in ModType, x.step # "idle" => x.who \in Members,
             mod' = [mod EXCEPT ![m] = x], UNCHANGED <<ask, work>>
      PROVE  Requests'
  BY <1>4
<1>5. ASSUME NEW m \in Moderators, NEW w \in Members, ApproveCount(m, w) PROVE Requests'
  <2>1. [step |-> "counted", kind |-> "approve", who |-> w] \in ModType
    BY DEF ModType
  <2> QED BY <1>4, <1>5, <2>1 DEF ApproveCount
<1>6. ASSUME NEW m \in Moderators, NEW w \in Members, NEW kind \in {"deny", "mute", "unmute", "kick"},
             ModerateWrite(m, kind, w)
      PROVE  Requests'
  <2>1. [step |-> "command", kind |-> kind, who |-> w] \in ModType
    BY DEF ModType
  <2> QED BY <1>4, <1>6, <2>1 DEF ModerateWrite
<1>7. ASSUME NEW m \in Moderators, ApproveWrite(m) PROVE Requests'
  <2> DEFINE x == [mod[m] EXCEPT !.step = "command"]
  <2>1. x \in ModType /\ x.who \in Members
    BY <1>7 DEF ModType, ApproveWrite
  <2>2. mod' = [mod EXCEPT ![m] = x] /\ UNCHANGED <<ask, work>>
    BY <1>7 DEF ApproveWrite
  <2> HIDE DEF x
  <2> QED BY <1>4, <2>1, <2>2
<1>8. ASSUME NEW m \in Moderators, Command(m) PROVE Requests'
  <2>1. NoMod \in ModType /\ NoMod.step = "idle"
    BY DEF ModType
  <2> QED BY <1>4, <1>8, <2>1 DEF Command
<1>9. ASSUME NEW k \in Workers, NEW x \in WorkType, x.step # "idle" => x.who \in Members,
             x.step = "read" => x.role # "none", x.step = "unmuted" => x.next \in x.list,
             work' = [work EXCEPT ![k] = x], UNCHANGED <<ask, mod>>
      PROVE  Requests'
  BY <1>9
<1>10. NoWork \in WorkType /\ NoWork.step = "idle"
  BY DEF WorkType, Roles
<1>11. ASSUME NEW k \in Workers, NEW w \in Members, HookRead(k, w) PROVE Requests'
  <2>1. PICK i \in 1 .. Len(hooks[w]) :
          work' = IF status = "ended" THEN work
                  ELSE [work EXCEPT ![k] =
                          [step |-> "read", who |-> w, left |-> hooks[w][i].left,
                           pub |-> hooks[w][i].pub, role |-> HookRole(w, hooks[w][i]),
                           was |-> w \in Active(row), list |-> {}, next |-> "none"]]
    BY <1>11 DEF HookRead
  <2> DEFINE h == hooks[w][i]
             x == [step |-> "read", who |-> w, left |-> h.left, pub |-> h.pub,
                   role |-> HookRole(w, h), was |-> w \in Active(row), list |-> {}, next |-> "none"]
  <2>2. h \in HookType
    BY DEF VoiceTypes
  <2>3. HookRole(w, h) \in Roles \ {"none"}
    <3>1. row[w].role \in Roles
      BY DEF VoiceTypes, RowType
    <3> QED BY <2>2, <3>1 DEF HookRole, HookType, Roles
  <2>4. x \in WorkType /\ x.step = "read" /\ x.who = w /\ x.role # "none"
    <3>1. h.left \in BOOLEAN /\ h.pub \in BOOLEAN
      BY <2>2 DEF HookType
    <3> HIDE DEF h
    <3> QED BY <2>3, <3>1 DEF WorkType
  <2>5. work' = work \/ work' = [work EXCEPT ![k] = x]
    BY <2>1
  <2>6. UNCHANGED <<ask, mod>>
    BY <1>11 DEF HookRead
  <2> HIDE DEF x
  <2> QED BY <1>3, <1>9, <2>4, <2>5, <2>6
<1>12. ASSUME NEW k \in Workers, HookWrite(k) PROVE Requests'
  <2> DEFINE x == IF Promotes(k) THEN [work[k] EXCEPT !.step = "written"] ELSE NoWork
  <2>1. work' = [work EXCEPT ![k] = x] /\ UNCHANGED <<ask, mod>>
    BY <1>12 DEF HookWrite
  <2>2. x \in WorkType /\ (x.step # "idle" => x.who \in Members) /\ x.step \notin {"read", "unmuted"}
    BY <1>10, <1>12 DEF WorkType, HookWrite
  <2> HIDE DEF x
  <2> QED BY <1>9, <2>1, <2>2
<1>13. ASSUME NEW k \in Workers, PromoteList(k) PROVE Requests'
  <2>1. PICK x : /\ work' = [work EXCEPT ![k] = x]
                 /\ x = NoWork \/ \E S \in SUBSET Waiting(row) :
                                    x = [work[k] EXCEPT !.step = "listed", !.list = S]
    BY <1>13 DEF PromoteList
  <2>2. Waiting(row) \subseteq Members
    BY DEF Waiting
  <2>3. x \in WorkType /\ (x.step # "idle" => x.who \in Members) /\ x.step \notin {"read", "unmuted"}
    BY <1>10, <1>13, <2>1, <2>2 DEF WorkType, PromoteList
  <2>4. UNCHANGED <<ask, mod>>
    BY <1>13 DEF PromoteList
  <2> QED BY <1>9, <2>1, <2>3, <2>4
<1>14. ASSUME NEW k \in Workers, PromoteUnmute(k) PROVE Requests'
  <2>1. PICK x : /\ work' = [work EXCEPT ![k] = x]
                 /\ x = NoWork \/ \E w \in work[k].list :
                                    x = [work[k] EXCEPT !.step = "unmuted", !.next = w]
    BY <1>14 DEF PromoteUnmute
  <2>2. /\ x \in WorkType /\ (x.step # "idle" => x.who \in Members)
        /\ x.step # "read" /\ (x.step = "unmuted" => x.next \in x.list)
    <3>1. work[k] \in WorkType /\ work[k].who \in Members
      BY <1>14 DEF PromoteUnmute
    <3>2. CASE x = NoWork
      BY <1>10, <3>2
    <3>3. ASSUME NEW w \in work[k].list, x = [work[k] EXCEPT !.step = "unmuted", !.next = w]
          PROVE  /\ x \in WorkType /\ x.who \in Members
                 /\ x.step # "read" /\ (x.step = "unmuted" => x.next \in x.list)
      BY <3>1, <3>3 DEF WorkType
    <3> QED BY <2>1, <3>2, <3>3
  <2>3. UNCHANGED <<ask, mod>>
    BY <1>14 DEF PromoteUnmute
  <2> QED BY <1>9, <2>1, <2>2, <2>3
<1>15. ASSUME NEW k \in Workers, PromoteUpdate(k) PROVE Requests'
  <2> DEFINE rest == work[k].list \ {work[k].next}
             x == IF rest = {} THEN NoWork ELSE [work[k] EXCEPT !.step = "listed", !.list = rest]
  <2>1. work' = [work EXCEPT ![k] = x] /\ UNCHANGED <<ask, mod>>
    BY <1>15 DEF PromoteUpdate
  <2>2. x \in WorkType /\ (x.step # "idle" => x.who \in Members) /\ x.step \notin {"read", "unmuted"}
    BY <1>10, <1>15 DEF WorkType, PromoteUpdate
  <2> HIDE DEF x
  <2> QED BY <1>9, <2>1, <2>2
<1>16. ASSUME NEW w \in Members, Connect(w) \/ Disconnect(w) \/ GrantExpires(w)
       PROVE  UNCHANGED <<ask, mod, work>>
  BY <1>16 DEF Connect, Disconnect, GrantExpires
<1>17. ASSUME NEW m \in Moderators, End(m) PROVE UNCHANGED <<ask, mod, work>>
  BY <1>17 DEF End
<1>18. CASE Expire \/ RoomFinished
  BY <1>3, <1>18 DEF Expire, RoomFinished
<1> QED BY <1>1, <1>2, <1>3, <1>5, <1>6, <1>7, <1>8, <1>11, <1>12, <1>13, <1>14, <1>15, <1>16,
           <1>17, <1>18 DEF Next

-----------------------------------------------------------------------------
\* Who speaks and who waits after a row is written.
LEMMA SeatsAfter ==
    ASSUME VoiceTypes, NEW w, NEW x, RowStep(w, x)
    PROVE  /\ Speaking' = IF x.role = "speaker" /\ ~x.left /\ ~x.muted THEN Speaking \cup {w}
                          ELSE Speaking \ {w}
           /\ Queue' = IF x.role = "queued" /\ ~x.left THEN Queue \cup {w} ELSE Queue \ {w}
<1>1. \A v \in Members : row'[v] = IF v = w THEN x ELSE row[v]
  BY DEF RowStep, VoiceTypes
<1>2. w \in Members
  BY DEF RowStep
<1> QED BY <1>1, <1>2 DEF Speaking, Queue, Active, Waiting

LEMMA SeatSets ==
    ASSUME VoiceConstants
    PROVE  /\ Speaking \subseteq Members /\ Queue \subseteq Members
           /\ \A S : S \subseteq Members => IsFiniteSet(S) /\ Cardinality(S) \in Nat
  BY SizeOfMembers DEF Speaking, Queue, Active, Waiting

LEMMA PendingHas ==
    /\ \A w \in Members : <<"ask", w>> \in Pending <=> ask[w].step = "decided"
    /\ \A m \in Moderators : <<"mod", m>> \in Pending <=> mod[m].step = "counted"
    /\ \A k \in Workers : <<"work", k>> \in Pending <=> work[k].step \notin {"idle", "written"}
  BY DEF Pending

LEMMA PendingKept ==
    ASSUME NEW r,
           \A w \in Members : <<"ask", w>> # r /\ ask[w].step = "decided" => ask'[w].step = "decided",
           \A m \in Moderators : <<"mod", m>> # r /\ mod[m].step = "counted" => mod'[m].step = "counted",
           \A k \in Workers : <<"work", k>> # r /\ work[k].step \notin {"idle", "written"} =>
                                 work'[k].step \notin {"idle", "written"}
    PROVE  Pending \ {r} \subseteq Pending'
<1> SUFFICES ASSUME NEW p \in Pending, p # r PROVE p \in Pending'
  OBVIOUS
<1>1. CASE \E w \in Members : p = <<"ask", w>> /\ ask[w].step = "decided"
  BY <1>1 DEF Pending
<1>2. CASE \E m \in Moderators : p = <<"mod", m>> /\ mod[m].step = "counted"
  BY <1>2 DEF Pending
<1>3. CASE \E k \in Workers : p = <<"work", k>> /\ work[k].step \notin {"idle", "written"}
  BY <1>3 DEF Pending
<1> QED BY <1>1, <1>2, <1>3 DEF Pending

\* The request a step is about.
StepOf(r) ==
    \/ \E w \in Members : r = <<"ask", w>> /\ (\A v \in Members \ {w} : ask'[v] = ask[v])
                          /\ UNCHANGED <<mod, work>>
    \/ \E m \in Moderators : r = <<"mod", m>> /\ (\A n \in Moderators \ {m} : mod'[n] = mod[n])
                             /\ UNCHANGED <<ask, work>>
    \/ \E k \in Workers : r = <<"work", k>> /\ (\A j \in Workers \ {k} : work'[j] = work[j])
                          /\ UNCHANGED <<ask, mod>>

LEMMA StepOfOne ==
    ASSUME NEW r, StepOf(r)
    PROVE  /\ Pending \ {r} \subseteq Pending'
           /\ \A w \in Members : <<"ask", w>> # r => ask'[w] = ask[w]
           /\ \A m \in Moderators : <<"mod", m>> # r => mod'[m] = mod[m]
           /\ \A k \in Workers : <<"work", k>> # r => work'[k] = work[k]
<1>1. /\ \A w \in Members : <<"ask", w>> # r => ask'[w] = ask[w]
      /\ \A m \in Moderators : <<"mod", m>> # r => mod'[m] = mod[m]
      /\ \A k \in Workers : <<"work", k>> # r => work'[k] = work[k]
  BY DEF StepOf
<1> QED BY <1>1, PendingKept

LEMMA AskSteps ==
    ASSUME Requests, NEW w \in Members, AskDecide(w) \/ AskWrite(w)
    PROVE  StepOf(<<"ask", w>>)
<1>1. \A v \in Members \ {w} : ask'[v] = ask[v]
  BY DEF AskDecide, AskWrite, Requests
<1>2. UNCHANGED <<mod, work>>
  BY DEF AskDecide, AskWrite
<1> QED BY <1>1, <1>2 DEF StepOf

LEMMA ModSteps ==
    ASSUME Requests, NEW m \in Moderators, NEW w \in Members,
           NEW kind \in {"deny", "mute", "unmute", "kick"},
           ApproveCount(m, w) \/ ApproveWrite(m) \/ ModerateWrite(m, kind, w) \/ Command(m)
    PROVE  StepOf(<<"mod", m>>)
<1>1. \A v \in Moderators \ {m} : mod'[v] = mod[v]
  BY DEF ApproveCount, ApproveWrite, ModerateWrite, Command, Requests
<1>2. UNCHANGED <<ask, work>>
  BY DEF ApproveCount, ApproveWrite, ModerateWrite, Command
<1> QED BY <1>1, <1>2 DEF StepOf

LEMMA WorkSteps ==
    ASSUME Requests, NEW k \in Workers, NEW w \in Members,
           \/ HookRead(k, w) \/ HookWrite(k) \/ PromoteList(k) \/ PromoteUnmute(k)
           \/ PromoteUpdate(k)
    PROVE  StepOf(<<"work", k>>)
<1>1. \A v \in Workers \ {k} : work'[v] = work[v]
  BY DEF HookRead, HookWrite, PromoteList, PromoteUnmute, PromoteUpdate, Requests
<1>2. UNCHANGED <<ask, mod>>
  BY DEF HookRead, HookWrite, PromoteList, PromoteUnmute, PromoteUpdate
<1> QED BY <1>1, <1>2 DEF StepOf

-----------------------------------------------------------------------------
\* joinedAt is set when the row is created, and for good.
JoinedKept ==
    \A v \in Members : row[v].role # "none" => row'[v].role # "none" /\ row'[v].joined = row[v].joined

LEMMA SoonerKept ==
    ASSUME VoiceTypes, JoinedKept, NEW v \in Queue, NEW w \in Members, ~Sooner(v, w)
    PROVE  ~Sooner(v, w)'
<1>1. v \in Members /\ row[v].role = "queued" /\ row'[v].joined = row[v].joined
  BY DEF Queue, Waiting, JoinedKept
<1>2. row[v].joined \in Nat /\ row[w].joined \in Nat
  BY <1>1 DEF VoiceTypes, RowType
<1>3. row[w].role = "none" => row[w].joined = 0
  BY DEF VoiceTypes
<1>4. row[w].role # "none" => row'[w].joined = row[w].joined
  BY DEF JoinedKept
<1> QED BY <1>1, <1>2, <1>3, <1>4 DEF Sooner

\* Reads stay true while who speaks and who waits stay the same.
LEMMA ReadsStay ==
    ASSUME VoiceTypes, Requests, JoinedKept, Speaking' = Speaking, Queue' = Queue
    PROVE  /\ \A w \in Members : ask'[w] = ask[w] /\ AskTrue(w) => AskTrue(w)'
           /\ \A m \in Moderators : mod'[m] = mod[m] /\ ModTrue(m) => ModTrue(m)'
           /\ \A k \in Workers :
                 work[k].step \in {"read", "listed", "unmuted"} /\ work'[k] = work[k] /\ WorkTrue(k)
                    => WorkTrue(k)'
<1>1. ASSUME NEW w \in Members, ask'[w] = ask[w], AskTrue(w) PROVE AskTrue(w)'
  <2>1. ASSUME NEW v \in Queue \ {w}, ~Sooner(v, w) PROVE ~Sooner(v, w)'
    BY <2>1, SoonerKept
  <2> QED BY <1>1, <2>1 DEF AskTrue
<1>2. ASSUME NEW m \in Moderators, mod'[m] = mod[m], ModTrue(m) PROVE ModTrue(m)'
  BY <1>2 DEF ModTrue
<1>3. ASSUME NEW k \in Workers, work[k].step \in {"read", "listed", "unmuted"},
             work'[k] = work[k], WorkTrue(k)
      PROVE  WorkTrue(k)'
  <2>1. CASE work[k].step = "read"
    BY <1>3, <2>1 DEF WorkTrue
  <2>2. CASE work[k].step # "read"
    <3>1. ListTrue(k)
      BY <1>3, <2>2 DEF WorkTrue
    <3> DEFINE L == work[k].list
    <3>2. L \subseteq Queue /\ Queue \subseteq Members /\ work'[k].list = L
      BY <1>3, <3>1 DEF ListTrue, Queue, Waiting
    <3>3. \A a \in L : \A b \in Queue \ L : ~Sooner(b, a)'
      <4>1. \A a \in L : \A b \in Queue \ L : ~Sooner(b, a)
        BY <3>1 DEF ListTrue, NextOnes, Queue
      <4> SUFFICES ASSUME NEW a \in L, NEW b \in Queue \ L PROVE ~Sooner(b, a)'
        OBVIOUS
      <4>2. a \in Members /\ b \in Queue /\ ~Sooner(b, a)
        BY <3>2, <4>1
      <4> QED BY <4>2, SoonerKept
    <3>6. NextOnes(work[k].list)'
      BY <1>3, <3>3 DEF NextOnes, Queue
    <3>4. (work[k].step = "unmuted" => \A v \in work[k].list : ~Sooner(v, work[k].next))'
      <4> SUFFICES ASSUME work[k].step = "unmuted", NEW v \in L, NEW n, n = work[k].next
                   PROVE  ~Sooner(v, n)'
        BY <1>3
      <4>1. n \in Members
        BY <3>2 DEF Requests
      <4>2. ~Sooner(v, n)
        BY <3>1 DEF ListTrue
      <4> QED BY <3>2, <4>1, <4>2, SoonerKept
    <3>5. ListTrue(k)'
      BY <1>3, <3>1, <3>4, <3>6 DEF ListTrue
    <3> QED BY <1>3, <2>2, <3>5 DEF WorkTrue
  <2> QED BY <2>1, <2>2
<1> QED BY <1>1, <1>2, <1>3

Unraced == "raced" \notin causes

\* Nobody's read is disturbed by a commit but those it marks stale.
LEMMA CommitReads ==
    ASSUME VoiceTypes, Requests, JoinedKept, stale \subseteq Pending, Unraced => ReadsAreTrue,
           NEW r, NEW why, Commit(r, row', why), StepOf(r), Unraced'
    PROVE  /\ r \notin stale /\ Unraced /\ ReadsAreTrue
           /\ \A w \in Members : <<"ask", w>> # r /\ ask'[w].step = "decided" /\ <<"ask", w>> \notin stale'
                 => AskTrue(w)'
           /\ \A m \in Moderators : <<"mod", m>> # r /\ mod'[m].step = "counted" /\ <<"mod", m>> \notin stale'
                 => ModTrue(m)'
           /\ \A k \in Workers : <<"work", k>> # r /\ work'[k].step \in {"read", "listed", "unmuted"}
                                 /\ <<"work", k>> \notin stale' => WorkTrue(k)'
<1>1. r \notin stale /\ Unraced
  BY DEF Commit, Unraced
<1>2. ReadsAreTrue
  BY <1>1
<1>3. stale' = (IF Speaking' = Speaking /\ Queue' = Queue THEN stale ELSE Pending) \ {r}
  BY DEF Commit, Speaking, Queue
<1>4. ASSUME NEW w \in Members, <<"ask", w>> # r, ask'[w].step = "decided", <<"ask", w>> \notin stale'
      PROVE  AskTrue(w)'
  <2>1. ask'[w] = ask[w]
    BY <1>4, StepOfOne
  <2>2. <<"ask", w>> \in Pending
    BY <1>4, <2>1, PendingHas
  <2>3. Speaking' = Speaking /\ Queue' = Queue /\ <<"ask", w>> \notin stale
    BY <1>3, <1>4, <2>2
  <2>4. AskTrue(w)
    BY <1>2, <1>4, <2>1, <2>3 DEF ReadsAreTrue
  <2> QED BY <2>1, <2>3, <2>4, ReadsStay
<1>5. ASSUME NEW m \in Moderators, <<"mod", m>> # r, mod'[m].step = "counted", <<"mod", m>> \notin stale'
      PROVE  ModTrue(m)'
  <2>1. mod'[m] = mod[m]
    BY <1>5, StepOfOne
  <2>2. <<"mod", m>> \in Pending
    BY <1>5, <2>1, PendingHas
  <2>3. Speaking' = Speaking /\ Queue' = Queue /\ <<"mod", m>> \notin stale
    BY <1>3, <1>5, <2>2
  <2>4. ModTrue(m)
    BY <1>2, <1>5, <2>1, <2>3 DEF ReadsAreTrue
  <2> QED BY <2>1, <2>3, <2>4, ReadsStay
<1>6. ASSUME NEW k \in Workers, <<"work", k>> # r, work'[k].step \in {"read", "listed", "unmuted"},
             <<"work", k>> \notin stale'
      PROVE  WorkTrue(k)'
  <2>1. work'[k] = work[k]
    BY <1>6, StepOfOne
  <2>2. <<"work", k>> \in Pending
    BY <1>6, <2>1, PendingHas
  <2>3. Speaking' = Speaking /\ Queue' = Queue /\ <<"work", k>> \notin stale
    BY <1>3, <1>6, <2>2
  <2>4. WorkTrue(k)
    BY <1>2, <1>6, <2>1, <2>3 DEF ReadsAreTrue
  <2> QED BY <1>6, <2>1, <2>3, <2>4, ReadsStay
<1> QED BY <1>1, <1>2, <1>4, <1>5, <1>6

\* Nor by a step that writes no row; only what it is about is read anew.
LEMMA QuietReads ==
    ASSUME VoiceTypes, Requests, row' = row, Unraced => ReadsAreTrue, NEW r, StepOf(r), Unraced',
           Unraced' => Unraced, stale \subseteq stale' \cup {r}
    PROVE  /\ ReadsAreTrue
           /\ \A w \in Members : <<"ask", w>> # r /\ ask'[w].step = "decided" /\ <<"ask", w>> \notin stale'
                 => AskTrue(w)'
           /\ \A m \in Moderators : <<"mod", m>> # r /\ mod'[m].step = "counted" /\ <<"mod", m>> \notin stale'
                 => ModTrue(m)'
           /\ \A k \in Workers : <<"work", k>> # r /\ work'[k].step \in {"read", "listed", "unmuted"}
                                 /\ <<"work", k>> \notin stale' => WorkTrue(k)'
<1>1. ReadsAreTrue
  OBVIOUS
<1>2. JoinedKept /\ Speaking' = Speaking /\ Queue' = Queue
  BY DEF JoinedKept, Speaking, Queue
<1>3. ASSUME NEW w \in Members, <<"ask", w>> # r, ask'[w].step = "decided", <<"ask", w>> \notin stale'
      PROVE  AskTrue(w)'
  <2>1. ask'[w] = ask[w] /\ <<"ask", w>> \notin stale
    BY <1>3, StepOfOne
  <2>2. AskTrue(w)
    BY <1>1, <1>3, <2>1 DEF ReadsAreTrue
  <2> QED BY <1>2, <2>1, <2>2, ReadsStay
<1>4. ASSUME NEW m \in Moderators, <<"mod", m>> # r, mod'[m].step = "counted", <<"mod", m>> \notin stale'
      PROVE  ModTrue(m)'
  <2>1. mod'[m] = mod[m] /\ <<"mod", m>> \notin stale
    BY <1>4, StepOfOne
  <2>2. ModTrue(m)
    BY <1>1, <1>4, <2>1 DEF ReadsAreTrue
  <2> QED BY <1>2, <2>1, <2>2, ReadsStay
<1>5. ASSUME NEW k \in Workers, <<"work", k>> # r, work'[k].step \in {"read", "listed", "unmuted"},
             <<"work", k>> \notin stale'
      PROVE  WorkTrue(k)'
  <2>1. work'[k] = work[k] /\ <<"work", k>> \notin stale
    BY <1>5, StepOfOne
  <2>2. WorkTrue(k)
    BY <1>1, <1>5, <2>1 DEF ReadsAreTrue
  <2> QED BY <1>2, <1>5, <2>1, <2>2, ReadsStay
<1> QED BY <1>1, <1>3, <1>4, <1>5

-----------------------------------------------------------------------------
LEMMA AheadIs ==
    ASSUME VoiceTypes, NEW w \in Members
    PROVE  /\ Ahead(w) = {} => \A v \in Queue \ {w} : ~Sooner(v, w)
           /\ Ahead(w) # {} => Queue \ {w} # {}
<1> DEFINE since == IF row[w].role = "queued" /\ row[w].joined # 0 THEN row[w].joined ELSE clock + 1
<1>1. Ahead(w) = {v \in Queue \ {w} : row[v].joined # 0 /\ row[v].joined < since}
  BY DEF Ahead, Queue
<1>2. ASSUME Ahead(w) = {}, NEW v \in Queue \ {w} PROVE ~Sooner(v, w)
  <2>1. v \in Members /\ row[v].joined \in Nat /\ row[v].joined <= clock /\ clock \in Nat
    BY DEF Queue, Waiting, VoiceTypes, RowType
  <2>2. row[w].joined \in Nat
    BY DEF VoiceTypes, RowType
  <2>3. row[v].joined = 0 \/ ~(row[v].joined < since)
    BY <1>1, <1>2
  <2> QED BY <2>1, <2>2, <2>3 DEF Sooner
<1> QED BY <1>1, <1>2

LEMMA AddSeat ==
    ASSUME VoiceConstants, NEW S, S \subseteq Members, NEW w \in Members
    PROVE  /\ Cardinality(S \cup {w}) = Cardinality(S \ {w}) + 1
           /\ Cardinality(S) \in Nat /\ Cardinality(S \ {w}) \in Nat /\ Cardinality(S \cup {w}) \in Nat
           /\ Cardinality(S \ {w}) <= Cardinality(S) /\ Cardinality(S) <= Cardinality(S \cup {w})
<1> DEFINE T == S \ {w}
           U == S \cup {w}
<1>1. IsFiniteSet(T) /\ IsFiniteSet(S) /\ IsFiniteSet(U)
  BY SizeOfMembers
<1>2. U = T \cup {w} /\ w \notin T /\ T \subseteq S /\ S \subseteq U
  OBVIOUS
<1> HIDE DEF T, U
<1>3. Cardinality(U) = Cardinality(T) + 1
  BY <1>1, <1>2, FS_AddElement
<1> QED BY <1>1, <1>2, <1>3, FS_Subset, FS_CardinalityType DEF T, U

LEMMA Smaller ==
    ASSUME VoiceConstants, NEW S, S \subseteq Members, NEW T, T \subseteq S
    PROVE  Cardinality(T) \in Nat /\ Cardinality(S) \in Nat /\ Cardinality(T) <= Cardinality(S)
  BY SizeOfMembers, FS_Subset

Reads == Unraced => ReadsAreTrue

Rest == stale \subseteq Pending /\ Reads /\ LimitInv /\ SeatInv

LEMMA StaleKept ==
    ASSUME stale \subseteq Pending, NEW r, StepOf(r),
           \/ \E why : Commit(r, row', why)
           \/ stale' = stale /\ (r \notin Pending \/ r \in Pending')
           \/ stale' = stale \ {r}
    PROVE  stale' \subseteq Pending'
<1>1. Pending \ {r} \subseteq Pending'
  BY StepOfOne
<1>2. CASE \E why : Commit(r, row', why)
  <2>1. stale' \subseteq Pending \ {r}
    BY <1>2 DEF Commit
  <2> QED BY <1>1, <2>1
<1> QED BY <1>1, <1>2

LEMMA LimitStays ==
    ASSUME LimitInv, row' = row, causes \subseteq causes' PROVE LimitInv'
  BY DEF LimitInv, Speaking

LEMMA SeatStays ==
    ASSUME SeatInv, row' = row, causes \subseteq causes',
           \A k \in Workers : work[k].step \in {"written", "listed", "unmuted"} =>
                                 work'[k].step \in {"written", "listed", "unmuted"}
    PROVE  SeatInv'
<1>1. Promoting => Promoting'
  BY DEF Promoting
<1>2. Speaking' = Speaking /\ Queue' = Queue
  BY DEF Speaking, Queue
<1> QED BY <1>1, <1>2 DEF SeatInv

\* The steps that change neither rows nor requests.
LEMMA IdleStep ==
    ASSUME Rest, VoiceTypes, Requests, UNCHANGED <<row, ask, mod, work, stale, causes>>
    PROVE  Rest'
  BY DEF Rest, Reads, Unraced, ReadsAreTrue, AskTrue, ModTrue, WorkTrue, ListTrue, NextOnes, Sooner,
         LimitInv, SeatInv, Promoting, Speaking, Queue, Pending

LEMMA AskDecideStep ==
    ASSUME VoiceConstants, VoiceTypes, Requests, Rest, NEW w \in Members, AskDecide(w)
    PROVE  Rest'
<1> DEFINE r == <<"ask", w>>
<1>1. StepOf(r) /\ UNCHANGED <<row, stale, causes, mod, work>> /\ ask[w].step = "idle"
  BY AskSteps DEF AskDecide
<1>2. r \notin Pending
  BY <1>1, PendingHas
<1>3. stale' \subseteq Pending'
  BY <1>1, <1>2, StaleKept DEF Rest
<1>4. LimitInv' /\ SeatInv'
  BY <1>1, LimitStays, SeatStays DEF Rest
<1>5. PICK allowed \in Allowed :
        ask' = [ask EXCEPT ![w] = [step |-> "decided", role |-> Decision(w, allowed).role,
                                   pub |-> Decision(w, allowed).pub]]
  BY DEF AskDecide
<1>6. /\ ask'[w].pub = Decision(w, allowed).pub /\ ask'[w].role = Decision(w, allowed).role
      /\ allowed \in BOOLEAN
  BY <1>5, Constants DEF Requests
<1>7. AskTrue(w)'
  <2> DEFINE d == Decision(w, allowed)
  <2>1. /\ d.pub => ~Full(w) /\ (Strategy = "queue" => Ahead(w) = {})
        /\ d.role = "queued" /\ Strategy = "queue" => Full(w) \/ Ahead(w) # {}
    BY <1>6, DecisionIs
  <2> HIDE DEF d
  <2>2. ask'[w].pub = d.pub /\ ask'[w].role = d.role
    BY <1>6 DEF d
  <2>3. Cardinality(Speaking \ {w}) \in Nat /\ MaxSpeakers \in Nat
    BY Constants, SizeOfMembers DEF Speaking, Active
  <2>4. Full(w) <=> Cardinality(Speaking \ {w}) >= MaxSpeakers
    BY DEF Full, OthersSpeaking, Speaking
  <2>5. /\ d.pub => /\ Cardinality(Speaking \ {w}) < MaxSpeakers
                    /\ Strategy = "queue" => \A v \in Queue \ {w} : ~Sooner(v, w)
        /\ d.role = "queued" /\ Strategy = "queue" =>
              Cardinality(Speaking \ {w}) >= MaxSpeakers \/ Queue \ {w} # {}
    BY <2>1, <2>3, <2>4, AheadIs
  <2> QED BY <1>1, <2>2, <2>5 DEF AskTrue, Speaking, Queue, Sooner
<1>8. Reads'
  BY <1>1, <1>7, QuietReads DEF Reads, Rest, Unraced, ReadsAreTrue
<1> QED BY <1>3, <1>4, <1>8 DEF Rest

LEMMA ApproveCountStep ==
    ASSUME VoiceConstants, VoiceTypes, Requests, Rest, NEW m \in Moderators, NEW w \in Members,
           ApproveCount(m, w)
    PROVE  Rest'
<1> DEFINE r == <<"mod", m>>
<1>1. /\ StepOf(r) /\ UNCHANGED <<row, stale, causes, ask, work>> /\ mod[m].step = "idle"
      /\ mod'[m].who = w /\ ~Full(w)
  BY ModSteps DEF ApproveCount, Requests
<1>2. r \notin Pending
  BY <1>1, PendingHas
<1>3. stale' \subseteq Pending'
  BY <1>1, <1>2, StaleKept DEF Rest
<1>4. LimitInv' /\ SeatInv'
  BY <1>1, LimitStays, SeatStays DEF Rest
<1>5. ModTrue(m)'
  <2>1. Cardinality(Speaking \ {w}) \in Nat /\ MaxSpeakers \in Nat
    BY Constants, SizeOfMembers DEF Speaking, Active
  <2>2. Cardinality(Speaking \ {w}) < MaxSpeakers
    BY <1>1, <2>1 DEF Full, OthersSpeaking, Speaking
  <2> QED BY <1>1, <2>2 DEF ModTrue, Speaking
<1>6. Reads'
  BY <1>1, <1>5, QuietReads DEF Reads, Rest, Unraced, ReadsAreTrue
<1> QED BY <1>3, <1>4, <1>6 DEF Rest

LEMMA CommandStep ==
    ASSUME VoiceConstants, VoiceTypes, Requests, Rest, NEW m \in Moderators, NEW w \in Members, Command(m)
    PROVE  Rest'
<1> DEFINE r == <<"mod", m>>
<1>1. /\ StepOf(r) /\ UNCHANGED <<row, stale, causes, ask, work>> /\ mod[m].step = "command"
      /\ mod'[m].step = "idle"
  BY ModSteps DEF Command, Requests, NoMod
<1>2. r \notin Pending
  BY <1>1, PendingHas
<1>3. stale' \subseteq Pending'
  BY <1>1, <1>2, StaleKept DEF Rest
<1>4. LimitInv' /\ SeatInv'
  BY <1>1, LimitStays, SeatStays DEF Rest
<1>6. Reads'
  BY <1>1, QuietReads DEF Reads, Rest, Unraced, ReadsAreTrue
<1> QED BY <1>3, <1>4, <1>6 DEF Rest

LEMMA HookReadStep ==
    ASSUME VoiceConstants, VoiceTypes, Requests, Rest, NEW k \in Workers, NEW w \in Members,
           HookRead(k, w)
    PROVE  Rest'
<1> DEFINE r == <<"work", k>>
<1>1. StepOf(r) /\ UNCHANGED <<row, stale, causes, ask, mod>> /\ work[k].step = "idle"
  BY WorkSteps DEF HookRead
<1>2. r \notin Pending
  BY <1>1, PendingHas
<1>3. stale' \subseteq Pending'
  BY <1>1, <1>2, StaleKept DEF Rest
<1>4. \A j \in Workers : work[j].step \in {"written", "listed", "unmuted"} => work'[j] = work[j]
  BY <1>1, StepOfOne
<1>5. LimitInv' /\ SeatInv'
  BY <1>1, <1>4, LimitStays, SeatStays DEF Rest
<1>6. work'[k].step = "read" => (work'[k].was <=> work'[k].who \in Speaking)
  <2>1. PICK i \in 1 .. Len(hooks[w]) :
          work' = IF status = "ended" THEN work
                  ELSE [work EXCEPT ![k] =
                          [step |-> "read", who |-> w, left |-> hooks[w][i].left,
                           pub |-> hooks[w][i].pub, role |-> HookRole(w, hooks[w][i]),
                           was |-> w \in Active(row), list |-> {}, next |-> "none"]]
    BY DEF HookRead
  <2>2. CASE status = "ended"
    BY <1>1, <2>1, <2>2
  <2>3. CASE status # "ended"
    <3>1. PICK b \in BOOLEAN : b <=> w \in Active(row)
      OBVIOUS
    <3>2. work' = [work EXCEPT ![k] =
                     [step |-> "read", who |-> w, left |-> hooks[w][i].left,
                      pub |-> hooks[w][i].pub, role |-> HookRole(w, hooks[w][i]),
                      was |-> b, list |-> {}, next |-> "none"]]
      <4>1. (w \in Active(row)) = b
        BY <3>1
      <4> QED BY <2>1, <2>3, <4>1, Zenon
    <3>3. work'[k].was = b /\ work'[k].who = w
      BY <3>2 DEF Requests
    <3> QED BY <3>1, <3>3 DEF Speaking
  <2> QED BY <2>2, <2>3
<1>7. work'[k].step \in {"idle", "read"}
  BY <1>1 DEF HookRead, Requests
<1>8. work'[k].step = "read" => WorkTrue(k)'
  BY <1>1, <1>6 DEF WorkTrue, Speaking
<1>9. Reads'
  BY <1>1, <1>7, <1>8, QuietReads DEF Reads, Rest, Unraced, ReadsAreTrue
<1> QED BY <1>3, <1>5, <1>9 DEF Rest

LEMMA PromoteListStep ==
    ASSUME VoiceConstants, VoiceTypes, Requests, Rest, NEW k \in Workers, NEW w \in Members,
           PromoteList(k)
    PROVE  Rest'
<1> DEFINE r == <<"work", k>>
<1>1. StepOf(r) /\ UNCHANGED <<row, stale, causes, ask, mod>> /\ work[k].step = "written"
  BY WorkSteps DEF PromoteList
<1>2. r \notin Pending
  BY <1>1, PendingHas
<1>3. stale' \subseteq Pending'
  BY <1>1, <1>2, StaleKept DEF Rest
<1>4. LimitInv'
  BY <1>1, LimitStays DEF Rest
<1>5. \A j \in Workers \ {k} : work'[j] = work[j]
  BY <1>1, StepOfOne
<1>6. Cardinality(Speaking) \in Nat /\ MaxSpeakers \in Nat /\ Queue \subseteq Members
  BY Constants, SizeOfMembers DEF Speaking, Active, Queue, Waiting
<1>7. CASE Cardinality(Speaking) >= MaxSpeakers \/ Queue = {}
  <2>0. work' = [work EXCEPT ![k] = NoWork]
    BY <1>7, Zenon DEF PromoteList, Speaking, Queue
  <2>1. work'[k].step = "idle"
    BY <2>0 DEF Requests, NoWork
  <2>2. SeatInv'
    BY <1>1, <1>6, <1>7 DEF SeatInv, Speaking, Queue
  <2>3. Reads'
    BY <1>1, <2>1, QuietReads DEF Reads, Rest, Unraced, ReadsAreTrue
  <2> QED BY <1>3, <1>4, <2>2, <2>3 DEF Rest
<1>8. CASE ~(Cardinality(Speaking) >= MaxSpeakers \/ Queue = {})
  <2>1. PICK S \in SUBSET Queue :
          /\ NextOnes(S)
          /\ \/ Cardinality(S) = MaxSpeakers - Cardinality(Speaking)
             \/ S = Queue /\ Cardinality(S) < MaxSpeakers - Cardinality(Speaking)
          /\ work' = [work EXCEPT ![k] = [@ EXCEPT !.step = "listed", !.list = S]]
    BY <1>8 DEF PromoteList, Speaking, Queue
  <2>2. work'[k].step = "listed" /\ work'[k].list = S
    BY <2>1 DEF Requests, WorkType
  <2>3. Cardinality(S) \in Nat
    BY <1>6, <2>1, SizeOfMembers
  <2>4. /\ Cardinality(Speaking) + Cardinality(S) <= MaxSpeakers
        /\ Cardinality(Speaking) + Cardinality(S) = MaxSpeakers \/ S = Queue
    BY <1>6, <2>1, <2>3
  <2>5. WorkTrue(k)'
    BY <1>1, <2>1, <2>2, <2>4 DEF WorkTrue, ListTrue, NextOnes, Sooner, Speaking, Queue
  <2>6. SeatInv'
    <3>1. \A j \in Workers : work[j].step \in {"written", "listed", "unmuted"} =>
                               work'[j].step \in {"written", "listed", "unmuted"}
      BY <1>5, <2>2
    <3> QED BY <1>1, <3>1, SeatStays DEF Rest
  <2>7. Reads'
    BY <1>1, <2>5, QuietReads DEF Reads, Rest, Unraced, ReadsAreTrue
  <2> QED BY <1>3, <1>4, <2>6, <2>7 DEF Rest
<1> QED BY <1>7, <1>8

LEMMA PromoteUnmuteStep ==
    ASSUME VoiceConstants, VoiceTypes, Requests, Rest, NEW k \in Workers, NEW w \in Members,
           PromoteUnmute(k)
    PROVE  Rest'
<1> DEFINE r == <<"work", k>>
<1>1. StepOf(r) /\ UNCHANGED <<row, ask, mod>> /\ work[k].step = "listed"
  BY WorkSteps DEF PromoteUnmute
<1>2. \A j \in Workers \ {k} : work'[j] = work[j]
  BY <1>1, StepOfOne
<1>3. CASE work'[k].step = "idle" /\ "unreachable" \in causes' /\ causes' = causes \cup {"unreachable"}
           /\ stale' = stale \ {r}
  <2>1. stale' \subseteq Pending'
    BY <1>1, <1>3, StaleKept DEF Rest
  <2>2. LimitInv' /\ SeatInv'
    BY <1>1, <1>3, LimitStays DEF Rest, SeatInv
  <2>3. Reads'
    BY <1>1, <1>3, QuietReads DEF Reads, Rest, Unraced, ReadsAreTrue
  <2> QED BY <2>1, <2>2, <2>3 DEF Rest
<1>4. ASSUME NEW n \in work[k].list, \A v \in work[k].list : ~Sooner(v, n),
             work' = [work EXCEPT ![k] = [@ EXCEPT !.step = "unmuted", !.next = n]],
             UNCHANGED <<stale, causes>>
      PROVE  Rest'
  <2>1. work'[k].step = "unmuted" /\ work'[k].list = work[k].list /\ work'[k].next = n
    BY <1>4 DEF Requests, WorkType
  <2>2. r \in Pending'
    BY <2>1 DEF Pending
  <2>3. stale' \subseteq Pending'
    BY <1>1, <1>4, <2>2, StaleKept DEF Rest
  <2>4. LimitInv' /\ SeatInv'
    BY <1>1, <1>2, <1>4, <2>1, LimitStays, SeatStays DEF Rest
  <2>5. ReadsAreTrue /\ r \notin stale' => WorkTrue(k)'
    <3> SUFFICES ASSUME ReadsAreTrue, r \notin stale PROVE WorkTrue(k)'
      BY <1>4
    <3>1. ListTrue(k)
      BY <1>1 DEF ReadsAreTrue, WorkTrue
    <3> QED BY <1>1, <1>4, <2>1, <3>1 DEF WorkTrue, ListTrue, NextOnes, Sooner, Speaking, Queue
  <2>6. Reads'
    BY <1>1, <1>4, <2>5, QuietReads DEF Reads, Rest, Unraced, ReadsAreTrue
  <2> QED BY <2>3, <2>4, <2>6 DEF Rest
<1>5. \/ /\ work' = [work EXCEPT ![k] = NoWork]
         /\ causes' = causes \cup {"unreachable"} /\ stale' = stale \ {r}
      \/ \E n \in work[k].list :
            /\ \A v \in work[k].list : ~Sooner(v, n)
            /\ work' = [work EXCEPT ![k] = [@ EXCEPT !.step = "unmuted", !.next = n]]
            /\ UNCHANGED <<stale, causes>>
  BY DEF PromoteUnmute
<1>6. work' = [work EXCEPT ![k] = NoWork] => work'[k].step = "idle"
  BY DEF Requests, NoWork
<1> QED BY <1>3, <1>4, <1>5, <1>6

-----------------------------------------------------------------------------
\* The steps that write a row.
LEMMA CommitRest ==
    ASSUME VoiceTypes, Requests, JoinedKept, Rest, NEW r, NEW why, Commit(r, row', why), StepOf(r),
           \A w \in Members : r = <<"ask", w>> => ask'[w].step # "decided",
           \A m \in Moderators : r = <<"mod", m>> => mod'[m].step # "counted",
           \A k \in Workers : r = <<"work", k>> /\ r \notin stale /\ ReadsAreTrue
                              /\ work'[k].step \in {"read", "listed", "unmuted"} => WorkTrue(k)'
    PROVE  /\ stale' \subseteq Pending' /\ Reads'
           /\ causes \cup why \subseteq causes'
           /\ "raced" \notin causes' => r \notin stale /\ ReadsAreTrue
<1>1. stale' \subseteq Pending'
  BY StaleKept DEF Rest
<1>2. causes \cup why \subseteq causes'
  BY DEF Commit
<1>3. ASSUME Unraced' PROVE r \notin stale /\ ReadsAreTrue
  BY <1>3, CommitReads DEF Rest, Reads
<1>4. ASSUME Unraced' PROVE ReadsAreTrue'
  BY <1>3, <1>4, CommitReads DEF Rest, Reads, ReadsAreTrue
<1> QED BY <1>1, <1>2, <1>3, <1>4 DEF Reads, Unraced

LEMMA WritesKeepJoined ==
    ASSUME VoiceConstants, VoiceTypes, Requests, Writes PROVE JoinedKept
  BY RowsStep DEF JoinedKept

LEMMA AskWriteStep ==
    ASSUME VoiceConstants, VoiceTypes, Requests, Rest, NEW w \in Members, AskWrite(w)
    PROVE  Rest'
<1> DEFINE r == <<"ask", w>>
           why == Vacates(w, row', "stepped")
<1>1. StepOf(r) /\ Commit(r, row', why) /\ UNCHANGED <<mod, work>> /\ ask[w].step = "decided"
  BY AskSteps DEF AskWrite, Commit
<1>2. ask'[w].step = "idle"
  BY DEF AskWrite, Requests, NoAsk
<1>3. JoinedKept
  BY WritesKeepJoined DEF Writes
<1>4. /\ stale' \subseteq Pending' /\ Reads' /\ causes \cup why \subseteq causes'
      /\ "raced" \notin causes' => r \notin stale /\ ReadsAreTrue
  <2> HIDE DEF why
  <2> QED BY <1>1, <1>2, <1>3, CommitRest
<1>5. PICK x : RowStep(w, x) /\ x.role = ask[w].role /\ ~x.left /\ (x.muted <=> ~ask[w].pub)
  BY AskWriteRow
<1>6. /\ ask[w].pub => Speaking' = Speaking \cup {w} /\ Queue' = Queue \ {w}
      /\ ~ask[w].pub => Speaking' = Speaking \ {w}
      /\ Queue' = IF ask[w].role = "queued" THEN Queue \cup {w} ELSE Queue \ {w}
  <2>1. ask[w].pub => ask[w].role = "speaker"
    BY DEF Requests
  <2> QED BY <1>5, <2>1, SeatsAfter
<1>7. "raced" \notin causes' => AskTrue(w)
  BY <1>1, <1>4 DEF ReadsAreTrue
<1>8. "stepped" \notin causes' => ~(w \in Speaking /\ w \notin Speaking')
  BY <1>4 DEF Vacates, Speaking
<1>9. /\ Cardinality(Speaking \cup {w}) = Cardinality(Speaking \ {w}) + 1
      /\ Cardinality(Speaking) \in Nat /\ Cardinality(Speaking \ {w}) \in Nat
      /\ Cardinality(Speaking \cup {w}) \in Nat /\ MaxSpeakers \in Nat
      /\ Cardinality(Speaking \ {w}) <= Cardinality(Speaking)
      /\ Cardinality(Speaking) <= Cardinality(Speaking \cup {w})
  BY AddSeat, SeatSets, Constants
<1> HIDE DEF why
<1>10. LimitInv'
  <2> SUFFICES ASSUME causes' \cap {"raced", "unmuted", "rejoined"} = {}
               PROVE  Cardinality(Speaking') <= MaxSpeakers
    BY DEF LimitInv
  <2>1. Cardinality(Speaking) <= MaxSpeakers
    BY <1>4 DEF Rest, LimitInv
  <2>2. CASE ask[w].pub
    <3>1. Cardinality(Speaking \ {w}) < MaxSpeakers
      BY <1>7, <2>2 DEF AskTrue
    <3>2. Speaking' = Speaking \cup {w}
      BY <1>6, <2>2
    <3>3. Cardinality(Speaking \cup {w}) <= MaxSpeakers
      BY <1>9, <3>1
    <3> QED BY <3>2, <3>3
  <2>3. CASE ~ask[w].pub
    <3>1. Speaking' = Speaking \ {w}
      BY <1>6, <2>3
    <3>2. Cardinality(Speaking \ {w}) <= MaxSpeakers
      BY <1>9, <2>1
    <3> QED BY <3>1, <3>2
  <2> QED BY <2>2, <2>3
<1>11. SeatInv'
  <2> SUFFICES ASSUME Strategy = "queue", Cardinality(Speaking') < MaxSpeakers, Queue' # {},
                      causes' \cap {"raced", "moderated", "stepped", "demoted", "resumed", "unreachable"} = {}
               PROVE  Promoting'
    BY DEF SeatInv
  <2>1. Cardinality(Speaking) < MaxSpeakers /\ Queue # {}
    <3>1. CASE ask[w].pub
      <4>1. Speaking' = Speaking \cup {w} /\ Queue' = Queue \ {w}
        BY <1>6, <3>1
      <4>2. Cardinality(Speaking \cup {w}) < MaxSpeakers /\ Queue # {}
        BY <4>1
      <4> QED BY <1>9, <4>2
    <3>2. CASE ~ask[w].pub
      <4>1. Speaking' = Speaking /\ w \notin Speaking
        BY <1>6, <1>8, <3>2
      <4>2. Queue = {} => ask[w].role = "queued"
        BY <1>6
      <4>3. Queue = {} => Cardinality(Speaking) >= MaxSpeakers
        <5>1. Speaking \ {w} = Speaking
          BY <4>1
        <5> QED BY <1>7, <4>2, <5>1 DEF AskTrue
      <4>4. Cardinality(Speaking) < MaxSpeakers
        BY <4>1
      <4> QED BY <1>9, <4>3, <4>4
    <3> QED BY <3>1, <3>2
  <2>2. Promoting
    BY <1>4, <2>1 DEF Rest, SeatInv
  <2> QED BY <1>1, <2>2 DEF Promoting
<1> QED BY <1>4, <1>10, <1>11 DEF Rest

LEMMA ApproveWriteStep ==
    ASSUME VoiceConstants, VoiceTypes, Requests, Rest, NEW m \in Moderators, NEW u \in Members, ApproveWrite(m)
    PROVE  Rest'
<1> DEFINE r == <<"mod", m>>
           w == mod[m].who
<1>1. StepOf(r) /\ Commit(r, row', {}) /\ UNCHANGED <<ask, work>> /\ mod[m].step = "counted" /\ w \in Members
  <2>1. StepOf(r)
    BY ModSteps
  <2> QED BY <2>1 DEF ApproveWrite, Commit, Requests
<1>2. mod'[m].step = "command"
  BY DEF ApproveWrite, Requests, ModType
<1>3. JoinedKept
  BY WritesKeepJoined DEF Writes
<1>4. /\ stale' \subseteq Pending' /\ Reads' /\ causes \subseteq causes'
      /\ "raced" \notin causes' => r \notin stale /\ ReadsAreTrue
  BY <1>1, <1>2, <1>3, CommitRest
<1>5. Speaking' = Speaking \cup {w} /\ Queue' = Queue \ {w}
  <2>1. PICK x : RowStep(w, x) /\ x.role = "speaker" /\ ~x.left /\ ~x.muted
    BY ApproveWriteRow
  <2> QED BY <2>1, SeatsAfter
<1>6. "raced" \notin causes' => ModTrue(m)
  BY <1>1, <1>4 DEF ReadsAreTrue
<1>7. /\ Cardinality(Speaking \cup {w}) = Cardinality(Speaking \ {w}) + 1
      /\ Cardinality(Speaking) \in Nat /\ Cardinality(Speaking \ {w}) \in Nat
      /\ Cardinality(Speaking \cup {w}) \in Nat /\ MaxSpeakers \in Nat
      /\ Cardinality(Speaking) <= Cardinality(Speaking \cup {w})
  BY <1>1, AddSeat, SeatSets, Constants
<1>8. LimitInv'
  BY <1>5, <1>6, <1>7 DEF LimitInv, ModTrue
<1>9. SeatInv'
  <2> SUFFICES ASSUME Strategy = "queue", Cardinality(Speaking') < MaxSpeakers, Queue' # {},
                      causes' \cap {"raced", "moderated", "stepped", "demoted", "resumed", "unreachable"} = {}
               PROVE  Promoting'
    BY DEF SeatInv
  <2>1. Cardinality(Speaking) < MaxSpeakers /\ Queue # {}
    BY <1>5, <1>7
  <2>2. Promoting
    BY <1>4, <2>1 DEF Rest, SeatInv
  <2> QED BY <1>1, <2>2 DEF Promoting
<1> QED BY <1>4, <1>8, <1>9 DEF Rest

LEMMA ModerateWriteStep ==
    ASSUME VoiceConstants, VoiceTypes, Requests, Rest, NEW m \in Moderators, NEW w \in Members,
           NEW kind \in {"deny", "mute", "unmute", "kick"}, ModerateWrite(m, kind, w)
    PROVE  Rest'
<1> DEFINE r == <<"mod", m>>
           why == Vacates(w, row', "moderated") \cup Seats(w, row', "unmuted")
<1>1. StepOf(r) /\ Commit(r, row', why) /\ UNCHANGED <<ask, work>>
  <2>1. StepOf(r)
    BY ModSteps
  <2> QED BY <2>1 DEF ModerateWrite, Commit
<1>2. mod'[m].step = "command"
  BY DEF ModerateWrite, Requests
<1>3. JoinedKept
  BY WritesKeepJoined DEF Writes
<1>4. /\ stale' \subseteq Pending' /\ Reads' /\ causes \cup why \subseteq causes'
      /\ "raced" \notin causes' => r \notin stale /\ ReadsAreTrue
  <2> HIDE DEF why
  <2> QED BY <1>1, <1>2, <1>3, CommitRest
<1>5. /\ "moderated" \notin causes' => ~(w \in Speaking /\ w \notin Speaking')
      /\ "unmuted" \notin causes' => ~(w \notin Speaking /\ w \in Speaking')
  BY <1>4 DEF Vacates, Seats, Speaking
<1> HIDE DEF why
<1>6. /\ Speaking' \ {w} = Speaking \ {w} /\ Queue' \subseteq Queue
      /\ Speaking' \subseteq Speaking \cup {w}
  <2>1. PICK x : RowStep(w, x) /\ (x.role = "queued" => row[w].role = "queued" /\ (row[w].left => x.left))
    BY ModerateWriteRow
  <2>2. x.role = "queued" /\ ~x.left => w \in Queue
    BY <2>1 DEF Queue, Waiting
  <2> QED BY <2>1, <2>2, SeatsAfter
<1>7. /\ Cardinality(Speaking) \in Nat /\ MaxSpeakers \in Nat
      /\ Speaking' \subseteq Members /\ Speaking \subseteq Members
  BY <1>6, SeatSets, Constants
<1>8. LimitInv'
  <2> SUFFICES ASSUME causes' \cap {"raced", "unmuted", "rejoined"} = {}
               PROVE  Cardinality(Speaking') <= MaxSpeakers
    BY DEF LimitInv
  <2>1. Cardinality(Speaking) <= MaxSpeakers
    BY <1>4 DEF Rest, LimitInv
  <2>2. Speaking' \subseteq Speaking
    BY <1>5, <1>6
  <2> QED BY <1>7, <2>1, <2>2, Smaller
<1>9. SeatInv'
  <2> SUFFICES ASSUME Strategy = "queue", Cardinality(Speaking') < MaxSpeakers, Queue' # {},
                      causes' \cap {"raced", "moderated", "stepped", "demoted", "resumed", "unreachable"} = {}
               PROVE  Promoting'
    BY DEF SeatInv
  <2>1. Speaking \subseteq Speaking'
    BY <1>5, <1>6
  <2>2. Cardinality(Speaking) < MaxSpeakers /\ Queue # {}
    BY <1>6, <1>7, <2>1, Smaller
  <2>3. Promoting
    BY <1>4, <2>2 DEF Rest, SeatInv
  <2> QED BY <1>1, <2>3 DEF Promoting
<1> QED BY <1>4, <1>8, <1>9 DEF Rest

LEMMA HookWriteStep ==
    ASSUME VoiceConstants, VoiceTypes, Requests, Rest, NEW k \in Workers, NEW u \in Members, HookWrite(k)
    PROVE  Rest'
<1> DEFINE r == <<"work", k>>
           w == work[k].who
           why == Seats(w, row', "rejoined")
                     \cup (IF work[k].left THEN {} ELSE Vacates(w, row', "demoted"))
                     \cup (IF w \in Waiting(row') \ Waiting(row) THEN {"resumed"} ELSE {})
<1>1. StepOf(r) /\ Commit(r, row', why) /\ work[k].step = "read" /\ w \in Members
  <2>1. StepOf(r)
    BY WorkSteps
  <2> QED BY <2>1 DEF HookWrite, Commit, Requests
<1>2. work' = [work EXCEPT ![k] = IF Promotes(k) THEN [@ EXCEPT !.step = "written"] ELSE NoWork]
  BY DEF HookWrite
<1>3. work'[k].step = IF Promotes(k) THEN "written" ELSE "idle"
  BY <1>2 DEF Requests, WorkType, NoWork
<1>4. JoinedKept
  BY WritesKeepJoined DEF Writes
<1>5. /\ stale' \subseteq Pending' /\ Reads' /\ causes \cup why \subseteq causes'
      /\ "raced" \notin causes' => r \notin stale /\ ReadsAreTrue
  <2> HIDE DEF why
  <2> QED BY <1>1, <1>3, <1>4, CommitRest
<1>6. /\ "rejoined" \notin causes' => ~(w \notin Speaking /\ w \in Speaking')
      /\ "demoted" \notin causes' /\ ~work[k].left => ~(w \in Speaking /\ w \notin Speaking')
      /\ "resumed" \notin causes' => ~(w \notin Queue /\ w \in Queue')
  BY <1>5 DEF Vacates, Seats, Speaking, Queue
<1> HIDE DEF why
<1>7. /\ Speaking' \ {w} = Speaking \ {w} /\ Speaking' \subseteq Speaking \cup {w}
      /\ Queue' \subseteq Queue \cup {w}
  <2>1. PICK x : RowStep(w, x)
    BY HookWriteRow
  <2> QED BY <2>1, SeatsAfter
<1>8. /\ Cardinality(Speaking) \in Nat /\ MaxSpeakers \in Nat
      /\ Speaking' \subseteq Members /\ Speaking \subseteq Members
  BY <1>1, <1>7, SeatSets, Constants
<1>9. LimitInv'
  <2> SUFFICES ASSUME causes' \cap {"raced", "unmuted", "rejoined"} = {}
               PROVE  Cardinality(Speaking') <= MaxSpeakers
    BY DEF LimitInv
  <2>1. Cardinality(Speaking) <= MaxSpeakers
    BY <1>5 DEF Rest, LimitInv
  <2>2. Speaking' \subseteq Speaking
    BY <1>6, <1>7
  <2> QED BY <1>8, <2>1, <2>2, Smaller
<1>10. SeatInv'
  <2> SUFFICES ASSUME Strategy = "queue", Cardinality(Speaking') < MaxSpeakers, Queue' # {},
                      causes' \cap {"raced", "moderated", "stepped", "demoted", "resumed", "unreachable"} = {}
               PROVE  Promoting'
    BY DEF SeatInv
  <2>1. WorkTrue(k)
    BY <1>1, <1>5 DEF ReadsAreTrue
  <2>2. CASE w \in Speaking /\ w \notin Speaking'
    <3>1. work[k].left /\ work[k].was
      BY <1>1, <1>6, <2>1, <2>2 DEF WorkTrue
    <3>2. work'[k].step = "written"
      BY <1>3, <3>1 DEF Promotes
    <3> QED BY <3>2 DEF Promoting
  <2>3. CASE ~(w \in Speaking /\ w \notin Speaking')
    <3>1. Speaking \subseteq Speaking'
      BY <1>7, <2>3
    <3>2. Queue # {}
      BY <1>6, <1>7
    <3>3. Cardinality(Speaking) < MaxSpeakers
      BY <1>8, <3>1, Smaller
    <3>4. PICK j \in Workers : work[j].step \in {"written", "listed", "unmuted"}
      BY <1>5, <3>2, <3>3 DEF Rest, SeatInv, Promoting
    <3>5. work'[j] = work[j]
      BY <1>1, <1>2, <3>4 DEF Requests
    <3> QED BY <3>4, <3>5 DEF Promoting
  <2> QED BY <2>2, <2>3
<1> QED BY <1>5, <1>9, <1>10 DEF Rest

\* The list without the one promoted is what a fresh look at the queue would give.
LEMMA RestOfList ==
    ASSUME VoiceConstants, VoiceTypes, Requests, JoinedKept, NEW k \in Workers, ListTrue(k),
           work[k].step = "unmuted", NEW w, w = work[k].next,
           NEW rest, rest = work[k].list \ {w},
           Speaking' = Speaking \cup {w}, Queue' = Queue \ {w}
    PROVE  /\ w \in Queue /\ w \notin Speaking /\ rest \subseteq Queue'
           /\ \A a \in rest : \A b \in Queue' \ rest : ~Sooner(b, a)'
           /\ Cardinality(rest) \in Nat /\ Cardinality(Speaking') \in Nat
           /\ Cardinality(Speaking') + Cardinality(rest) <= MaxSpeakers
           /\ Cardinality(Speaking') + Cardinality(rest) = MaxSpeakers \/ rest = Queue'
<1> DEFINE L == work[k].list
<1>1. w \in L /\ L \subseteq Queue /\ Queue \subseteq Members /\ Speaking \subseteq Members
  BY SeatSets DEF Requests, ListTrue
<1>2. w \in Queue /\ w \notin Speaking /\ w \in Members
  BY <1>1 DEF Queue, Speaking, Active, Waiting
<1>3. rest \subseteq Queue'
  BY <1>1
<1>4. \A a \in rest : \A b \in Queue' \ rest : ~Sooner(b, a)'
  <2>1. \A a \in L : \A b \in Queue \ L : ~Sooner(b, a)
    BY DEF ListTrue, NextOnes, Queue
  <2> SUFFICES ASSUME NEW a \in rest, NEW b \in Queue' \ rest PROVE ~Sooner(b, a)'
    OBVIOUS
  <2>2. a \in L /\ a \in Members /\ b \in Queue \ L
    BY <1>1
  <2> QED BY <2>1, <2>2, SoonerKept
<1>5. /\ Cardinality(L \cup {w}) = Cardinality(rest) + 1
      /\ Cardinality(rest) \in Nat /\ Cardinality(L) \in Nat
      /\ Cardinality(Speaking \cup {w}) = Cardinality(Speaking \ {w}) + 1
      /\ Cardinality(Speaking \cup {w}) \in Nat /\ Cardinality(Speaking) \in Nat /\ MaxSpeakers \in Nat
  BY <1>1, <1>2, AddSeat, Constants
<1>6. L \cup {w} = L /\ Speaking \ {w} = Speaking
  BY <1>1, <1>2
<1>7. /\ Cardinality(Speaking \cup {w}) + Cardinality(rest) = Cardinality(Speaking) + Cardinality(L)
      /\ Cardinality(Speaking) + Cardinality(L) <= MaxSpeakers
      /\ Cardinality(Speaking) + Cardinality(L) = MaxSpeakers \/ L = Queue
  <2>1. Cardinality(L) = Cardinality(rest) + 1 /\ Cardinality(Speaking \cup {w}) = Cardinality(Speaking) + 1
    BY <1>5, <1>6
  <2> QED BY <1>5, <2>1 DEF ListTrue
<1>8. L = Queue => rest = Queue'
  OBVIOUS
<1>9. Cardinality(Speaking') = Cardinality(Speaking \cup {w})
  OBVIOUS
<1> QED BY <1>2, <1>3, <1>4, <1>5, <1>7, <1>8, <1>9

LEMMA PromoteUpdateStep ==
    ASSUME VoiceConstants, VoiceTypes, Requests, Rest, NEW k \in Workers, NEW u \in Members, PromoteUpdate(k)
    PROVE  Rest'
<1> DEFINE r == <<"work", k>>
<1>0. PICK w : w = work[k].next
  OBVIOUS
<1>00. PICK rest : rest = work[k].list \ {w}
  OBVIOUS
<1>1. StepOf(r) /\ Commit(r, row', {}) /\ work[k].step = "unmuted"
  <2>1. StepOf(r)
    BY WorkSteps
  <2> QED BY <2>1 DEF PromoteUpdate, Commit
<1>2. work' = [work EXCEPT ![k] = IF rest = {} THEN NoWork
                                  ELSE [@ EXCEPT !.step = "listed", !.list = rest]]
  BY <1>0, <1>00 DEF PromoteUpdate
<1>3. rest # {} => work'[k].step = "listed" /\ work'[k].list = rest
  BY <1>2 DEF Requests, WorkType
<1>4. rest = {} => work'[k].step = "idle"
  BY <1>2 DEF Requests, NoWork
<1>5. JoinedKept
  BY WritesKeepJoined DEF Writes
<1>6. Speaking' = Speaking \cup {w} /\ Queue' = Queue \ {w}
  <2>1. PICK x : RowStep(w, x) /\ x.role = "speaker" /\ ~x.left /\ ~x.muted
    BY <1>0, PromoteUpdateRow
  <2> QED BY <2>1, SeatsAfter
<1>7. ASSUME ListTrue(k)
      PROVE  /\ rest \subseteq Queue' /\ \A a \in rest : \A b \in Queue' \ rest : ~Sooner(b, a)'
             /\ Cardinality(rest) \in Nat /\ Cardinality(Speaking') \in Nat
             /\ Cardinality(Speaking') + Cardinality(rest) <= MaxSpeakers
             /\ Cardinality(Speaking') + Cardinality(rest) = MaxSpeakers \/ rest = Queue'
  <2>1. work[k].step = "unmuted"
    BY <1>1
  <2>2. rest \subseteq Queue'
    BY <1>0, <1>00, <2>1, <1>5, <1>6, <1>7, RestOfList
  <2>3. Cardinality(rest) \in Nat /\ Cardinality(Speaking') \in Nat
    BY <1>0, <1>00, <2>1, <1>5, <1>6, <1>7, RestOfList
  <2>4. \A a \in rest : \A b \in Queue' \ rest : ~Sooner(b, a)'
    BY <1>0, <1>00, <2>1, <1>5, <1>6, <1>7, RestOfList
  <2>5. /\ Cardinality(Speaking') + Cardinality(rest) <= MaxSpeakers
        /\ Cardinality(Speaking') + Cardinality(rest) = MaxSpeakers \/ rest = Queue'
    BY <1>0, <1>00, <2>1, <1>5, <1>6, <1>7, RestOfList
  <2> QED BY <2>2, <2>3, <2>4, <2>5
<1>8. ASSUME r \notin stale, ReadsAreTrue PROVE ListTrue(k)
  BY <1>1, <1>8 DEF ReadsAreTrue, WorkTrue
<1>9. ASSUME r \notin stale, ReadsAreTrue, work'[k].step \in {"read", "listed", "unmuted"}
      PROVE  WorkTrue(k)'
  <2>1. work'[k].step = "listed" /\ work'[k].list = rest
    BY <1>3, <1>4, <1>9
  <2>2. NextOnes(work[k].list)'
    BY <1>7, <1>8, <1>9, <2>1 DEF NextOnes, Queue
  <2> QED BY <1>7, <1>8, <1>9, <2>1, <2>2 DEF WorkTrue, ListTrue
<1>10. /\ stale' \subseteq Pending' /\ Reads' /\ causes \subseteq causes'
       /\ "raced" \notin causes' => r \notin stale /\ ReadsAreTrue
  BY <1>1, <1>5, <1>9, CommitRest
<1>11. MaxSpeakers \in Nat
  BY Constants
<1>12. LimitInv'
  BY <1>7, <1>8, <1>10, <1>11 DEF LimitInv
<1>13. SeatInv'
  <2> SUFFICES ASSUME Strategy = "queue", Cardinality(Speaking') < MaxSpeakers, Queue' # {},
                      causes' \cap {"raced", "moderated", "stepped", "demoted", "resumed", "unreachable"} = {}
               PROVE  Promoting'
    BY DEF SeatInv
  <2>1. ListTrue(k)
    BY <1>8, <1>10
  <2>2. rest # {}
    <3>1. rest = {} => Cardinality(rest) = 0
      BY FS_EmptySet
    <3> QED BY <1>7, <1>11, <2>1, <3>1
  <2> QED BY <1>3, <2>2 DEF Promoting
<1> QED BY <1>10, <1>12, <1>13 DEF Rest

-----------------------------------------------------------------------------
LEMMA VoiceInit == ASSUME VoiceConstants, Init PROVE VoiceInv
<1>1. NoRow \in RowType /\ NoAsk \in AskType /\ NoMod \in ModType /\ NoWork \in WorkType
  BY DEF NoRow, RowType, NoAsk, AskType, NoMod, ModType, NoWork, WorkType, Roles
<1>2. \A w \in Members : row[w] = NoRow /\ ask[w] = NoAsk /\ hooks[w] = <<>>
  BY DEF Init
<1>3. \A m \in Moderators : mod[m] = NoMod
  BY DEF Init
<1>4. \A k \in Workers : work[k] = NoWork
  BY DEF Init
<1>5. Speaking = {} /\ Queue = {} /\ Known = {}
  BY <1>2 DEF Speaking, Queue, Known, Active, Waiting, NoRow
<1>6. Cardinality(Speaking) = 0 /\ Cardinality(Known) = 0
  BY <1>5, FS_EmptySet
<1>7. VoiceTypes
  <2>1. row \in [Members -> RowType] /\ hooks \in [Members -> Seq(HookType)]
    BY <1>1 DEF Init
  <2>2. \A w \in Members : row[w].joined <= clock /\ (row[w].role = "none" => row[w].joined = 0)
    BY <1>2 DEF Init, NoRow
  <2>3. \A w \in Members : Len(hooks[w]) <= MaxHooks
    BY <1>2, Constants
  <2> QED BY <1>6, <2>1, <2>2, <2>3, Constants DEF Init, VoiceTypes
<1>8. Requests
  <2>1. ask \in [Members -> AskType] /\ mod \in [Moderators -> ModType] /\ work \in [Workers -> WorkType]
    BY <1>1 DEF Init
  <2> QED BY <1>2, <1>3, <1>4, <2>1 DEF Requests, NoAsk, NoMod, NoWork
<1>9. stale \subseteq Pending /\ ReadsAreTrue
  BY <1>2, <1>3, <1>4 DEF Init, ReadsAreTrue, NoAsk, NoMod, NoWork
<1>10. LimitInv /\ SeatInv
  BY <1>5, <1>6, Constants DEF LimitInv, SeatInv
<1> QED BY <1>7, <1>8, <1>9, <1>10 DEF VoiceInv

LEMMA InvParts == VoiceInv <=> VoiceTypes /\ Requests /\ Rest
  BY DEF VoiceInv, Rest, Reads, Unraced

LEMMA RestStep ==
    ASSUME VoiceConstants, VoiceTypes, Requests, Rest, Next PROVE Rest'
<1>1. ASSUME NEW w \in Members, Connect(w) \/ Disconnect(w) \/ GrantExpires(w) PROVE Rest'
  BY <1>1, IdleStep DEF Connect, Disconnect, GrantExpires
<1>2. ASSUME NEW m \in Moderators, End(m) PROVE Rest'
  BY <1>2, IdleStep DEF End
<1>3. CASE Expire \/ RoomFinished
  BY <1>3, IdleStep DEF Expire, RoomFinished
<1>4. ASSUME NEW m \in Moderators, ApproveWrite(m) \/ Command(m) PROVE Rest'
  <2>1. PICK w \in Members : TRUE
    <3>1. mod[m].who \in Members
      BY <1>4 DEF ApproveWrite, Command, Requests
    <3> QED BY <3>1
  <2> QED BY <1>4, <2>1, ApproveWriteStep, CommandStep
<1>5. ASSUME NEW k \in Workers, HookWrite(k) \/ PromoteList(k) \/ PromoteUnmute(k) \/ PromoteUpdate(k)
      PROVE  Rest'
  <2>1. PICK w \in Members : TRUE
    <3>1. work[k].who \in Members
      BY <1>5 DEF HookWrite, PromoteList, PromoteUnmute, PromoteUpdate, Requests
    <3> QED BY <3>1
  <2> QED BY <1>5, <2>1, HookWriteStep, PromoteListStep, PromoteUnmuteStep, PromoteUpdateStep
<1> QED BY <1>1, <1>2, <1>3, <1>4, <1>5, AskDecideStep, AskWriteStep, ApproveCountStep,
           ModerateWriteStep, HookReadStep DEF Next

LEMMA VoiceStep == ASSUME VoiceConstants, VoiceInv, [Next]_vars PROVE VoiceInv'
<1>1. CASE Next
  <2>1. VoiceTypes' /\ Requests' /\ Rest'
    BY <1>1, InvParts, TypesStep, RequestsStep, RestStep
  <2> QED BY <2>1 DEF VoiceInv, Rest, Reads, Unraced
<1>2. CASE UNCHANGED vars
  <2>1. VoiceTypes'
    BY <1>2 DEF VoiceInv, VoiceTypes, vars, Known
  <2>2. Requests'
    BY <1>2 DEF VoiceInv, Requests, vars
  <2>3. Rest'
    BY <1>2, IdleStep, InvParts DEF vars
  <2> QED BY <2>1, <2>2, <2>3 DEF VoiceInv, Rest, Reads, Unraced
<1> QED BY <1>1, <1>2

LEMMA VoiceInvariant == ASSUME VoiceConstants PROVE Spec => []VoiceInv
<1>1. Init => VoiceInv
  BY VoiceInit
<1>2. VoiceInv /\ [Next]_vars => VoiceInv'
  BY VoiceStep
<1> QED BY <1>1, <1>2, PTL DEF Spec

LEMMA InvHolds == ASSUME VoiceConstants, VoiceInv PROVE SeatsHold
<1> USE DEF VoiceInv
<1>1. TypeOK
  <2>1. ASSUME NEW w \in Members
        PROVE  /\ row[w].role \in Roles /\ row[w].joined \in 0..clock
               /\ row[w].left \in BOOLEAN /\ row[w].muted \in BOOLEAN
               /\ Len(hooks[w]) <= MaxHooks
               /\ ask[w].pub => ask[w].role = "speaker"
    <3>1. row[w] \in RowType /\ row[w].joined <= clock /\ clock \in Nat
      BY DEF VoiceTypes
    <3> QED BY <3>1 DEF RowType, VoiceTypes, Requests
  <2>2. clock \in 0..Cardinality(Members)
    <3>1. Cardinality(Known) <= Cardinality(Members) /\ Cardinality(Known) \in Nat
          /\ Cardinality(Members) \in Nat
      BY Smaller DEF Known
    <3> QED BY <3>1 DEF VoiceTypes
  <2>3. /\ \A m \in Moderators : mod[m].step \in {"idle", "counted", "command"}
        /\ \A k \in Workers : work[k].step \in {"idle", "read", "written", "listed", "unmuted"}
    BY DEF Requests, ModType, WorkType
  <2> QED BY <2>1, <2>2, <2>3 DEF TypeOK, VoiceTypes
<1>2. LimitBrokenOnlyBy
  <2>1. Cardinality(Speaking) \in Nat /\ MaxSpeakers \in Nat
    BY Constants, SeatSets
  <2> QED BY <2>1 DEF LimitBrokenOnlyBy, LimitInv, Speaking
<1>3. SeatIdleOnlyAfter
  <2>1. AtRest => ~Promoting
    BY DEF AtRest, Promoting
  <2> QED BY <2>1 DEF SeatIdleOnlyAfter, SeatInv, Speaking, Queue
<1> QED BY <1>1, <1>2, <1>3 DEF SeatsHold

\* Whatever the room, its members, moderators and workers: rows, requests and
\* counts keep their shape; the limit is exceeded only after a handler wrote on
\* a count that others had changed, a moderator unmuted or an old token came
\* back; and a seat stays empty beside a queue only after one of the named causes.
THEOREM VoiceSeatsHold == ASSUME VoiceConstants PROVE Spec => []SeatsHold
  BY VoiceInvariant, InvHolds, PTL

LEMMA ServedNextHolds ==
    ASSUME VoiceConstants, VoiceInv, [Next]_vars, Strategy = "queue" PROVE ServedNext
<1> USE DEF VoiceInv
<1> SUFFICES ASSUME NEW w \in Members, row[w].role = "queued", w \in Speaking', "raced" \notin causes',
                    AskWrite(w) \/ \E k \in Workers : PromoteUpdate(k),
                    NEW v \in Queue \ {w}
             PROVE  ~Sooner(v, w)
  BY DEF ServedNext, Speaking, Queue
<1>1. w \notin Speaking
  BY DEF Speaking, Active
<1>2. CASE AskWrite(w)
  <2>1. <<"ask", w>> \notin stale /\ "raced" \notin causes /\ ask[w].step = "decided"
    BY <1>2 DEF AskWrite, Commit
  <2>2. AskTrue(w)
    BY <2>1 DEF ReadsAreTrue
  <2>3. PICK x : RowStep(w, x) /\ (x.muted <=> ~ask[w].pub)
    BY <1>2, AskWriteRow
  <2>4. ask[w].pub
    BY <1>1, <2>3, SeatsAfter
  <2> QED BY <2>2, <2>4 DEF AskTrue
<1>3. ASSUME NEW k \in Workers, PromoteUpdate(k) PROVE ~Sooner(v, w)
  <2>1. <<"work", k>> \notin stale /\ "raced" \notin causes /\ work[k].step = "unmuted"
    BY <1>3 DEF PromoteUpdate, Commit
  <2>2. ListTrue(k) /\ work[k].next \in work[k].list
    BY <2>1 DEF ReadsAreTrue, WorkTrue, Requests
  <2>3. PICK x : RowStep(work[k].next, x)
    BY <1>3, PromoteUpdateRow
  <2>4. w = work[k].next
    BY <1>1, <2>3, SeatsAfter
  <2> QED BY <2>1, <2>2, <2>4 DEF ListTrue, NextOnes, Queue
<1> QED BY <1>2, <1>3

\* With the queue strategy, whoever is given a seat out of the queue, by its own
\* request or by a promotion, has nobody ahead of it unless handlers raced.
THEOREM VoiceQueueInOrder == ASSUME VoiceConstants PROVE Spec => QueueServedInOrder
<1>1. VoiceInv /\ [Next]_vars => [Strategy = "queue" => ServedNext]_vars
  BY ServedNextHolds
<1> QED BY <1>1, VoiceInvariant, PTL DEF Spec, QueueServedInOrder
=============================================================================
