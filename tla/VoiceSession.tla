---------------------------- MODULE VoiceSession ----------------------------
(***************************************************************************)
(* One voice session of the query api (rest/voice.ts): the participant     *)
(* rows it keeps in the database, the room the voice provider (LiveKit)    *)
(* keeps, and the four parties that change them without any transaction:   *)
(* members asking for a token, moderators, the provider's webhooks and the *)
(* promotion of the speaker queue that a webhook sets off.  Every handler  *)
(* is split at its awaits: what it read may be stale when it writes.       *)
(***************************************************************************)
EXTENDS Naturals, FiniteSets, Sequences, SequencesExt

CONSTANTS Members,       \* the wallets that may take part
          Moderators,    \* moderator requests that may be in flight at once
          Workers,       \* webhook handlers that may be in flight at once
          Strategy,      \* the room's overflow strategy
          MaxSpeakers,   \* the room's speaker limit
          Allowed,       \* answers canJoinVoice may give: a subset of BOOLEAN
          Commands,      \* the moderator commands that are used
          Reloads,       \* may a member ask again while it is connected?
          ReuseGrants,   \* may a token be used again until it expires?
          InOrder,       \* are a member's webhooks handled in order?
          MaxHooks,      \* bound: webhooks under way per member
          MaxRequests    \* bound: requests of members and moderators

VoiceConstants ==
    /\ IsFiniteSet(Members)
    /\ Strategy \in {"listen_only", "deny", "queue", "moderated_queue"}
    /\ MaxSpeakers \in Nat \ {0}
    /\ Allowed \subseteq BOOLEAN
    /\ {Reloads, ReuseGrants} \subseteq BOOLEAN /\ InOrder \in BOOLEAN
    /\ MaxHooks \in Nat \ {0} /\ MaxRequests \in Nat

VARIABLES row,     \* voice_participants: the row of each member
          status,  \* voice_sessions.status, "expired" once expiresAt has passed
          clock,   \* stamps for joinedAt; 0 is null
          room,    \* the provider's room: "out", "listening" or "publishing"
          grants,  \* the canPublish claims of the tokens a member still holds
          hooks,   \* webhooks the provider has sent and nobody has handled
          ask,     \* the token request of each member
          mod,     \* the moderator requests
          asked,   \* how many requests there have been
          work,    \* the webhook handlers
          stale,   \* history: requests whose reads others have since changed
          causes   \* history: what may upset the seats, see each action

vars == <<row, status, clock, room, grants, hooks, ask, mod, asked, work, stale, causes>>

Request == asked < MaxRequests /\ asked' = asked + 1

Roles == {"none", "speaker", "listener", "queued"}   \* "none": no row
NoRow == [role |-> "none", joined |-> 0, left |-> FALSE, muted |-> FALSE]
NoAsk == [step |-> "idle", role |-> "none", pub |-> FALSE]
NoMod == [step |-> "idle", kind |-> "none", who |-> "none"]
NoWork == [step |-> "idle", who |-> "none", left |-> FALSE, pub |-> FALSE,
           role |-> "none", was |-> FALSE, list |-> {}, next |-> "none"]

-----------------------------------------------------------------------------
(* What the handlers count *)

\* The rows every count of speakers selects: a speaker, here and not muted.
Active(r) == {w \in Members : r[w].role = "speaker" /\ ~r[w].left /\ ~r[w].muted}
Waiting(r) == {w \in Members : r[w].role = "queued" /\ ~r[w].left}

OthersSpeaking(w) == Cardinality(Active(row) \ {w})

\* orderBy joinedAt asc: a null comes last.
Sooner(v, w) == row[v].joined # 0 /\ (row[w].joined = 0 \/ row[v].joined < row[w].joined)

\* evaluateQueuePosition: who is ahead; one not queued yet counts from now.
Ahead(w) ==
    LET since == IF row[w].role = "queued" /\ row[w].joined # 0
                 THEN row[w].joined ELSE clock + 1
    IN  {v \in Waiting(row) \ {w} : row[v].joined # 0 /\ row[v].joined < since}

\* Defect: the limit is compared with >, one speaker too late.
FullLate(w) == OthersSpeaking(w) > MaxSpeakers

Full(w) == OthersSpeaking(w) >= MaxSpeakers

\* evaluateSpeakerLimit: the role and the right to publish a request is given.
Decision(w, allowed) ==
    LET approved == row[w].role = "speaker" /\ ~row[w].muted
        waits == \/ Strategy = "moderated_queue" /\ (~approved \/ Full(w))
                 \/ Strategy = "queue" /\ (Full(w) \/ Ahead(w) # {})
    IN  CASE ~allowed -> [role |-> "listener", pub |-> FALSE]
          [] allowed /\ waits -> [role |-> "queued", pub |-> FALSE]
          [] allowed /\ ~waits /\ Full(w) -> [role |-> "listener", pub |-> FALSE]
          [] OTHER -> [role |-> "speaker", pub |-> TRUE]

-----------------------------------------------------------------------------
(* Writing a row *)

\* The requests that have read the rows and have yet to write.
Pending == {<<"ask", w>> : w \in {v \in Members : ask[v].step = "decided"}}
           \cup {<<"mod", m>> : m \in {n \in Moderators : mod[n].step = "counted"}}
           \cup {<<"work", k>> : k \in {j \in Workers : work[j].step \notin {"idle", "written"}}}

\* Request r writes rows n; why names what it may upset.  The requests still
\* pending have read something else if who speaks or who waits has changed.
Commit(r, n, why) ==
    /\ row' = n
    /\ causes' = causes \cup why \cup (IF r \in stale THEN {"raced"} ELSE {})
    /\ stale' = (IF Active(n) = Active(row) /\ Waiting(n) = Waiting(row)
                 THEN stale ELSE Pending) \ {r}

\* The cause named c, if the write takes a seat from w without a promotion.
Vacates(w, n, c) == IF w \in Active(row) \ Active(n) THEN {c} ELSE {}
\* The cause named c, if the write seats w without looking at the limit.
Seats(w, n, c) == IF w \in Active(n) \ Active(row) THEN {c} ELSE {}

\* upsert with the create and update branches of a handler.
Upsert(w, created, updated) ==
    [row EXCEPT ![w] = IF row[w].role = "none" THEN created ELSE updated]

-----------------------------------------------------------------------------
(* POST /sessions/:id/token *)

\* A page asks only to connect; after a reload the provider may not have
\* noticed yet that the old connection is gone.
MayAsk(w) == Reloads \/ (room[w] = "out" /\ (ReuseGrants \/ grants[w] = {}))

\* The active session is loaded, the permissions and the limit are evaluated;
\* with the "deny" strategy a full room answers 429 and nothing changes.
AskDecide(w) ==
    /\ ask[w].step = "idle" /\ Request /\ status = "active" /\ MayAsk(w)
    /\ \E allowed \in Allowed :
          LET d == Decision(w, allowed)
          IN  /\ ~(Strategy = "deny" /\ allowed /\ Full(w))
              /\ ask' = [ask EXCEPT ![w] = [step |-> "decided", role |-> d.role, pub |-> d.pub]]
    /\ UNCHANGED <<row, status, clock, room, grants, hooks, mod, work, stale, causes>>

\* The row is upserted (joinedAt only when it is created) and the token signed.
AskWrite(w) ==
    /\ ask[w].step = "decided"
    /\ LET new == [role |-> ask[w].role, joined |-> clock + 1, left |-> FALSE, muted |-> ~ask[w].pub]
           n == Upsert(w, new, [new EXCEPT !.joined = row[w].joined])
       IN  Commit(<<"ask", w>>, n, Vacates(w, n, "stepped"))
    /\ clock' = IF row[w].role = "none" THEN clock + 1 ELSE clock
    /\ grants' = [grants EXCEPT ![w] = {ask[w].pub} \cup (IF ReuseGrants THEN grants[w] ELSE {})]
    /\ ask' = [ask EXCEPT ![w] = NoAsk]
    /\ UNCHANGED <<asked, status, room, hooks, mod, work>>

-----------------------------------------------------------------------------
(* The provider (LiveKit) *)

Hook(w, left, pub) == [who |-> w, left |-> left, pub |-> pub]
Speaks(w) == room[w] = "publishing"
Bounded(w) == Len(hooks'[w]) <= MaxHooks

\* A member connects with a token; a connection of the same identity is replaced.
Connect(w) ==
    /\ \E pub \in grants[w] :
          /\ room' = [room EXCEPT ![w] = IF pub THEN "publishing" ELSE "listening"]
          /\ hooks' = [hooks EXCEPT ![w] = @ \o
                         (IF room[w] = "out" THEN <<>> ELSE <<Hook(w, TRUE, Speaks(w))>>)
                         \o <<Hook(w, FALSE, pub)>>]
          /\ Bounded(w)
    /\ grants' = [grants EXCEPT ![w] = IF ReuseGrants THEN @ ELSE {}]
    /\ UNCHANGED <<asked, row, status, clock, ask, mod, work, stale, causes>>

\* A member leaves or its connection is given up: participant_left, or
\* participant_connection_aborted.
Disconnect(w) ==
    /\ room[w] # "out"
    /\ room' = [room EXCEPT ![w] = "out"]
    /\ hooks' = [hooks EXCEPT ![w] = Append(@, Hook(w, TRUE, Speaks(w)))]
    /\ Bounded(w)
    /\ UNCHANGED <<asked, row, status, clock, grants, ask, mod, work, stale, causes>>

\* updateParticipant: fails for somebody who is not in the room.
SetPermission(w, muted) ==
    /\ room[w] # "out"
    /\ room' = [room EXCEPT ![w] = IF muted THEN "listening" ELSE "publishing"]

\* A token's lifetime is over.
GrantExpires(w) ==
    /\ ReuseGrants /\ grants[w] # {}
    /\ grants' = [grants EXCEPT ![w] = {}]
    /\ UNCHANGED <<asked, row, status, clock, room, hooks, ask, mod, work, stale, causes>>

-----------------------------------------------------------------------------
(* Moderators *)

\* approve: the other speakers are counted; at the limit the answer is 409.
ApproveCount(m, w) ==
    /\ "approve" \in Commands /\ mod[m].step = "idle" /\ Request /\ status = "active"
    /\ ~Full(w)
    /\ mod' = [mod EXCEPT ![m] = [step |-> "counted", kind |-> "approve", who |-> w]]
    /\ UNCHANGED <<row, status, clock, room, grants, hooks, ask, work, stale, causes>>

ApproveWrite(m) ==
    /\ mod[m].step = "counted"
    /\ LET w == mod[m].who
           new == [role |-> "speaker", joined |-> clock + 1, left |-> FALSE, muted |-> FALSE]
       IN  /\ Commit(<<"mod", m>>, Upsert(w, new, [new EXCEPT !.joined = row[w].joined]), {})
           /\ clock' = IF row[w].role = "none" THEN clock + 1 ELSE clock
    /\ mod' = [mod EXCEPT ![m].step = "command"]
    /\ UNCHANGED <<asked, status, room, grants, hooks, ask, work>>

\* deny, mute, unmute and kick write the row at once.
Moderated(kind, w) ==
    LET create == [NoRow EXCEPT !.role = "speaker"]
        old == row[w]
    IN  CASE kind = "deny"   -> Upsert(w, [create EXCEPT !.role = "listener", !.muted = TRUE],
                                          [old EXCEPT !.role = "listener", !.muted = TRUE])
          [] kind = "mute"   -> Upsert(w, [create EXCEPT !.muted = TRUE], [old EXCEPT !.muted = TRUE])
          [] kind = "unmute" -> Upsert(w, create, [old EXCEPT !.muted = FALSE])
          [] kind = "kick"   -> Upsert(w, [create EXCEPT !.left = TRUE], [old EXCEPT !.left = TRUE])

ModerateWrite(m, kind, w) ==
    /\ kind \in Commands /\ mod[m].step = "idle" /\ Request /\ status = "active"
    /\ LET n == Moderated(kind, w)
       IN  Commit(<<"mod", m>>, n, Vacates(w, n, "moderated") \cup Seats(w, n, "unmuted"))
    /\ mod' = [mod EXCEPT ![m] = [step |-> "command", kind |-> kind, who |-> w]]
    /\ UNCHANGED <<status, clock, room, grants, hooks, ask, work>>

\* The provider is told; when it does not know the member the call fails, the
\* answer is an error and the row stays as written.
Command(m) ==
    /\ mod[m].step = "command"
    /\ LET w == mod[m].who
       IN  \/ /\ mod[m].kind \in {"approve", "deny", "mute", "unmute"}
              /\ SetPermission(w, mod[m].kind \in {"deny", "mute"})
              /\ UNCHANGED hooks
           \/ /\ mod[m].kind = "kick" /\ room[w] # "out"
              /\ room' = [room EXCEPT ![w] = "out"]
              /\ hooks' = [hooks EXCEPT ![w] = Append(@, Hook(w, TRUE, Speaks(w)))]
              /\ Bounded(w)
           \/ room[w] = "out" /\ UNCHANGED <<room, hooks>>
    /\ mod' = [mod EXCEPT ![m] = NoMod]
    /\ UNCHANGED <<asked, row, status, clock, grants, ask, work, stale, causes>>

\* end: the session is ended and its room deleted, which everybody leaves.
End(m) ==
    /\ "end" \in Commands /\ mod[m].step = "idle" /\ Request /\ status = "active"
    /\ status' = "ended"
    /\ room' = [w \in Members |-> "out"]
    /\ UNCHANGED <<row, clock, grants, hooks, ask, mod, work, stale, causes>>

\* The session's time is over; requests are refused, webhooks are not.
Expire ==
    /\ "expire" \in Commands /\ status = "active"
    /\ status' = "expired"
    /\ UNCHANGED <<asked, row, clock, room, grants, hooks, ask, mod, work, stale, causes>>

\* room_finished: everybody has left and the provider has closed the room.
RoomFinished ==
    /\ "finish" \in Commands /\ status # "ended" /\ \A w \in Members : room[w] = "out"
    /\ \E w \in Members : row[w].role # "none"
    /\ status' = "ended"
    /\ UNCHANGED <<asked, row, clock, room, grants, hooks, ask, mod, work, stale, causes>>

-----------------------------------------------------------------------------
(* The provider's webhooks *)

\* resolveWebhookParticipantRole
HookRole(w, h) ==
    CASE h.left /\ row[w].role # "none" -> row[w].role
      [] ~(h.left /\ row[w].role # "none") /\ h.pub -> "speaker"
      [] OTHER -> IF row[w].role = "queued" THEN "queued" ELSE "listener"

\* syncLiveKitParticipant reads the row; with no open session the event is
\* dropped.  It writes the row in a second step.
HookRead(k, w) ==
    /\ work[k].step = "idle"
    /\ \E i \in 1..Len(hooks[w]) :
          LET h == hooks[w][i]
          IN  /\ InOrder => (i = 1 /\ \A j \in Workers : work[j].who # w)
              /\ hooks' = [hooks EXCEPT ![w] = RemoveAt(@, i)]
              /\ work' = IF status = "ended" THEN work
                         ELSE [work EXCEPT ![k] =
                                 [step |-> "read", who |-> w, left |-> h.left, pub |-> h.pub,
                                  role |-> HookRole(w, h), was |-> w \in Active(row),
                                  list |-> {}, next |-> "none"]]
    /\ UNCHANGED <<asked, row, status, clock, room, grants, ask, mod, stale, causes>>

\* A leaving speaker makes the handler promote from the queue.
Promotes(k) == work[k].left /\ work[k].was /\ Strategy = "queue"

HookWrite(k) ==
    /\ work[k].step = "read"
    /\ LET w == work[k].who
           new == [role |-> work[k].role, left |-> work[k].left, muted |-> ~work[k].pub,
                   joined |-> IF work[k].left THEN 0 ELSE clock + 1]
           n == Upsert(w, new, [new EXCEPT !.joined = row[w].joined])
       IN  /\ Commit(<<"work", k>>, n, Seats(w, n, "rejoined")
                       \cup (IF work[k].left THEN {} ELSE Vacates(w, n, "demoted"))
                       \cup (IF w \in Waiting(n) \ Waiting(row) THEN {"resumed"} ELSE {}))
           /\ clock' = IF row[w].role = "none" /\ ~work[k].left THEN clock + 1 ELSE clock
    /\ work' = [work EXCEPT ![k] = IF Promotes(k) THEN [@ EXCEPT !.step = "written"] ELSE NoWork]
    /\ UNCHANGED <<asked, status, room, grants, hooks, ask, mod>>

-----------------------------------------------------------------------------
(* promoteNextQueuedSpeakerIfEligible *)

\* Defect: the newest in the queue are taken.
NextOnesNewest(S) ==
    \A a \in S, b \in Waiting(row) \ S : ~Sooner(a, b)

\* orderBy joinedAt: those taken are not behind those left waiting.
NextOnes(S) ==
    \A a \in S, b \in Waiting(row) \ S : ~Sooner(b, a)

\* The free seats are counted and as many of the queue listed.
PromoteList(k) ==
    /\ work[k].step = "written"
    /\ LET free == MaxSpeakers - Cardinality(Active(row))
       IN  IF Cardinality(Active(row)) >= MaxSpeakers \/ Waiting(row) = {}
           THEN work' = [work EXCEPT ![k] = NoWork]
           ELSE \E S \in SUBSET Waiting(row) :
                   /\ NextOnes(S)
                   /\ \/ Cardinality(S) = free
                      \/ S = Waiting(row) /\ Cardinality(S) < free
                   /\ work' = [work EXCEPT ![k] = [@ EXCEPT !.step = "listed", !.list = S]]
    /\ UNCHANGED <<asked, row, status, clock, room, grants, hooks, ask, mod, stale, causes>>

\* The first of the list may publish; if the provider does not know it the
\* handler fails and those behind it are not promoted either.
PromoteUnmute(k) ==
    /\ work[k].step = "listed" /\ work[k].list # {}
    /\ \E w \in work[k].list :
          /\ \A v \in work[k].list : ~Sooner(v, w)
          /\ \/ /\ SetPermission(w, FALSE)
                /\ work' = [work EXCEPT ![k] = [@ EXCEPT !.step = "unmuted", !.next = w]]
                /\ UNCHANGED <<stale, causes>>
             \/ /\ room[w] = "out"
                /\ work' = [work EXCEPT ![k] = NoWork]
                /\ causes' = causes \cup {"unreachable"}
                /\ stale' = stale \ {<<"work", k>>}
                /\ UNCHANGED room
    /\ UNCHANGED <<asked, row, status, clock, grants, hooks, ask, mod>>

PromoteUpdate(k) ==
    /\ work[k].step = "unmuted"
    /\ LET w == work[k].next
           rest == work[k].list \ {w}
       IN  /\ Commit(<<"work", k>>,
                     [row EXCEPT ![w] = [@ EXCEPT !.role = "speaker", !.muted = FALSE, !.left = FALSE]], {})
           /\ work' = [work EXCEPT ![k] = IF rest = {} THEN NoWork
                                          ELSE [@ EXCEPT !.step = "listed", !.list = rest]]
    /\ UNCHANGED <<asked, status, clock, room, grants, hooks, ask, mod>>

-----------------------------------------------------------------------------
Init ==
    /\ row = [w \in Members |-> NoRow] /\ status = "active" /\ clock = 0
    /\ room = [w \in Members |-> "out"] /\ grants = [w \in Members |-> {}]
    /\ hooks = [w \in Members |-> <<>>]
    /\ ask = [w \in Members |-> NoAsk] /\ asked = 0
    /\ mod = [m \in Moderators |-> NoMod]
    /\ work = [k \in Workers |-> NoWork]
    /\ stale = {} /\ causes = {}

Next ==
    \/ \E w \in Members : AskDecide(w) \/ AskWrite(w) \/ Connect(w) \/ Disconnect(w) \/ GrantExpires(w)
    \/ \E m \in Moderators, w \in Members : ApproveCount(m, w)
    \/ \E m \in Moderators, w \in Members, kind \in {"deny", "mute", "unmute", "kick"} : ModerateWrite(m, kind, w)
    \/ \E m \in Moderators : ApproveWrite(m) \/ Command(m) \/ End(m)
    \/ Expire \/ RoomFinished
    \/ \E k \in Workers, w \in Members : HookRead(k, w)
    \/ \E k \in Workers : HookWrite(k) \/ PromoteList(k) \/ PromoteUnmute(k) \/ PromoteUpdate(k)

Spec == Init /\ [][Next]_vars

-----------------------------------------------------------------------------
(* Properties *)

Causes == {"raced", "stepped", "moderated", "unmuted", "rejoined", "demoted", "resumed", "unreachable"}

\* Every variable has the shape the handlers give it.
TypeOK ==
    /\ \A w \in Members :
          /\ row[w].role \in Roles /\ row[w].joined \in 0..clock
          /\ row[w].left \in BOOLEAN /\ row[w].muted \in BOOLEAN
          /\ Len(hooks[w]) <= MaxHooks
          /\ ask[w].pub => ask[w].role = "speaker"
    /\ status \in {"active", "expired", "ended"} /\ clock \in 0..Cardinality(Members)
    /\ asked \in 0..MaxRequests
    /\ room \in [Members -> {"out", "listening", "publishing"}]
    /\ grants \in [Members -> SUBSET BOOLEAN]
    /\ \A m \in Moderators : mod[m].step \in {"idle", "counted", "command"}
    /\ \A k \in Workers : work[k].step \in {"idle", "read", "written", "listed", "unmuted"}
    /\ stale \subseteq Pending /\ causes \subseteq Causes

\* More speakers are recorded than the room allows only after a handler wrote
\* on the strength of a count that others had changed, a moderator unmuted
\* somebody (no limit is looked at), or somebody came back with an old token.
LimitBrokenOnlyBy ==
    Cardinality(Active(row)) > MaxSpeakers => causes \cap {"raced", "unmuted", "rejoined"} # {}

\* Nothing is being handled.
AtRest == /\ \A w \in Members : ask[w].step = "idle" /\ hooks[w] = <<>>
          /\ \A m \in Moderators : mod[m].step = "idle"
          /\ \A k \in Workers : work[k].step = "idle"

\* With the queue strategy a seat stays empty while somebody connected waits
\* for one only if handlers raced, a moderator took the seat from a speaker, a
\* speaker asked for a new token and was put at the end of the queue, a late
\* webhook demoted a speaker, one who waits was recorded as gone when the seat
\* became free, or the head of the queue could not be reached.
SeatIdleOnlyAfter ==
    (/\ Strategy = "queue" /\ status = "active" /\ AtRest
     /\ Cardinality(Active(row)) < MaxSpeakers
     /\ \E w \in Waiting(row) : room[w] # "out")
    => causes \cap {"raced", "moderated", "stepped", "demoted", "resumed", "unreachable"} # {}

\* Seats are neither overbooked nor left empty but for the causes named above.
SeatsHold == TypeOK /\ LimitBrokenOnlyBy /\ SeatIdleOnlyAfter

\* Whoever is taken from the queue, by a token of its own or by a promotion,
\* had nobody ahead of it unless the handlers raced.
ServedNext ==
    \A w \in Members :
        (/\ row[w].role = "queued" /\ w \in Active(row') /\ "raced" \notin causes'
         /\ AskWrite(w) \/ \E k \in Workers : PromoteUpdate(k))
        => \A v \in Waiting(row) \ {w} : ~Sooner(v, w)

QueueServedInOrder == [][Strategy = "queue" => ServedNext]_vars
=============================================================================
