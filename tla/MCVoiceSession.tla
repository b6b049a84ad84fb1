--------------------------- MODULE MCVoiceSession ---------------------------
(***************************************************************************)
(* Four rooms, for one run of TLC.  `part' says what a behaviour is of:    *)
(*   queue      three members and one seat, the queue strategy, nobody     *)
(*              moderates, webhooks in order (the constants of the cfg);   *)
(*   reloads    two members whose pages reload, webhooks in any order, and *)
(*              a session that ends or expires;                            *)
(*   moderated  two members, a moderated queue, approvals, denials, kicks; *)
(*   muted      two members whose tokens are used again, the default       *)
(*              strategy, a moderator who mutes, unmutes and kicks.        *)
(* The last three share the variables of the other room, which stay as     *)
(* they began while a behaviour is of the queue.                           *)
(***************************************************************************)
EXTENDS VoiceSession, TLC

CONSTANTS w1, w2, m1

VARIABLES part, oRow, oStatus, oClock, oRoom, oGrants, oHooks, oAsk, oMod, oAsked, oWork,
          oStale, oCauses

otherVars == <<oRow, oStatus, oClock, oRoom, oGrants, oHooks, oAsk, oMod, oAsked, oWork,
               oStale, oCauses>>

Reloading == INSTANCE VoiceSession WITH
    Members <- {w1, w2}, Moderators <- {m1}, Commands <- {"end", "expire", "finish"},
    Reloads <- TRUE, InOrder <- FALSE, MaxHooks <- 2, MaxRequests <- 4,
    row <- oRow, status <- oStatus, clock <- oClock, room <- oRoom, grants <- oGrants,
    hooks <- oHooks, ask <- oAsk, mod <- oMod, asked <- oAsked, work <- oWork,
    stale <- oStale, causes <- oCauses
Moderating == INSTANCE VoiceSession WITH
    Members <- {w1, w2}, Moderators <- {m1}, Commands <- {"approve", "deny", "kick"},
    Strategy <- "moderated_queue", Allowed <- BOOLEAN, InOrder <- FALSE, MaxRequests <- 5,
    row <- oRow, status <- oStatus, clock <- oClock, room <- oRoom, grants <- oGrants,
    hooks <- oHooks, ask <- oAsk, mod <- oMod, asked <- oAsked, work <- oWork,
    stale <- oStale, causes <- oCauses
Muted == INSTANCE VoiceSession WITH
    Members <- {w1, w2}, Moderators <- {m1}, Commands <- {"mute", "unmute", "kick"},
    Strategy <- "listen_only", ReuseGrants <- TRUE, InOrder <- FALSE, MaxRequests <- 4,
    row <- oRow, status <- oStatus, clock <- oClock, room <- oRoom, grants <- oGrants,
    hooks <- oHooks, ask <- oAsk, mod <- oMod, asked <- oAsked, work <- oWork,
    stale <- oStale, causes <- oCauses

ASSUME AllRooms ==
    /\ VoiceConstants
    /\ Reloading!VoiceConstants /\ Moderating!VoiceConstants /\ Muted!VoiceConstants

MCInit == part \in {"queue", "reloads", "moderated", "muted"} /\ Init /\ Muted!Init

MCNext ==
    /\ \/ part = "queue" /\ Next /\ UNCHANGED otherVars
       \/ part = "reloads" /\ Reloading!Next /\ UNCHANGED vars
       \/ part = "moderated" /\ Moderating!Next /\ UNCHANGED vars
       \/ part = "muted" /\ Muted!Next /\ UNCHANGED vars
    /\ UNCHANGED part

MCSpec == MCInit /\ [][MCNext]_<<part, vars, otherVars>>

\* An invariant that a cause excuses holds in every later state, for causes are
\* never forgotten: the states after one need not be looked at.
NoExcuse ==
    (causes \cup oCauses) \cap
        (IF part \in {"queue", "reloads"}
         THEN {"raced", "moderated", "stepped", "demoted", "resumed", "unreachable"}
         ELSE {"raced", "unmuted", "rejoined"}) = {}

\* A seat stays empty while somebody waits for one, and the speaker limit is exceeded, only
\* for the causes VoiceSession names: whatever moderators do, however often pages reload and
\* tokens are used, and in whatever order webhooks arrive.
RoomsHold ==
    CASE part = "reloads"   -> Reloading!SeatsHold
      [] part = "moderated" -> Moderating!SeatsHold
      [] OTHER              -> Muted!SeatsHold

Symmetry == Permutations({w1, w2})
=============================================================================
