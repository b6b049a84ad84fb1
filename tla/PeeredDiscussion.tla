-------------------------- MODULE PeeredDiscussion --------------------------
(***************************************************************************)
(* Deployments that exchange their discussions (PeerSync) and a page that  *)
(* follows the one of its deployment (DiscussionFeed), side by side: a     *)
(* page knows nothing of where a message was posted.                       *)
(***************************************************************************)
EXTENDS PeerSync

CONSTANTS ReplayLimit, SyncLimit, MaxOpen, MaxTombstones, MaxLost, MaxDrops

ASSUME FeedAssumption == {ReplayLimit, SyncLimit} \subseteq Nat

VARIABLES lamports, posting, messages, announce, conn, list, engine, feedFaults, skipped

feedVars == <<lamports, posting, messages, announce, conn, list, engine, feedFaults, skipped>>

Feed == INSTANCE DiscussionFeed WITH
    seq <- lamports, open <- posting, rows <- messages, faults <- feedFaults,
    MaxDeletes <- MaxTombstones

\* A message below a page's cursor is in its list, but for the named ways a cursor passes one.
NothingMissed == Feed!TypeOK /\ Feed!NothingElseMissed
=============================================================================
