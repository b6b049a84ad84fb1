---------------------------- MODULE MCDiscussion ----------------------------
(***************************************************************************)
(* The discussion as a page follows it and as deployments exchange it, for *)
(* one run of TLC.  `part' says what a behaviour is of:                    *)
(*   live       two messages and every fault but deletions: each query     *)
(*              returns one row (DiscussionFeed);                          *)
(*   deletes    two messages of which one is deleted;                      *)
(*   shows      two messages, limits that are not reached, in fairness;    *)
(*   processes  a deployment that pulls two messages from its peer with    *)
(*              two processes (PeerSync);                                  *)
(*   chain      three deployments, each of which pulls from the one        *)
(*              before, in fairness.                                       *)
(* The parts of DiscussionFeed share its variables, and so do those of     *)
(* PeerSync; the other variables stay as they began.                       *)
(***************************************************************************)
EXTENDS PeeredDiscussion

CONSTANTS m1, m2, a, b, c, p1, p2, MaxQueue

VARIABLE part

all == <<part, vars, feedVars>>

\* A pulls from nobody, B from A, C from B.
Pairs == {<<b, a>>, <<c, b>>}

Pulls == INSTANCE PeerSync WITH Targets <- {<<b, a>>}, MaxFailures <- 0
Chain == INSTANCE PeerSync WITH Processes <- {p1}, MaxDeletes <- 0

Deletes == INSTANCE DiscussionFeed WITH
    MaxOpen <- 1, MaxLost <- 0, MaxDrops <- 0, MaxFailures <- 0,
    seq <- lamports, open <- posting, rows <- messages, faults <- feedFaults
Shows == INSTANCE DiscussionFeed WITH
    ReplayLimit <- 3, SyncLimit <- 3, MaxOpen <- 1, MaxLost <- 0, MaxDrops <- 0, MaxFailures <- 0,
    seq <- lamports, open <- posting, rows <- messages, faults <- feedFaults

MCInit ==
    /\ part \in {"live", "deletes", "shows", "processes", "chain"}
    /\ Init /\ Feed!Init

Feeds(A) == A /\ UNCHANGED <<part, vars>>
Peers(A) == A /\ UNCHANGED <<part, feedVars>>
InShows(A) == part = "shows" /\ Feeds(A)
InChain(A) == part = "chain" /\ Peers(A)

MCNext ==
    \/ part = "live" /\ Feeds(Feed!Next)
    \/ part = "deletes" /\ Feeds(Deletes!Next)
    \/ InShows(Shows!Next)
    \/ part = "processes" /\ Peers(Pulls!Next)
    \/ InChain(Chain!Next)

MCSpec ==
    /\ MCInit /\ [][MCNext]_all
    /\ WF_all(InShows(\E e \in {m1, m2} : Shows!CommitPost(e)))
    /\ WF_all(InShows(Shows!Publish))
    /\ WF_all(InShows(Shows!Connect)) /\ WF_all(InShows(Shows!ReadReplay))
    /\ WF_all(InShows(Shows!SendReplay)) /\ WF_all(InShows(Shows!Flush))
    /\ WF_all(InShows(Shows!CatchUp)) /\ WF_all(InShows(Shows!Lookup))
    /\ WF_all(InShows(Shows!Reconcile))
    /\ \A d \in {a, b, c}, e \in {m1, m2} : WF_all(InChain(Chain!CommitPost(d, e)))
    /\ \A t \in Pairs : WF_all(InChain(Chain!Tick(t, p1)))

\* Bound: the queues of the page and of the connection stay short.
FeedBound ==
    /\ \A kind \in BOOLEAN :
         Cardinality({i \in DOMAIN engine.pushed : engine.pushed[i].deleted = kind}) <= MaxQueue
    /\ Len(announce) <= MaxQueue /\ Len(conn.buffer) <= 1

\* A page comes to list every message its cursor did not pass, and to show the deleted ones
\* as deleted, although the drain of a replay drops the event of the deletion; and what a peer
\* holds arrives, over every deployment between, unless it was overtaken there.  (No message
\* is lost once it is stored: to arrive eventually is to have arrived for good.)
EverythingArrives ==
    <>[](/\ part = "shows" =>
              /\ \A e \in Feed!Committed : ~messages[e].deleted => e \in Feed!Listed \union skipped
              /\ \A i \in DOMAIN list : list[i].deleted = messages[list[i].env].deleted
         /\ part = "chain" =>
              \A t \in Pairs : Holds(t[2]) \subseteq Holds(t[1]) \union overtaken[t[2]])
=============================================================================
