---------------------------- MODULE MCGovernance ----------------------------
(***************************************************************************)
(* A governance request, the execution of an accepted action and the plan  *)
(* of a funding round, for one run of TLC.  `part' says which of the       *)
(* following a behaviour is about; the others stay as they began:          *)
(*   staged    a staged request about an offered mandate (the cfg);        *)
(*   legacy    a legacy request that would deactivate a binding, with      *)
(*             redelivered and contradicting ballots and an outsider;      *)
(*   settles   a provider-bound request decided by complete quadratic      *)
(*             ballots, under fairness;                                    *)
(*   executes  two runs of an accepted action that are retried for ever,   *)
(*             and a client that posts receipts under keys of its own;     *)
(*   matches   a round of two actors and three projects.                   *)
(***************************************************************************)
EXTENDS GovernedAction, TLC

CONSTANTS m1, m2, m3, out, n1, n2, r1, r2, c1

VARIABLES
    part,
    bClock, bSignals, bState, bDecision, bCase, bBinding, bExecuted, bInflight, bDuties, bCrashes

otherVars == <<bClock, bSignals, bState, bDecision, bCase, bBinding, bExecuted, bInflight,
               bDuties, bCrashes>>
all == <<part, vars, otherVars, executionVars, planVars>>

Legacy == INSTANCE GovernanceRequest WITH
    Eligible <- {m1, m2}, Outsiders <- {out}, Choices <- {"approve", "reject"},
    Nonces <- {n1, n2}, Mode <- "legacy", Subject <- "exact",
    clock <- bClock, signals <- bSignals, state <- bState, decision <- bDecision,
    case <- bCase, binding <- bBinding, executed <- bExecuted, inflight <- bInflight,
    duties <- bDuties, crashes <- bCrashes

Settles == INSTANCE GovernanceRequest WITH
    Eligible <- {m1, m2}, Choices <- {"approve", "reject"}, Threshold <- 1,
    Mechanism <- "complete", Mode <- "provider", Deadline <- 2, Horizon <- 3, MaxInFlight <- 1,
    clock <- bClock, signals <- bSignals, state <- bState, decision <- bDecision,
    case <- bCase, binding <- bBinding, executed <- bExecuted, inflight <- bInflight,
    duties <- bDuties, crashes <- bCrashes

\* What the client posts.
OtherReceipts == {[key |-> "other", status |-> x] : x \in {"executed", "failed"}}

ASSUME PostsHaveOwnKeys == Exec!OwnKeys
ASSUME UnitsAreNumbers == Plan!MatchingConstants

InSettles(A) ==
    part = "settles" /\ A /\ UNCHANGED <<part, vars, executionVars, planVars>>
InExecutes(A) ==
    part = "executes" /\ A /\ UNCHANGED <<part, vars, otherVars, planVars>>
InMatches(A) ==
    part = "matches" /\ A /\ UNCHANGED <<part, vars, otherVars, executionVars>>

MCInit ==
    /\ part \in {"staged", "legacy", "settles", "executes", "matches"}
    /\ Init
    /\ IF part = "settles" THEN Settles!Init ELSE Legacy!Init
    /\ Exec!Init
    /\ Plan!Init
    /\ part # "matches" => \A p \in Plan!Projects : score[p] = 0 /\ caps[p] = 1

MCNext ==
    \/ /\ part = "staged" /\ Next
       /\ UNCHANGED <<part, otherVars, executionVars, planVars>>
    \/ /\ part = "legacy" /\ Legacy!Next
       /\ UNCHANGED <<part, vars, executionVars, planVars>>
    \/ InSettles(Settles!Next)
    \/ InExecutes(Exec!Next)
    \/ InMatches(Plan!Next)

MCSpec ==
    /\ MCInit /\ [][MCNext]_all
    /\ WF_all(InSettles(Settles!Tick)) /\ WF_all(InSettles(Settles!SweepPicks))
    /\ WF_all(InSettles(\E h \in Settles!Sweeps : Settles!ExpiryCommits(h) \/ Settles!Refused(h)))
    /\ \A r \in {r1, r2} : WF_all(InExecutes(Exec!Run(r)))
    /\ WF_all(InExecutes(Exec!LeaseEnds)) /\ WF_all(InExecutes(Exec!Unblock))
    /\ WF_all(InMatches(Plan!Next))

-----------------------------------------------------------------------------

\* A legacy request's ballots and verdict stand over redelivered and contradicting ballots,
\* and what is done after the commit, by whoever lives to do it, follows the verdict.
LegacyStands ==
    Legacy!BallotsAndVerdictStand /\ [](part = "legacy" => Legacy!EffectsFollowVerdict)

\* A request is decided although nobody has to vote and a crash loses its handlers, and an
\* accepted action that is retried reaches its adapter whatever refused, failed or locked it.
RequestsEnd ==
    /\ part = "settles" => Settles!EventuallyDecided
    /\ part = "executes" => Exec!RetryReachesTheAdapter
    /\ part = "matches" => Plan!PlanIsFound
=============================================================================
