------------------------- MODULE GovernanceRequest --------------------------
(***************************************************************************)
(* The life of one governance request of the query API: ballots, expiry,   *)
(* cancellation and the reconciler's sweep                                 *)
(* (services/governance/policyEngine.ts, governanceRequestReconciler.ts,   *)
(* the signal routes of rest/governance.ts).  A handler reads the clock,   *)
(* then waits for the row lock (SELECT ... FOR UPDATE) and does its work   *)
(* in one transaction; by then its clock may be old.  What the case must   *)
(* hear of the result is written in the transaction; what else follows     *)
(* from it (execution, the rejection of a legacy binding) is done after    *)
(* the commit by the process that made it, and is lost with it.            *)
(***************************************************************************)
EXTENDS FiniteSets, Integers

CONSTANTS
    Eligible,    \* members of the frozen electorate
    Outsiders,   \* callers who are not in it
    Choices,     \* "approve", "reject", "abstain"
    Nonces,      \* wallet nonces: two deliveries with the same one are the same
    Threshold,   \* resolveCommitteeMemberApprovalThreshold
    Mechanism,   \* "threshold" (committee) or "complete" (quadratic ballots)
    Mode,        \* "legacy", "stage" or "provider": request.executionMode
    Subject,     \* what a refusal releases: "plain" (nothing), "binding" (an
                 \* offered mandate; twice is once) or "exact" (a binding to
                 \* deactivate, a mandate to supersede; twice is an error)
    Deadline,    \* request.expiresAt
    Horizon,     \* bound: the clock stops here
    MaxInFlight, \* bound: callers waiting for the row lock
    MaxCrashes,  \* bound: process crashes
    None

ASSUME RequestAssumption ==
    /\ IsFiniteSet(Eligible)
    /\ Threshold \in Nat \ {0}
    /\ Mechanism \in {"threshold", "complete"}
    /\ Mode \in {"legacy", "stage", "provider"}
    /\ Subject \in {"plain", "binding", "exact"}
    /\ Deadline \in Nat /\ Horizon \in Nat

VARIABLES
    clock,     \* wall clock
    signals,   \* [Eligible -> ballot or None]: governance_signals
    state,     \* governance_requests.state
    decision,  \* governance_decisions row of the request, or None
    case,      \* decision outcome of the request's case: "pending" or a verdict
    binding,   \* the binding the request is about: "pending" or "released"
    executed,  \* the accepted action was handed to its executor
    inflight,  \* handlers that read the clock and wait for the row lock
    duties,    \* what committed handlers still have to do
    crashes

vars == <<clock, signals, state, decision, case, binding, executed, inflight,
          duties, crashes>>

Ballot == [choice : Choices, nonce : Nonces]
Verdicts == {"accepted", "rejected", "expired", "cancelled"}
Reasons == {"ballots", "deadline", "all_voted", "cancelled"}
Decision == [verdict : Verdicts, at : Nat, reason : Reasons]

ASSUME NoneAssumption ==
    None \notin Choices \cup {"approve", "reject"} \cup Ballot \cup Verdicts
                  \cup Decision

Handler ==
    [op : {"vote"}, actor : Eligible \cup Outsiders, ballot : Ballot, at : Nat]
      \cup [op : {"lapse", "sweep", "cancel"}, at : Nat]

TypeOK ==
    /\ clock \in 0 .. Horizon
    /\ signals \in [Eligible -> Ballot \cup {None}]
    /\ state \in Verdicts \cup {"active"}
    /\ decision \in Decision \cup {None}
    /\ case \in Verdicts \cup {"pending"}
    /\ binding \in {"pending", "released"}
    /\ executed \in BOOLEAN
    /\ inflight \subseteq Handler
    /\ duties \subseteq {"execute", "release"}
    /\ crashes \in Nat

Init ==
    /\ clock = 0
    /\ signals = [a \in Eligible |-> None]
    /\ state = "active"
    /\ decision = None
    /\ case = "pending"
    /\ binding = "pending"
    /\ executed = FALSE
    /\ inflight = {}
    /\ duties = {}
    /\ crashes = 0

-----------------------------------------------------------------------------
(* Evaluation of the ballots.                                              *)

For(c, s) == {a \in Eligible : s[a] # None /\ s[a].choice = c}
Voted(s) == {a \in Eligible : s[a] # None}

\* evaluateCommitteeMemberThreshold and the quadratic evaluators: an outcome,
\* or "active".
Evaluate(s) ==
    IF Mechanism = "complete"
    THEN IF Eligible # {} /\ Voted(s) = Eligible THEN "accepted" ELSE "active"
    ELSE IF Cardinality(For("approve", s)) >= Threshold THEN "accepted"
    ELSE IF Cardinality(For("reject", s)) >= Threshold THEN "rejected"
    ELSE "active"

Tied(s) ==
    /\ Voted(s) # {}
    /\ Cardinality(For("approve", s)) = Cardinality(For("reject", s))

\* allEligibleActorsHaveTerminalSignals, for a result that is still active.
AllVotedUndecided(s) ==
    /\ Evaluate(s) = "active"
    /\ Eligible # {} /\ Voted(s) = Eligible
    /\ Mechanism = "threshold" => ~Tied(s)

-----------------------------------------------------------------------------
(* Effects of a terminal decision.                                         *)

\* recordCircleGovernanceBindingRejectedDecision, on a binding in state b:
\* may it run, and what it leaves.
MayRelease(b) == Subject = "exact" => b = "pending"
Released(b) == IF Subject = "plain" THEN b ELSE "released"

\* onExpire is 'reject_case' in every plan buildPlan freezes.
CaseOutcome(v) == IF v = "expired" THEN "rejected" ELSE v

\* applyGovernanceCaseDecisionResolution in the transaction of the decision: a
\* case that heard before must have heard the same.
MayTellCase(v) == Mode # "legacy" => case \in {"pending", CaseOutcome(v)}

CaseAfter(v) == IF Mode = "legacy" THEN case ELSE CaseOutcome(v)

\* Defect: only a rejection by ballot releases.
BindingAfterRejection(v) ==
    IF Mode # "legacy" /\ case = "pending" /\ v = "rejected"
    THEN Released(binding) ELSE binding

BindingAfter(v) ==
    IF Mode # "legacy" /\ case = "pending" /\ v # "accepted"
    THEN Released(binding) ELSE binding

TellCase(v) ==
    /\ MayTellCase(v)
    /\ case' = CaseAfter(v)

\* What the signal route does after the commit.
DutiesOf(v) ==
    (IF v = "accepted" /\ Mode # "stage" THEN {"execute"} ELSE {})
      \cup (IF v = "rejected" /\ Mode = "legacy" THEN {"release"} ELSE {})

Decide(v, at, reason) ==
    /\ decision' = [verdict |-> v, at |-> at, reason |-> reason]
    /\ state' = v

Done(h) == inflight' = inflight \ {h}

-----------------------------------------------------------------------------
(* Handlers up to the row lock.                                            *)

Sweeps == {h \in inflight : h.op = "sweep"}

Enter(h) ==
    /\ inflight' = inflight \cup {h}
    /\ UNCHANGED <<clock, signals, state, decision, case, binding, executed,
                   duties, crashes>>

\* POST /requests/:id/signals: a request past its deadline is expired instead
\* of voted on.
SubmitSignal(a, b) ==
    /\ Cardinality(inflight \ Sweeps) < MaxInFlight
    /\ Enter(IF Deadline <= clock
             THEN [op |-> "lapse", at |-> clock]
             ELSE [op |-> "vote", actor |-> a, ballot |-> b, at |-> clock])

\* POST /cases/:id/approval-stage/cancel
RequestCancel ==
    /\ Cardinality(inflight \ Sweeps) < MaxInFlight
    /\ Enter([op |-> "cancel", at |-> clock])

\* Defect: only requests somebody voted on are looked at.
SweepPicksVoted ==
    /\ state = "active" /\ Sweeps = {}
    /\ Voted(signals) # {}
    /\ Enter([op |-> "sweep", at |-> clock])

\* reconcileActiveGovernanceRequests, one at a time, picks the request.
SweepPicks ==
    /\ state = "active"
    /\ Sweeps = {}
    /\ Deadline <= clock \/ Voted(signals) # {}
    /\ Enter([op |-> "sweep", at |-> clock])

-----------------------------------------------------------------------------
(* The transactions: when they go through and what they write.             *)

\* recordAndResolveGovernanceSignalAtomically on a decided request: the
\* delivery that is on record is answered again, effects included.
Redelivered(h) ==
    /\ state # "active" /\ decision # None
    /\ h.actor \in Eligible /\ signals[h.actor] = h.ballot
    /\ MayTellCase(decision.verdict)

\* Defects: a ballot that differs replaces the one on record; the ballot is
\* recorded and not evaluated.
CountedAgain(h) ==
    /\ state = "active" /\ decision = None
    /\ h.at < Deadline /\ h.actor \in Eligible

RecordOnly(h) ==
    /\ state = "active" /\ h.at < Deadline /\ h.actor \in Eligible
    /\ signals[h.actor] = None
    /\ signals' = [signals EXCEPT ![h.actor] = h.ballot]
    /\ UNCHANGED <<state, decision, case, binding, duties>>

\* ... and on an open one: the ballot is recorded, or found on record.
Counted(h) ==
    /\ state = "active" /\ decision = None
    /\ h.at < Deadline
    /\ h.actor \in Eligible
    /\ signals[h.actor] \in {None, h.ballot}

AnswerAgain(h) ==
    /\ Redelivered(h)
    /\ TellCase(decision.verdict)
    /\ binding' = BindingAfter(decision.verdict)
    /\ duties' = duties \cup DutiesOf(decision.verdict)
    /\ UNCHANGED <<signals, state, decision>>

Count(h) ==
    /\ Counted(h)
    /\ signals' = [signals EXCEPT ![h.actor] = h.ballot]
    /\ LET v == Evaluate(signals') IN
       IF v = "active"
       THEN UNCHANGED <<state, decision, case, binding, duties>>
       ELSE /\ Decide(v, h.at, "ballots")
            /\ TellCase(v)
            /\ binding' = BindingAfter(v)
            /\ duties' = duties \cup DutiesOf(v)

VoteCommits(h) ==
    /\ h.op = "vote"
    /\ Done(h)
    /\ AnswerAgain(h) \/ Count(h)
    /\ UNCHANGED <<clock, executed, crashes>>

\* expireGovernanceRequestAtomically.  The sweep also ends a request on which
\* everybody voted without a result; it releases the binding whether or not
\* the case just did (applyGovernanceRequestTerminalEffects).
ExpiredAlready == state = "expired" /\ decision # None
                  /\ decision.verdict = "expired"

Overdue(h) ==
    /\ state = "active" /\ decision = None
    /\ Deadline <= h.at \/ (h.op = "sweep" /\ AllVotedUndecided(signals))

Expirable(h) ==
    /\ ExpiredAlready \/ Overdue(h)
    /\ MayTellCase("expired")
    /\ h.op = "sweep" => MayRelease(BindingAfter("expired"))

ExpiryCommits(h) ==
    /\ h.op \in {"lapse", "sweep"}
    /\ Done(h)
    /\ Expirable(h)
    /\ IF ExpiredAlready
       THEN UNCHANGED <<state, decision>>
       ELSE Decide("expired", h.at,
                   IF Deadline <= h.at THEN "deadline" ELSE "all_voted")
    /\ TellCase("expired")
    /\ binding' = IF h.op = "sweep" THEN Released(BindingAfter("expired"))
                  ELSE BindingAfter("expired")
    /\ UNCHANGED <<clock, signals, executed, duties, crashes>>

\* cancelGovernanceRequestAtomically; authorize wants the case undecided.
Cancellable(h) ==
    /\ Mode # "legacy" /\ case = "pending"
    /\ state = "active" /\ decision = None
    /\ h.at < Deadline

CancelCommits(h) ==
    /\ h.op = "cancel"
    /\ Done(h)
    /\ Cancellable(h)
    /\ Decide("cancelled", h.at, "cancelled")
    /\ TellCase("cancelled")
    /\ binding' = BindingAfter("cancelled")
    /\ UNCHANGED <<clock, signals, executed, duties, crashes>>

\* The transaction throws and nothing of it stays.
Refused(h) ==
    /\ CASE h.op = "vote" -> ~Redelivered(h) /\ ~Counted(h)
         [] h.op = "cancel" -> ~Cancellable(h)
         [] OTHER -> ~Expirable(h)
    /\ Done(h)
    /\ UNCHANGED <<clock, signals, state, decision, case, binding, executed,
                   duties, crashes>>

-----------------------------------------------------------------------------
(* After the commit, and the environment.                                  *)

\* executeAcceptedGovernanceRequest, by the route that decided.
ExecuteDuty ==
    /\ "execute" \in duties
    /\ duties' = duties \ {"execute"}
    /\ executed' = TRUE
    /\ UNCHANGED <<clock, signals, state, decision, case, binding, inflight,
                   crashes>>

\* The rejected legacy request releases its binding, outside the transaction.
ReleaseDuty ==
    /\ "release" \in duties
    /\ duties' = duties \ {"release"}
    /\ binding' = IF MayRelease(binding) THEN Released(binding) ELSE binding
    /\ UNCHANGED <<clock, signals, state, decision, case, executed, inflight,
                   crashes>>

\* POST /requests/:id/execute
ManualExecute ==
    /\ state = "accepted" /\ Mode # "stage"
    /\ ~executed
    /\ executed' = TRUE
    /\ UNCHANGED <<clock, signals, state, decision, case, binding, inflight,
                   duties, crashes>>

Tick ==
    /\ clock < Horizon
    /\ clock' = clock + 1
    /\ UNCHANGED <<signals, state, decision, case, binding, executed, inflight,
                   duties, crashes>>

\* The process dies: transactions not committed and duties not done are gone.
Crash ==
    /\ crashes < MaxCrashes
    /\ crashes' = crashes + 1
    /\ inflight' = {}
    /\ duties' = {}
    /\ UNCHANGED <<clock, signals, state, decision, case, binding, executed>>

-----------------------------------------------------------------------------
Next ==
    \/ \E a \in Eligible \cup Outsiders, b \in Ballot : SubmitSignal(a, b)
    \/ RequestCancel
    \/ SweepPicks
    \/ \E h \in inflight : VoteCommits(h)
    \/ \E h \in inflight : ExpiryCommits(h)
    \/ \E h \in inflight : CancelCommits(h)
    \/ \E h \in inflight : Refused(h)
    \/ ExecuteDuty
    \/ ReleaseDuty
    \/ ManualExecute
    \/ Tick
    \/ Crash

Spec == Init /\ [][Next]_vars

\* Time passes, the sweep comes round every minute, and when it waits for the
\* lock it gets it.  Nobody has to vote, cancel or call an endpoint.
Fairness ==
    /\ WF_vars(Tick)
    /\ WF_vars(SweepPicks)
    /\ WF_vars(\E h \in Sweeps : ExpiryCommits(h) \/ Refused(h))

FairSpec == Spec /\ Fairness

-----------------------------------------------------------------------------
(* Properties.                                                             *)

\* The verdict is the vote: while the request is open its ballots amount to
\* no result, an acceptance or a rejection is what the recorded ballots amount
\* to, and a request that expired or was cancelled never had a result that was
\* reached and passed over.
VerdictIsTheVote ==
    IF decision # None /\ decision.verdict \in {"accepted", "rejected"}
    THEN Evaluate(signals) = decision.verdict
    ELSE Evaluate(signals) = "active"

\* However late a handler gets the lock: results by ballot and cancellations
\* carry a time before the deadline, and an expiry before the deadline needs
\* every member's ballot and no tie.
ClosedForCause ==
    decision # None =>
        /\ decision.at <= clock
        /\ decision.verdict = "expired" =>
              Deadline <= decision.at \/ AllVotedUndecided(signals)
        /\ decision.verdict # "expired" => decision.at < Deadline

\* Nothing acts on a result that is not the request's: only an accepted action
\* is handed to the executor, only a refused one releases its binding, and a
\* staged case knows the verdict exactly from the moment it is committed.
EffectsFollowVerdict ==
    /\ executed \/ "execute" \in duties => state = "accepted"
    /\ binding = "released" \/ "release" \in duties =>
          state \in {"rejected", "expired", "cancelled"}
    /\ Mode # "legacy" =>
          case = IF state = "active" THEN "pending" ELSE CaseOutcome(state)
    /\ (Mode # "legacy" /\ Subject # "plain"
          /\ state \in {"rejected", "expired", "cancelled"})
            => binding = "released"

\* A ballot on record is never changed or withdrawn, none is added after the
\* verdict, and the verdict is written once.
BallotsAndVerdictStand ==
    [][/\ \A a \in Eligible : signals[a] # None => signals'[a] = signals[a]
       /\ decision # None => UNCHANGED <<signals, decision, state>>]_vars

\* What a request promises its electorate, whatever handlers race.
Poll == INSTANCE GovernancePoll WITH
            votes <- [a \in Eligible |->
                        IF signals[a] = None THEN None ELSE signals[a].choice],
            verdict <- IF decision = None THEN None ELSE decision.verdict

PollImplemented == Poll!Spec

\* Once its deadline has passed a request is decided, with no caller's help:
\* crashes only delay the sweep.
EventuallyDecided == <>(state # "active")
=============================================================================
