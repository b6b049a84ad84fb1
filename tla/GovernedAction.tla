--------------------------- MODULE GovernedAction ---------------------------
(***************************************************************************)
(* A governance request (GovernanceRequest), the execution of an action    *)
(* that was accepted (ActionExecution), and the plan of a funding round    *)
(* whose commitments are recorded (QuadraticMatching), side by side: each  *)
(* finds what the one before decided and changes nothing of it.            *)
(***************************************************************************)
EXTENDS GovernanceRequest

CONSTANTS Runs, Posters, Posts, Provider, MaxFaults,
          Funders, NProjects, Amounts, Caps, Pool

VARIABLES receipts, newest, lock, pc, outcome, posting, blocked, effects, repeats, faults,
          score, caps, allocated, remaining, done

executionVars == <<receipts, newest, lock, pc, outcome, posting, blocked, effects, repeats,
                   faults>>
planVars == <<score, caps, allocated, remaining, done>>

Exec == INSTANCE ActionExecution

Plan == INSTANCE QuadraticMatching WITH Actors <- Funders, Budget <- Pool

\* An action is executed once and again only for a fault, its lock is deleted by nobody else,
\* and the receipt says what happened.
ActsOncePerFault == Exec!ActsOncePerFault

\* A funding plan deals the budget to the last unit that caps allow, to nobody less than its
\* exact share rounded down, and never less for the higher score.
PlanIsFair ==
    /\ Plan!BudgetConserved /\ Plan!BudgetIsSpent
    /\ Plan!HigherScoreNeverLess /\ Plan!EqualsWithinOneUnit /\ Plan!LowerQuota
=============================================================================
