------------------------- MODULE QuadraticMatching -------------------------
(***************************************************************************)
(* The quadratic-funding plan of a governance case: what every project     *)
(* scores by the recorded commitments, and the loop that deals the         *)
(* matching budget out by largest remainder, under a cap per project       *)
(* (nativeGovernanceMechanism.ts, evaluateQuadraticFunding and             *)
(* allocateMatchingBudget).  One step of this module is one round of the   *)
(* loop.                                                                   *)
(*                                                                         *)
(* Projects are numbered in the order of their references, which is how    *)
(* equal remainders are ranked.  An actor without a recorded submission    *)
(* has committed 0 to every project.                                       *)
(***************************************************************************)
EXTENDS Integers, FiniteSets, FiniteSetsExt, Functions

CONSTANTS
    Actors,     \* the eligible actors
    NProjects,  \* how many projects the round has
    Amounts,    \* the units an actor may commit to a project
    Caps,       \* the caps a project may have
    Budget      \* contract.parameters.matchingBudget

Projects == 1 .. NProjects

\* Amounts, caps and the budget are units; normalizeQuadraticFundingRound refuses a cap of 0
\* (and one above the budget, which changes nothing here).
MatchingConstants ==
    /\ IsFiniteSet(Actors)
    /\ NProjects \in Nat
    /\ Amounts \subseteq Nat
    /\ Caps \subseteq Nat \ {0}
    /\ Budget \in Nat

VARIABLES
    score,      \* what each project scores, by the recorded submissions
    caps,       \* [Projects -> Caps]
    allocated,  \* units of the budget each project has so far
    remaining,  \* units not dealt yet
    done        \* the loop has ended

vars == <<score, caps, allocated, remaining, done>>

integerSqrt(n) == CHOOSE k \in 0 .. n : k * k <= n /\ n < (k + 1) * (k + 1)

Sum(f) == FoldFunction(LAMBDA x, y : x + y, 0, f)

\* given: what each actor has committed to the project.
matchingScore(given) ==
    LET roots == Sum([a \in Actors |-> integerSqrt(given[a])])
    IN  Max({0, roots * roots - Sum(given)})

Scores == {matchingScore(given) : given \in [Actors -> Amounts]}

Open(p) == score[p] > 0 /\ allocated[p] < caps[p]

Active == {p \in Projects : Open(p)}

TotalScore == Sum([p \in Active |-> score[p]])

Numerator(p) == remaining * score[p]

FloorShare(p) == Min({caps[p] - allocated[p], Numerator(p) \div TotalScore})

Remainder(p) == Numerator(p) % TotalScore

Before(p, q) == \/ Remainder(p) > Remainder(q)
                \/ Remainder(p) = Remainder(q) /\ p < q

AfterFloors == [p \in Projects |-> allocated[p] + IF p \in Active THEN FloorShare(p) ELSE 0]

LeftByFloors == remaining - Sum([p \in Active |-> FloorShare(p)])

Uncapped == {p \in Active : AfterFloors[p] < caps[p]}

\* Who gets one of the units the floors left: the best ranked, one unit each.
GetsOne == {p \in Uncapped : Cardinality({q \in Uncapped : Before(q, p)}) < LeftByFloors}

Init ==
    /\ score \in [Projects -> Scores]
    /\ caps \in [Projects -> Caps]
    /\ allocated = [p \in Projects |-> 0]
    /\ remaining = Budget
    /\ done = FALSE

\* Defect: one round of floors and remainders, what the caps cut off stays in the pot.
SingleRound ==
    /\ ~done
    /\ remaining > 0 /\ Active # {}
    /\ allocated' = [p \in Projects |-> AfterFloors[p] + IF p \in GetsOne THEN 1 ELSE 0]
    /\ remaining' = LeftByFloors - Cardinality(GetsOne)
    /\ done' = TRUE
    /\ UNCHANGED <<score, caps>>

Round ==
    /\ ~done
    /\ remaining > 0 /\ Active # {}
    /\ allocated' = [p \in Projects |-> AfterFloors[p] + IF p \in GetsOne THEN 1 ELSE 0]
    /\ remaining' = LeftByFloors - Cardinality(GetsOne)
    /\ UNCHANGED <<score, caps, done>>

End ==
    /\ ~done
    /\ remaining <= 0 \/ Active = {}
    /\ done' = TRUE
    /\ UNCHANGED <<score, caps, allocated, remaining>>

Next == Round \/ End

Spec == Init /\ [][Next]_vars /\ WF_vars(Next)

-----------------------------------------------------------------------------
\* Every unit of the budget is either in the plan or reported as unallocated,
\* after every round: the two kinds of shares never overdraw the pot together.
BudgetConserved == Sum(allocated) + remaining = Budget

\* A plan leaves units unallocated only when every project with a score is full:
\* the share that caps cut off goes to the others, round after round.
BudgetIsSpent ==
    done => \/ remaining = 0
            \/ \A p \in Projects : score[p] > 0 => allocated[p] = caps[p]

\* A project with the higher score and no smaller cap never gets less, however
\* floors, remainders, caps and rounds fall.
HigherScoreNeverLess ==
    done => \A p, q \in Projects :
                (score[p] > score[q] /\ caps[p] >= caps[q])
                    => allocated[p] >= allocated[q]

\* Projects equal in score and cap are told apart by the rounding alone, which is one unit.
EqualsWithinOneUnit ==
    done => \A p, q \in Projects :
                (score[p] = score[q] /\ caps[p] = caps[q])
                    => allocated[p] <= allocated[q] + 1

\* Quota: no project gets less than its exact share of the budget rounded down, or its cap.
LowerQuota ==
    done => LET total == Sum([p \in Projects |-> score[p]])
            IN  \A p \in Projects :
                    total > 0 => allocated[p] >= Min({caps[p], (Budget * score[p]) \div total})

\* The loop ends: every round deals at least one unit.
PlanIsFound == <>done
=============================================================================
