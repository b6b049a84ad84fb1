--------------------------- MODULE GovernancePoll ---------------------------
(***************************************************************************)
(* What a governance request promises the members of its frozen            *)
(* electorate: one ballot each, counted as cast; the poll is settled by    *)
(* the ballot that crosses the threshold, or closed without a result while *)
(* no result was reached; a settled poll never changes again.              *)
(***************************************************************************)
EXTENDS FiniteSets, Integers

CONSTANTS
    Eligible,    \* the frozen electorate (snapshot.eligibleActors)
    Choices,     \* what a ballot may say
    Threshold,   \* ballots needed, for acceptance and for rejection alike
    Mechanism,   \* "threshold" or "complete"
    None         \* no ballot, no verdict

VARIABLES
    votes,       \* [Eligible -> Choices \cup {None}]
    verdict      \* None, "accepted", "rejected", "expired" or "cancelled"

vars == <<votes, verdict>>

For(c, v) == {a \in Eligible : v[a] = c}
Voted(v) == {a \in Eligible : v[a] # None}

\* The result the ballots v amount to: None while the poll is open.
Result(v) ==
    IF Mechanism = "complete"
    THEN IF Eligible # {} /\ Voted(v) = Eligible THEN "accepted" ELSE None
    ELSE IF Cardinality(For("approve", v)) >= Threshold THEN "accepted"
    ELSE IF Cardinality(For("reject", v)) >= Threshold THEN "rejected"
    ELSE None

Init ==
    /\ votes = [a \in Eligible |-> None]
    /\ verdict = None

Cast(a, c) ==
    /\ verdict = None
    /\ votes[a] = None
    /\ votes' = [votes EXCEPT ![a] = c]
    /\ verdict' = Result(votes')

Close(v) ==
    /\ verdict = None
    /\ Result(votes) = None
    /\ verdict' = v
    /\ UNCHANGED votes

Next ==
    \/ \E a \in Eligible, c \in Choices : Cast(a, c)
    \/ \E v \in {"expired", "cancelled"} : Close(v)

Spec == Init /\ [][Next]_vars
=============================================================================
