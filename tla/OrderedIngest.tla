---------------------------- MODULE OrderedIngest ----------------------------
(***************************************************************************)
(* What the indexer promises a reader of the configured programs' events,  *)
(* without saying how: the read model is a prefix of the chain, taken in   *)
(* chain order from some starting slot, except that a slot may be given up *)
(* once, and only when everything owed before it has been taken.           *)
(***************************************************************************)
EXTENDS Integers, Sequences

CONSTANT Wanted(_)      \* whether a transaction's content concerns the reader

VARIABLES
    blocks,     \* the confirmed blocks
    start,      \* the slot ingestion began after, -1 before it began
    givenUp,    \* slots whose remaining transactions may never be taken
    taken       \* the transactions in the read model

vars == <<blocks, start, givenUp, taken>>

OnChain == UNION {{<<s, i>> : i \in DOMAIN blocks[s]} : s \in DOMAIN blocks}

Before(t, u) == \/ t[1] < u[1]
                \/ t[1] = u[1] /\ t[2] < u[2]

\* The transactions the reader is still owed.
Owed == {t \in OnChain : /\ start # -1 /\ t[1] > start /\ t[1] \notin givenUp
                         /\ Wanted(blocks[t[1]][t[2]]) /\ t \notin taken}

Init == blocks = <<>> /\ start = -1 /\ givenUp = {} /\ taken = {}

\* The chain grows by a block, whatever it holds.
Confirm == /\ Len(blocks') = Len(blocks) + 1
           /\ \A s \in DOMAIN blocks : blocks'[s] = blocks[s]
           /\ UNCHANGED <<start, givenUp, taken>>

Begin == /\ start = -1
         /\ start' \in Nat /\ givenUp' = givenUp \cup {start'}
         /\ UNCHANGED <<blocks, taken>>

\* Nothing owed lies before the transaction that is taken.
Take(t) == /\ t \in OnChain \ taken
           /\ \A u \in Owed : ~Before(u, t)
           /\ taken' = taken \cup {t}
           /\ UNCHANGED <<blocks, start, givenUp>>

\* Nothing owed lies before the slot that is given up.
GiveUp(s) == /\ start # -1
             /\ \A u \in Owed : u[1] >= s
             /\ givenUp' = givenUp \cup {s}
             /\ UNCHANGED <<blocks, start, taken>>

Next == \/ Confirm
        \/ Begin
        \/ \E t \in OnChain : Take(t)
        \/ \E s \in 0 .. Len(blocks) : GiveUp(s)

Spec == Init /\ [][Next]_vars
=============================================================================
