----------------------------- MODULE BondEscrow -----------------------------
(***************************************************************************)
(* What the bond vaults promise an app owner and governance: every token   *)
(* is either free to be withdrawn, held for one claim, or paid out.  A     *)
(* claim takes hold of tokens once; what it holds is either returned in    *)
(* full or, once the claim is condemned, paid out piece by piece.          *)
(***************************************************************************)
EXTENDS Integers

CONSTANTS Pots, Claims, NoPot

VARIABLES
    free,       \* tokens of each pot that its owner may withdraw
    held,       \* tokens each claim holds
    paid,       \* tokens paid out of each pot
    stage,      \* how far each claim has come
    pot         \* the pot each claim is made on

vars == <<free, held, paid, stage, pot>>

Init == /\ free = [p \in Pots |-> 0] /\ paid = [p \in Pots |-> 0]
        /\ held = [c \in Claims |-> 0] /\ stage = [c \in Claims |-> "none"]
        /\ pot = [c \in Claims |-> NoPot]

Deposit(p) == /\ free'[p] > free[p] /\ free' = [free EXCEPT ![p] = free'[p]]
              /\ UNCHANGED <<held, paid, stage, pot>>

Withdraw(p) == /\ \E a \in 1 .. free[p] : free' = [free EXCEPT ![p] = @ - a]
               /\ UNCHANGED <<held, paid, stage, pot>>

Claim(c) == /\ stage[c] = "none" /\ stage' = [stage EXCEPT ![c] = "open"]
            /\ \E p \in Pots : pot' = [pot EXCEPT ![c] = p]
            /\ UNCHANGED <<free, held, paid>>

Hold(c) == /\ stage[c] = "open" /\ stage' = [stage EXCEPT ![c] = "held"]
           /\ \E a \in 1 .. free[pot[c]] : /\ free' = [free EXCEPT ![pot[c]] = @ - a]
                                           /\ held' = [held EXCEPT ![c] = a]
           /\ UNCHANGED <<paid, pot>>

Return(c) == /\ stage[c] = "held" /\ stage' = [stage EXCEPT ![c] = "returned"]
             /\ free' = [free EXCEPT ![pot[c]] = @ + held[c]]
             /\ held' = [held EXCEPT ![c] = 0]
             /\ UNCHANGED <<paid, pot>>

Condemn(c) == /\ stage[c] = "held" /\ stage' = [stage EXCEPT ![c] = "condemned"]
              /\ UNCHANGED <<free, held, paid, pot>>

Pay(c) == /\ stage[c] = "condemned"
          /\ \E a \in 1 .. held[c] :
                /\ held' = [held EXCEPT ![c] = @ - a]
                /\ paid' = [paid EXCEPT ![pot[c]] = @ + a]
                /\ stage' = [stage EXCEPT ![c] = IF a = held[c] THEN "paid" ELSE @]
          /\ UNCHANGED <<free, pot>>

Next == \/ \E p \in Pots : Deposit(p) \/ Withdraw(p)
        \/ \E c \in Claims : Claim(c) \/ Hold(c) \/ Return(c) \/ Condemn(c) \/ Pay(c)

Spec == Init /\ [][Next]_vars
=============================================================================
