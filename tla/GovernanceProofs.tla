-------------------------- MODULE GovernanceProofs --------------------------
(***************************************************************************)
(* Proofs about GovernanceRequest, for every electorate, threshold, mode,  *)
(* deadline and number of handlers.  The heart is VerdictIsTheVote: it is  *)
(* inductive because a ballot is evaluated in the transaction that records *)
(* it, so an open request never has a result that expiry could pass over.  *)
(*                                                                         *)
(* Before it, QuadraticMatching (PlanInv: what is fair at the end is fair, *)
(* or equal, after every round); after it, ActionExecution (ExecInv: the   *)
(* right to execute is held once).                                         *)
(***************************************************************************)
EXTENDS GovernedAction, FiniteSetTheorems, WellFoundedInduction, TLAPS

-----------------------------------------------------------------------------
(* QuadraticMatching: sums over finite sets, which the model writes as folds. *)

\* The subsets of a finite set, by induction: a property of sets, given as the set of sets
\* that have it, that the empty set has and an element more keeps.
LEMMA SetInduction ==
    ASSUME NEW S, IsFiniteSet(S), NEW Good, {} \in Good,
           \A s \in SUBSET S : s # {} /\ (\A x \in s : s \ {x} \in Good) => s \in Good
    PROVE  S \in Good
<1> SUFFICES ASSUME S \notin Good PROVE FALSE
  OBVIOUS
<1> DEFINE Sizes == {Cardinality(s) : s \in {t \in SUBSET S : t \notin Good}}
<1>1. \A s \in SUBSET S : IsFiniteSet(s) /\ Cardinality(s) \in Nat
  BY FS_Subset, FS_CardinalityType
<1>2. Sizes \subseteq Nat /\ Cardinality(S) \in Sizes
  BY <1>1
<1>3. PICK n \in Sizes : \A m \in Sizes : <<m, n>> \notin OpToRel(<, Nat)
  BY <1>2, NatLessThanWellFounded, WFMin
<1>4. \A m \in Sizes : ~(m < n)
  BY <1>2, <1>3 DEF OpToRel
<1>5. PICK s \in SUBSET S : s \notin Good /\ Cardinality(s) = n
  OBVIOUS
<1>6. PICK x : x \in s
  BY <1>5
<1>7. PICK y \in s : s \ {y} \notin Good
  BY <1>5, <1>6
<1>8. Cardinality(s \ {y}) = n - 1 /\ s \ {y} \in SUBSET S
  BY <1>1, <1>5, FS_RemoveElement
<1>9. Cardinality(s \ {y}) \in Sizes
  BY <1>7, <1>8
<1> HIDE DEF Sizes
<1> QED
  BY <1>1, <1>2, <1>4, <1>5, <1>8, <1>9

\* The numbers up to n are n.
LEMMA IntervalSize ==
    ASSUME NEW n \in Nat
    PROVE  IsFiniteSet(1 .. n) /\ Cardinality(1 .. n) = n
<1>1. 1 \in Int /\ n \in Int
  OBVIOUS
<1> QED
  BY <1>1, FS_Interval

\* The units of f on a set, one element for each.
Units(f, s) == {u \in s \X Nat : u[2] \in 1 .. f[u[1]]}

\* How many they are.
Total(f, s) == Cardinality(Units(f, s))

\* An element more counts its units more.
LEMMA TotalStep ==
    ASSUME NEW S, IsFiniteSet(S), NEW f, NEW s \in SUBSET S, \A y \in s : f[y] \in Nat
    PROVE  /\ Total(f, s) \in Nat
           /\ \A x \in s : /\ Total(f, s) = f[x] + Total(f, s \ {x})
                           /\ Total(f, s \ {x}) \in Nat
<1> DEFINE Good == {t \in SUBSET S : (\A y \in t : f[y] \in Nat) => IsFiniteSet(Units(f, t))}
           Own(x) == {x} \X (1 .. f[x])
<1>1. ASSUME NEW t \in SUBSET S, NEW x \in t, f[x] \in Nat
      PROVE  /\ Units(f, t) = Own(x) \cup Units(f, t \ {x}) /\ Own(x) \cap Units(f, t \ {x}) = {}
             /\ IsFiniteSet(Own(x)) /\ Cardinality(Own(x)) = f[x]
  <2>1. Units(f, t) = Own(x) \cup Units(f, t \ {x})
    BY <1>1 DEF Units
  <2>2. Own(x) \cap Units(f, t \ {x}) = {}
    BY DEF Units
  <2>4. IsFiniteSet(1 .. f[x]) /\ Cardinality(1 .. f[x]) = f[x]
    BY <1>1, IntervalSize
  <2>5. IsFiniteSet({x}) /\ Cardinality({x}) = 1
    BY FS_Singleton
  <2>6. IsFiniteSet(Own(x)) /\ Cardinality(Own(x)) = f[x]
    BY <1>1, <2>4, <2>5, FS_Product
  <2> QED
    BY <1>1, <2>1, <2>2, <2>6, Zenon
<1>2. {} \in Good
  BY FS_EmptySet DEF Units
<1>3. \A t \in SUBSET S : t # {} /\ (\A x \in t : t \ {x} \in Good) => t \in Good
  <2> SUFFICES ASSUME NEW t \in SUBSET S, NEW x \in t, t \ {x} \in Good, \A y \in t : f[y] \in Nat
               PROVE  IsFiniteSet(Units(f, t))
    OBVIOUS
  <2> HIDE DEF Own
  <2>1. IsFiniteSet(Units(f, t \ {x})) /\ IsFiniteSet(Own(x)) /\ Units(f, t) = Own(x) \cup Units(f, t \ {x})
    BY <1>1
  <2> QED
    BY <2>1, FS_Union
<1>4. \A t \in SUBSET S : (\A y \in t : f[y] \in Nat) => IsFiniteSet(Units(f, t))
  <2> SUFFICES ASSUME NEW t \in SUBSET S PROVE t \in Good
    OBVIOUS
  <2> HIDE DEF Good
  <2>1. IsFiniteSet(t) /\ \A s1 \in SUBSET t : s1 \in SUBSET S
    BY FS_Subset
  <2>2. \A s1 \in SUBSET t : s1 # {} /\ (\A x \in s1 : s1 \ {x} \in Good) => s1 \in Good
    BY <1>3, <2>1
  <2> QED
    BY <1>2, <2>1, <2>2, SetInduction
<1>5. Total(f, s) \in Nat
  BY <1>4, FS_CardinalityType DEF Total
<1>6. ASSUME NEW x \in s
      PROVE  Total(f, s) = f[x] + Total(f, s \ {x}) /\ Total(f, s \ {x}) \in Nat
  <2> HIDE DEF Own
  <2>1. IsFiniteSet(Units(f, s \ {x}))
    BY <1>4
  <2>2. Cardinality(Units(f, s \ {x})) \in Nat /\ f[x] \in Nat
    BY <2>1, FS_CardinalityType
  <2>3. Cardinality(Units(f, s)) = Cardinality(Own(x)) + Cardinality(Units(f, s \ {x})) - Cardinality({})
    BY <1>1, <2>1, <2>2, FS_Union
  <2> QED
    BY <1>1, <2>2, <2>3, FS_EmptySet DEF Total
<1> QED
  BY <1>5, <1>6

\* Nothing sums up to nothing.
LEMMA TotalOfNone == ASSUME NEW f PROVE Total(f, {}) = 0
  BY FS_EmptySet DEF Total, Units

\* The sum of the model, a fold in an order left open, is that number.
LEMMA SumIsTotal ==
    ASSUME NEW S, IsFiniteSet(S), NEW f \in [S -> Nat]
    PROVE  Plan!Sum(f) = Total(f, S)
<1> DEFINE Body(g, s) == IF s = {} THEN 0 ELSE f[CHOOSE x \in s : TRUE] + g[s \ {CHOOSE x \in s : TRUE}]
           It == CHOOSE g : g = [s \in SUBSET S |-> Body(g, s)]
           Card == [s \in SUBSET S |-> Total(f, s)]
<1>1. Card = [s \in SUBSET S |-> Body(Card, s)]
  <2> SUFFICES ASSUME NEW s \in SUBSET S PROVE Total(f, s) = Body(Card, s)
    BY Zenon
  <2>1. CASE s = {}
    BY <2>1, TotalOfNone
  <2>2. CASE s # {}
    <3> DEFINE x == CHOOSE y \in s : TRUE
    <3>1. x \in s
      BY <2>2
    <3> HIDE DEF x
    <3>2. Total(f, s) = f[x] + Total(f, s \ {x})
      BY <3>1, \A y \in s : f[y] \in Nat, TotalStep
    <3>3. Card[s \ {x}] = Total(f, s \ {x})
      OBVIOUS
    <3> QED
      BY <2>2, <3>2, <3>3, Zenon DEF x
  <2> QED
    BY <2>1, <2>2
<1>2. It = [s \in SUBSET S |-> Body(It, s)]
  BY <1>1, Zenon
<1>3. Plan!Sum(f) = It[S]
  BY DEF Plan!Sum, Plan!FoldFunction, Plan!FoldFunctionOnSet, Plan!MapThenFoldSet
<1>4. \A s \in SUBSET S : It[s] = Body(It, s)
  <2> HIDE DEF It
  <2> QED
    BY <1>2, Zenon
<1> HIDE DEF It, Card
<1> DEFINE Good == {s \in SUBSET S : It[s] = Total(f, s)}
<1>5. {} \in Good
  BY <1>4, TotalOfNone
<1>6. \A s \in SUBSET S : s # {} /\ (\A y \in s : s \ {y} \in Good) => s \in Good
  <2> SUFFICES ASSUME NEW s \in SUBSET S, s # {}, \A y \in s : s \ {y} \in Good
               PROVE  It[s] = Total(f, s)
    OBVIOUS
  <2> DEFINE x == CHOOSE y \in s : TRUE
  <2>1. x \in s
    OBVIOUS
  <2> HIDE DEF x
  <2>2. Total(f, s) = f[x] + Total(f, s \ {x})
    BY <2>1, \A y \in s : f[y] \in Nat, TotalStep
  <2>3. It[s \ {x}] = Total(f, s \ {x})
    BY <2>1
  <2>4. It[s] = f[x] + It[s \ {x}]
    BY <1>4 DEF x
  <2> QED
    BY <2>2, <2>3, <2>4
<1>7. S \in Good
  <2> HIDE DEF Good
  <2> QED
    BY <1>5, <1>6, SetInduction
<1> QED
  BY <1>3, <1>7

\* What is added everywhere is added in all.
LEMMA TotalAdds ==
    ASSUME NEW S, IsFiniteSet(S), NEW f, NEW g, NEW h,
           \A y \in S : f[y] \in Nat /\ g[y] \in Nat /\ h[y] = f[y] + g[y]
    PROVE  Total(h, S) = Total(f, S) + Total(g, S)
<1> DEFINE Good == {s \in SUBSET S : Total(h, s) = Total(f, s) + Total(g, s)}
<1>1. {} \in Good
  BY TotalOfNone
<1>2. \A s \in SUBSET S : s # {} /\ (\A y \in s : s \ {y} \in Good) => s \in Good
  <2> SUFFICES ASSUME NEW s \in SUBSET S, NEW x \in s, s \ {x} \in Good PROVE Total(h, s) = Total(f, s) + Total(g, s)
    OBVIOUS
  <2>1. Total(f, s) = f[x] + Total(f, s \ {x}) /\ Total(f, s \ {x}) \in Nat
    <3>1. \A y \in s : f[y] \in Nat
      OBVIOUS
    <3> QED
      BY <3>1, TotalStep
  <2>2. Total(g, s) = g[x] + Total(g, s \ {x}) /\ Total(g, s \ {x}) \in Nat
    <3>1. \A y \in s : g[y] \in Nat
      OBVIOUS
    <3> QED
      BY <3>1, TotalStep
  <2>3. Total(h, s) = h[x] + Total(h, s \ {x}) /\ Total(h, s \ {x}) \in Nat
    <3>1. \A y \in s : h[y] \in Nat
      OBVIOUS
    <3> QED
      BY <3>1, TotalStep
  <2> QED
    BY <2>1, <2>2, <2>3
<1>3. S \in Good
  <2> HIDE DEF Good
  <2> QED
    BY <1>1, <1>2, SetInduction
<1> QED
  BY <1>3

\* What is multiplied everywhere is multiplied in all.
LEMMA TotalScales ==
    ASSUME NEW S, IsFiniteSet(S), NEW f, NEW h, NEW c \in Nat,
           \A y \in S : f[y] \in Nat /\ h[y] = c * f[y] /\ h[y] \in Nat
    PROVE  Total(h, S) = c * Total(f, S)
<1> DEFINE Good == {s \in SUBSET S : Total(h, s) = c * Total(f, s)}
<1>1. {} \in Good
  BY TotalOfNone
<1>2. \A s \in SUBSET S : s # {} /\ (\A y \in s : s \ {y} \in Good) => s \in Good
  <2> SUFFICES ASSUME NEW s \in SUBSET S, NEW x \in s, s \ {x} \in Good PROVE Total(h, s) = c * Total(f, s)
    OBVIOUS
  <2>1. Total(f, s) = f[x] + Total(f, s \ {x}) /\ Total(f, s \ {x}) \in Nat
    <3>1. \A y \in s : f[y] \in Nat
      OBVIOUS
    <3> QED
      BY <3>1, TotalStep
  <2>2. Total(h, s) = h[x] + Total(h, s \ {x}) /\ Total(h, s \ {x}) \in Nat
    <3>1. \A y \in s : h[y] \in Nat
      OBVIOUS
    <3> QED
      BY <3>1, TotalStep
  <2>3. Total(h, s \ {x}) = c * Total(f, s \ {x})
    OBVIOUS
  <2>4. c * (f[x] + Total(f, s \ {x})) = c * f[x] + c * Total(f, s \ {x})
    <3> DEFINE a == f[x]
               b == Total(f, s \ {x})
    <3>1. a \in Nat /\ b \in Nat
      BY <2>1
    <3> HIDE DEF a, b
    <3>2. c * (a + b) = c * a + c * b
      BY <3>1
    <3> QED
      BY <3>2 DEF a, b
  <2> QED
    BY <2>1, <2>2, <2>3, <2>4
<1>3. S \in Good
  <2> HIDE DEF Good
  <2> QED
    BY <1>1, <1>2, SetInduction
<1> QED
  BY <1>3

\* What is no more anywhere is no more in all.
LEMMA TotalAtMost ==
    ASSUME NEW S, IsFiniteSet(S), NEW f, NEW g,
           \A y \in S : f[y] \in Nat /\ g[y] \in Nat /\ f[y] <= g[y]
    PROVE  Total(f, S) <= Total(g, S)
<1> DEFINE Good == {s \in SUBSET S : Total(f, s) <= Total(g, s)}
<1>1. {} \in Good
  BY TotalOfNone
<1>2. \A s \in SUBSET S : s # {} /\ (\A y \in s : s \ {y} \in Good) => s \in Good
  <2> SUFFICES ASSUME NEW s \in SUBSET S, NEW x \in s, s \ {x} \in Good PROVE Total(f, s) <= Total(g, s)
    OBVIOUS
  <2>1. Total(f, s) = f[x] + Total(f, s \ {x}) /\ Total(f, s \ {x}) \in Nat
    <3>1. \A y \in s : f[y] \in Nat
      OBVIOUS
    <3> QED
      BY <3>1, TotalStep
  <2>2. Total(g, s) = g[x] + Total(g, s \ {x}) /\ Total(g, s \ {x}) \in Nat
    <3>1. \A y \in s : g[y] \in Nat
      OBVIOUS
    <3> QED
      BY <3>1, TotalStep
  <2>3. f[x] <= g[x] /\ f[x] \in Nat /\ g[x] \in Nat /\ Total(f, s \ {x}) <= Total(g, s \ {x})
    OBVIOUS
  <2> QED
    BY <2>1, <2>2, <2>3
<1>3. S \in Good
  <2> HIDE DEF Good
  <2> QED
    BY <1>1, <1>2, SetInduction
<1> QED
  BY <1>3

\* One everywhere counts the set.
LEMMA TotalOfOnes ==
    ASSUME NEW S, IsFiniteSet(S), NEW f,
           \A y \in S : f[y] = 1
    PROVE  Total(f, S) = Cardinality(S)
<1> DEFINE Good == {s \in SUBSET S : Total(f, s) = Cardinality(s)}
<1>1. {} \in Good
  BY TotalOfNone, FS_EmptySet
<1>2. \A s \in SUBSET S : s # {} /\ (\A y \in s : s \ {y} \in Good) => s \in Good
  <2> SUFFICES ASSUME NEW s \in SUBSET S, NEW x \in s, s \ {x} \in Good PROVE Total(f, s) = Cardinality(s)
    OBVIOUS
  <2>1. Total(f, s) = f[x] + Total(f, s \ {x}) /\ Total(f, s \ {x}) \in Nat
    <3>1. \A y \in s : f[y] \in Nat
      OBVIOUS
    <3> QED
      BY <3>1, TotalStep
  <2>2. IsFiniteSet(s)
    BY FS_Subset
  <2>3. Cardinality(s \ {x}) = Cardinality(s) - 1 /\ Cardinality(s) \in Nat
    BY <2>2, FS_RemoveElement, FS_CardinalityType
  <2> QED
    BY <2>1, <2>3
<1>3. S \in Good
  <2> HIDE DEF Good
  <2> QED
    BY <1>1, <1>2, SetInduction
<1> QED
  BY <1>3

\* What is zero elsewhere counts where it is not.
LEMMA TotalWithin ==
    ASSUME NEW S, NEW T \in SUBSET S, NEW f, NEW g,
           \A y \in T : f[y] = g[y], \A y \in S \ T : f[y] = 0
    PROVE  Total(f, S) = Total(g, T)
<1>1. Units(f, S) = Units(g, T)
  BY DEF Units
<1> QED
  BY <1>1 DEF Total

\* No part is more than the total.
LEMMA TotalBounds ==
    ASSUME NEW S, IsFiniteSet(S), NEW f, \A y \in S : f[y] \in Nat, NEW x \in S
    PROVE  Total(f, S) \in Nat /\ f[x] <= Total(f, S)
<1>1. Total(f, S) \in Nat /\ Total(f, S) = f[x] + Total(f, S \ {x}) /\ Total(f, S \ {x}) \in Nat
  BY TotalStep
<1> QED
  BY <1>1

-----------------------------------------------------------------------------
(* Ranks and roots. *)

\* The sets that are finite in the instance are finite here.
LEMMA SameFinite == \A S : Plan!IsFiniteSet(S) <=> IsFiniteSet(S)
  BY DEF Plan!IsFiniteSet, IsFiniteSet

\* Nor does their size depend on whose Cardinality is asked.
LEMMA PlanCardinality == \A S : Plan!Cardinality(S) = Cardinality(S)
  BY DEF Plan!Cardinality, Cardinality

\* Of any elements with a number, one has the least.
LEMMA LeastOf ==
    ASSUME NEW S, S # {}, NEW f, \A x \in S : f[x] \in Nat
    PROVE  \E x \in S : \A y \in S : f[x] <= f[y]
<1> DEFINE N == {f[x] : x \in S}
<1>1. N \subseteq Nat /\ N # {}
  OBVIOUS
<1>2. PICK n \in N : \A m \in N : <<m, n>> \notin OpToRel(<, Nat)
  BY <1>1, NatLessThanWellFounded, WFMin
<1>3. \A m \in N : ~(m < n)
  BY <1>1, <1>2 DEF OpToRel
<1>4. PICK x \in S : f[x] = n
  OBVIOUS
<1>5. \A y \in S : ~(f[y] < f[x])
  BY <1>3, <1>4
<1> QED
  BY <1>5

\* Who is among the first k of a set, by an order of its elements.
Foremost(U, B, k) == {p \in U : Cardinality({q \in U : <<q, p>> \in B}) < k}

\* They are no more than k, all of them if the set is smaller, and with an element
\* everything before it is among them.
LEMMA FirstOnes ==
    ASSUME NEW U, IsFiniteSet(U), NEW k \in Nat, NEW B,
           \A p \in U : <<p, p>> \notin B,
           \A p, q \in U : p # q => <<p, q>> \in B \/ <<q, p>> \in B,
           \A p, q, r \in U : <<p, q>> \in B /\ <<q, r>> \in B => <<p, r>> \in B
    PROVE  LET G == Foremost(U, B, k) IN
           /\ IsFiniteSet(G) /\ Cardinality(G) <= k
           /\ Cardinality(G) < k => G = U
           /\ \A p \in U, q \in G : <<p, q>> \in B => p \in G
<1> DEFINE Ahead(p) == {q \in U : <<q, p>> \in B}
           Rank == [p \in U |-> Cardinality(Ahead(p))]
           G == Foremost(U, B, k)
<1>1. /\ \A p \in U : IsFiniteSet(Ahead(p)) /\ Rank[p] = Cardinality(Ahead(p)) /\ Rank[p] \in Nat
      /\ \A p, q \in U : q \in Ahead(p) <=> <<q, p>> \in B
  BY FS_Subset, FS_CardinalityType
<1>2. G = {p \in U : Rank[p] < k}
  BY DEF Foremost
<1>3. IsFiniteSet(G) /\ Cardinality(G) \in Nat /\ G \subseteq U
  BY <1>2, FS_Subset, FS_CardinalityType
<1>4. \A p \in U : Ahead(p) \subseteq U
  OBVIOUS
<1> HIDE DEF Rank, Ahead, G
<1>5. ASSUME NEW p \in U, NEW q \in U, <<p, q>> \in B PROVE Rank[p] < Rank[q]
  <2>1. Ahead(p) \cup {p} \subseteq Ahead(q) /\ p \notin Ahead(p)
    BY <1>1, <1>4, <1>5
  <2>2. Cardinality(Ahead(p) \cup {p}) = Cardinality(Ahead(p)) + 1
    BY <1>1, <2>1, FS_AddElement
  <2>3. Cardinality(Ahead(p) \cup {p}) <= Cardinality(Ahead(q))
    BY <1>1, <2>1, FS_Subset
  <2> QED
    BY <1>1, <2>2, <2>3
<1>6. Cardinality(G) <= k
  <2>1. CASE G = {}
    <3>1. Cardinality(G) = 0
      BY <2>1, FS_EmptySet
    <3> QED
      BY <3>1
  <2>2. CASE G # {}
    <3> DEFINE Behind == [p \in U |-> k - Rank[p]]
    <3>1. \A p \in G : Behind[p] \in Nat /\ Behind[p] = k - Rank[p]
      BY <1>1, <1>2
    <3> HIDE DEF Behind
    <3>2. PICK g \in G : \A h \in G : Behind[g] <= Behind[h]
      BY <2>2, <3>1, LeastOf
    <3>3. \A h \in G : Rank[h] <= Rank[g]
      BY <1>1, <1>3, <3>1, <3>2
    <3>4. \A h \in G \ {g} : <<h, g>> \in B
      <4> SUFFICES ASSUME NEW h \in G \ {g} PROVE <<h, g>> \in B
        OBVIOUS
      <4>1. h \in U /\ g \in U /\ Rank[h] <= Rank[g] /\ Rank[h] \in Nat /\ Rank[g] \in Nat
        BY <1>1, <1>3, <3>3
      <4>2. <<g, h>> \notin B
        BY <1>5, <4>1
      <4> QED
        BY <4>1, <4>2
    <3>5. G \ {g} \subseteq Ahead(g)
      BY <1>1, <1>3, <3>4
    <3>6. Cardinality(G \ {g}) = Cardinality(G) - 1
      BY <1>3, FS_RemoveElement
    <3>7. Cardinality(G \ {g}) <= Rank[g]
      BY <1>1, <1>3, <3>5, FS_Subset
    <3>8. g \in U /\ Rank[g] < k /\ Rank[g] \in Nat
      BY <1>1, <1>2
    <3> QED
      BY <1>3, <3>6, <3>7, <3>8
  <2> QED
    BY <2>1, <2>2
<1>7. ASSUME G # U PROVE k <= Cardinality(G)
  <2>1. U \ G # {} /\ \A p \in U \ G : Rank[p] \in Nat /\ k <= Rank[p]
    BY <1>1, <1>2, <1>3, <1>7
  <2>2. PICK u \in U \ G : \A v \in U \ G : Rank[u] <= Rank[v]
    BY <2>1, LeastOf
  <2>3. \A q \in Ahead(u) : q \in U /\ Rank[q] < Rank[u]
    BY <1>1, <1>4, <1>5
  <2>4. \A q \in Ahead(u) : q \in G
    BY <1>1, <2>1, <2>2, <2>3
  <2>5. Rank[u] <= Cardinality(G)
    BY <1>1, <1>3, <2>4, FS_Subset
  <2> QED
    BY <1>3, <2>1, <2>5
<1>8. ASSUME NEW p \in U, NEW q \in G, <<p, q>> \in B PROVE p \in G
  <2>1. q \in U /\ Rank[q] < k /\ Rank[q] \in Nat /\ Rank[p] \in Nat
    BY <1>1, <1>2
  <2>2. Rank[p] < Rank[q]
    BY <1>5, <1>8, <2>1
  <2> QED
    BY <1>2, <2>1, <2>2
<1> QED
  BY <1>3, <1>6, <1>7, <1>8 DEF G

\* There is a root of every number.
LEMMA RootOf ==
    ASSUME NEW n \in Nat
    PROVE  Plan!integerSqrt(n) \in Nat
<1> DEFINE Above == {k \in Nat : n < (k + 1) * (k + 1)}
           Id == [k \in Nat |-> k]
<1>1. n \in Above
  <2>1. n * n \in Nat /\ (n + 1) * (n + 1) = n * n + 2 * n + 1
    OBVIOUS
  <2> QED
    BY <2>1
<1>2. PICK k \in Above : \A m \in Above : Id[k] <= Id[m]
  BY <1>1, LeastOf
<1>3. k \in Nat /\ \A m \in Above : k <= m
  BY <1>2
<1>4. k * k <= n
  <2>1. CASE k = 0
    BY <2>1
  <2>2. CASE k > 0
    <3>1. k - 1 \in Nat /\ k - 1 \notin Above
      BY <1>3, <2>2
    <3>2. ~(n < ((k - 1) + 1) * ((k - 1) + 1))
      BY <3>1
    <3>3. (k - 1) + 1 = k
      BY <1>3
    <3> QED
      BY <1>3, <3>2, <3>3
  <2> QED
    BY <1>3, <2>1, <2>2
<1>5. k <= n
  <2>1. CASE k = 0
    BY <2>1
  <2>2. CASE k > 0
    <3>1. k <= k * k
      BY <1>3, <2>2
    <3> QED
      BY <1>3, <1>4, <3>1
  <2> QED
    BY <1>3, <2>1, <2>2
<1>6. k \in 0 .. n /\ k * k <= n /\ n < (k + 1) * (k + 1)
  BY <1>3, <1>4, <1>5
<1>7. Plan!integerSqrt(n) \in 0 .. n
  BY <1>6 DEF Plan!integerSqrt
<1> QED
  BY <1>7

\* The model's maximum of two numbers is the larger.
LEMMA MaxOfTwo == ASSUME NEW a \in Int, NEW b \in Int PROVE Plan!Max({a, b}) = IF a >= b THEN a ELSE b
<1> DEFINE m == IF a >= b THEN a ELSE b
<1>1. m \in {a, b} /\ \A y \in {a, b} : m >= y
  OBVIOUS
<1>2. \A x \in {a, b} : (\A y \in {a, b} : x >= y) => x = m
  OBVIOUS
<1> QED
  BY <1>1, <1>2 DEF Plan!Max

\* Likewise the smaller.
LEMMA MinOfTwo == ASSUME NEW a \in Int, NEW b \in Int PROVE Plan!Min({a, b}) = IF a <= b THEN a ELSE b
<1> DEFINE m == IF a <= b THEN a ELSE b
<1>1. m \in {a, b} /\ \A y \in {a, b} : m <= y
  OBVIOUS
<1>2. \A x \in {a, b} : (\A y \in {a, b} : x <= y) => x = m
  OBVIOUS
<1> QED
  BY <1>1, <1>2 DEF Plan!Min

\* A project scores a number.
LEMMA ScoresAreNumbers ==
    ASSUME Plan!MatchingConstants
    PROVE  Plan!Scores \subseteq Nat
<1> SUFFICES ASSUME NEW given \in [Funders -> Amounts] PROVE Plan!matchingScore(given) \in Nat
  BY DEF Plan!Scores
<1> DEFINE rootOf == [a \in Funders |-> Plan!integerSqrt(given[a])]
           roots == Plan!Sum(rootOf)
<1>1. IsFiniteSet(Funders) /\ given \in [Funders -> Nat]
  <2>1. IsFiniteSet(Funders)
    BY SameFinite, Zenon DEF Plan!MatchingConstants
  <2>2. Amounts \subseteq Nat
    BY Zenon DEF Plan!MatchingConstants
  <2> QED
    BY <2>1, <2>2
<1>2. \A a \in Funders : Plan!integerSqrt(given[a]) \in Nat
  BY <1>1, RootOf
<1>3. rootOf \in [Funders -> Nat]
  BY <1>2
<1>4. Plan!Sum(given) \in Nat
  BY <1>1, SumIsTotal, TotalStep
<1>5. roots \in Nat
  <2> HIDE DEF rootOf
  <2> QED
    BY <1>1, <1>3, SumIsTotal, TotalStep
<1>6. Plan!matchingScore(given) = Plan!Max({0, roots * roots - Plan!Sum(given)})
  BY DEF Plan!matchingScore
<1> HIDE DEF roots
<1>7. roots * roots - Plan!Sum(given) \in Int
  BY <1>4, <1>5
<1> QED
  BY <1>6, <1>7, MaxOfTwo

-----------------------------------------------------------------------------
(* One round of the plan. *)

\* The score, caps and what is dealt are numbers, and no project has more than its cap.
PlanTyped ==
    /\ score \in [Plan!Projects -> Nat]
    /\ caps \in [Plan!Projects -> Nat \ {0}]
    /\ allocated \in [Plan!Projects -> Nat]
    /\ \A p \in Plan!Projects : allocated[p] <= caps[p]
    /\ remaining \in Nat
    /\ done \in BOOLEAN

Dealing == Plan!MatchingConstants /\ PlanTyped /\ remaining > 0 /\ Plan!Active # {}

\* The exact share of a project, rounded down.
Share(p) == Plan!Numerator(p) \div Plan!TotalScore

\* A round has finitely many projects and a budget of units.
LEMMA ProjectsAreFinite ==
    ASSUME Plan!MatchingConstants
    PROVE  IsFiniteSet(Plan!Projects) /\ Pool \in Nat
<1>1. NProjects \in Nat /\ Pool \in Nat
  BY Zenon DEF Plan!MatchingConstants
<1> QED
  BY <1>1, IntervalSize DEF Plan!Projects

\* Quotient and remainder.
LEMMA DivMod ==
    ASSUME NEW a \in Nat, NEW b \in Nat, b > 0
    PROVE  a \div b \in Nat /\ a % b \in Nat /\ a % b < b /\ a = b * (a \div b) + (a % b)
OBVIOUS

\* A positive factor cancels.
LEMMA TimesCancel ==
    ASSUME NEW a \in Nat, a > 0, NEW x \in Nat, NEW y \in Nat, a * x <= a * y
    PROVE  x <= y
<1>1. ASSUME y < x PROVE FALSE
  <2>1. y + 1 <= x
    BY <1>1
  <2>2. a * (y + 1) <= a * x
    BY <2>1
  <2> QED
    BY <2>2
<1> QED
  BY <1>1

\* The open projects of a round: what each gets of the floors.
LEMMA RoundShares ==
    ASSUME Dealing
    PROVE  /\ IsFiniteSet(Plan!Active) /\ Plan!Active \subseteq Plan!Projects
           /\ Plan!TotalScore \in Nat /\ Plan!TotalScore > 0
           /\ Plan!TotalScore = Total(score, Plan!Active)
           /\ \A p \in Plan!Projects : p \in Plan!Active <=> score[p] > 0 /\ allocated[p] < caps[p]
           /\ \A p \in Plan!Active :
                /\ Plan!Numerator(p) = remaining * score[p] /\ Plan!Numerator(p) \in Nat
                /\ Share(p) \in Nat /\ Plan!Remainder(p) \in Nat
                /\ Plan!Remainder(p) < Plan!TotalScore
                /\ Plan!Numerator(p) = Plan!TotalScore * Share(p) + Plan!Remainder(p)
                /\ Plan!FloorShare(p) = IF caps[p] - allocated[p] <= Share(p)
                                        THEN caps[p] - allocated[p] ELSE Share(p)
                /\ Plan!FloorShare(p) \in Nat /\ Plan!FloorShare(p) <= Share(p)
                /\ allocated[p] + Plan!FloorShare(p) <= caps[p]
<1> DEFINE A == Plan!Active
           T == Plan!TotalScore
           scores == [p \in A |-> score[p]]
<1>1. IsFiniteSet(A) /\ A \subseteq Plan!Projects
  BY ProjectsAreFinite, FS_Subset DEF Dealing, Plan!Active
<1>2. \A p \in Plan!Projects : p \in A <=> score[p] > 0 /\ allocated[p] < caps[p]
  BY DEF Plan!Active, Plan!Open
<1>3. \A p \in A : score[p] \in Nat /\ score[p] > 0 /\ scores[p] = score[p] /\ scores[p] \in Nat
  BY <1>1, <1>2 DEF Dealing, PlanTyped
<1>4. T = Total(scores, A)
  <2>1. scores \in [A -> Nat]
    BY <1>3
  <2>2. T = Plan!Sum(scores)
    BY DEF Plan!TotalScore
  <2> HIDE DEF scores, A, T
  <2> QED
    BY <1>1, <2>1, <2>2, SumIsTotal
<1>5. T = Total(score, A)
  <2> HIDE DEF scores, A, T
  <2> QED
    BY <1>3, <1>4, TotalWithin
<1>6. T \in Nat /\ T > 0
  <2>1. PICK p \in A : TRUE
    BY DEF Dealing
  <2> HIDE DEF scores, A, T
  <2>2. Total(scores, A) \in Nat /\ scores[p] <= Total(scores, A)
    BY <1>1, <1>3, TotalBounds
  <2> QED
    BY <1>3, <1>4, <2>1, <2>2
<1>7. ASSUME NEW p \in A
      PROVE  /\ Plan!Numerator(p) = remaining * score[p] /\ Plan!Numerator(p) \in Nat
             /\ Share(p) \in Nat /\ Plan!Remainder(p) \in Nat /\ Plan!Remainder(p) < T
             /\ Plan!Numerator(p) = T * Share(p) + Plan!Remainder(p)
             /\ Plan!FloorShare(p) = IF caps[p] - allocated[p] <= Share(p)
                                     THEN caps[p] - allocated[p] ELSE Share(p)
             /\ Plan!FloorShare(p) \in Nat /\ Plan!FloorShare(p) <= Share(p)
             /\ allocated[p] + Plan!FloorShare(p) <= caps[p]
  <2>1. Plan!Numerator(p) = remaining * score[p] /\ Plan!Numerator(p) \in Nat
    BY <1>3 DEF Dealing, PlanTyped, Plan!Numerator
  <2>2. Share(p) = Plan!Numerator(p) \div T /\ Plan!Remainder(p) = Plan!Numerator(p) % T
    BY DEF Share, Plan!Remainder
  <2>3. Plan!FloorShare(p) = Plan!Min({caps[p] - allocated[p], Share(p)})
    BY DEF Share, Plan!FloorShare
  <2>4. caps[p] \in Nat /\ allocated[p] \in Nat /\ allocated[p] < caps[p]
    BY <1>1, <1>2 DEF Dealing, PlanTyped
  <2> HIDE DEF A, T
  <2>5. Share(p) \in Nat /\ Plan!Remainder(p) \in Nat /\ Plan!Remainder(p) < T
        /\ Plan!Numerator(p) = T * Share(p) + Plan!Remainder(p)
    BY <1>6, <2>1, <2>2, DivMod
  <2>6. Plan!FloorShare(p) = IF caps[p] - allocated[p] <= Share(p)
                             THEN caps[p] - allocated[p] ELSE Share(p)
    BY <2>3, <2>4, <2>5, MinOfTwo
  <2>7. Plan!FloorShare(p) \in Nat /\ Plan!FloorShare(p) <= Share(p) /\ allocated[p] + Plan!FloorShare(p) <= caps[p]
    BY <2>4, <2>5, <2>6
  <2> QED
    BY <2>1, <2>5, <2>6, <2>7
<1> QED
  BY <1>1, <1>2, <1>5, <1>6, <1>7

\* The floors together are no more than is left to deal.
LEMMA FloorsFit ==
    ASSUME Dealing
    PROVE  /\ Plan!LeftByFloors \in Nat
           /\ \E F \in Nat : /\ Plan!LeftByFloors = remaining - F
                             /\ F = Total([p \in Plan!Active |-> Plan!FloorShare(p)], Plan!Active)
<1> DEFINE A == Plan!Active
           T == Plan!TotalScore
           floors == [p \in A |-> Plan!FloorShare(p)]
           scaled == [p \in A |-> T * Plan!FloorShare(p)]
           exact == [p \in A |-> remaining * score[p]]
<1>1. /\ IsFiniteSet(A) /\ T \in Nat /\ T > 0 /\ T = Total(score, A) /\ remaining \in Nat
      /\ \A p \in A : score[p] \in Nat
  BY RoundShares DEF Dealing, PlanTyped
<1>2. ASSUME NEW p \in A
      PROVE  floors[p] \in Nat /\ scaled[p] = T * floors[p] /\ scaled[p] \in Nat
             /\ exact[p] = remaining * score[p] /\ exact[p] \in Nat /\ scaled[p] <= exact[p]
  <2>1. /\ Plan!FloorShare(p) \in Nat /\ Share(p) \in Nat /\ Plan!FloorShare(p) <= Share(p)
        /\ remaining * score[p] = T * Share(p) + Plan!Remainder(p) /\ Plan!Remainder(p) \in Nat
        /\ remaining * score[p] \in Nat
    BY RoundShares
  <2>2. T * Plan!FloorShare(p) <= T * Share(p) /\ T * Plan!FloorShare(p) \in Nat /\ T * Share(p) \in Nat
    <3> HIDE DEF T
    <3> QED
      BY <1>1, <2>1
  <2>3. T * Plan!FloorShare(p) <= remaining * score[p]
    <3> HIDE DEF T
    <3> QED
      BY <2>1, <2>2
  <2> QED
    BY <2>1, <2>2, <2>3
<1>3. floors \in [A -> Nat]
  BY <1>2
<1>4. Plan!LeftByFloors = remaining - Plan!Sum(floors)
  BY DEF Plan!LeftByFloors
<1> HIDE DEF A, T, floors, scaled, exact
<1>5. Plan!Sum(floors) = Total(floors, A) /\ Total(floors, A) \in Nat
  BY <1>1, <1>2, <1>3, SumIsTotal, TotalStep
<1>6. Total(scaled, A) = T * Total(floors, A)
  BY <1>1, <1>2, TotalScales
<1>7. Total(exact, A) = remaining * Total(score, A)
  BY <1>1, <1>2, TotalScales
<1>8. Total(scaled, A) <= Total(exact, A)
  BY <1>1, <1>2, TotalAtMost
<1>9. T * Total(floors, A) <= T * remaining
  BY <1>1, <1>5, <1>6, <1>7, <1>8
<1>10. Total(floors, A) <= remaining
  BY <1>1, <1>5, <1>9, TimesCancel
<1> QED
  BY <1>1, <1>4, <1>5, <1>10 DEF floors, A

-----------------------------------------------------------------------------
(* What a round deals. *)

Gets(p) == IF p \in Plan!GetsOne THEN 1 ELSE 0

\* The units the floors left go to the best ranked, one each: never more units than are
\* left, and one to every project below its cap while some are left over.
LEMMA RanksOfRound ==
    ASSUME Dealing
    PROVE  /\ IsFiniteSet(Plan!GetsOne) /\ Plan!GetsOne \subseteq Plan!Uncapped
           /\ Plan!Uncapped \subseteq Plan!Active
           /\ Cardinality(Plan!GetsOne) \in Nat
           /\ Cardinality(Plan!GetsOne) <= Plan!LeftByFloors
           /\ Cardinality(Plan!GetsOne) < Plan!LeftByFloors => Plan!GetsOne = Plan!Uncapped
           /\ \A p \in Plan!Uncapped, q \in Plan!GetsOne : Plan!Before(p, q) => p \in Plan!GetsOne
<1> DEFINE U == Plan!Uncapped
           B == {r \in U \X U : Plan!Before(r[1], r[2])}
           k == Plan!LeftByFloors
<1>1. U \subseteq Plan!Active /\ IsFiniteSet(U)
  <2>1. U \subseteq Plan!Active
    BY DEF Plan!Uncapped
  <2> QED
    BY <2>1, RoundShares, FS_Subset
<1>2. k \in Nat
  BY FloorsFit
<1>3. \A p \in U : p \in Int /\ Plan!Remainder(p) \in Nat
  <2>1. NProjects \in Nat
    BY Zenon DEF Dealing, Plan!MatchingConstants
  <2>2. Plan!Projects \subseteq Int
    BY <2>1 DEF Plan!Projects
  <2> QED
    BY <1>1, <2>2, RoundShares
<1>4. \A p, q \in U : <<p, q>> \in B <=> Plan!Before(p, q)
  OBVIOUS
<1>5. \A p, q \in U : Plan!Before(p, q) <=> \/ Plan!Remainder(p) > Plan!Remainder(q)
                                            \/ Plan!Remainder(p) = Plan!Remainder(q) /\ p < q
  BY DEF Plan!Before
<1>6. Plan!GetsOne = Foremost(U, B, k)
  <2>1. \A p \in U : {q \in U : Plan!Before(q, p)} = {q \in U : <<q, p>> \in B}
    BY <1>4
  <2>2. Plan!GetsOne = {p \in U : Cardinality({q \in U : Plan!Before(q, p)}) < k}
    BY PlanCardinality DEF Plan!GetsOne
  <2> HIDE DEF U, B, k
  <2> QED
    BY <2>1, <2>2 DEF Foremost
<1> HIDE DEF U, B, k
<1>7. /\ \A p \in U : <<p, p>> \notin B
      /\ \A p, q \in U : p # q => <<p, q>> \in B \/ <<q, p>> \in B
      /\ \A p, q, r \in U : <<p, q>> \in B /\ <<q, r>> \in B => <<p, r>> \in B
  <2>1. \A p \in U : <<p, p>> \notin B
    BY <1>3, <1>4, <1>5
  <2>2. \A p, q \in U : p # q => <<p, q>> \in B \/ <<q, p>> \in B
    BY <1>3, <1>4, <1>5
  <2>3. \A p, q, r \in U : <<p, q>> \in B /\ <<q, r>> \in B => <<p, r>> \in B
    BY <1>3, <1>4, <1>5
  <2> QED
    BY <2>1, <2>2, <2>3
<1> DEFINE G == Foremost(U, B, k)
<1>8. /\ IsFiniteSet(G) /\ Cardinality(G) <= k
      /\ Cardinality(G) < k => G = U
      /\ \A p \in U, q \in G : <<p, q>> \in B => p \in G
  BY <1>1, <1>2, <1>7, FirstOnes
<1>9. G \subseteq U
  BY DEF Foremost
<1> HIDE DEF G
<1>10. Plan!GetsOne = G
  BY <1>6 DEF G
<1>11. Cardinality(G) \in Nat
  BY <1>8, FS_CardinalityType
<1> QED
  BY <1>1, <1>4, <1>8, <1>9, <1>10, <1>11 DEF U, k

\* What a project has after a round, and what is left: the budget is conserved.
LEMMA RoundDeals ==
    ASSUME Dealing, Plan!Round
    PROVE  /\ score' = score /\ caps' = caps /\ done' = done
           /\ allocated' \in [Plan!Projects -> Nat]
           /\ \A p \in Plan!Projects : allocated'[p] <= caps[p]
           /\ \A p \in Plan!Active : allocated'[p] = allocated[p] + Plan!FloorShare(p) + Gets(p)
           /\ \A p \in Plan!Projects \ Plan!Active : allocated'[p] = allocated[p]
           /\ \A p \in Plan!Active : p \in Plan!Uncapped <=> allocated[p] + Plan!FloorShare(p) < caps[p]
           /\ remaining' = Plan!LeftByFloors - Cardinality(Plan!GetsOne) /\ remaining' \in Nat
           /\ remaining' > 0 => Plan!GetsOne = Plan!Uncapped
           /\ Plan!Sum(allocated') + remaining' = Plan!Sum(allocated) + remaining
<1> DEFINE P == Plan!Projects
           A == Plan!Active
           G == Plan!GetsOne
           floors == [p \in A |-> Plan!FloorShare(p)]
           dealt == [p \in P |-> IF p \in A THEN Plan!FloorShare(p) ELSE 0]
           ones == [p \in P |-> Gets(p)]
           after == [p \in P |-> allocated[p] + dealt[p]]
           each == [p \in G |-> 1]
<1>1. /\ score' = score /\ caps' = caps /\ done' = done
      /\ allocated' = [p \in P |-> Plan!AfterFloors[p] + Gets(p)]
      /\ remaining' = Plan!LeftByFloors - Cardinality(G)
  BY PlanCardinality DEF Plan!Round, Gets
<1>2. Plan!AfterFloors = after
  BY DEF Plan!AfterFloors
<1>3. /\ IsFiniteSet(P) /\ A \subseteq P /\ G \subseteq A /\ IsFiniteSet(A) /\ IsFiniteSet(G)
  BY RoundShares, RanksOfRound, ProjectsAreFinite DEF Dealing
<1>4. /\ allocated \in [P -> Nat] /\ caps \in [P -> Nat \ {0}] /\ remaining \in Nat
      /\ \A p \in P : allocated[p] <= caps[p]
  BY DEF Dealing, PlanTyped
<1>5. \A p \in A : Plan!FloorShare(p) \in Nat /\ allocated[p] + Plan!FloorShare(p) <= caps[p]
  BY RoundShares
<1>6. \A p \in A : p \in Plan!Uncapped <=> allocated[p] + Plan!FloorShare(p) < caps[p]
  BY <1>2, <1>3 DEF Plan!Uncapped
<1>7. \A p \in P : /\ dealt[p] \in Nat /\ ones[p] \in Nat /\ ones[p] = Gets(p)
                   /\ after[p] = allocated[p] + dealt[p] /\ after[p] \in Nat
                   /\ allocated'[p] = after[p] + ones[p] /\ allocated'[p] \in Nat
  BY <1>1, <1>2, <1>4, <1>5 DEF Gets
<1>8. /\ \A p \in A : allocated'[p] = allocated[p] + Plan!FloorShare(p) + Gets(p)
      /\ \A p \in P \ A : allocated'[p] = allocated[p]
  <2>1. \A p \in A : dealt[p] = Plan!FloorShare(p)
    BY <1>3
  <2>2. \A p \in P \ A : dealt[p] = 0 /\ Gets(p) = 0
    BY <1>3 DEF Gets
  <2> HIDE DEF dealt, ones, after
  <2> QED
    BY <1>3, <1>4, <1>5, <1>7, <2>1, <2>2
<1>9. \A p \in P : allocated'[p] <= caps[p]
  <2>1. ASSUME NEW p \in A PROVE allocated'[p] <= caps[p]
    <3>1. CASE p \in G
      <4>1. allocated[p] + Plan!FloorShare(p) < caps[p]
        BY <1>6, <3>1, RanksOfRound
      <4> QED
        BY <1>3, <1>4, <1>5, <1>8, <3>1, <4>1 DEF Gets
    <3>2. CASE p \notin G
      BY <1>3, <1>4, <1>5, <1>8, <3>2 DEF Gets
    <3> QED
      BY <3>1, <3>2
  <2> QED
    BY <1>4, <1>8, <2>1
<1>10. allocated' \in [P -> Nat]
  <2> HIDE DEF dealt, ones, after
  <2> QED
    BY <1>1, <1>7
<1>11. remaining' \in Nat /\ (remaining' > 0 => G = Plan!Uncapped)
  BY <1>1, RanksOfRound, FloorsFit
<1>12. Plan!Sum(allocated') + remaining' = Plan!Sum(allocated) + remaining
  <2>1. PICK F \in Nat : Plan!LeftByFloors = remaining - F /\ F = Total(floors, A)
    BY FloorsFit
  <2>2. \A p \in A : dealt[p] = floors[p]
    BY <1>3
  <2>3. \A p \in P \ A : dealt[p] = 0
    OBVIOUS
  <2>4. (\A p \in G : ones[p] = each[p] /\ each[p] = 1) /\ (\A p \in P \ G : ones[p] = 0)
    BY <1>3 DEF Gets
  <2> HIDE DEF dealt, ones, after, floors, each
  <2>5. Total(dealt, P) = F
    BY <1>3, <2>1, <2>2, <2>3, TotalWithin
  <2>6. Total(ones, P) = Cardinality(G)
    BY <1>3, <2>4, TotalWithin, TotalOfOnes
  <2>7. Total(after, P) = Total(allocated, P) + Total(dealt, P)
    <3>1. \A y \in P : allocated[y] \in Nat /\ dealt[y] \in Nat /\ after[y] = allocated[y] + dealt[y]
      BY <1>4, <1>7
    <3> QED
      BY <1>3, <3>1, TotalAdds
  <2> DEFINE new == allocated'
  <2>8. new \in [P -> Nat] /\ \A y \in P : after[y] \in Nat /\ ones[y] \in Nat /\ new[y] = after[y] + ones[y]
    BY <1>7, <1>10
  <2>9. Plan!Sum(allocated') = Plan!Sum(new)
    OBVIOUS
  <2> HIDE DEF new
  <2>10. Total(new, P) = Total(after, P) + Total(ones, P)
    BY <1>3, <2>8, TotalAdds
  <2>11. Plan!Sum(new) = Total(new, P) /\ Plan!Sum(allocated) = Total(allocated, P)
    BY <1>3, <1>4, <2>8, SumIsTotal
  <2>12. Total(allocated, P) \in Nat /\ Cardinality(G) \in Nat
    BY <1>3, <1>4, TotalStep, FS_CardinalityType
  <2> QED
    BY <1>1, <1>4, <2>1, <2>5, <2>6, <2>7, <2>9, <2>10, <2>11, <2>12
<1> QED
  BY <1>1, <1>6, <1>8, <1>9, <1>10, <1>11, <1>12

-----------------------------------------------------------------------------
(* The invariant of the plan. *)

\* In every round, not at the end alone: the higher score with no smaller cap has no less.
InOrder ==
    \A p, q \in Plan!Projects :
        score[p] > score[q] /\ caps[p] >= caps[q] => allocated[p] >= allocated[q]

\* Projects equal in score and cap have the same for as long as the loop goes on: only the
\* last round runs out of units between them.
InStep ==
    \A p, q \in Plan!Projects :
        score[p] = score[q] /\ caps[p] = caps[q] =>
            /\ allocated[p] <= allocated[q] + 1
            /\ remaining > 0 => allocated[p] = allocated[q]

AllScores == Total(score, Plan!Projects)

\* The exact share of the whole budget, rounded down.
Exact(p) == (Pool * score[p]) \div AllScores

QuotaIsMet ==
    AllScores > 0 => \A p \in Plan!Projects : allocated[p] >= Plan!Min({caps[p], Exact(p)})

Untouched ==
    remaining = Pool /\ ~done /\ \A p \in Plan!Projects : allocated[p] = 0

PlanInv ==
    /\ PlanTyped
    /\ Plan!BudgetConserved /\ Plan!BudgetIsSpent
    /\ InOrder /\ InStep
    /\ Untouched \/ QuotaIsMet

\* The larger number has no smaller quotient.
LEMMA DivGrows ==
    ASSUME NEW a \in Nat, NEW c \in Nat, NEW b \in Nat, b > 0, a <= c
    PROVE  a \div b <= c \div b
OBVIOUS

\* A round takes from nobody, and gives to the open projects only.
LEMMA RoundGrows ==
    ASSUME Dealing, Plan!Round
    PROVE  /\ \A p \in Plan!Projects : allocated[p] <= allocated'[p]
           /\ \A p \in Plan!Active : Gets(p) \in {0, 1} /\ Plan!FloorShare(p) \in Nat
           /\ \A p \in Plan!Projects : allocated[p] \in Nat /\ allocated'[p] \in Nat
<1>1. \A p \in Plan!Active : Gets(p) \in {0, 1} /\ Plan!FloorShare(p) \in Nat
  BY RoundShares DEF Gets
<1>2. \A p \in Plan!Projects : allocated[p] \in Nat /\ allocated'[p] \in Nat
  BY RoundDeals DEF Dealing, PlanTyped
<1>3. ASSUME NEW p \in Plan!Projects PROVE allocated[p] <= allocated'[p]
  <2>1. CASE p \in Plan!Active
    <3>1. allocated'[p] = allocated[p] + Plan!FloorShare(p) + Gets(p)
      BY <2>1, RoundDeals
    <3> QED
      BY <1>1, <1>2, <2>1, <3>1
  <2>2. CASE p \notin Plan!Active
    BY <1>2, <2>2, RoundDeals
  <2> QED
    BY <2>1, <2>2
<1> QED
  BY <1>1, <1>2, <1>3

\* The floor of a higher score is no smaller, the remainder of an equal floor is larger: the
\* order survives a round.
LEMMA RoundKeepsOrder ==
    ASSUME Dealing, InOrder, Plan!Round
    PROVE  InOrder'
<1>1. score' = score /\ caps' = caps /\ Plan!Projects' = Plan!Projects
  BY RoundDeals DEF Plan!Projects
<1> SUFFICES ASSUME NEW p \in Plan!Projects, NEW q \in Plan!Projects,
                    score[p] > score[q], caps[p] >= caps[q]
             PROVE  allocated'[p] >= allocated'[q]
  BY <1>1 DEF InOrder
<1>2. /\ score[p] \in Nat /\ score[q] \in Nat /\ caps[p] \in Nat /\ caps[q] \in Nat
      /\ remaining \in Nat /\ remaining > 0
  BY DEF Dealing, PlanTyped
<1>3. /\ allocated[p] \in Nat /\ allocated[q] \in Nat /\ allocated'[p] \in Nat /\ allocated'[q] \in Nat
      /\ allocated[p] >= allocated[q] /\ allocated[p] <= allocated'[p] /\ allocated[q] <= allocated'[q]
      /\ allocated[p] <= caps[p]
      /\ allocated'[p] <= caps[p] /\ allocated'[q] <= caps[q]
  BY RoundGrows, RoundDeals DEF InOrder, Dealing, PlanTyped
<1>4. CASE q \notin Plan!Active
  <2>1. allocated'[q] = allocated[q]
    BY <1>4, RoundDeals
  <2> QED
    BY <1>3, <2>1
<1>5. CASE q \in Plan!Active /\ p \notin Plan!Active
  <2>1. allocated'[p] = allocated[p] /\ allocated[p] >= caps[p]
    <3>1. allocated'[p] = allocated[p]
      BY <1>5, RoundDeals
    <3>2. ~(allocated[p] < caps[p])
      BY <1>2, <1>5, RoundShares
    <3> QED
      BY <1>2, <1>3, <3>1, <3>2
  <2> QED
    BY <1>2, <1>3, <2>1
<1>6. CASE q \in Plan!Active /\ p \in Plan!Active
  <2> DEFINE T == Plan!TotalScore
  <2>1. /\ T \in Nat /\ T > 0
        /\ Plan!Numerator(p) = remaining * score[p] /\ Plan!Numerator(p) \in Nat
        /\ Plan!Numerator(q) = remaining * score[q] /\ Plan!Numerator(q) \in Nat
        /\ Share(p) \in Nat /\ Share(q) \in Nat
        /\ Plan!Remainder(p) \in Nat /\ Plan!Remainder(q) \in Nat
        /\ Plan!Numerator(p) = T * Share(p) + Plan!Remainder(p)
        /\ Plan!Numerator(q) = T * Share(q) + Plan!Remainder(q)
    BY <1>6, RoundShares
  <2>2. /\ Plan!FloorShare(p) \in Nat /\ Plan!FloorShare(q) \in Nat
        /\ Plan!FloorShare(q) <= Share(q)
        /\ Plan!FloorShare(p) = IF caps[p] - allocated[p] <= Share(p)
                                THEN caps[p] - allocated[p] ELSE Share(p)
        /\ Gets(p) \in {0, 1} /\ Gets(q) \in {0, 1}
    BY <1>6, RoundShares, RoundGrows
  <2>3. /\ allocated'[p] = allocated[p] + Plan!FloorShare(p) + Gets(p)
        /\ allocated'[q] = allocated[q] + Plan!FloorShare(q) + Gets(q)
    BY <1>6, RoundDeals
  <2>4. Plan!Numerator(q) < Plan!Numerator(p)
    <3>1. score[q] + 1 <= score[p]
      BY <1>2
    <3>2. remaining * (score[q] + 1) <= remaining * score[p]
      BY <1>2, <3>1
    <3>3. remaining * (score[q] + 1) = remaining * score[q] + remaining
      BY <1>2
    <3> QED
      BY <1>2, <2>1, <3>2, <3>3
  <2>5. Share(q) <= Share(p)
    <3>1. Share(p) = Plan!Numerator(p) \div T /\ Share(q) = Plan!Numerator(q) \div T
      BY DEF Share
    <3>2. Plan!Numerator(q) <= Plan!Numerator(p)
      BY <2>1, <2>4
    <3>3. Plan!Numerator(q) \div T <= Plan!Numerator(p) \div T
      <4> HIDE DEF T
      <4> QED
        BY <2>1, <3>2, DivGrows, ZenonT(20)
    <3> QED
      BY <3>1, <3>3
  <2>6. CASE p \notin Plan!Uncapped
    <3>1. ~(allocated[p] + Plan!FloorShare(p) < caps[p])
      BY <1>6, <2>6, RoundDeals
    <3> QED
      BY <1>2, <1>3, <2>2, <2>3, <3>1
  <2>7. CASE p \in Plan!Uncapped
    <3>1. allocated[p] + Plan!FloorShare(p) < caps[p]
      BY <1>6, <2>7, RoundDeals
    <3>2. Plan!FloorShare(p) = Share(p)
      BY <1>2, <1>3, <2>1, <2>2, <3>1
    <3>3. CASE allocated[q] + Plan!FloorShare(q) < allocated[p] + Plan!FloorShare(p)
      BY <1>3, <2>2, <2>3, <3>3
    <3>4. CASE allocated[q] + Plan!FloorShare(q) = allocated[p] + Plan!FloorShare(p)
      <4>1. Share(q) = Share(p)
        BY <1>3, <2>1, <2>2, <2>5, <3>2, <3>4
      <4>2. Plan!Remainder(p) > Plan!Remainder(q)
        <5> HIDE DEF T
        <5>1. T * Share(q) = T * Share(p) /\ T * Share(p) \in Nat
          BY <2>1, <4>1
        <5> QED
          BY <2>1, <2>4, <5>1
      <4>3. Plan!Before(p, q)
        BY <4>2 DEF Plan!Before
      <4>4. q \in Plan!GetsOne => p \in Plan!GetsOne
        BY <2>7, <4>3, RanksOfRound
      <4>5. Gets(q) <= Gets(p)
        BY <4>4 DEF Gets
      <4> QED
        BY <1>3, <2>2, <2>3, <3>4, <4>5
    <3>5. allocated[q] + Plan!FloorShare(q) <= allocated[p] + Plan!FloorShare(p)
      BY <1>3, <2>1, <2>2, <2>5, <3>2
    <3> QED
      BY <1>3, <2>2, <3>3, <3>4, <3>5
  <2> QED
    BY <2>6, <2>7
<1> QED
  BY <1>4, <1>5, <1>6

\* Equals get equal floors, and all or none of the rest while the units last.
LEMMA RoundKeepsStep ==
    ASSUME Dealing, InStep, Plan!Round
    PROVE  InStep'
<1>1. score' = score /\ caps' = caps /\ Plan!Projects' = Plan!Projects
  BY RoundDeals DEF Plan!Projects
<1> SUFFICES ASSUME NEW p \in Plan!Projects, NEW q \in Plan!Projects,
                    score[p] = score[q], caps[p] = caps[q]
             PROVE  /\ allocated'[p] <= allocated'[q] + 1
                    /\ remaining' > 0 => allocated'[p] = allocated'[q]
  BY <1>1 DEF InStep
<1>2. allocated[p] = allocated[q] /\ allocated[p] \in Nat
  BY DEF InStep, Dealing, PlanTyped
<1>3. p \in Plan!Active <=> q \in Plan!Active
  BY <1>2, RoundShares
<1>4. CASE p \notin Plan!Active
  <2>1. allocated'[p] = allocated[p] /\ allocated'[q] = allocated[q]
    BY <1>3, <1>4, RoundDeals
  <2> QED
    BY <1>2, <2>1
<1>5. CASE p \in Plan!Active
  <2>1. Plan!Numerator(p) = Plan!Numerator(q)
    BY DEF Plan!Numerator
  <2>2. Plan!FloorShare(p) = Plan!FloorShare(q)
    BY <1>2, <2>1 DEF Plan!FloorShare
  <2>3. /\ allocated'[p] = allocated[p] + Plan!FloorShare(p) + Gets(p)
        /\ allocated'[q] = allocated[q] + Plan!FloorShare(q) + Gets(q)
        /\ p \in Plan!Uncapped <=> q \in Plan!Uncapped
    BY <1>2, <1>3, <1>5, <2>2, RoundDeals
  <2>4. Plan!FloorShare(p) \in Nat /\ Gets(p) \in {0, 1} /\ Gets(q) \in {0, 1}
    BY <1>3, <1>5, RoundGrows
  <2>5. ASSUME remaining' > 0 PROVE Gets(p) = Gets(q)
    BY <2>3, <2>5, RoundDeals DEF Gets
  <2> QED
    BY <1>2, <2>2, <2>3, <2>4, <2>5
<1> QED
  BY <1>4, <1>5

\* Where nobody has anything yet, who is not open has no score: all scores are those of the
\* open projects.
LEMMA UntouchedScores ==
    ASSUME Plan!MatchingConstants, PlanTyped, Untouched
    PROVE  /\ AllScores = Total(score, Plan!Active)
           /\ \A p \in Plan!Projects : p \notin Plan!Active => score[p] = 0
<1>1. \A p \in Plan!Projects : p \notin Plan!Active => score[p] = 0
  <2> SUFFICES ASSUME NEW p \in Plan!Projects, p \notin Plan!Active PROVE score[p] = 0
    OBVIOUS
  <2>1. allocated[p] = 0 /\ caps[p] \in Nat \ {0} /\ score[p] \in Nat
    BY DEF Untouched, PlanTyped
  <2>2. ~(score[p] > 0 /\ allocated[p] < caps[p])
    BY DEF Plan!Active, Plan!Open
  <2> QED
    BY <2>1, <2>2
<1>2. Plan!Active \subseteq Plan!Projects
  BY DEF Plan!Active
<1> QED
  BY <1>1, <1>2, TotalWithin DEF AllScores

\* The first round gives everyone its floor, the next ones take nothing back.
LEMMA RoundKeepsQuota ==
    ASSUME Dealing, Untouched \/ QuotaIsMet, Plan!Round
    PROVE  QuotaIsMet'
<1>1. /\ score' = score /\ caps' = caps /\ Plan!Projects' = Plan!Projects /\ AllScores' = AllScores
      /\ \A p : Exact(p)' = Exact(p)
  BY RoundDeals DEF Plan!Projects, AllScores, Exact
<1> SUFFICES ASSUME NEW p \in Plan!Projects, AllScores > 0
             PROVE  allocated'[p] >= Plan!Min({caps[p], Exact(p)})
  BY <1>1 DEF QuotaIsMet
<1>2. /\ caps[p] \in Nat /\ score[p] \in Nat /\ allocated[p] \in Nat /\ allocated'[p] \in Nat
      /\ allocated[p] <= allocated'[p] /\ AllScores \in Nat /\ Pool \in Nat
  <2>1. /\ caps[p] \in Nat /\ score[p] \in Nat /\ allocated[p] \in Nat /\ allocated'[p] \in Nat
        /\ allocated[p] <= allocated'[p]
    BY RoundGrows DEF Dealing, PlanTyped
  <2>2. AllScores \in Nat /\ Pool \in Nat
    BY ProjectsAreFinite, TotalStep DEF AllScores, Dealing, PlanTyped
  <2> QED
    BY <2>1, <2>2
<1>3. Exact(p) \in Nat
  <2>1. Pool * score[p] \in Nat
    BY <1>2
  <2> QED
    BY <1>2, <2>1, DivMod DEF Exact
<1>4. Plan!Min({caps[p], Exact(p)}) = IF caps[p] <= Exact(p) THEN caps[p] ELSE Exact(p)
  BY <1>2, <1>3, MinOfTwo
<1>5. CASE QuotaIsMet
  <2>1. allocated[p] >= Plan!Min({caps[p], Exact(p)})
    BY <1>5 DEF QuotaIsMet
  <2> QED
    BY <1>2, <1>3, <1>4, <2>1
<1>6. CASE Untouched
  <2>1. AllScores = Plan!TotalScore /\ (p \notin Plan!Active => score[p] = 0)
    BY <1>6, UntouchedScores, RoundShares DEF Dealing
  <2>2. remaining = Pool /\ allocated[p] = 0
    BY <1>6 DEF Untouched
  <2>3. CASE p \in Plan!Active
    <3>1. Share(p) = Exact(p)
      BY <2>1, <2>2 DEF Share, Exact, Plan!Numerator
    <3>2. Plan!FloorShare(p) = IF caps[p] - allocated[p] <= Share(p)
                               THEN caps[p] - allocated[p] ELSE Share(p)
      BY <2>3, RoundShares
    <3>3. allocated'[p] = allocated[p] + Plan!FloorShare(p) + Gets(p) /\ Gets(p) \in {0, 1}
      BY <2>3, RoundDeals, RoundGrows
    <3> QED
      BY <1>2, <1>3, <1>4, <2>2, <3>1, <3>2, <3>3
  <2>4. CASE p \notin Plan!Active
    <3>1. Exact(p) = 0
      <4>1. Pool * score[p] = 0
        BY <1>2, <2>1, <2>4
      <4> QED
        BY <1>2, <4>1 DEF Exact
    <3> QED
      BY <1>2, <1>4, <3>1
  <2> QED
    BY <2>3, <2>4
<1> QED
  BY <1>5, <1>6

-----------------------------------------------------------------------------
(* The invariant holds from the start, through every round, to the end. *)

\* The plan begins with nothing dealt.
LEMMA PlanInit ==
    ASSUME Plan!MatchingConstants, Plan!Init
    PROVE  PlanInv
<1>1. /\ score \in [Plan!Projects -> Plan!Scores] /\ caps \in [Plan!Projects -> Caps]
      /\ allocated = [p \in Plan!Projects |-> 0] /\ remaining = Pool /\ done = FALSE
  BY DEF Plan!Init
<1>2. Caps \subseteq Nat \ {0} /\ Pool \in Nat
  BY Zenon DEF Plan!MatchingConstants
<1>3. PlanTyped
  <2>1. score \in [Plan!Projects -> Nat]
    BY <1>1, ScoresAreNumbers
  <2>2. caps \in [Plan!Projects -> Nat \ {0}]
    BY <1>1, <1>2
  <2>3. \A p \in Plan!Projects : allocated[p] = 0 /\ caps[p] \in Nat
    BY <1>1, <2>2
  <2>4. /\ allocated \in [Plan!Projects -> Nat]
        /\ \A p \in Plan!Projects : allocated[p] <= caps[p]
    BY <1>1, <2>3
  <2> QED
    BY <1>1, <1>2, <2>1, <2>2, <2>4 DEF PlanTyped
<1>4. Untouched /\ InOrder /\ InStep /\ Plan!BudgetIsSpent
  BY <1>1 DEF Untouched, InOrder, InStep, Plan!BudgetIsSpent
<1>5. Plan!BudgetConserved
  <2>1. allocated \in [Plan!Projects -> Nat] /\ IsFiniteSet(Plan!Projects) /\ IsFiniteSet({})
    BY <1>3, ProjectsAreFinite, FS_EmptySet DEF PlanTyped
  <2>2. Total(allocated, Plan!Projects) = Total(allocated, {})
    BY <1>1, TotalWithin
  <2>3. Plan!Sum(allocated) = 0
    BY <2>1, <2>2, SumIsTotal, TotalOfNone
  <2> QED
    BY <1>1, <1>2, <2>3 DEF Plan!BudgetConserved
<1> QED
  BY <1>3, <1>4, <1>5 DEF PlanInv

\* Every step of the loop keeps it.
LEMMA PlanStep ==
    ASSUME Plan!MatchingConstants, PlanInv, [Plan!Next]_(Plan!vars)
    PROVE  PlanInv'
<1>1. CASE Plan!Round
  <2>1. Dealing /\ ~done
    BY <1>1 DEF Plan!Round, PlanInv, Dealing
  <2>2. Plan!Projects' = Plan!Projects
    BY DEF Plan!Projects
  <2>3. PlanTyped'
    BY <2>1, <2>2, <1>1, RoundDeals DEF PlanTyped, Dealing
  <2>4. Plan!BudgetConserved'
    <3>1. Plan!Sum(allocated)' = Plan!Sum(allocated')
      OBVIOUS
    <3> QED
      BY <1>1, <2>1, <3>1, RoundDeals DEF PlanInv, Plan!BudgetConserved
  <2>5. Plan!BudgetIsSpent'
    BY <1>1, <2>1, RoundDeals DEF Plan!BudgetIsSpent
  <2>6. InOrder' /\ InStep' /\ QuotaIsMet'
    BY <1>1, <2>1, RoundKeepsOrder, RoundKeepsStep, RoundKeepsQuota DEF PlanInv
  <2> QED
    BY <2>3, <2>4, <2>5, <2>6 DEF PlanInv
<1>2. CASE Plan!End
  <2>1. /\ ~done /\ (remaining <= 0 \/ Plan!Active = {}) /\ done' = TRUE
        /\ score' = score /\ caps' = caps /\ allocated' = allocated /\ remaining' = remaining
        /\ Plan!Projects' = Plan!Projects
    BY <1>2 DEF Plan!End, Plan!Projects
  <2>2. PlanTyped'
    BY <2>1 DEF PlanInv, PlanTyped
  <2>3. Plan!BudgetConserved'
    BY <2>1 DEF PlanInv, Plan!BudgetConserved
  <2>4. remaining \in Nat
    BY DEF PlanInv, PlanTyped
  <2>5. Plan!BudgetIsSpent'
    <3>1. CASE remaining <= 0
      BY <2>1, <2>4, <3>1 DEF Plan!BudgetIsSpent
    <3>2. CASE Plan!Active = {}
      <4>1. ASSUME NEW p \in Plan!Projects, score[p] > 0 PROVE allocated[p] = caps[p]
        <5>1. ~(allocated[p] < caps[p])
          BY <3>2, <4>1 DEF Plan!Active, Plan!Open
        <5>2. allocated[p] \in Nat /\ caps[p] \in Nat /\ allocated[p] <= caps[p]
          BY DEF PlanInv, PlanTyped
        <5> QED
          BY <5>1, <5>2
      <4> QED
        BY <2>1, <4>1 DEF Plan!BudgetIsSpent
    <3> QED
      BY <2>1, <3>1, <3>2
  <2>6. InOrder' /\ InStep'
    BY <2>1 DEF PlanInv, InOrder, InStep
  <2>7. QuotaIsMet
    <3>1. CASE QuotaIsMet
      BY <3>1
    <3>2. CASE Untouched
      <4>1. Pool \in Nat /\ AllScores \in Nat
        BY ProjectsAreFinite, TotalStep DEF PlanInv, PlanTyped, AllScores
      <4>2. CASE remaining <= 0
        <5> SUFFICES ASSUME NEW p \in Plan!Projects, AllScores > 0
                     PROVE  allocated[p] >= Plan!Min({caps[p], Exact(p)})
          BY DEF QuotaIsMet
        <5>1. Pool = 0 /\ allocated[p] = 0 /\ caps[p] \in Nat /\ score[p] \in Nat
          BY <2>4, <3>2, <4>1, <4>2 DEF Untouched, PlanInv, PlanTyped
        <5>2. Exact(p) = 0
          BY <4>1, <5>1 DEF Exact
        <5> QED
          BY <5>1, <5>2, MinOfTwo
      <4>3. CASE Plan!Active = {}
        <5>1. AllScores = Total(score, {})
          BY <3>2, <4>3, UntouchedScores DEF PlanInv
        <5> QED
          BY <5>1, TotalOfNone DEF QuotaIsMet
      <4> QED
        BY <2>1, <4>2, <4>3
    <3> QED
      BY <3>1, <3>2 DEF PlanInv
  <2>8. QuotaIsMet'
    BY <2>1, <2>7 DEF QuotaIsMet, AllScores, Exact
  <2> QED
    BY <2>2, <2>3, <2>5, <2>6, <2>8 DEF PlanInv
<1>3. CASE UNCHANGED Plan!vars
  <2>1. /\ score' = score /\ caps' = caps /\ allocated' = allocated /\ remaining' = remaining
        /\ done' = done /\ Plan!Projects' = Plan!Projects
    BY <1>3 DEF Plan!vars, Plan!Projects
  <2>2. PlanTyped' /\ InOrder' /\ InStep' /\ Plan!BudgetConserved' /\ Plan!BudgetIsSpent'
    BY <2>1 DEF PlanInv, PlanTyped, InOrder, InStep, Plan!BudgetConserved, Plan!BudgetIsSpent
  <2>3. (Untouched \/ QuotaIsMet)'
    BY <2>1 DEF PlanInv, Untouched, QuotaIsMet, AllScores, Exact
  <2> QED
    BY <2>2, <2>3 DEF PlanInv
<1> QED
  BY <1>1, <1>2, <1>3 DEF Plan!Next

\* At the end the invariant says that the plan is fair.
LEMMA FairByInvariant ==
    ASSUME Plan!MatchingConstants, PlanInv
    PROVE  PlanIsFair
<1>1. Plan!BudgetConserved /\ Plan!BudgetIsSpent
  BY DEF PlanInv
<1>2. Plan!HigherScoreNeverLess
  BY DEF PlanInv, InOrder, Plan!HigherScoreNeverLess
<1>3. Plan!EqualsWithinOneUnit
  BY DEF PlanInv, InStep, Plan!EqualsWithinOneUnit
<1>4. Plan!LowerQuota
  <2>1. score \in [Plan!Projects -> Nat] /\ IsFiniteSet(Plan!Projects)
    BY ProjectsAreFinite DEF PlanInv, PlanTyped
  <2>2. [p \in Plan!Projects |-> score[p]] = score
    BY <2>1
  <2>3. Plan!Sum([p \in Plan!Projects |-> score[p]]) = AllScores
    BY <2>1, <2>2, SumIsTotal DEF AllScores
  <2>4. done => QuotaIsMet
    BY DEF PlanInv, Untouched
  <2> QED
    BY <2>3, <2>4 DEF QuotaIsMet, Exact, Plan!LowerQuota
<1> QED
  BY <1>1, <1>2, <1>3, <1>4 DEF PlanIsFair

\* Whatever was committed, whatever the caps and the budget are: the plan of a funding round
\* deals out the budget to the last unit the caps allow, gives every project its exact share
\* rounded down or its cap, the higher score no less, and equals the same up to one unit
\* (nativeGovernanceMechanism.ts, allocateMatchingBudget).
THEOREM PlanAlwaysFair ==
    ASSUME Plan!MatchingConstants
    PROVE  Plan!Spec => []PlanIsFair
<1>1. Plan!Init => PlanInv
  BY PlanInit
<1>2. PlanInv /\ [Plan!Next]_(Plan!vars) => PlanInv'
  BY PlanStep
<1>3. PlanInv => PlanIsFair
  BY FairByInvariant
<1> QED
  BY <1>1, <1>2, <1>3, PTL DEF Plan!Spec

\* What the loop of the plan does in any step.
LoopAdvances == remaining' < remaining \/ (~done /\ done')

\* The last units of a round have a taker unless everyone open was filled by the floors.
LEMMA RoundDealsSome ==
    ASSUME Dealing, Plan!Round
    PROVE  remaining' < remaining
<1> DEFINE A == Plan!Active
           floors == [p \in A |-> Plan!FloorShare(p)]
           left == Plan!LeftByFloors
           given == Cardinality(Plan!GetsOne)
<1>1. PICK F \in Nat : left = remaining - F /\ F = Total(floors, A)
  BY FloorsFit
<1>2. remaining' = left - given /\ given \in Nat /\ left \in Nat /\ remaining \in Nat /\ remaining > 0
  BY RoundDeals, RanksOfRound, FloorsFit DEF Dealing, PlanTyped
<1>3. CASE left = 0
  BY <1>1, <1>2, <1>3
<1>4. CASE left > 0 /\ Plan!Uncapped = {}
  <2>1. PICK p \in A : TRUE
    BY DEF Dealing
  <2>2. allocated[p] \in Nat /\ caps[p] \in Nat /\ allocated[p] < caps[p]
    BY RoundShares DEF Dealing, PlanTyped
  <2>3. ~(allocated[p] + Plan!FloorShare(p) < caps[p])
    BY <1>4, RoundDeals
  <2>4. \A q \in A : floors[q] = Plan!FloorShare(q) /\ floors[q] \in Nat
    BY RoundShares
  <2>5. IsFiniteSet(A)
    BY RoundShares
  <2> HIDE DEF A, floors
  <2>6. floors[p] <= Total(floors, A) /\ floors[p] \in Nat
    BY <2>4, <2>5, TotalBounds
  <2>7. floors[p] > 0
    BY <2>2, <2>3, <2>4, <2>6
  <2> QED
    BY <1>1, <1>2, <2>6, <2>7
<1>5. CASE left > 0 /\ Plan!Uncapped # {}
  <2>1. given # 0
    <3>1. Plan!GetsOne = {} => given < left
      BY <1>2, <1>5, FS_EmptySet
    <3>2. Plan!GetsOne # {}
      BY <1>5, <3>1, RanksOfRound
    <3> QED
      BY <3>2, RanksOfRound, FS_EmptySet
  <2> QED
    BY <1>1, <1>2, <2>1
<1> QED
  BY <1>2, <1>3, <1>4, <1>5

\* No round of the loop is idle: it deals at least one unit, so that the while loop of
\* allocateMatchingBudget ends after at most as many rounds as the budget has units.
THEOREM EveryRoundDeals ==
    ASSUME Plan!MatchingConstants
    PROVE  Plan!Spec => [][LoopAdvances]_(Plan!vars)
<1>1. Plan!Init => PlanInv
  BY PlanInit
<1>2. PlanInv /\ [Plan!Next]_(Plan!vars) => PlanInv'
  BY PlanStep
<1>3. PlanInv /\ [Plan!Next]_(Plan!vars) => [LoopAdvances]_(Plan!vars)
  <2> SUFFICES ASSUME PlanInv, Plan!Next PROVE LoopAdvances
    OBVIOUS
  <2>1. CASE Plan!Round
    <3>1. Dealing
      BY <2>1 DEF Plan!Round, PlanInv, Dealing
    <3> QED
      BY <2>1, <3>1, RoundDealsSome DEF LoopAdvances
  <2>2. CASE Plan!End
    BY <2>2 DEF Plan!End, LoopAdvances
  <2> QED
    BY <2>1, <2>2 DEF Plan!Next
<1> QED
  BY <1>1, <1>2, <1>3, PTL DEF Plan!Spec

-----------------------------------------------------------------------------
(* GovernanceRequest. *)

\* An open request has no decision row, a decided one has its verdict as state.
StateIsDecision == state = IF decision = None THEN "active" ELSE decision.verdict

\* A handler's clock is never ahead.
HandlersArePast == \A h \in inflight : h.at <= clock

Ind ==
    /\ TypeOK
    /\ StateIsDecision
    /\ HandlersArePast
    /\ VerdictIsTheVote

USE RequestAssumption, NoneAssumption

-----------------------------------------------------------------------------
LEMMA EvaluateValues ==
    ASSUME NEW s
    PROVE  Evaluate(s) \in {"accepted", "rejected", "active"}
BY DEF Evaluate

LEMMA NoBallotsNoResult ==
    Evaluate([a \in Eligible |-> None]) = "active"
<1> DEFINE s == [a \in Eligible |-> None]
<1>1. Voted(s) = {}
  BY DEF Voted
<1>2. \A c : For(c, s) = {}
  BY DEF For
<1>3. Cardinality({}) = 0
  BY FS_EmptySet
<1> QED
  BY <1>1, <1>2, <1>3, SMTT(30) DEF Evaluate

LEMMA HandlerFields ==
    ASSUME NEW h \in Handler
    PROVE  /\ h.at \in Nat
           /\ h.op \in {"vote", "lapse", "sweep", "cancel"}
           /\ h.op = "vote" => h.ballot \in Ballot
BY DEF Handler

\* What every kind of step does to the request itself.
Quiet == UNCHANGED <<signals, state, decision>>

Counts(h) ==
    /\ h.op = "vote"
    /\ state = "active" /\ decision = None
    /\ h.at < Deadline
    /\ h.actor \in Eligible
    /\ signals[h.actor] \in {None, h.ballot}
    /\ signals' = [signals EXCEPT ![h.actor] = h.ballot]
    /\ \/ Evaluate(signals') = "active" /\ UNCHANGED <<state, decision>>
       \/ /\ Evaluate(signals') # "active"
          /\ Decide(Evaluate(signals'), h.at, "ballots")

Closes(h) ==
    /\ state = "active" /\ decision = None
    /\ UNCHANGED signals
    /\ \/ /\ Deadline <= h.at
          /\ Decide("expired", h.at, "deadline")
       \/ /\ AllVotedUndecided(signals)
          /\ Decide("expired", h.at, "all_voted")
       \/ /\ h.at < Deadline
          /\ Decide("cancelled", h.at, "cancelled")

LEMMA RequestSteps ==
    ASSUME [Next]_vars
    PROVE  \/ Quiet
           \/ \E h \in inflight : Counts(h) \/ Closes(h)
<1> USE DEF Quiet
<1>1. CASE UNCHANGED vars
  BY <1>1 DEF vars
<1>2. CASE \E a \in Eligible \cup Outsiders, b \in Ballot : SubmitSignal(a, b)
  BY <1>2 DEF SubmitSignal, Enter
<1>3. CASE RequestCancel \/ SweepPicks
  BY <1>3 DEF RequestCancel, SweepPicks, Enter
<1>4. ASSUME NEW h \in inflight, VoteCommits(h)
      PROVE  Quiet \/ Counts(h)
  <2>1. CASE AnswerAgain(h)
    BY <2>1 DEF AnswerAgain
  <2>2. CASE Count(h)
    BY <1>4, <2>2 DEF VoteCommits, Count, Counted, Counts
  <2> QED
    BY <1>4, <2>1, <2>2 DEF VoteCommits
<1>5. ASSUME NEW h \in inflight, ExpiryCommits(h)
      PROVE  Quiet \/ Closes(h)
  <2>1. UNCHANGED signals
    BY <1>5 DEF ExpiryCommits
  <2>2. CASE ExpiredAlready
    BY <1>5, <2>1, <2>2 DEF ExpiryCommits
  <2>3. CASE ~ExpiredAlready
    <3>1. Overdue(h)
      BY <1>5, <2>3 DEF ExpiryCommits, Expirable
    <3>2. Decide("expired", h.at,
                 IF Deadline <= h.at THEN "deadline" ELSE "all_voted")
      BY <1>5, <2>3 DEF ExpiryCommits
    <3> QED
      BY <2>1, <3>1, <3>2 DEF Closes, Overdue
  <2> QED
    BY <2>2, <2>3
<1>6. ASSUME NEW h \in inflight, CancelCommits(h)
      PROVE  Closes(h)
  BY <1>6 DEF CancelCommits, Cancellable, Closes
<1>7. ASSUME NEW h \in inflight, Refused(h)
      PROVE  Quiet
  BY <1>7 DEF Refused
<1>8. CASE ExecuteDuty \/ ReleaseDuty \/ ManualExecute \/ Tick \/ Crash
  BY <1>8 DEF ExecuteDuty, ReleaseDuty, ManualExecute, Tick, Crash
<1> QED
  BY <1>1, <1>2, <1>3, <1>4, <1>5, <1>6, <1>7, <1>8 DEF Next

LEMMA DecideType ==
    ASSUME NEW v \in Verdicts, NEW t \in Nat, NEW r \in Reasons,
           Decide(v, t, r)
    PROVE  /\ decision' \in Decision /\ decision' # None
           /\ decision'.verdict = v /\ decision'.at = t
           /\ state' = v
<1>1. decision' = [verdict |-> v, at |-> t, reason |-> r] /\ state' = v
  BY DEF Decide
<1>2. [verdict |-> v, at |-> t, reason |-> r] \in Decision
  BY DEF Decision
<1> QED
  BY <1>1, <1>2

-----------------------------------------------------------------------------
(* Type correctness.                                                       *)

LEMMA EntersTyped ==
    ASSUME TypeOK, NEW h \in Handler, Enter(h)
    PROVE  TypeOK'
BY DEF TypeOK, Enter

LEMMA RequestTyped ==
    ASSUME TypeOK, [Next]_vars
    PROVE  /\ signals' \in [Eligible -> Ballot \cup {None}]
           /\ state' \in Verdicts \cup {"active"}
           /\ decision' \in Decision \cup {None}
<1>1. CASE Quiet
  BY <1>1 DEF Quiet, TypeOK
<1>2. ASSUME NEW h \in inflight, Counts(h)
      PROVE  /\ signals' \in [Eligible -> Ballot \cup {None}]
             /\ state' \in Verdicts \cup {"active"}
             /\ decision' \in Decision \cup {None}
  <2>1. h \in Handler /\ h.op = "vote"
    BY <1>2 DEF Counts, TypeOK
  <2>2. h.at \in Nat /\ h.ballot \in Ballot
    BY <2>1, HandlerFields
  <2>3. signals' \in [Eligible -> Ballot \cup {None}]
    BY <1>2, <2>2 DEF Counts, TypeOK
  <2>4. CASE Evaluate(signals') = "active"
    <3>1. UNCHANGED <<state, decision>>
      BY <1>2, <2>4 DEF Counts
    <3> QED
      BY <2>3, <3>1 DEF TypeOK
  <2>5. CASE Evaluate(signals') # "active"
    <3>1. Decide(Evaluate(signals'), h.at, "ballots")
      BY <1>2, <2>5 DEF Counts
    <3>2. Evaluate(signals') \in Verdicts
      BY <2>5, EvaluateValues DEF Verdicts
    <3>3. "ballots" \in Reasons
      BY DEF Reasons
    <3> QED
      BY <2>2, <2>3, <3>1, <3>2, <3>3, DecideType
  <2> QED
    BY <2>4, <2>5
<1>3. ASSUME NEW h \in inflight, Closes(h)
      PROVE  /\ signals' \in [Eligible -> Ballot \cup {None}]
             /\ state' \in Verdicts \cup {"active"}
             /\ decision' \in Decision \cup {None}
  <2>1. h.at \in Nat
    BY HandlerFields DEF TypeOK
  <2>2. PICK v \in {"expired", "cancelled"}, r \in {"deadline", "all_voted",
                                                   "cancelled"} :
            Decide(v, h.at, r)
    BY <1>3 DEF Closes
  <2>3. v \in Verdicts /\ r \in Reasons
    BY DEF Verdicts, Reasons
  <2>4. UNCHANGED signals
    BY <1>3 DEF Closes
  <2> QED
    BY <2>1, <2>2, <2>3, <2>4, DecideType DEF TypeOK
<1> QED
  BY <1>1, <1>2, <1>3, RequestSteps

LEMMA CaseAfterTyped ==
    ASSUME TypeOK, NEW v \in Verdicts
    PROVE  /\ CaseAfter(v) \in Verdicts \cup {"pending"}
           /\ BindingAfter(v) \in {"pending", "released"}
           /\ Released(BindingAfter(v)) \in {"pending", "released"}
           /\ DutiesOf(v) \subseteq {"execute", "release"}
<1>1. CaseOutcome(v) \in Verdicts
  BY DEF CaseOutcome, Verdicts
<1>2. BindingAfter(v) \in {"pending", "released"}
  BY DEF BindingAfter, Released, TypeOK
<1> QED
  BY <1>1, <1>2 DEF CaseAfter, Released, DutiesOf, TypeOK

LEMMA TypeInitial == Init => TypeOK
<1> SUFFICES ASSUME Init
             PROVE  TypeOK
  OBVIOUS
<1>1. clock \in 0 .. Horizon /\ crashes \in Nat
  BY DEF Init
<1>2. signals \in [Eligible -> Ballot \cup {None}]
  BY DEF Init
<1>3. /\ state \in Verdicts \cup {"active"}
      /\ case \in Verdicts \cup {"pending"}
      /\ binding \in {"pending", "released"}
      /\ decision \in Decision \cup {None}
  BY DEF Init
<1>4. executed \in BOOLEAN /\ inflight = {} /\ duties = {}
  BY DEF Init
<1> QED
  BY <1>1, <1>2, <1>3, <1>4 DEF TypeOK

LEMMA TypeStep == TypeOK /\ [Next]_vars => TypeOK'
<1> SUFFICES ASSUME TypeOK, [Next]_vars
             PROVE  TypeOK'
  OBVIOUS
<1>0. /\ signals' \in [Eligible -> Ballot \cup {None}]
      /\ state' \in Verdicts \cup {"active"}
      /\ decision' \in Decision \cup {None}
  BY RequestTyped
<1>1. CASE UNCHANGED vars
  BY <1>1 DEF TypeOK, vars
<1>2. ASSUME NEW a \in Eligible \cup Outsiders, NEW b \in Ballot,
             SubmitSignal(a, b)
      PROVE  TypeOK'
  <2>1. clock \in Nat
    BY DEF TypeOK
  <2>2. PICK h \in Handler : Enter(h)
    BY <1>2, <2>1 DEF SubmitSignal, Handler
  <2> QED
    BY <2>2, EntersTyped
<1>3. CASE RequestCancel \/ SweepPicks
  <2>1. clock \in Nat
    BY DEF TypeOK
  <2>2. PICK h \in Handler : Enter(h)
    BY <1>3, <2>1 DEF RequestCancel, SweepPicks, Handler
  <2> QED
    BY <2>2, EntersTyped
<1>4. ASSUME NEW h \in inflight, VoteCommits(h)
      PROVE  TypeOK'
  <2>1. inflight' \subseteq Handler /\ UNCHANGED <<clock, executed, crashes>>
    BY <1>4 DEF VoteCommits, Done, TypeOK
  <2>2. case' \in Verdicts \cup {"pending"} /\ binding' \in {"pending", "released"}
        /\ duties' \subseteq {"execute", "release"}
    <3>1. CASE AnswerAgain(h)
      <4>1. decision.verdict \in Verdicts
        BY <3>1 DEF AnswerAgain, Redelivered, TypeOK, Decision
      <4> QED
        BY <3>1, <4>1, CaseAfterTyped DEF AnswerAgain, TellCase, TypeOK
    <3>2. CASE Count(h)
      <4>1. CASE Evaluate(signals') = "active"
        BY <3>2, <4>1 DEF Count, TypeOK
      <4>2. CASE Evaluate(signals') # "active"
        <5>1. Evaluate(signals') \in Verdicts
          BY <4>2, EvaluateValues DEF Verdicts
        <5> QED
          BY <3>2, <4>2, <5>1, CaseAfterTyped DEF Count, TellCase, TypeOK
      <4> QED
        BY <4>1, <4>2
    <3> QED
      BY <1>4, <3>1, <3>2 DEF VoteCommits
  <2> QED
    BY <1>0, <2>1, <2>2 DEF TypeOK
<1>5. ASSUME NEW h \in inflight, ExpiryCommits(h) \/ CancelCommits(h)
      PROVE  TypeOK'
  <2>1. inflight' \subseteq Handler /\ UNCHANGED <<clock, executed, duties, crashes>>
    BY <1>5 DEF ExpiryCommits, CancelCommits, Done, TypeOK
  <2>2. {"expired", "cancelled"} \subseteq Verdicts
    BY DEF Verdicts
  <2>3. case' \in Verdicts \cup {"pending"} /\ binding' \in {"pending", "released"}
    BY <1>5, <2>2, CaseAfterTyped DEF ExpiryCommits, CancelCommits, TellCase
  <2> QED
    BY <1>0, <2>1, <2>3 DEF TypeOK
<1>6. ASSUME NEW h \in inflight, Refused(h)
      PROVE  TypeOK'
  BY <1>6 DEF Refused, Done, TypeOK
<1>7. CASE ExecuteDuty
  BY <1>7 DEF ExecuteDuty, TypeOK
<1>8. CASE ReleaseDuty
  BY <1>8 DEF ReleaseDuty, Released, TypeOK
<1>9. CASE ManualExecute
  BY <1>9 DEF ManualExecute, TypeOK
<1>10. CASE Tick
  BY <1>10 DEF Tick, TypeOK
<1>11. CASE Crash
  BY <1>11 DEF Crash, TypeOK
<1> QED
  BY <1>1, <1>2, <1>3, <1>4, <1>5, <1>6, <1>7, <1>8, <1>9, <1>10, <1>11 DEF Next

\* The types hold for every electorate, threshold and interleaving.
THEOREM TypeCorrect == Spec => []TypeOK
<1>1. Init => TypeOK
  BY TypeInitial
<1>2. TypeOK /\ [Next]_vars => TypeOK'
  BY TypeStep
<1> QED
  BY <1>1, <1>2, PTL DEF Spec

-----------------------------------------------------------------------------
(* The verdict is the vote.                                                *)

LEMMA StateStep ==
    ASSUME TypeOK, StateIsDecision, [Next]_vars
    PROVE  StateIsDecision'
<1>1. CASE Quiet
  BY <1>1 DEF Quiet, StateIsDecision
<1>2. ASSUME NEW h \in inflight, Counts(h) \/ Closes(h)
      PROVE  StateIsDecision'
  <2>1. h.at \in Nat
    BY HandlerFields DEF TypeOK
  <2>2. CASE UNCHANGED <<state, decision>>
    BY <2>2 DEF StateIsDecision
  <2>3. CASE ~ UNCHANGED <<state, decision>>
    <3>1. PICK v \in Verdicts, r \in Reasons : Decide(v, h.at, r)
      BY <1>2, <2>3, EvaluateValues DEF Counts, Closes, Verdicts, Reasons
    <3> QED
      BY <2>1, <3>1, DecideType DEF StateIsDecision
  <2> QED
    BY <2>2, <2>3
<1> QED
  BY <1>1, <1>2, RequestSteps

LEMMA VerdictStep ==
    ASSUME TypeOK, StateIsDecision, VerdictIsTheVote, [Next]_vars
    PROVE  VerdictIsTheVote'
<1>1. CASE Quiet
  BY <1>1 DEF Quiet, VerdictIsTheVote, Evaluate, For, Voted
<1>2. ASSUME NEW h \in inflight, Counts(h)
      PROVE  VerdictIsTheVote'
  <2>1. h.at \in Nat /\ decision = None
    BY <1>2, HandlerFields DEF TypeOK, Counts
  <2>2. CASE Evaluate(signals') = "active"
    <3>1. decision' = None
      BY <1>2, <2>1, <2>2 DEF Counts
    <3> QED
      BY <2>2, <3>1 DEF VerdictIsTheVote, Evaluate, For, Voted
  <2>3. CASE Evaluate(signals') # "active"
    <3>1. Evaluate(signals') \in {"accepted", "rejected"}
      BY <2>3, EvaluateValues
    <3>2. Decide(Evaluate(signals'), h.at, "ballots")
      BY <1>2, <2>3 DEF Counts
    <3>3. "ballots" \in Reasons /\ Evaluate(signals') \in Verdicts
      BY <3>1 DEF Reasons, Verdicts
    <3>4. decision'.verdict = Evaluate(signals') /\ decision' # None
      BY <2>1, <3>2, <3>3, DecideType
    <3> QED
      BY <3>1, <3>4 DEF VerdictIsTheVote, Evaluate, For, Voted
  <2> QED
    BY <2>2, <2>3
<1>3. ASSUME NEW h \in inflight, Closes(h)
      PROVE  VerdictIsTheVote'
  <2>1. h.at \in Nat
    BY HandlerFields DEF TypeOK
  <2>2. PICK v \in {"expired", "cancelled"}, r \in {"deadline", "all_voted",
                                                   "cancelled"} :
            Decide(v, h.at, r)
    BY <1>3 DEF Closes
  <2>3. v \in Verdicts /\ r \in Reasons
    BY DEF Verdicts, Reasons
  <2>4. decision'.verdict \in {"expired", "cancelled"}
    BY <2>1, <2>2, <2>3, DecideType
  <2>5. Evaluate(signals) = "active" /\ UNCHANGED signals
    BY <1>3 DEF Closes, VerdictIsTheVote
  <2>6. Evaluate(signals') = "active"
    BY <2>5
  <2> QED
    BY <2>4, <2>6 DEF VerdictIsTheVote, Evaluate, For, Voted
<1> QED
  BY <1>1, <1>2, <1>3, RequestSteps

LEMMA PastStep ==
    ASSUME TypeOK, HandlersArePast, [Next]_vars
    PROVE  HandlersArePast' /\ clock <= clock' /\ clock' \in Nat
<1>1. clock' \in Nat /\ clock \in Nat
  BY TypeStep DEF TypeOK
<1>2. ASSUME NEW h, Enter(h), h.at = clock
      PROVE  HandlersArePast' /\ clock <= clock'
  BY <1>1, <1>2 DEF Enter, HandlersArePast
<1>3. ASSUME NEW a \in Eligible \cup Outsiders, NEW b \in Ballot,
             SubmitSignal(a, b)
      PROVE  HandlersArePast' /\ clock <= clock'
  <2>1. PICK h : Enter(h) /\ h.at = clock
    BY <1>3 DEF SubmitSignal
  <2> QED
    BY <1>1, <1>2, <2>1
<1>4. CASE RequestCancel \/ SweepPicks
  <2>1. PICK h : Enter(h) /\ h.at = clock
    BY <1>4 DEF RequestCancel, SweepPicks
  <2> QED
    BY <1>1, <1>2, <2>1
<1>5. CASE inflight' \subseteq inflight /\ clock' = clock
  BY <1>1, <1>5 DEF HandlersArePast
<1>6. CASE Tick
  BY <1>1, <1>6, HandlerFields DEF Tick, HandlersArePast, TypeOK
<1>7. ASSUME NEW h \in inflight, VoteCommits(h) \/ ExpiryCommits(h)
                                \/ CancelCommits(h) \/ Refused(h)
      PROVE  inflight' \subseteq inflight /\ clock' = clock
  BY <1>7 DEF VoteCommits, ExpiryCommits, CancelCommits, Refused, Done
<1>8. CASE ExecuteDuty \/ ReleaseDuty \/ ManualExecute \/ Crash \/ UNCHANGED vars
  BY <1>5, <1>8, <1>1 DEF ExecuteDuty, ReleaseDuty, ManualExecute, Crash, vars
<1> QED
  BY <1>1, <1>3, <1>4, <1>5, <1>6, <1>7, <1>8 DEF Next

LEMMA IndInitial == Init => Ind
<1> SUFFICES ASSUME Init
             PROVE  Ind
  OBVIOUS
<1>1. TypeOK
  BY TypeInitial
<1>2. Evaluate(signals) = "active"
  BY NoBallotsNoResult DEF Init
<1> QED
  BY <1>1, <1>2 DEF Init, Ind, StateIsDecision, HandlersArePast, VerdictIsTheVote

LEMMA IndStep == Ind /\ [Next]_vars => Ind'
BY TypeStep, StateStep, PastStep, VerdictStep DEF Ind

LEMMA IndInvariant == Spec => []Ind
<1>1. Init => Ind
  BY IndInitial
<1>2. Ind /\ [Next]_vars => Ind'
  BY IndStep
<1> QED
  BY <1>1, <1>2, PTL DEF Spec

\* Whatever the electorate, threshold and mechanism: the verdict is the one the
\* recorded ballots amount to, and a request closed without a result had none.
THEOREM VerdictCorrect == Spec => []VerdictIsTheVote
<1>1. Ind => VerdictIsTheVote
  BY DEF Ind
<1> QED
  BY <1>1, IndInvariant, PTL

-----------------------------------------------------------------------------
(* Closed for cause.                                                       *)

LEMMA CauseStep ==
    ASSUME Ind, ClosedForCause, [Next]_vars
    PROVE  ClosedForCause'
<1>1. clock \in Nat /\ clock' \in Nat /\ clock <= clock' /\ Deadline \in Nat
  BY PastStep DEF Ind, TypeOK
<1>2. CASE Quiet
  <2>1. decision # None => decision.at \in Nat
    BY DEF Ind, TypeOK, Decision
  <2> QED
    BY <1>1, <1>2, <2>1
    DEF Quiet, ClosedForCause, AllVotedUndecided, Evaluate, Tied, For, Voted
<1>3. ASSUME NEW h \in inflight, Counts(h)
      PROVE  ClosedForCause'
  <2>1. h.at \in Nat /\ h.at <= clock /\ h.at < Deadline /\ decision = None
    BY <1>3, HandlerFields DEF Ind, TypeOK, HandlersArePast, Counts
  <2>2. CASE Evaluate(signals') = "active"
    BY <1>3, <2>1, <2>2 DEF Counts, ClosedForCause
  <2>3. CASE Evaluate(signals') # "active"
    <3>1. Evaluate(signals') \in {"accepted", "rejected"}
      BY <2>3, EvaluateValues
    <3>2. Decide(Evaluate(signals'), h.at, "ballots")
      BY <1>3, <2>3 DEF Counts
    <3>3. "ballots" \in Reasons /\ Evaluate(signals') \in Verdicts
      BY <3>1 DEF Reasons, Verdicts
    <3>4. decision'.verdict # "expired" /\ decision'.at = h.at
      BY <2>1, <3>1, <3>2, <3>3, DecideType
    <3> QED
      BY <1>1, <2>1, <3>4 DEF ClosedForCause
  <2> QED
    BY <2>2, <2>3
<1>4. ASSUME NEW h \in inflight, Closes(h)
      PROVE  ClosedForCause'
  <2>1. h.at \in Nat /\ h.at <= clock
    BY HandlerFields DEF Ind, TypeOK, HandlersArePast
  <2>2. PICK v \in {"expired", "cancelled"}, r \in {"deadline", "all_voted",
                                                   "cancelled"} :
            /\ Decide(v, h.at, r)
            /\ v = "expired" => Deadline <= h.at \/ AllVotedUndecided(signals)
            /\ v = "cancelled" => h.at < Deadline
    BY <1>4 DEF Closes
  <2>3. v \in Verdicts /\ r \in Reasons
    BY DEF Verdicts, Reasons
  <2>4. decision'.verdict = v /\ decision'.at = h.at
    BY <2>1, <2>2, <2>3, DecideType
  <2>5. AllVotedUndecided(signals)' <=> AllVotedUndecided(signals)
    BY <1>4 DEF Closes, AllVotedUndecided, Evaluate, Tied, For, Voted
  <2>6. decision'.at <= clock'
    BY <1>1, <2>1, <2>4
  <2>7. decision'.verdict = "expired" =>
          Deadline <= decision'.at \/ AllVotedUndecided(signals)'
    BY <2>2, <2>4, <2>5
  <2>8. decision'.verdict # "expired" => decision'.at < Deadline
    BY <2>2, <2>4
  <2> QED
    BY <2>6, <2>7, <2>8 DEF ClosedForCause
<1> QED
  BY <1>2, <1>3, <1>4, RequestSteps

\* However late the lock comes: no ballot decides and nobody cancels after the
\* deadline, and before it only a full, undecided and untied vote expires.
THEOREM CauseCorrect == Spec => []ClosedForCause
<1>1. Init => ClosedForCause
  BY DEF Init, ClosedForCause
<1>2. Ind /\ ClosedForCause /\ [Next]_vars => ClosedForCause'
  BY CauseStep
<1> QED
  BY <1>1, <1>2, IndInvariant, PTL DEF Spec

-----------------------------------------------------------------------------
(* Ballots and verdict stand; the poll is implemented.                     *)

LEMMA StandStep ==
    ASSUME Ind, [Next]_vars
    PROVE  /\ \A a \in Eligible : signals[a] # None => signals'[a] = signals[a]
           /\ decision # None => UNCHANGED <<signals, decision, state>>
<1>1. CASE Quiet
  BY <1>1 DEF Quiet
<1>2. ASSUME NEW h \in inflight, Counts(h)
      PROVE  /\ \A a \in Eligible : signals[a] # None => signals'[a] = signals[a]
             /\ decision = None
  BY <1>2 DEF Counts, Ind, TypeOK
<1>3. ASSUME NEW h \in inflight, Closes(h)
      PROVE  UNCHANGED signals /\ decision = None
  BY <1>3 DEF Closes
<1> QED
  BY <1>1, <1>2, <1>3, RequestSteps

\* A recorded ballot stands and the verdict is written once, in every
\* interleaving of votes, redeliveries, sweeps, cancellations and crashes.
THEOREM BallotsStand == Spec => BallotsAndVerdictStand
<1>1. Ind /\ [Next]_vars =>
        [/\ \A a \in Eligible : signals[a] # None => signals'[a] = signals[a]
         /\ decision # None => UNCHANGED <<signals, decision, state>>]_vars
  BY StandStep
<1> QED
  BY <1>1, IndInvariant, PTL DEF Spec, BallotsAndVerdictStand

\* What the poll sees of the ballots.
VotesOf(s) == [a \in Eligible |-> IF s[a] = None THEN None ELSE s[a].choice]

LEMMA SameCardinality ==
    ASSUME NEW S
    PROVE  Poll!Cardinality(S) = Cardinality(S)
BY DEF Poll!Cardinality, Cardinality

LEMMA SameResult ==
    ASSUME NEW s \in [Eligible -> Ballot \cup {None}]
    PROVE  Poll!Result(VotesOf(s)) =
             IF Evaluate(s) = "active" THEN None ELSE Evaluate(s)
<1> DEFINE v == VotesOf(s)
<1>1. ASSUME NEW a \in Eligible
      PROVE  /\ s[a] = None => v[a] = None
             /\ s[a] # None => v[a] = s[a].choice /\ v[a] # None
  <2>1. s[a] # None => s[a].choice \in Choices
    BY DEF Ballot
  <2> QED
    BY <2>1 DEF VotesOf
<1>2. None # "approve" /\ None # "reject"
  OBVIOUS
<1> HIDE DEF v
<1>3. ASSUME NEW c \in {"approve", "reject"}
      PROVE  Poll!For(c, v) = For(c, s)
  BY <1>1, <1>2 DEF Poll!For, For
<1>4. Poll!Voted(v) = Voted(s)
  BY <1>1 DEF Poll!Voted, Voted
<1>5. /\ Poll!For("approve", v) = For("approve", s)
      /\ Poll!For("reject", v) = For("reject", s)
  BY <1>3
<1>6. Poll!Result(v) = IF Evaluate(s) = "active" THEN None ELSE Evaluate(s)
  BY <1>4, <1>5, SameCardinality DEF Poll!Result, Evaluate
<1> QED
  BY <1>6 DEF v

\* The verdict a request shows.
VerdictOf(d) == IF d = None THEN None ELSE d.verdict

LEMMA CountIsCast ==
    ASSUME Ind, NEW h \in inflight, Counts(h)
    PROVE  \/ UNCHANGED <<VotesOf(signals), VerdictOf(decision)>>
           \/ /\ h.ballot.choice \in Choices
              /\ VerdictOf(decision) = None
              /\ VotesOf(signals)[h.actor] = None
              /\ VotesOf(signals)' =
                   [VotesOf(signals) EXCEPT ![h.actor] = h.ballot.choice]
              /\ VerdictOf(decision)' = Poll!Result(VotesOf(signals)')
<1>1. /\ h.at \in Nat /\ h.ballot \in Ballot /\ h.ballot.choice \in Choices
      /\ h.ballot # None /\ h.actor \in Eligible
      /\ signals \in [Eligible -> Ballot \cup {None}]
      /\ signals' = [signals EXCEPT ![h.actor] = h.ballot]
      /\ decision = None
  BY HandlerFields DEF Ind, TypeOK, Counts, Ballot
<1>2. CASE signals[h.actor] = h.ballot
  <2>1. signals' = signals
    BY <1>1, <1>2
  <2>2. Evaluate(signals') = "active"
    BY <1>1, <2>1 DEF Ind, VerdictIsTheVote
  <2>3. decision' = decision
    BY <2>2 DEF Counts
  <2> QED
    BY <2>1, <2>3 DEF VotesOf, VerdictOf
<1>3. CASE signals[h.actor] = None
  <2>1. VotesOf(signals)[h.actor] = None
    BY <1>1, <1>3 DEF VotesOf
  <2>2. VotesOf(signals)' = [VotesOf(signals) EXCEPT ![h.actor] = h.ballot.choice]
    BY <1>1 DEF VotesOf
  <2>3. signals' \in [Eligible -> Ballot \cup {None}]
    BY <1>1
  <2>4. VerdictOf(decision)' =
          IF Evaluate(signals') = "active" THEN None ELSE Evaluate(signals')
    <3>1. CASE Evaluate(signals') = "active"
      BY <1>1, <3>1 DEF Counts, VerdictOf
    <3>2. CASE Evaluate(signals') # "active"
      <4>1. Decide(Evaluate(signals'), h.at, "ballots")
        BY <3>2 DEF Counts
      <4>2. "ballots" \in Reasons /\ Evaluate(signals') \in Verdicts
        BY <3>2, EvaluateValues DEF Reasons, Verdicts
      <4> QED
        BY <1>1, <3>2, <4>1, <4>2, DecideType DEF VerdictOf
    <3> QED
      BY <3>1, <3>2
  <2>5. VerdictOf(decision)' = Poll!Result(VotesOf(signals'))
    BY <2>3, <2>4, SameResult
  <2>6. VotesOf(signals)' = VotesOf(signals')
    BY DEF VotesOf
  <2> QED
    BY <1>1, <2>1, <2>2, <2>5, <2>6 DEF VerdictOf
<1> QED
  BY <1>2, <1>3 DEF Counts

LEMMA PollStep ==
    ASSUME Ind, [Next]_vars
    PROVE  [Poll!Next]_(Poll!vars)
<1> DEFINE v == VotesOf(signals)
           d == VerdictOf(decision)
<1>1. CASE Quiet
  BY <1>1 DEF Quiet, Poll!vars
<1>2. ASSUME NEW h \in inflight, Counts(h)
      PROVE  [Poll!Next]_(Poll!vars)
  <2>1. h.actor \in Eligible
    BY <1>2 DEF Counts
  <2> QED
    BY <1>2, <2>1, CountIsCast DEF Poll!Next, Poll!Cast, Poll!vars, VotesOf, VerdictOf
<1>3. ASSUME NEW h \in inflight, Closes(h)
      PROVE  [Poll!Next]_(Poll!vars)
  <2>1. h.at \in Nat /\ signals \in [Eligible -> Ballot \cup {None}]
    BY HandlerFields DEF Ind, TypeOK
  <2>2. PICK c \in {"expired", "cancelled"}, r \in {"deadline", "all_voted",
                                                   "cancelled"} :
            Decide(c, h.at, r)
    BY <1>3 DEF Closes
  <2>3. c \in Verdicts /\ r \in Reasons
    BY DEF Verdicts, Reasons
  <2>4. d' = c /\ d = None /\ v' = v
    BY <1>3, <2>1, <2>2, <2>3, DecideType DEF Closes, VotesOf, VerdictOf
  <2>5. Evaluate(signals) = "active"
    BY <1>3 DEF Closes, Ind, VerdictIsTheVote
  <2>6. Poll!Result(v) = None
    BY <2>1, <2>5, SameResult
  <2> QED
    BY <2>4, <2>6 DEF Poll!Next, Poll!Close, Poll!vars, VotesOf, VerdictOf
<1> QED
  BY <1>1, <1>2, <1>3, RequestSteps

\* Every handler of a request is, to its electorate, a ballot of a plain poll,
\* its closing, or nothing.
THEOREM PollRefined == Spec => PollImplemented
<1>1. Init => Poll!Init
  BY DEF Init, Poll!Init
<1>2. Ind /\ [Next]_vars => [Poll!Next]_(Poll!vars)
  BY PollStep
<1> QED
  BY <1>1, <1>2, IndInvariant, PTL DEF Spec, PollImplemented, Poll!Spec

-----------------------------------------------------------------------------
(* Effects follow the verdict.                                             *)

Refusals == {"rejected", "expired", "cancelled"}

\* What a handler that tells the case of verdict v leaves behind, when v is the
\* request's state from then on.
LEMMA ToldEffects ==
    ASSUME Ind, EffectsFollowVerdict, NEW v \in Verdicts,
           state' = v, state \in {"active", v},
           TellCase(v), UNCHANGED executed,
           binding' \in {BindingAfter(v), Released(BindingAfter(v))},
           binding' # BindingAfter(v) => v \in Refusals,
           duties' \in {duties, duties \cup DutiesOf(v)}
    PROVE  EffectsFollowVerdict'
<1>1. v = "accepted" \/ v \in Refusals
  BY DEF Verdicts, Refusals
<1>2. executed' \/ "execute" \in duties' => state' = "accepted"
  <2>1. executed \/ "execute" \in duties => v = "accepted"
    BY DEF EffectsFollowVerdict, Verdicts
  <2>2. "execute" \in DutiesOf(v) => v = "accepted"
    BY DEF DutiesOf
  <2> QED
    BY <2>1, <2>2
<1>3. "release" \in duties' => v \in Refusals
  <2>1. "release" \in duties => v \in Refusals
    BY DEF EffectsFollowVerdict, Refusals
  <2>2. "release" \in DutiesOf(v) => v \in Refusals
    BY DEF DutiesOf, Refusals
  <2> QED
    BY <2>1, <2>2
<1>4. binding' = "released" => v \in Refusals
  <2>1. binding = "released" => v \in Refusals
    BY DEF EffectsFollowVerdict, Refusals
  <2> QED
    BY <1>1, <2>1 DEF BindingAfter
<1>5. Mode # "legacy" => case' = CaseOutcome(v)
  BY DEF TellCase, CaseAfter
<1>6. Mode # "legacy" /\ Subject # "plain" /\ v \in Refusals
        => binding' = "released"
  <2> SUFFICES ASSUME Mode # "legacy", Subject # "plain", v \in Refusals
               PROVE  binding' = "released"
    OBVIOUS
  <2>1. CASE state = "active"
    BY <2>1, RequestAssumption
    DEF EffectsFollowVerdict, BindingAfter, Released, Refusals
  <2>2. CASE state = v
    BY <2>2 DEF EffectsFollowVerdict, BindingAfter, Released, Refusals
  <2> QED
    BY <2>1, <2>2
<1>7. v # "active"
  BY DEF Verdicts
<1> QED
  BY <1>2, <1>3, <1>4, <1>5, <1>6, <1>7 DEF EffectsFollowVerdict, Refusals, CaseOutcome

LEMMA EffectsStep ==
    ASSUME Ind, EffectsFollowVerdict, [Next]_vars
    PROVE  EffectsFollowVerdict'
<1>0. /\ decision = None => state = "active"
      /\ decision # None => state = decision.verdict /\ decision.verdict \in Verdicts
      /\ state = "active" => decision = None
  BY DEF Ind, StateIsDecision, TypeOK, Decision, Verdicts
<1>1. CASE UNCHANGED <<state, case, binding, executed, duties>>
  BY <1>1 DEF EffectsFollowVerdict, CaseOutcome
<1>2. ASSUME NEW a \in Eligible \cup Outsiders, NEW b \in Ballot,
             SubmitSignal(a, b)
      PROVE  UNCHANGED <<state, case, binding, executed, duties>>
  BY <1>2 DEF SubmitSignal, Enter
<1>3. CASE RequestCancel \/ SweepPicks
  BY <1>1, <1>3 DEF RequestCancel, SweepPicks, Enter
<1>4. ASSUME NEW h \in inflight, VoteCommits(h)
      PROVE  EffectsFollowVerdict'
  <2>1. CASE AnswerAgain(h)
    BY <1>0, <1>4, <2>1, ToldEffects DEF VoteCommits, AnswerAgain, Redelivered
  <2>2. CASE Count(h) /\ Evaluate(signals') = "active"
    BY <1>1, <1>4, <2>2 DEF VoteCommits, Count
  <2>3. CASE Count(h) /\ Evaluate(signals') # "active"
    <3>1. Evaluate(signals') \in Verdicts
      BY <2>3, EvaluateValues DEF Verdicts
    <3>2. state' = Evaluate(signals') /\ state = "active"
      BY <2>3 DEF Count, Counted, Decide
    <3> QED
      BY <1>4, <2>3, <3>1, <3>2, ToldEffects DEF VoteCommits, Count
  <2> QED
    BY <1>4, <2>1, <2>2, <2>3 DEF VoteCommits
<1>5. ASSUME NEW h \in inflight, ExpiryCommits(h)
      PROVE  EffectsFollowVerdict'
  <2>1. state' = "expired" /\ state \in {"active", "expired"}
    BY <1>5 DEF ExpiryCommits, Expirable, Overdue, ExpiredAlready, Decide
  <2>2. "expired" \in Verdicts /\ "expired" \in Refusals
    BY DEF Verdicts, Refusals
  <2> QED
    BY <1>5, <2>1, <2>2, ToldEffects DEF ExpiryCommits
<1>6. ASSUME NEW h \in inflight, CancelCommits(h)
      PROVE  EffectsFollowVerdict'
  <2>1. state' = "cancelled" /\ state = "active"
    BY <1>6 DEF CancelCommits, Cancellable, Decide
  <2>2. "cancelled" \in Verdicts /\ "cancelled" \in Refusals
    BY DEF Verdicts, Refusals
  <2> QED
    BY <1>6, <2>1, <2>2, ToldEffects DEF CancelCommits
<1>7. ASSUME NEW h \in inflight, Refused(h)
      PROVE  EffectsFollowVerdict'
  BY <1>1, <1>7 DEF Refused
<1>8. CASE ExecuteDuty
  BY <1>8 DEF ExecuteDuty, EffectsFollowVerdict, CaseOutcome
<1>9. CASE ReleaseDuty
  <2>1. state \in Refusals
    BY <1>9 DEF ReleaseDuty, EffectsFollowVerdict, Refusals
  <2>2. binding' \in {binding, "released"}
    BY <1>9 DEF ReleaseDuty, Released
  <2>3. UNCHANGED <<state, case, executed>> /\ duties' \subseteq duties
    BY <1>9 DEF ReleaseDuty
  <2> QED
    BY <2>1, <2>2, <2>3 DEF EffectsFollowVerdict, Refusals, CaseOutcome
<1>10. CASE ManualExecute
  BY <1>10 DEF ManualExecute, EffectsFollowVerdict, CaseOutcome
<1>11. CASE Tick
  BY <1>1, <1>11 DEF Tick
<1>12. CASE Crash
  BY <1>12 DEF Crash, EffectsFollowVerdict, CaseOutcome
<1>13. CASE UNCHANGED vars
  BY <1>1, <1>13 DEF vars
<1> QED
  BY <1>1, <1>2, <1>3, <1>4, <1>5, <1>6, <1>7, <1>8, <1>9, <1>10, <1>11, <1>12,
     <1>13 DEF Next

\* In every mode nothing is executed unless accepted and nothing released unless
\* refused, and a staged case hears the verdict in the transaction that writes it.
THEOREM EffectsCorrect == Spec => []EffectsFollowVerdict
<1>1. Init => EffectsFollowVerdict
  BY DEF Init, EffectsFollowVerdict
<1>2. Ind /\ EffectsFollowVerdict /\ [Next]_vars => EffectsFollowVerdict'
  BY EffectsStep
<1> QED
  BY <1>1, <1>2, IndInvariant, PTL DEF Spec

-----------------------------------------------------------------------------
(***************************************************************************)
(* The execution of an accepted action (ActionExecution).  That it acts    *)
(* once and again only for a fault is a budget: whoever may act without    *)
(* holding the lock, whoever carries a skipped outcome, the receipt that   *)
(* says skipped and the act the lock still allows are paid for before they *)
(* come to pass.                                                           *)
(***************************************************************************)
\* Runs that may act, or have acted, without the lock's leave; and runs that have found
\* nothing to do and are about to say so.
Pledged ==
    {r \in Runs : \/ lock # r /\ pc[r] \in {"locked", "ready"}
                  \/ pc[r] = "record" /\ outcome[r] = "skipped"}

\* The owner of the lock has settled what the receipt will be; it is about to act.
OwnerSettled ==
    lock \in Runs /\ pc[lock] = "record" /\ outcome[lock] \in {"executed", "skipped"}

OwnerActs == lock \in Runs /\ pc[lock] = "ready"

\* The act that may still come to pass under the lock.
Upcoming == IF OwnerSettled THEN 0
            ELSE IF OwnerActs THEN 1
            ELSE IF Exec!IsTerminal("terminal") THEN 0 ELSE 1

SkippedReceipt == IF receipts["terminal"] = "skipped" THEN 1 ELSE 0

Budget ==
    /\ IsFiniteSet(Pledged)
    /\ effects + Cardinality(Pledged) + SkippedReceipt + Upcoming <= 1 + repeats

\* Nothing but an outcome is recorded under the terminal key, and only an act is executed.
OutcomesAreTrue ==
    /\ receipts["terminal"] \in {None, "executed", "skipped"}
    /\ receipts["terminal"] = "executed" => effects > 0
    /\ \A r \in Runs : pc[r] = "record" => /\ outcome[r] \in Exec!Statuses
                                           /\ outcome[r] = "executed" => effects > 0

ExecInv == Exec!TypeOK /\ OutcomesAreTrue /\ Budget

-----------------------------------------------------------------------------
LEMMA SmallerSet ==
    ASSUME NEW S, NEW T, IsFiniteSet(S), T \subseteq S
    PROVE  /\ IsFiniteSet(T) /\ Cardinality(T) \in Nat /\ Cardinality(S) \in Nat
           /\ Cardinality(T) <= Cardinality(S)
  BY FS_Subset, FS_CardinalityType

LEMMA OneLess ==
    ASSUME NEW S, NEW T, NEW x, IsFiniteSet(S), x \in S, T \subseteq S \ {x}
    PROVE  /\ IsFiniteSet(T) /\ Cardinality(T) \in Nat /\ Cardinality(S) \in Nat
           /\ Cardinality(T) + 1 <= Cardinality(S)
<1>1. IsFiniteSet(S \ {x}) /\ Cardinality(S \ {x}) = Cardinality(S) - 1
  BY FS_RemoveElement
<1> QED BY <1>1, SmallerSet, FS_CardinalityType

LEMMA OneMore ==
    ASSUME NEW S, NEW T, NEW x, IsFiniteSet(S), T \subseteq S \cup {x}
    PROVE  /\ IsFiniteSet(T) /\ Cardinality(T) \in Nat /\ Cardinality(S) \in Nat
           /\ Cardinality(T) <= Cardinality(S) + 1
<1> DEFINE U == S \cup {x}
<1>1. /\ IsFiniteSet(U) /\ Cardinality(S) \in Nat
      /\ Cardinality(U) \in {Cardinality(S), Cardinality(S) + 1}
  BY FS_AddElement, FS_CardinalityType
<1> QED BY <1>1, SmallerSet, FS_CardinalityType

LEMMA UpcomingValues == Upcoming \in {0, 1} /\ SkippedReceipt \in {0, 1}
  BY DEF Upcoming, SkippedReceipt

-----------------------------------------------------------------------------
LEMMA ExecTypes ==
    ASSUME Exec!OwnKeys, Exec!TypeOK, OutcomesAreTrue, Exec!Next PROVE Exec!TypeOK'
<1> USE DEF Exec!TypeOK, Exec!OwnKeys, Exec!Goto, Exec!Fault, Exec!NoFault, Exec!Unwritten
<1>1. ASSUME NEW k \in Exec!Keys, NEW s \in Exec!Statuses, Exec!Insert(k, s)
      PROVE  /\ receipts' \in [Exec!Keys -> Exec!Statuses \cup {None}]
             /\ newest' \in Exec!Keys \cup {None}
  BY <1>1 DEF Exec!Insert
<1>2. ASSUME NEW r \in Runs, Exec!RefuseNow(r) PROVE Exec!TypeOK'
  BY <1>1, <1>2 DEF Exec!RefuseNow, Exec!Keys, Exec!Statuses
<1>3. ASSUME NEW r \in Runs, Exec!LookUp(r) \/ Exec!Acquire(r) \/ Exec!AcquireFails(r)
      PROVE  Exec!TypeOK'
  BY <1>3 DEF Exec!LookUp, Exec!Acquire, Exec!AcquireFails
<1>4. ASSUME NEW r \in Runs, Exec!Recheck(r) PROVE Exec!TypeOK'
  BY <1>1, <1>4 DEF Exec!Recheck, Exec!Keys, Exec!Statuses
<1>5. ASSUME NEW r \in Runs, Exec!Act(r) \/ Exec!ActThrows(r) PROVE Exec!TypeOK'
  BY <1>5 DEF Exec!Act, Exec!ActThrows, Exec!Answers, Exec!Statuses
<1>6. ASSUME NEW r \in Runs, Exec!Release(r) \/ Exec!ReleaseFails(r) \/ Exec!Crash(r)
      PROVE  Exec!TypeOK'
  BY <1>6 DEF Exec!Release, Exec!ReleaseFails, Exec!Crash, Exec!Released
<1>7. CASE Exec!LeaseEnds \/ Exec!LeaseEndsEarly
  BY <1>7 DEF Exec!LeaseEnds, Exec!LeaseEndsEarly
<1>10. CASE Exec!Block
  BY <1>10 DEF Exec!Block
<1>11. CASE Exec!Unblock
  BY <1>11 DEF Exec!Unblock
<1>12. ASSUME NEW r \in Runs, Exec!Record(r) PROVE Exec!TypeOK'
  <2>1. outcome[r] \in Exec!Statuses
    BY <1>12 DEF Exec!Record, OutcomesAreTrue
  <2>2. /\ receipts' \in [Exec!Keys -> Exec!Statuses \cup {None}]
        /\ newest' \in Exec!Keys \cup {None}
    BY <1>1, <1>12, <2>1 DEF Exec!Record, Exec!RecordOutcome, Exec!Keys, Exec!Statuses
  <2> QED BY <1>12, <2>2 DEF Exec!Record
<1>8. ASSUME NEW p \in Posters, Exec!PostChecks(p) PROVE Exec!TypeOK'
  BY <1>8 DEF Exec!PostChecks
<1>9. ASSUME NEW p \in Posters, Exec!PostWrites(p) PROVE Exec!TypeOK'
  <2>1. posting[p] \in Posts
    BY <1>9 DEF Exec!PostWrites
  <2>2. posting[p].key \in Exec!Keys /\ posting[p].status \in Exec!Statuses
    BY <2>1
  <2> QED BY <1>1, <1>9, <2>2 DEF Exec!PostWrites
<1> QED BY <1>2, <1>3, <1>4, <1>5, <1>6, <1>7, <1>8, <1>9, <1>10, <1>11, <1>12
        DEF Exec!Next

-----------------------------------------------------------------------------
\* A receipt under another key, and none at all, leave the key of success alone.
LEMMA OtherKeys ==
    ASSUME Exec!OwnKeys, Exec!TypeOK, NEW k \in Exec!Keys \ {"terminal"},
           NEW s \in Exec!Statuses, Exec!Insert(k, s)
    PROVE  receipts'["terminal"] = receipts["terminal"]
  BY DEF Exec!Insert, Exec!TypeOK, Exec!Keys

\* What a step leaves alone of all that is accounted for.
LEMMA QuietStep ==
    ASSUME Exec!TypeOK, Exec!TypeOK', OutcomesAreTrue, Budget,
           receipts'["terminal"] = receipts["terminal"], UNCHANGED <<lock, pc, outcome, effects>>,
           repeats' >= repeats
    PROVE  OutcomesAreTrue' /\ Budget'
<1>1. Pledged' = Pledged
  BY DEF Pledged
<1>2. Upcoming' = Upcoming /\ SkippedReceipt' = SkippedReceipt
  BY DEF Upcoming, SkippedReceipt, OwnerSettled, OwnerActs, Exec!IsTerminal
<1>3. repeats \in Nat /\ repeats' \in Nat /\ effects \in Nat
  BY DEF Exec!TypeOK
<1> QED BY <1>1, <1>2, <1>3, UpcomingValues, SmallerSet DEF Budget, OutcomesAreTrue

\* The budget's balance, and the three ways a step may change what is pledged.
Owed == effects + SkippedReceipt + Upcoming

LEMMA Balance ==
    ASSUME Exec!TypeOK, Exec!TypeOK', Budget, IsFiniteSet(Pledged'),
           Owed' + Cardinality(Pledged') + repeats <= Owed + Cardinality(Pledged) + repeats'
    PROVE  Budget'
<1> DEFINE a == Cardinality(Pledged)
           b == Cardinality(Pledged')
<1>1. a \in Nat /\ b \in Nat
  BY FS_CardinalityType DEF Budget
<1>2. repeats \in Nat /\ repeats' \in Nat /\ effects \in Nat /\ effects' \in Nat
  BY DEF Exec!TypeOK
<1>3. SkippedReceipt \in {0, 1} /\ SkippedReceipt' \in {0, 1} /\ Upcoming \in {0, 1} /\ Upcoming' \in {0, 1}
  BY UpcomingValues DEF Upcoming, SkippedReceipt
<1>4. effects + a + SkippedReceipt + Upcoming <= 1 + repeats
  BY DEF Budget
<1>5. effects' + b + SkippedReceipt' + Upcoming' <= 1 + repeats'
  <2>1. Owed' = effects' + SkippedReceipt' + Upcoming' /\ Owed = effects + SkippedReceipt + Upcoming
    BY DEF Owed
  <2> HIDE DEF a, b
  <2> QED BY <1>1, <1>2, <1>3, <1>4, <2>1 DEF a, b
<1> QED BY <1>5 DEF Budget

LEMMA OwedIsNumber ==
    ASSUME Exec!TypeOK, Exec!TypeOK'
    PROVE  /\ Owed \in Nat /\ Owed' \in Nat /\ repeats \in Nat /\ repeats' \in Nat
           /\ effects' = effects =>
                 Owed' + SkippedReceipt + Upcoming = Owed + SkippedReceipt' + Upcoming'
           /\ effects' = effects + 1 =>
                 Owed' + SkippedReceipt + Upcoming = Owed + SkippedReceipt' + Upcoming' + 1
<1>1. SkippedReceipt \in {0, 1} /\ SkippedReceipt' \in {0, 1} /\ Upcoming \in {0, 1} /\ Upcoming' \in {0, 1}
  BY UpcomingValues DEF Upcoming, SkippedReceipt
<1>2. effects \in Nat /\ effects' \in Nat /\ repeats \in Nat /\ repeats' \in Nat
  BY DEF Exec!TypeOK
<1>3. Owed = effects + SkippedReceipt + Upcoming /\ Owed' = effects' + SkippedReceipt' + Upcoming'
  BY DEF Owed
<1>4. PICK a \in Nat, b \in Nat, c \in Nat, d \in Nat, e \in Nat :
        a = SkippedReceipt /\ b = Upcoming /\ c = SkippedReceipt' /\ d = Upcoming' /\ e = effects'
  BY <1>1, <1>2
<1>5. Owed = effects + a + b /\ Owed' = e + c + d
  BY <1>3, <1>4
<1>6. effects + a + b \in Nat /\ e + c + d \in Nat
  BY <1>2
<1>7. Owed \in Nat /\ Owed' \in Nat
  BY <1>5, <1>6
<1>8. effects' = effects => (e + c + d) + a + b = (effects + a + b) + c + d
  BY <1>2, <1>4
<1>9. effects' = effects => Owed' + a + b = Owed + c + d
  BY <1>5, <1>8
<1>10. effects' = effects + 1 => (e + c + d) + a + b = (effects + a + b) + c + d + 1
  BY <1>2, <1>4
<1>11. effects' = effects + 1 => Owed' + a + b = Owed + c + d + 1
  BY <1>5, <1>10
<1> QED BY <1>2, <1>4, <1>7, <1>9, <1>11

LEMMA PledgesKept ==
    ASSUME Exec!TypeOK, Exec!TypeOK', Budget, Pledged' \subseteq Pledged,
           Owed' + repeats <= Owed + repeats'
    PROVE  Budget'
<1>1. /\ IsFiniteSet(Pledged') /\ Cardinality(Pledged') \in Nat /\ Cardinality(Pledged) \in Nat
      /\ Cardinality(Pledged') <= Cardinality(Pledged)
  BY SmallerSet DEF Budget
<1>2. repeats \in Nat /\ repeats' \in Nat
  BY DEF Exec!TypeOK
<1> QED BY <1>1, <1>2, OwedIsNumber, Balance

LEMMA PledgeRedeemed ==
    ASSUME Exec!TypeOK, Exec!TypeOK', Budget, NEW r \in Pledged, Pledged' \subseteq Pledged \ {r},
           Owed' + repeats <= Owed + repeats' + 1
    PROVE  Budget'
<1>1. /\ IsFiniteSet(Pledged') /\ Cardinality(Pledged') \in Nat /\ Cardinality(Pledged) \in Nat
      /\ Cardinality(Pledged') + 1 <= Cardinality(Pledged)
  BY OneLess DEF Budget
<1>2. repeats \in Nat /\ repeats' \in Nat
  BY DEF Exec!TypeOK
<1> QED BY <1>1, <1>2, OwedIsNumber, Balance

LEMMA PledgeMade ==
    ASSUME Exec!TypeOK, Exec!TypeOK', Budget, NEW r, Pledged' \subseteq Pledged \cup {r},
           Owed' + 1 + repeats <= Owed + repeats'
    PROVE  Budget'
<1>1. /\ IsFiniteSet(Pledged') /\ Cardinality(Pledged') \in Nat /\ Cardinality(Pledged) \in Nat
      /\ Cardinality(Pledged') <= Cardinality(Pledged) + 1
  BY OneMore DEF Budget
<1>2. repeats \in Nat /\ repeats' \in Nat
  BY DEF Exec!TypeOK
<1> QED BY <1>1, <1>2, OwedIsNumber, Balance

LEMMA StartKeeps ==
    ASSUME Exec!OwnKeys, Exec!TypeOK, Exec!TypeOK', OutcomesAreTrue, Budget, NEW r \in Runs,
           Exec!LookUp(r) \/ Exec!Acquire(r) \/ Exec!AcquireFails(r)
    PROVE  OutcomesAreTrue' /\ Budget'
<1> USE DEF Exec!TypeOK, Exec!OwnKeys, Exec!Goto, Exec!Fault, Exec!NoFault, Exec!Unwritten
<1>1. /\ pc[r] \in {"idle", "looked"} /\ pc'[r] \in {"idle", "looked", "locked"}
      /\ pc'[r] = "locked" => lock' = r
      /\ lock' = lock \/ (lock = None /\ lock' = r)
      /\ \A q \in Runs \ {r} : pc'[q] = pc[q]
  BY DEF Exec!LookUp, Exec!Acquire, Exec!AcquireFails
<1>2. UNCHANGED <<receipts, outcome, effects>> /\ repeats' = repeats
  BY DEF Exec!LookUp, Exec!Acquire, Exec!AcquireFails
<1>3. Pledged' \subseteq Pledged
  BY <1>1, <1>2 DEF Pledged
<1>4. Upcoming' = Upcoming /\ SkippedReceipt' = SkippedReceipt
  BY <1>1, <1>2 DEF Upcoming, SkippedReceipt, OwnerSettled, OwnerActs, Exec!IsTerminal
<1>5. Owed' + repeats <= Owed + repeats'
  BY <1>2, <1>4, UpcomingValues, OwedIsNumber
<1>6. OutcomesAreTrue'
  BY <1>1, <1>2 DEF OutcomesAreTrue
<1> QED BY <1>3, <1>5, <1>6, PledgesKept

LEMMA RecheckKeeps ==
    ASSUME Exec!OwnKeys, Exec!TypeOK, Exec!TypeOK', OutcomesAreTrue, Budget, NEW r \in Runs,
           Exec!Recheck(r)
    PROVE  OutcomesAreTrue' /\ Budget'
<1> USE DEF Exec!TypeOK, Exec!OwnKeys, Exec!Goto, Exec!NoFault, Exec!Unwritten
<1>1. /\ pc[r] = "locked" /\ pc'[r] \in {"release", "ready"}
      /\ pc'[r] = "ready" => ~Exec!IsTerminal("terminal")
      /\ \A q \in Runs \ {r} : pc'[q] = pc[q]
  BY DEF Exec!Recheck, Exec!Runnable
<1>2. receipts'["terminal"] = receipts["terminal"]
  BY OtherKeys DEF Exec!Recheck, Exec!Keys, Exec!Statuses
<1>3. UNCHANGED <<lock, outcome, effects>> /\ repeats' = repeats
  BY DEF Exec!Recheck
<1>4. Pledged' \subseteq Pledged
  BY <1>1, <1>3 DEF Pledged
<1>5. Upcoming' <= Upcoming /\ SkippedReceipt' = SkippedReceipt
  BY <1>1, <1>2, <1>3 DEF Upcoming, SkippedReceipt, OwnerSettled, OwnerActs, Exec!IsTerminal
<1>6. Owed' + repeats <= Owed + repeats'
  <2>1. Upcoming \in {0, 1} /\ Upcoming' \in {0, 1} /\ SkippedReceipt \in {0, 1}
    BY UpcomingValues DEF Upcoming
  <2> QED BY <1>3, <1>5, <2>1, OwedIsNumber
<1>7. OutcomesAreTrue'
  BY <1>1, <1>2, <1>3 DEF OutcomesAreTrue
<1> QED BY <1>4, <1>6, <1>7, PledgesKept

\* The owner's act was owed by the lock, any other's was pledged; one that throws is a fault.
LEMMA ActKeeps ==
    ASSUME Exec!OwnKeys, Exec!TypeOK, Exec!TypeOK', OutcomesAreTrue, Budget, NEW r \in Runs,
           Exec!Act(r) \/ Exec!ActThrows(r)
    PROVE  OutcomesAreTrue' /\ Budget'
<1> USE DEF Exec!TypeOK, Exec!OwnKeys, Exec!Goto, Exec!Fault, Exec!NoFault, Exec!Unwritten
<1> DEFINE s == outcome'[r]
<1>1. /\ pc[r] = "ready" /\ pc'[r] = "record" /\ s \in {"executed", "skipped", "failed"}
      /\ \A q \in Runs \ {r} : pc'[q] = pc[q] /\ outcome'[q] = outcome[q]
      /\ receipts' = receipts /\ lock' = lock
  BY DEF Exec!Act, Exec!ActThrows, Exec!Answers, Exec!Statuses
<1>2. effects \in Nat /\ repeats \in Nat
  OBVIOUS
<1>3. \/ s = "executed" /\ effects' = effects + 1 /\ repeats' = repeats
      \/ s # "executed" /\ effects' = effects /\ repeats' = repeats
      \/ s = "failed" /\ effects' = effects + 1 /\ repeats' = repeats + 1
  <2>1. CASE Exec!Act(r)
    BY <2>1 DEF Exec!Act, Exec!Answers
  <2>2. CASE Exec!ActThrows(r)
    BY <2>2 DEF Exec!ActThrows, Exec!Answers, Exec!Statuses
  <2> QED BY <2>1, <2>2
<1>4. SkippedReceipt' = SkippedReceipt /\ SkippedReceipt \in {0, 1} /\ Upcoming \in {0, 1} /\ Upcoming' \in {0, 1}
  BY <1>1, UpcomingValues DEF SkippedReceipt, Upcoming
<1>5. Budget'
  <2>1. CASE lock = r
    <3>1. Upcoming = 1 /\ (s # "failed" => Upcoming' = 0)
      BY <1>1, <2>1 DEF Upcoming, OwnerSettled, OwnerActs
    <3>2. CASE s = "skipped"
      <4>1. Pledged' \subseteq Pledged \cup {r}
        BY <1>1 DEF Pledged
      <4>2. Owed' + 1 + repeats <= Owed + repeats'
        BY <1>2, <1>3, <1>4, <3>1, <3>2, OwedIsNumber
      <4> QED BY <4>1, <4>2, PledgeMade
    <3>3. CASE s # "skipped"
      <4>1. Pledged' \subseteq Pledged
        BY <1>1, <2>1, <3>3 DEF Pledged
      <4>2. Owed' + repeats <= Owed + repeats'
        BY <1>1, <1>2, <1>3, <1>4, <3>1, <3>3, OwedIsNumber
      <4> QED BY <4>1, <4>2, PledgesKept
    <3> QED BY <3>2, <3>3
  <2>2. CASE lock # r
    <3>1. Upcoming' = Upcoming
      BY <1>1, <2>2 DEF Upcoming, OwnerSettled, OwnerActs, Exec!IsTerminal
    <3>2. r \in Pledged
      BY <1>1, <2>2 DEF Pledged
    <3>3. CASE s = "skipped"
      <4>1. Pledged' \subseteq Pledged
        BY <1>1, <3>2 DEF Pledged
      <4>2. Owed' + repeats <= Owed + repeats'
        BY <1>2, <1>3, <1>4, <3>1, <3>3, OwedIsNumber
      <4> QED BY <4>1, <4>2, PledgesKept
    <3>4. CASE s # "skipped"
      <4>1. Pledged' \subseteq Pledged \ {r}
        BY <1>1, <3>4 DEF Pledged
      <4>2. Owed' + repeats <= Owed + repeats' + 1
        BY <1>1, <1>2, <1>3, <1>4, <3>1, OwedIsNumber
      <4> QED BY <3>2, <4>1, <4>2, PledgeRedeemed
    <3> QED BY <3>3, <3>4
  <2> QED BY <2>1, <2>2
<1>6. OutcomesAreTrue'
  BY <1>1, <1>2, <1>3 DEF OutcomesAreTrue, Exec!Statuses
<1> QED BY <1>5, <1>6

\* A run that records has its outcome under the terminal key, or somebody else's is there.
LEMMA RecordKeeps ==
    ASSUME Exec!OwnKeys, Exec!TypeOK, Exec!TypeOK', OutcomesAreTrue, Budget, NEW r \in Runs,
           Exec!Record(r)
    PROVE  OutcomesAreTrue' /\ Budget'
<1> USE DEF Exec!TypeOK, Exec!OwnKeys, Exec!Goto, Exec!NoFault, Exec!Unwritten
<1> DEFINE t == receipts["terminal"]
<1>1. /\ pc[r] = "record" /\ pc'[r] = "release" /\ outcome[r] \in {"executed", "skipped", "failed"}
      /\ \A q \in Runs \ {r} : pc'[q] = pc[q]
      /\ UNCHANGED <<lock, outcome, effects>> /\ repeats' = repeats
  BY DEF Exec!Record, OutcomesAreTrue, Exec!Statuses
<1>2. t' = IF outcome[r] # "failed" /\ t = None THEN outcome[r] ELSE t
  <2>1. CASE outcome[r] = "failed"
    <3>1. Exec!Unwritten \/ Exec!Insert("failed", "failed")
      BY <2>1 DEF Exec!Record, Exec!RecordOutcome
    <3> QED BY <2>1, <3>1, OtherKeys DEF Exec!Keys, Exec!Statuses
  <2>2. CASE outcome[r] # "failed"
    BY <1>1, <2>2 DEF Exec!Record, Exec!RecordOutcome, Exec!Insert, Exec!Keys
  <2> QED BY <2>1, <2>2
<1>3. t \in {None, "executed", "skipped"} /\ None \notin {"executed", "skipped", "failed"}
  BY DEF OutcomesAreTrue, Exec!Statuses
<1>4. /\ Upcoming \in {0, 1} /\ SkippedReceipt \in {0, 1}
      /\ Upcoming' \in {0, 1} /\ SkippedReceipt' \in {0, 1}
  BY UpcomingValues DEF Upcoming, SkippedReceipt
<1>5. Upcoming' <= Upcoming
  BY <1>1, <1>2, <1>3 DEF Upcoming, OwnerSettled, OwnerActs, Exec!IsTerminal
<1>6. Budget'
  <2>1. CASE outcome[r] = "skipped"
    <3>1. r \in Pledged /\ Pledged' \subseteq Pledged \ {r}
      BY <1>1, <2>1 DEF Pledged
    <3>2. Owed' + repeats <= Owed + repeats' + 1
      BY ONLY Exec!TypeOK, Exec!TypeOK', <1>1, <1>4, <1>5, OwedIsNumber
    <3> QED BY <3>1, <3>2, PledgeRedeemed
  <2>2. CASE outcome[r] # "skipped"
    <3>1. Pledged' \subseteq Pledged
      BY <1>1 DEF Pledged
    <3>2. SkippedReceipt' = SkippedReceipt
      BY <1>1, <1>2, <1>3, <2>2 DEF SkippedReceipt
    <3>3. Owed' + repeats <= Owed + repeats'
      BY ONLY Exec!TypeOK, Exec!TypeOK', <1>1, <1>4, <1>5, <3>2, OwedIsNumber
    <3> QED BY <3>1, <3>3, PledgesKept
  <2> QED BY <2>1, <2>2
<1>7. OutcomesAreTrue'
  BY <1>1, <1>2, <1>3 DEF OutcomesAreTrue
<1> QED BY <1>6, <1>7

\* A run that ends without its receipt frees what the lock allowed; if it had acted, that is a
\* fault.
LEMMA EndKeeps ==
    ASSUME Exec!OwnKeys, Exec!TypeOK, Exec!TypeOK', OutcomesAreTrue, Budget, NEW r \in Runs,
           Exec!Release(r) \/ Exec!ReleaseFails(r) \/ Exec!Crash(r)
    PROVE  OutcomesAreTrue' /\ Budget'
<1> USE DEF Exec!TypeOK, Exec!OwnKeys, Exec!Goto, Exec!Fault, Exec!NoFault, Exec!Unwritten
<1>1. /\ pc'[r] = "idle" /\ \A q \in Runs \ {r} : pc'[q] = pc[q]
      /\ UNCHANGED <<receipts, outcome, effects>>
      /\ lock' = lock \/ (pc[r] = "release" /\ lock = r /\ lock' = None)
      /\ repeats' = repeats + IF pc[r] = "record" /\ outcome[r] = "executed" THEN 1 ELSE 0
  BY DEF Exec!Release, Exec!ReleaseFails, Exec!Crash, Exec!Released
<1>2. Pledged' \subseteq Pledged
  BY <1>1 DEF Pledged
<1>3. /\ Upcoming \in {0, 1} /\ SkippedReceipt \in {0, 1} /\ Upcoming' \in {0, 1}
      /\ SkippedReceipt' = SkippedReceipt
  BY <1>1, UpcomingValues DEF Upcoming, SkippedReceipt
<1>4. effects \in Nat /\ repeats \in Nat
  OBVIOUS
<1>5. Budget'
  <2>1. CASE pc[r] = "record" /\ outcome[r] = "skipped"
    <3>1. r \in Pledged /\ Pledged' \subseteq Pledged \ {r}
      BY <1>1, <2>1 DEF Pledged
    <3>2. Owed' + repeats <= Owed + repeats' + 1
      BY <1>1, <1>3, <1>4, <2>1, OwedIsNumber
    <3> QED BY <3>1, <3>2, PledgeRedeemed
  <2>2. CASE pc[r] = "record" /\ outcome[r] = "executed"
    <3>1. Owed' + repeats <= Owed + repeats'
      BY <1>1, <1>3, <1>4, <2>2, OwedIsNumber
    <3> QED BY <1>2, <3>1, PledgesKept
  <2>3. CASE ~(pc[r] = "record" /\ outcome[r] \in {"executed", "skipped"})
    <3>1. Upcoming' <= Upcoming
      BY <1>1, <2>3 DEF Upcoming, OwnerSettled, OwnerActs, Exec!IsTerminal
    <3>2. Owed' + repeats <= Owed + repeats'
      BY <1>1, <1>3, <1>4, <2>3, <3>1, OwedIsNumber
    <3> QED BY <1>2, <3>2, PledgesKept
  <2> QED BY <2>1, <2>2, <2>3
<1>6. OutcomesAreTrue'
  BY <1>1 DEF OutcomesAreTrue
<1> QED BY <1>5, <1>6

\* A lease that ends early pays for the run that goes on without it, or for the next one.
LEMMA LeaseKeeps ==
    ASSUME Exec!OwnKeys, Exec!TypeOK, Exec!TypeOK', OutcomesAreTrue, Budget,
           Exec!LeaseEnds \/ Exec!LeaseEndsEarly
    PROVE  OutcomesAreTrue' /\ Budget'
<1> USE DEF Exec!TypeOK, Exec!OwnKeys, Exec!Fault, Exec!NoFault, Exec!Unwritten
<1>1. /\ lock \in Runs /\ lock' = None /\ UNCHANGED <<receipts, pc, outcome, effects>>
      /\ repeats' = repeats + IF pc[lock] \in {"idle", "looked"} THEN 0 ELSE 1
  BY DEF Exec!LeaseEnds, Exec!LeaseEndsEarly, Exec!Abandoned
<1>2. /\ Upcoming \in {0, 1} /\ SkippedReceipt \in {0, 1} /\ Upcoming' \in {0, 1}
      /\ SkippedReceipt' = SkippedReceipt /\ effects \in Nat /\ repeats \in Nat
  BY <1>1, UpcomingValues DEF Upcoming, SkippedReceipt
<1>3. Budget'
  <2>1. CASE pc[lock] \in {"locked", "ready"}
    <3>1. Pledged' \subseteq Pledged \cup {lock}
      BY <1>1 DEF Pledged
    <3>2. Upcoming' <= Upcoming
      BY <1>1, <2>1 DEF Upcoming, OwnerSettled, OwnerActs, Exec!IsTerminal
    <3>3. Owed' + 1 + repeats <= Owed + repeats'
      BY <1>1, <1>2, <2>1, <3>2, OwedIsNumber
    <3> QED BY <3>1, <3>3, PledgeMade
  <2>2. CASE pc[lock] \notin {"locked", "ready"}
    <3>1. Pledged' \subseteq Pledged
      BY <1>1, <2>2 DEF Pledged
    <3>2. pc[lock] \in {"idle", "looked"} => Upcoming' <= Upcoming
      BY <1>1 DEF Upcoming, OwnerSettled, OwnerActs, Exec!IsTerminal
    <3>3. Owed' + repeats <= Owed + repeats'
      BY <1>1, <1>2, <3>2, OwedIsNumber
    <3> QED BY <3>1, <3>3, PledgesKept
  <2> QED BY <2>1, <2>2
<1>4. OutcomesAreTrue'
  BY <1>1 DEF OutcomesAreTrue
<1> QED BY <1>3, <1>4

\* Posted receipts have keys of their own, and a refusal has its own.
LEMMA OthersKeep ==
    ASSUME Exec!OwnKeys, Exec!TypeOK, Exec!TypeOK', OutcomesAreTrue, Budget,
           \/ \E r \in Runs : Exec!RefuseNow(r)
           \/ \E p \in Posters : Exec!PostChecks(p) \/ Exec!PostWrites(p)
           \/ Exec!Block \/ Exec!Unblock
    PROVE  OutcomesAreTrue' /\ Budget'
<1>1. receipts'["terminal"] = receipts["terminal"]
  <2>1. CASE \E r \in Runs : Exec!RefuseNow(r)
    BY <2>1, OtherKeys DEF Exec!RefuseNow, Exec!Keys, Exec!Statuses
  <2>2. ASSUME NEW p \in Posters, Exec!PostWrites(p) PROVE receipts'["terminal"] = receipts["terminal"]
    <3>1. posting[p] \in Posts
      BY <2>2 DEF Exec!PostWrites, Exec!TypeOK
    <3>2. posting[p].key \in Exec!Keys \ {"terminal"} /\ posting[p].status \in Exec!Statuses
      BY <3>1 DEF Exec!OwnKeys
    <3> QED BY <2>2, <3>2, OtherKeys DEF Exec!PostWrites
  <2> QED BY <2>1, <2>2 DEF Exec!PostChecks, Exec!Block, Exec!Unblock, Exec!Unwritten
<1>2. UNCHANGED <<lock, pc, outcome, effects>> /\ repeats' = repeats
  BY DEF Exec!RefuseNow, Exec!PostChecks, Exec!PostWrites, Exec!Block, Exec!Unblock,
         Exec!NoFault, Exec!Fault
<1>3. repeats' >= repeats
  BY <1>2 DEF Exec!TypeOK
<1> QED BY <1>1, <1>2, <1>3, QuietStep

LEMMA ExecStep == ASSUME Exec!OwnKeys, ExecInv, [Exec!Next]_Exec!vars PROVE ExecInv'
<1>1. CASE Exec!Next
  <2>1. Exec!TypeOK'
    BY <1>1, ExecTypes DEF ExecInv
  <2>2. OutcomesAreTrue' /\ Budget'
    BY <1>1, <2>1, StartKeeps, RecheckKeeps, ActKeeps, RecordKeeps, EndKeeps, LeaseKeeps, OthersKeep
    DEF ExecInv, Exec!Next
  <2> QED BY <2>1, <2>2 DEF ExecInv
<1>2. CASE UNCHANGED Exec!vars
  BY <1>2 DEF Exec!vars, ExecInv, Exec!TypeOK, OutcomesAreTrue, Budget, Pledged, SkippedReceipt,
              Upcoming, OwnerSettled, OwnerActs, Exec!IsTerminal
<1> QED BY <1>1, <1>2

LEMMA ExecInit == ASSUME Exec!OwnKeys, Exec!Init PROVE ExecInv
<1>1. Pledged = {}
  BY DEF Exec!Init, Pledged
<1>2. Upcoming \in {0, 1} /\ SkippedReceipt = 0
  BY UpcomingValues DEF Exec!Init, SkippedReceipt, Exec!Keys, Exec!OwnKeys, Exec!Statuses
<1>3. Budget
  BY <1>1, <1>2, FS_EmptySet DEF Budget, Exec!Init
<1>4. OutcomesAreTrue
  BY DEF Exec!Init, OutcomesAreTrue, Exec!Keys, Exec!OwnKeys, Exec!Statuses
<1>5. receipts \in [Exec!Keys -> Exec!Statuses \cup {None}] /\ newest \in Exec!Keys \cup {None}
  BY DEF Exec!Init
<1>9. outcome \in [Runs -> Exec!Statuses \cup {None}]
  BY DEF Exec!Init
<1>6. /\ lock \in Runs \cup {None} /\ posting \in [Posters -> Posts \cup {None}]
      /\ pc \in [Runs -> {"idle", "looked", "locked", "ready", "record", "release"}]
  BY DEF Exec!Init
<1>7. effects \in Nat /\ repeats \in Nat /\ faults \in 0 .. MaxFaults
  BY DEF Exec!Init, Exec!OwnKeys
<1>10. blocked \in BOOLEAN
  BY DEF Exec!Init
<1>8. Exec!TypeOK
  BY <1>5, <1>6, <1>7, <1>9, <1>10 DEF Exec!TypeOK
<1> QED BY <1>3, <1>4, <1>8 DEF ExecInv

\* Only its owner deletes a lock, unless the lease ends under it.
LEMMA LockStep ==
    ASSUME Exec!OwnKeys, Exec!TypeOK, Exec!Next, NEW r \in Runs,
           lock = r, lock' # r, pc[r] \in {"locked", "ready", "record"}
    PROVE  faults' > faults
<1> USE DEF Exec!Fault, Exec!TypeOK, Exec!OwnKeys
<1>1. CASE Exec!LeaseEndsEarly
  BY <1>1 DEF Exec!LeaseEndsEarly
<1>2. CASE Exec!LeaseEnds
  BY <1>2 DEF Exec!LeaseEnds, Exec!Abandoned
<1>3. ASSUME NEW q \in Runs, Exec!Acquire(q) \/ Exec!AcquireFails(q) \/ Exec!Release(q)
      PROVE  FALSE
  BY <1>3 DEF Exec!Acquire, Exec!AcquireFails, Exec!Release, Exec!Released
<1> QED BY <1>1, <1>2, <1>3 DEF Exec!Next, Exec!RefuseNow, Exec!LookUp, Exec!Recheck, Exec!Act,
     Exec!ActThrows, Exec!Record, Exec!ReleaseFails, Exec!Crash, Exec!PostChecks, Exec!PostWrites,
     Exec!Block, Exec!Unblock

\* However many runs retry an accepted action in however many processes, and whatever crashes,
\* fails or expires under them: it acts once and again only for a fault, nobody deletes the
\* lock of another, and the receipt says what happened - provided that clients post receipts
\* under keys of their own.
THEOREM ActionsActOncePerFault ==
    ASSUME Exec!OwnKeys
    PROVE  Exec!Spec => ActsOncePerFault
<1>1. Exec!Init => ExecInv
  BY ExecInit
<1>2. ExecInv /\ [Exec!Next]_Exec!vars => ExecInv'
  BY ExecStep
<1>3. ExecInv => Exec!TypeOK /\ Exec!EffectsAreAccounted /\ Exec!ReceiptIsTrue
  <2> SUFFICES ASSUME ExecInv PROVE Exec!EffectsAreAccounted /\ Exec!ReceiptIsTrue
    BY DEF ExecInv
  <2>1. Cardinality(Pledged) \in Nat /\ Upcoming \in {0, 1} /\ SkippedReceipt \in {0, 1}
    BY FS_CardinalityType, UpcomingValues DEF ExecInv, Budget
  <2>2. effects \in Nat /\ repeats \in Nat
    BY DEF ExecInv, Exec!TypeOK
  <2>3. effects + Cardinality(Pledged) + SkippedReceipt + Upcoming <= 1 + repeats
    BY DEF ExecInv, Budget
  <2>4. effects + SkippedReceipt <= 1 + repeats
    BY <2>1, <2>2, <2>3
  <2>5. Exec!EffectsAreAccounted
    BY <2>1, <2>2, <2>4 DEF Exec!EffectsAreAccounted
  <2>6. receipts["terminal"] = "skipped" => effects <= repeats
    BY <2>2, <2>4 DEF SkippedReceipt
  <2> QED BY <2>5, <2>6 DEF Exec!ReceiptIsTrue, ExecInv, OutcomesAreTrue
<1>4. ExecInv /\ [Exec!Next]_Exec!vars =>
        [\A r \in Runs : lock = r /\ lock' # r /\ pc[r] \in {"locked", "ready", "record"}
                            => faults' > faults]_Exec!vars
  BY LockStep DEF ExecInv
<1> QED BY <1>1, <1>2, <1>3, <1>4, PTL DEF Exec!Spec, ActsOncePerFault, Exec!ActsOncePerFault, Exec!LockIsItsOwners
=============================================================================
