----------------------------- MODULE DataLemmas -----------------------------
(***************************************************************************)
(* Induction and recursion, stated of sets and functions instead of        *)
(* operators: what a recursive definition of the model computes follows    *)
(* from them for every input.                                              *)
(***************************************************************************)
EXTENDS Integers, Sequences, WellFoundedInduction, TLAPS

\* A set of naturals has a least element.
LEMMA LeastNatural ==
    ASSUME NEW T \in SUBSET Nat, T # {}
    PROVE  \E n \in T : \A m \in T : n <= m
<1> DEFINE R == {p \in Nat \X Nat : p[1] < p[2]}
<1>1. IsWellFoundedOn(R, Nat)
  BY NatLessThanWellFounded DEF OpToRel
<1>2. PICK n \in T : \A m \in T : <<m, n>> \notin R
  BY <1>1, WFMin
<1>3. \A m \in T : ~(m < n)
  BY <1>2
<1> QED  BY <1>3

\* Induction: a set with 0 that has a successor of each member has all naturals.
LEMMA NaturalsByInduction ==
    ASSUME NEW S, 0 \in S, \A n \in Nat : n \in S => n + 1 \in S
    PROVE  Nat \subseteq S
<1>1. SUFFICES ASSUME Nat \ S # {} PROVE FALSE
  OBVIOUS
<1>2. PICK n \in Nat \ S : \A m \in Nat \ S : n <= m
  BY <1>1, LeastNatural
<1>3. n # 0 /\ n - 1 \in Nat /\ n = (n - 1) + 1
  BY <1>2
<1> QED  BY <1>2, <1>3

\* Course-of-values induction: a set with every natural whose predecessors are all in it.
LEMMA NaturalsByStrongInduction ==
    ASSUME NEW S, \A n \in Nat : (\A m \in Nat : m < n => m \in S) => n \in S
    PROVE  Nat \subseteq S
<1>1. SUFFICES ASSUME Nat \ S # {} PROVE FALSE
  OBVIOUS
<1>2. PICK n \in Nat \ S : \A m \in Nat \ S : n <= m
  BY <1>1, LeastNatural
<1>3. \A m \in Nat : m < n => m \in S
  BY <1>2
<1> QED  BY <1>2, <1>3

\* A definition by recursion, f[i] = Step[i][f] for i in D: Step[i] asks f only for
\* arguments of a lower rank, and ranks are bounded.
Recursion(D, V, Step, rank, bound) ==
    /\ V # {} /\ Step \in [D -> [[D -> V] -> V]]
    /\ rank \in [D -> Nat] /\ bound \in Nat /\ \A i \in D : rank[i] < bound
    /\ \A i \in D : \A g, h \in [D -> V] :
           (\A j \in D : rank[j] < rank[i] => g[j] = h[j]) => Step[i][g] = Step[i][h]

Defines(D, V, Step) == \E f \in [D -> V] : \A i \in D : f[i] = Step[i][f]

\* Such a recursion defines a function.
LEMMA RecursionDefines ==
    ASSUME NEW D, NEW V, NEW Step, NEW rank, NEW bound, Recursion(D, V, Step, rank, bound)
    PROVE  Defines(D, V, Step)
<1> USE DEF Recursion
<1> DEFINE Upto(k, f) == \A i \in D : rank[i] < k => f[i] = Step[i][f]
           S == {k \in Nat : \E f \in [D -> V] : Upto(k, f)}
<1>1. 0 \in S
  <2>0. PICK v \in V : TRUE
    OBVIOUS
  <2>1. [i \in D |-> v] \in [D -> V] /\ Upto(0, [i \in D |-> v])
    BY <2>0
  <2> QED  BY <2>1
<1>2. ASSUME NEW k \in Nat, k \in S PROVE k + 1 \in S
  <2>1. PICK f \in [D -> V] : Upto(k, f)
    BY <1>2
  <2> DEFINE g == [i \in D |-> IF rank[i] < k THEN f[i] ELSE Step[i][f]]
  <2>2. g \in [D -> V]
    OBVIOUS
  <2>3. ASSUME NEW i \in D, rank[i] < k + 1 PROVE g[i] = Step[i][g]
    <3>1. \A j \in D : rank[j] < rank[i] => f[j] = g[j]
      BY <2>3
    <3>2. Step[i][f] = Step[i][g]
      BY <2>2, <3>1
    <3> QED  BY <2>1, <3>2
  <2>4. Upto(k + 1, g)
    BY <2>3
  <2> HIDE DEF g, Upto
  <2> QED  BY <2>2, <2>4
<1>3. bound \in S
  BY <1>1, <1>2, NaturalsByInduction
<1>4. PICK f \in [D -> V] : Upto(bound, f)
  BY <1>3
<1> QED  BY <1>4 DEF Defines

\* A definition by iteration, f[i] = G[i][f[i - 1]].
Iterates(f, a, n, G) == f[0] = a /\ \A i \in 1 .. n : f[i] = G[i][f[i - 1]]

\* Such an iteration defines a function.
LEMMA IterationDefines ==
    ASSUME NEW V, NEW a \in V, NEW n \in Nat, NEW G \in [1 .. n -> [V -> V]]
    PROVE  \E f \in [0 .. n -> V] : Iterates(f, a, n, G)
<1> DEFINE Upto(k, f) == f[0] = a /\ \A i \in 1 .. n : i <= k => f[i] = G[i][f[i - 1]]
           S == {k \in Nat : \E f \in [0 .. n -> V] : Upto(k, f)}
<1>1. 0 \in S
  <2>1. [i \in 0 .. n |-> a] \in [0 .. n -> V] /\ Upto(0, [i \in 0 .. n |-> a])
    OBVIOUS
  <2> QED  BY <2>1
<1>2. ASSUME NEW k \in Nat, k \in S PROVE k + 1 \in S
  <2>1. PICK f \in [0 .. n -> V] : Upto(k, f)
    BY <1>2
  <2>2. CASE k + 1 \in 1 .. n
    <3> DEFINE g == [i \in 0 .. n |-> IF i = k + 1 THEN G[k + 1][f[k]] ELSE f[i]]
    <3>1. g \in [0 .. n -> V]
      <4>1. G[k + 1][f[k]] \in V
        BY <2>2
      <4> QED  BY <4>1
    <3>2. ASSUME NEW i \in 1 .. n, i <= k + 1 PROVE g[i] = G[i][g[i - 1]]
      BY <2>1, <3>2
    <3>3. g[0] = a
      BY <2>1
    <3>4. Upto(k + 1, g)
      BY <3>2, <3>3
    <3> HIDE DEF g, Upto
    <3> QED  BY <3>1, <3>4
  <2>3. CASE k + 1 \notin 1 .. n
    <3>1. Upto(k + 1, f)
      BY <2>1, <2>3
    <3> HIDE DEF Upto
    <3> QED  BY <3>1
  <2> QED  BY <2>2, <2>3
<1>3. n \in S
  BY <1>1, <1>2, NaturalsByInduction
<1>4. PICK f \in [0 .. n -> V] : Upto(n, f)
  BY <1>3
<1> QED  BY <1>4 DEF Iterates

=============================================================================
