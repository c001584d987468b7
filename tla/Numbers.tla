------------------------------ MODULE Numbers -------------------------------
(***************************************************************************)
(* Facts about numbers that the proofs of several modules rest on: least    *)
(* elements, and the search for a free port (nextPortLocked in              *)
(* internal/rig/rig.go) among one more candidate than there are slots.      *)
(***************************************************************************)
EXTENDS Integers, FiniteSets, FiniteSetTheorems, TLAPS

\* The naturals are well founded.
LEMMA LessWellFounded == IsWellFoundedOn({p \in Nat \X Nat : p[1] < p[2]}, Nat)
<1>1. IsWellFoundedOn(OpToRel(<, Nat), Nat)
  BY NatLessThanWellFounded
<1> QED BY <1>1 DEF OpToRel

\* A set of numbers that is not empty has a least element.
LEMMA LeastElement ==
  ASSUME NEW T, T \subseteq Nat, T # {}
  PROVE  \E x \in T : \A y \in T : x <= y
<1> DEFINE R == {p \in Nat \X Nat : p[1] < p[2]}
<1>1. IsWellFoundedOn(R, Nat)
  BY LessWellFounded
<1>2. PICK x \in T : \A y \in T : ~(<<y, x>> \in R)
  <2> HIDE DEF R
  <2> QED BY <1>1, WFMin
<1>3. ASSUME NEW y \in T PROVE x <= y
  <2>1. y \in Nat /\ x \in Nat
    OBVIOUS
  <2>2. ~(y < x)
    BY <1>2, <2>1
  <2> QED BY <2>1, <2>2
<1> QED BY <1>3

\* A set of numbers below a bound has a greatest element.
LEMMA GreatestElement ==
  ASSUME NEW T, NEW n \in Nat, T \subseteq 0 .. n, T # {}
  PROVE  \E x \in T : \A y \in T : y <= x
<1> DEFINE U == {n - x : x \in T}
<1>1. U \subseteq Nat /\ U # {}
  <2>1. \A x \in T : n - x \in Nat
    OBVIOUS
  <2> QED BY <2>1
<1>2. PICK u \in U : \A v \in U : u <= v
  <2> HIDE DEF U
  <2> QED BY <1>1, LeastElement
<1>3. PICK x \in T : u = n - x
  BY DEF U
<1>4. ASSUME NEW y \in T PROVE y <= x
  <2>1. u <= n - y
    BY <1>2
  <2> QED BY <1>3, <2>1
<1> QED BY <1>4

\* Of n + 1 candidate ports, two would be the port of the same one of n slots.
LEMMA MorePortsThanSlots ==
  ASSUME NEW a \in Nat, NEW n \in Nat, NEW f \in [a .. a + n -> 1 .. n]
  PROVE  \E p, q \in a .. a + n : p # q /\ f[p] = f[q]
<1> DEFINE S == a .. a + n
           T == 1 .. n
<1>1. IsFiniteSet(S) /\ Cardinality(S) = n + 1
  <2>1. a \in Int /\ a + n \in Int /\ ~(a > a + n)
    OBVIOUS
  <2>2. IsFiniteSet(S) /\ Cardinality(S) = (a + n) - a + 1
    BY <2>1, FS_Interval
  <2> QED BY <2>2
<1>2. IsFiniteSet(T) /\ Cardinality(T) = n
  BY FS_Interval
<1>3. Cardinality(T) < Cardinality(S)
  BY <1>1, <1>2
<1>4. f \in [S -> T]
  OBVIOUS
<1> HIDE DEF S, T
<1>5. \E p, q \in S : p # q /\ f[p] = f[q]
  BY <1>1, <1>2, <1>3, <1>4, FS_PigeonHole
<1> QED
  BY <1>5 DEF S

\* Of the ports from a on, p is the first that is none of n given numbers g.
FirstFree(p, a, n, g) ==
  /\ \A j \in 1 .. n : g[j] # p
  /\ \A q \in a .. p - 1 : \E j \in 1 .. n : g[j] = q

\* It is one of the first n + 1.
LEMMA FirstFreePort ==
  ASSUME NEW a \in Nat, NEW n \in Nat, NEW g \in [1 .. n -> Nat]
  PROVE  \E p \in a .. a + n : FirstFree(p, a, n, g)
<1> DEFINE Ports == a .. a + n
           Free == {p \in Ports : \A j \in 1 .. n : g[j] # p}
<1>1. Free # {}
  <2> SUFFICES ASSUME Free = {} PROVE FALSE
    OBVIOUS
  <2> DEFINE f == [p \in Ports |-> CHOOSE j \in 1 .. n : g[j] = p]
  <2>1. \A p \in Ports : \E j \in 1 .. n : g[j] = p
    OBVIOUS
  <2>2. f \in [Ports -> 1 .. n] /\ \A p \in Ports : g[f[p]] = p
    BY <2>1
  <2>3. PICK p, q \in Ports : p # q /\ f[p] = f[q]
    <3> HIDE DEF f
    <3> QED BY <2>2, MorePortsThanSlots
  <2> QED BY <2>2, <2>3
<1>2. Free \subseteq Nat
  OBVIOUS
<1>3. PICK p \in Free : \A q \in Free : p <= q
  <2> HIDE DEF Free
  <2> QED BY <1>1, <1>2, LeastElement
<1>4. ASSUME NEW q \in a .. p - 1 PROVE \E j \in 1 .. n : g[j] = q
  BY <1>2, <1>3
<1> QED BY <1>3, <1>4 DEF FirstFree
=============================================================================
