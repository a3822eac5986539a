------------------------------ MODULE Counting ------------------------------
(***************************************************************************)
(* Induction over the natural numbers, and what a function that is defined *)
(* by recursion over them computes.  The library's theorems about these     *)
(* take an operator; here the property is a set and the step a function, so  *)
(* that they can be cited.                                                  *)
(***************************************************************************)
EXTENDS Naturals, Sequences, WellFoundedInduction, TLAPS

\* A set that has 0 and with each number the next one has all of them.
LEMMA Induction ==
  ASSUME NEW S, 0 \in S, \A n \in Nat : n \in S => n + 1 \in S
  PROVE  Nat \subseteq S
<1> SUFFICES ASSUME ~ (Nat \subseteq S) PROVE FALSE
  OBVIOUS
<1> DEFINE missing == Nat \ S
<1>1. PICK x \in missing : \A y \in missing : ~ (<<y, x>> \in OpToRel(<, Nat))
  <2>1. missing \subseteq Nat /\ missing # {}
    OBVIOUS
  <2>2. IsWellFoundedOn(OpToRel(<, Nat), Nat)
    BY NatLessThanWellFounded
  <2> HIDE DEF missing
  <2> QED
    BY <2>1, <2>2, WFMin
<1>2. x \in Nat /\ x # 0
  OBVIOUS
<1>3. x - 1 \in missing
  BY <1>2
<1>4. <<x - 1, x>> \in OpToRel(<, Nat)
  BY <1>2 DEF OpToRel
<1> QED
  BY <1>1, <1>3, <1>4

\* The same up to a bound.
LEMMA InductionUpTo ==
  ASSUME NEW b \in Nat, NEW S, 0 \in S, \A n \in 1..b : n - 1 \in S => n \in S
  PROVE  0..b \subseteq S
<1> DEFINE T == {n \in Nat : n <= b => n \in S}
<1>1. 0 \in T
  OBVIOUS
<1>2. \A n \in Nat : n \in T => n + 1 \in T
  OBVIOUS
<1> HIDE DEF T
<1>3. Nat \subseteq T
  BY <1>1, <1>2, Induction
<1> QED
  BY <1>3 DEF T

\* A set of numbers that is not empty has a least one.
LEMMA LeastExists ==
  ASSUME NEW S, S \subseteq Nat, S # {}
  PROVE  \E x \in S : \A y \in S : x <= y
<1>1. PICK x \in S : \A y \in S : ~ (<<y, x>> \in OpToRel(<, Nat))
  <2>1. IsWellFoundedOn(OpToRel(<, Nat), Nat)
    BY NatLessThanWellFounded
  <2> QED
    BY <2>1, WFMin
<1>2. ASSUME NEW y \in S
      PROVE  x <= y
  <2>1. x \in Nat /\ y \in Nat
    OBVIOUS
  <2>2. y < x => <<y, x>> \in OpToRel(<, Nat)
    BY <2>1 DEF OpToRel
  <2>3. ~ (y < x)
    BY <1>1, <2>2
  <2> QED
    BY <2>1, <2>3
<1> QED
  BY <1>2

\* A function that takes the steps of next from a.
Steps(f, n, a, next) ==
  /\ f[0] = a
  /\ \A m \in 1..n : f[m] = next[<<m, f[m - 1]>>]

\* There is one.
LEMMA StepsExist ==
  ASSUME NEW A, NEW a \in A, NEW n \in Nat, NEW next \in [(1..n) \X A -> A]
  PROVE  \E f \in [0..n -> A] : Steps(f, n, a, next)
<1> DEFINE S == {k \in 0..n : \E f \in [0..k -> A] : Steps(f, k, a, next)}
<1>1. 0 \in S
  <2> DEFINE f == [m \in 0..0 |-> a]
  <2>1. f \in [0..0 -> A] /\ Steps(f, 0, a, next)
    BY DEF Steps
  <2> HIDE DEF f
  <2> QED
    BY <2>1
<1>2. ASSUME NEW k \in 1..n, k - 1 \in S
      PROVE  k \in S
  <2>1. PICK f \in [0..(k - 1) -> A] : Steps(f, k - 1, a, next)
    BY <1>2
  <2> DEFINE g == [m \in 0..k |-> IF m = k THEN next[<<k, f[k - 1]>>] ELSE f[m]]
  <2>2. f[k - 1] \in A /\ <<k, f[k - 1]>> \in (1..n) \X A
    OBVIOUS
  <2>3. g \in [0..k -> A]
    BY <2>2
  <2>4. Steps(g, k, a, next)
    <3>1. g[0] = a
      BY <2>1 DEF Steps
    <3>2. ASSUME NEW m \in 1..k
          PROVE  g[m] = next[<<m, g[m - 1]>>]
      <4>1. m - 1 \in 0..k /\ m - 1 # k /\ g[m - 1] = f[m - 1]
        OBVIOUS
      <4>2. CASE m = k
        BY <4>1, <4>2
      <4>3. CASE m # k
        <5>1. m \in 1..(k - 1)
          BY <4>3
        <5>2. f[m] = next[<<m, f[m - 1]>>]
          BY <2>1, <5>1 DEF Steps
        <5>3. g[m] = f[m]
          BY <4>3
        <5> QED
          BY <4>1, <5>2, <5>3
      <4> QED
        BY <4>2, <4>3
    <3> QED
      BY <3>1, <3>2 DEF Steps
  <2> HIDE DEF g
  <2> QED
    BY <2>3, <2>4
<1> HIDE DEF S
<1>3. 0..n \subseteq S
  BY <1>1, <1>2, InductionUpTo
<1> QED
  BY <1>3 DEF S

\* And only one.
LEMMA StepsAgree ==
  ASSUME NEW n \in Nat, NEW a, NEW next, NEW f, NEW g,
         Steps(f, n, a, next), Steps(g, n, a, next)
  PROVE  \A m \in 0..n : f[m] = g[m]
<1> DEFINE S == {m \in 0..n : f[m] = g[m]}
<1>1. 0 \in S
  BY DEF Steps
<1>2. ASSUME NEW m \in 1..n, m - 1 \in S
      PROVE  m \in S
  <2>1. f[m - 1] = g[m - 1]
    BY <1>2
  <2>2. f[m] = next[<<m, f[m - 1]>>] /\ g[m] = next[<<m, g[m - 1]>>]
    BY DEF Steps
  <2>3. f[m] = g[m]
    BY <2>1, <2>2
  <2> QED
    BY <2>3
<1> HIDE DEF S
<1>3. 0..n \subseteq S
  BY <1>1, <1>2, InductionUpTo
<1> QED
  BY <1>3 DEF S
=============================================================================
