------------------------------ MODULE Induction ------------------------------
(***************************************************************************)
(* Induction on the natural numbers for the proofs of this project.  The    *)
(* library states it with an operator as parameter; here it is stated of a  *)
(* set, so that a proof can give the set of the numbers its claim holds     *)
(* for.  It rests on the library's fact that Nat is well founded.           *)
(***************************************************************************)
EXTENDS Integers, Sequences, WellFoundedInduction, TLAPS

Below == {p \in Nat \X Nat : p[1] < p[2]}

LEMMA BelowWellFounded == IsWellFoundedOn(Below, Nat)
<1>1. IsWellFoundedOn(OpToRel(<, Nat), Nat)
  BY NatLessThanWellFounded
<1> QED BY <1>1 DEF OpToRel, Below

\* A set of numbers that is not empty has a least one.
LEMMA LeastNumber ==
  ASSUME NEW S, S \subseteq Nat, S # {}
  PROVE  \E n \in S : \A k \in S : n <= k
<1>1. PICK n \in S : \A k \in S : <<k, n>> \notin Below
  BY BelowWellFounded, WFMin
<1>2. ASSUME NEW k \in S
      PROVE  n <= k
  <2>1. k \in Nat /\ n \in Nat
    OBVIOUS
  <2>2. ~(k < n)
    BY <1>1, <2>1 DEF Below
  <2> QED BY <2>1, <2>2
<1> QED BY <1>2

\* A set that has 0 and, with each number, the next has all of them.
LEMMA NatInductionOnSets ==
  ASSUME NEW S, 0 \in S, \A n \in Nat : n \in S => n + 1 \in S
  PROVE  Nat \subseteq S
<1> SUFFICES ASSUME Nat \ S # {}
             PROVE  FALSE
  OBVIOUS
<1>1. PICK n \in Nat \ S : \A k \in Nat \ S : n <= k
  BY LeastNumber
<1>2. n - 1 \in Nat /\ n - 1 \in S
  BY <1>1
<1> QED BY <1>1, <1>2

\* Among the places of a sequence that have a property there is a first.
LEMMA FirstPlace ==
  ASSUME NEW n \in Nat, NEW P \in SUBSET (1 .. n), P # {}
  PROVE  \E i \in P : \A j \in 1 .. i - 1 : j \notin P
<1>1. P \subseteq Nat
  OBVIOUS
<1>2. PICK i \in P : \A k \in P : i <= k
  BY <1>1, LeastNumber
<1> QED BY <1>2

\* A sequence of steps that do not leave a set stays in it.
LEMMA StaysIn ==
  ASSUME NEW V, NEW n \in Nat, NEW g, g[0] \in V,
         \A k \in 1 .. n : g[k - 1] \in V => g[k] \in V
  PROVE  \A k \in 0 .. n : g[k] \in V
<1> DEFINE S == {k \in Nat : k <= n => g[k] \in V}
<1>1. 0 \in S
  OBVIOUS
<1>2. ASSUME NEW k \in Nat, k \in S
      PROVE  k + 1 \in S
  <2>1. k + 1 \in Nat /\ (k + 1) - 1 = k
    OBVIOUS
  <2>2. k + 1 <= n => k + 1 \in 1 .. n /\ k <= n
    OBVIOUS
  <2> QED BY <1>2, <2>1, <2>2
<1>3. Nat \subseteq S
  <2> HIDE DEF S
  <2> QED BY <1>1, <1>2, NatInductionOnSets
<1> QED BY <1>3

-----------------------------------------------------------------------------
(* Recursive functions on the natural numbers exist.                        *)

\* g is the function with g[0] = base and g[k] = step[<<g[k - 1], k>>] up to n.
Unfolds(g, n, base, step, V) ==
  /\ g \in [0 .. n -> V]
  /\ g[0] = base
  /\ \A k \in 1 .. n : g[k] = step[<<g[k - 1], k>>]

LEMMA UnfoldsExists ==
  ASSUME NEW V, NEW base \in V, NEW step \in [V \X Nat -> V], NEW n \in Nat
  PROVE  \E g : Unfolds(g, n, base, step, V)
<1> DEFINE S == {k \in Nat : \E g : Unfolds(g, k, base, step, V)}
<1>1. 0 \in S
  <2>1. Unfolds([k \in 0 .. 0 |-> base], 0, base, step, V)
    BY DEF Unfolds
  <2> QED BY <2>1
<1>2. ASSUME NEW k \in Nat, k \in S
      PROVE  k + 1 \in S
  <2>1. PICK g : Unfolds(g, k, base, step, V)
    BY <1>2
  <2> DEFINE h == [j \in 0 .. k + 1 |-> IF j = k + 1 THEN step[<<g[k], k + 1>>] ELSE g[j]]
  <2>2. g[k] \in V /\ step[<<g[k], k + 1>>] \in V
    BY <2>1 DEF Unfolds
  <2>3. h \in [0 .. k + 1 -> V] /\ h[0] = base
    BY <2>1, <2>2 DEF Unfolds
  <2>4. ASSUME NEW j \in 1 .. k + 1
        PROVE  h[j] = step[<<h[j - 1], j>>]
    <3>1. CASE j = k + 1
      BY <3>1
    <3>2. CASE j # k + 1
      <4>1. j \in 1 .. k /\ j \in 0 .. k + 1 /\ j - 1 \in 0 .. k + 1 /\ j - 1 # k + 1
        BY <2>4, <3>2
      <4> QED BY <2>1, <3>2, <4>1 DEF Unfolds
    <3> QED BY <3>1, <3>2
  <2> HIDE DEF h
  <2>5. Unfolds(h, k + 1, base, step, V)
    BY <2>3, <2>4 DEF Unfolds
  <2> QED BY <2>5
<1>3. Nat \subseteq S
  <2> HIDE DEF S
  <2> QED BY <1>1, <1>2, NatInductionOnSets
<1> QED BY <1>3

LEMMA UnfoldsAgree ==
  ASSUME NEW V, NEW base, NEW step, NEW m \in Nat, NEW n \in Nat, m <= n,
         NEW g, Unfolds(g, m, base, step, V), NEW h, Unfolds(h, n, base, step, V)
  PROVE  \A k \in 0 .. m : g[k] = h[k]
<1> DEFINE S == {k \in Nat : k <= m => g[k] = h[k]}
<1>1. 0 \in S
  BY DEF Unfolds
<1>2. ASSUME NEW k \in Nat, k \in S
      PROVE  k + 1 \in S
  <2>1. SUFFICES ASSUME k + 1 <= m
                 PROVE  g[k + 1] = h[k + 1]
    OBVIOUS
  <2>2. k + 1 \in 1 .. m /\ k + 1 \in 1 .. n /\ (k + 1) - 1 = k /\ g[k] = h[k]
    BY <1>2, <2>1
  <2> QED BY <2>2 DEF Unfolds
<1>3. Nat \subseteq S
  <2> HIDE DEF S
  <2> QED BY <1>1, <1>2, NatInductionOnSets
<1> QED BY <1>3

\* A step gives the next value from the last one and the number.
IsStep(step, V) == step \in [V \X Nat -> V]

\* There is a function with a given first value and a given step.
LEMMA NatRecursion ==
  ASSUME NEW V, NEW base \in V, NEW step, IsStep(step, V)
  PROVE  \E f \in [Nat -> V] :
           f[0] = base /\ \A n \in Nat : f[n + 1] = step[<<f[n], n + 1>>]
<1> DEFINE upto(n) == CHOOSE g : Unfolds(g, n, base, step, V)
           f == [n \in Nat |-> upto(n)[n]]
<1>1. ASSUME NEW n \in Nat
      PROVE  Unfolds(upto(n), n, base, step, V)
  BY UnfoldsExists DEF IsStep
<1> HIDE DEF upto
<1>2. \A n \in Nat : upto(n)[n] \in V
  BY <1>1 DEF Unfolds
<1>3. f[0] = base
  BY <1>1 DEF Unfolds
<1>4. ASSUME NEW n \in Nat
      PROVE  f[n + 1] = step[<<f[n], n + 1>>]
  <2>1. upto(n)[n] = upto(n + 1)[n]
    BY <1>1, UnfoldsAgree
  <2>2. n + 1 \in 1 .. n + 1 /\ (n + 1) - 1 = n
    OBVIOUS
  <2>3. upto(n + 1)[n + 1] = step[<<upto(n + 1)[n], n + 1>>]
    BY <1>1, <2>2 DEF Unfolds
  <2> QED BY <2>1, <2>3
<1> HIDE DEF f
<1>5. f \in [Nat -> V]
  BY <1>2 DEF f
<1> QED BY <1>3, <1>4, <1>5

=============================================================================
