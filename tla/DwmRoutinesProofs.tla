-------------------------- MODULE DwmRoutinesProofs --------------------------
(***************************************************************************)
(* What the routines of dwm (DwmRoutines) keep true of its memory: types,   *)
(* the two lists of every monitor, the selections, and what is noted on     *)
(* the windows.  One lemma per routine, for all windows, monitors, tags     *)
(* and rules.                                                               *)
(***************************************************************************)
EXTENDS DwmClients, Induction, FiniteSetTheorems, SequenceTheorems

(***************************************************************************)
(* Lists.                                                                   *)
(***************************************************************************)

LEMMA PlaceOf ==
  ASSUME NEW S, NEW s \in Seq(S), NEW c \in ToSet(s)
  PROVE  Position(s, c) \in 1 .. Len(s) /\ s[Position(s, c)] = c
BY DEF ToSet, Position

\* What Without leaves: the elements but one, in their order.
LEMMA WithoutElements ==
  ASSUME NEW S, NEW s \in Seq(S), NEW c \in ToSet(s)
  PROVE  LET p == Position(s, c) IN
         /\ Without(s, c) \in Seq(S)
         /\ Len(Without(s, c)) = Len(s) - 1
         /\ \A i \in 1 .. Len(s) - 1 : Without(s, c)[i] = IF i < p THEN s[i] ELSE s[i + 1]
<1> DEFINE p == Position(s, c)
           a == SubSeq(s, 1, p - 1)
           b == SubSeq(s, p + 1, Len(s))
<1>1. p \in 1 .. Len(s)
  BY PlaceOf
<1>2. /\ a \in Seq(S) /\ Len(a) = p - 1
      /\ \A i \in 1 .. p - 1 : a[i] = s[i]
  BY <1>1
<1>3. /\ b \in Seq(S) /\ Len(b) = Len(s) - p
      /\ \A i \in 1 .. Len(s) - p : b[i] = s[i + p]
  BY <1>1
<1>4. Without(s, c) = a \o b
  BY DEF Without, After
<1> HIDE DEF p, a, b
<1>5. /\ a \o b \in Seq(S) /\ Len(a \o b) = Len(a) + Len(b)
      /\ \A i \in 1 .. Len(a) + Len(b) :
           (a \o b)[i] = IF i <= Len(a) THEN a[i] ELSE b[i - Len(a)]
  BY <1>2, <1>3, ConcatProperties
<1>6. ASSUME NEW i \in 1 .. Len(s) - 1
      PROVE  (a \o b)[i] = IF i < p THEN s[i] ELSE s[i + 1]
  <2>1. CASE i < p
    BY <1>1, <1>2, <1>3, <1>5, <2>1
  <2>2. CASE i >= p
    <3>1. i - Len(a) \in 1 .. Len(s) - p /\ i - Len(a) + p = i + 1
      BY <1>1, <1>2, <1>3, <2>2
    <3>2. (a \o b)[i] = b[i - Len(a)]
      BY <1>1, <1>2, <1>3, <1>5, <2>2
    <3>3. b[i - Len(a)] = s[i + 1]
      BY <1>3, <3>1
    <3>4. ~(i < p)
      BY <1>1, <2>2
    <3> QED BY <3>2, <3>3, <3>4
  <2>3. i < p \/ i >= p
    BY <1>1
  <2> QED BY <2>1, <2>2, <2>3
<1> QED BY <1>1, <1>2, <1>3, <1>4, <1>5, <1>6 DEF p

LEMMA WithoutOnce ==
  ASSUME NEW S, NEW s \in Seq(S), NoRepeats(s), NEW c \in ToSet(s)
  PROVE  /\ Without(s, c) \in Seq(S)
         /\ NoRepeats(Without(s, c))
         /\ ToSet(Without(s, c)) = ToSet(s) \ {c}
<1> DEFINE p == Position(s, c)
           t == Without(s, c)
<1>1. p \in 1 .. Len(s) /\ s[p] = c
  BY PlaceOf
<1>2. /\ t \in Seq(S) /\ Len(t) = Len(s) - 1 /\ Len(s) \in Nat
      /\ \A i \in 1 .. Len(s) - 1 : t[i] = IF i < p THEN s[i] ELSE s[i + 1]
  BY WithoutElements
<1> HIDE DEF p, t
<1>3. NoRepeats(t)
  <2>1. ASSUME NEW i \in 1 .. Len(t)
        PROVE  /\ (IF i < p THEN i ELSE i + 1) \in 1 .. Len(s)
               /\ t[i] = s[IF i < p THEN i ELSE i + 1]
    BY <1>1, <1>2
  <2>2. ASSUME NEW i \in 1 .. Len(t), NEW j \in 1 .. Len(t), t[i] = t[j]
        PROVE  (IF i < p THEN i ELSE i + 1) = (IF j < p THEN j ELSE j + 1)
    BY <2>1, <2>2 DEF NoRepeats
  <2> QED BY <1>1, <1>2, <2>2 DEF NoRepeats
<1>4. ASSUME NEW d \in ToSet(t)
      PROVE  d \in ToSet(s) \ {c}
  BY <1>1, <1>2 DEF NoRepeats, ToSet
<1>5. ASSUME NEW d \in ToSet(s) \ {c}
      PROVE  d \in ToSet(t)
  <2>1. PICK i \in 1 .. Len(s) : s[i] = d
    BY DEF ToSet
  <2>2. CASE i < p
    BY <1>1, <1>2, <2>1, <2>2 DEF ToSet
  <2>3. CASE i > p
    <3>1. i - 1 \in 1 .. Len(s) - 1 /\ t[i - 1] = s[i]
      BY <1>1, <1>2, <2>1, <2>3
    <3> QED BY <1>2, <2>1, <3>1 DEF ToSet
  <2> QED BY <1>1, <2>1, <2>2, <2>3
<1> QED BY <1>2, <1>3, <1>4, <1>5 DEF t

LEMMA PushOnce ==
  ASSUME NEW S, NEW s \in Seq(S), NoRepeats(s), NEW c \in S, c \notin ToSet(s)
  PROVE  /\ Push(s, c) \in Seq(S)
         /\ NoRepeats(Push(s, c))
         /\ ToSet(Push(s, c)) = ToSet(s) \cup {c}
<1> DEFINE t == Push(s, c)
<1>1. /\ t \in Seq(S) /\ Len(t) = Len(s) + 1 /\ Len(s) \in Nat
      /\ \A i \in 1 .. Len(t) : t[i] = IF i = 1 THEN c ELSE s[i - 1]
  BY DEF Push
<1> HIDE DEF t
<1>2. NoRepeats(t)
  BY <1>1 DEF NoRepeats, ToSet
<1>3. ASSUME NEW d \in ToSet(s)
      PROVE  d \in ToSet(t)
  <2>1. PICK i \in 1 .. Len(s) : s[i] = d
    BY DEF ToSet
  <2>2. i + 1 \in 1 .. Len(t) /\ t[i + 1] = d
    BY <1>1, <2>1
  <2> QED BY <1>1, <2>2 DEF ToSet
<1>4. c \in ToSet(t) /\ ToSet(t) \subseteq ToSet(s) \cup {c}
  BY <1>1 DEF ToSet
<1> QED BY <1>1, <1>2, <1>3, <1>4 DEF t

\* What PutAfter makes of a list: the new element follows the one at place p.
LEMMA PutAfterElements ==
  ASSUME NEW S, NEW s \in Seq(S), NEW c \in S, NEW d \in ToSet(s)
  PROVE  LET p == Position(s, d) IN
         /\ PutAfter(s, c, d) \in Seq(S)
         /\ Len(PutAfter(s, c, d)) = Len(s) + 1
         /\ \A i \in 1 .. Len(s) + 1 :
              PutAfter(s, c, d)[i] = IF i <= p THEN s[i] ELSE IF i = p + 1 THEN c ELSE s[i - 1]
<1> DEFINE p == Position(s, d)
           a == SubSeq(s, 1, p)
           b == SubSeq(s, p + 1, Len(s))
           t == a \o <<c>> \o b
<1>1. p \in 1 .. Len(s) /\ Len(s) \in Nat
  BY PlaceOf
<1>2. /\ a \in Seq(S) /\ Len(a) = p
      /\ \A i \in 1 .. p : a[i] = s[i]
  BY <1>1
<1>3. /\ b \in Seq(S) /\ Len(b) = Len(s) - p
      /\ \A i \in 1 .. Len(s) - p : b[i] = s[i + p]
  BY <1>1
<1>4. PutAfter(s, c, d) = t
  BY DEF PutAfter, After
<1> HIDE DEF p, a, b
<1>a. /\ <<c>> \o b \in Seq(S) /\ Len(<<c>> \o b) = Len(s) - p + 1
      /\ \A i \in 1 .. Len(s) - p + 1 : (<<c>> \o b)[i] = IF i = 1 THEN c ELSE s[i - 1 + p]
  <2>1. <<c>> \in Seq(S) /\ Len(<<c>>) = 1 /\ <<c>>[1] = c
    OBVIOUS
  <2>2. /\ <<c>> \o b \in Seq(S) /\ Len(<<c>> \o b) = 1 + Len(b)
        /\ \A i \in 1 .. 1 + Len(b) :
             (<<c>> \o b)[i] = IF i <= 1 THEN <<c>>[i] ELSE b[i - 1]
    BY <1>3, <2>1, ConcatProperties
  <2> QED BY <1>1, <1>3, <2>1, <2>2
<1>b. /\ t \in Seq(S) /\ Len(t) = Len(s) + 1
      /\ \A i \in 1 .. Len(s) + 1 :
           t[i] = IF i <= p THEN a[i] ELSE (<<c>> \o b)[i - p]
  <2>1. t = a \o (<<c>> \o b)
    BY <1>2, <1>3
  <2>2. /\ t \in Seq(S) /\ Len(t) = Len(a) + Len(<<c>> \o b)
        /\ \A i \in 1 .. Len(a) + Len(<<c>> \o b) :
             t[i] = IF i <= Len(a) THEN a[i] ELSE (<<c>> \o b)[i - Len(a)]
    <3> DEFINE e == <<c>> \o b
    <3>1. e \in Seq(S)
      BY <1>a
    <3> HIDE DEF e
    <3>2. /\ a \o e \in Seq(S) /\ Len(a \o e) = Len(a) + Len(e)
          /\ \A i \in 1 .. Len(a) + Len(e) :
               (a \o e)[i] = IF i <= Len(a) THEN a[i] ELSE e[i - Len(a)]
      BY <1>2, <3>1, ConcatProperties
    <3> QED BY <2>1, <3>2 DEF e
  <2> QED BY <1>1, <1>2, <1>a, <2>2
<1>c. ASSUME NEW i \in 1 .. Len(s) + 1
      PROVE  t[i] = IF i <= p THEN s[i] ELSE IF i = p + 1 THEN c ELSE s[i - 1]
  <2>1. CASE i <= p
    BY <1>1, <1>2, <1>b, <2>1
  <2>2. CASE i > p
    <3>1. i - p \in 1 .. Len(s) - p + 1 /\ i - p - 1 + p = i - 1 /\ (i - p = 1 <=> i = p + 1)
      BY <1>1, <2>2
    <3>4. ~(i <= p)
      BY <1>1, <2>2
    <3>2. t[i] = (<<c>> \o b)[i - p]
      BY <1>b, <3>4
    <3>3. (<<c>> \o b)[i - p] = IF i - p = 1 THEN c ELSE s[i - p - 1 + p]
      BY <1>a, <3>1
    <3> QED BY <3>1, <3>2, <3>3, <3>4
  <2>3. i <= p \/ i > p
    BY <1>1
  <2> QED BY <2>1, <2>2, <2>3
<1> QED BY <1>4, <1>b, <1>c DEF p

LEMMA PutAfterOnce ==
  ASSUME NEW S, NEW s \in Seq(S), NoRepeats(s), NEW c \in S, c \notin ToSet(s),
         NEW d \in ToSet(s)
  PROVE  /\ PutAfter(s, c, d) \in Seq(S)
         /\ NoRepeats(PutAfter(s, c, d))
         /\ ToSet(PutAfter(s, c, d)) = ToSet(s) \cup {c}
<1> DEFINE p == Position(s, d)
           t == PutAfter(s, c, d)
<1>1. p \in 1 .. Len(s) /\ Len(s) \in Nat
  BY PlaceOf
<1>5. /\ t \in Seq(S) /\ Len(t) = Len(s) + 1
      /\ \A i \in 1 .. Len(s) + 1 :
           t[i] = IF i <= p THEN s[i] ELSE IF i = p + 1 THEN c ELSE s[i - 1]
  BY PutAfterElements
<1> HIDE DEF p, t
<1>6. NoRepeats(t)
  <2> DEFINE h(i) == IF i <= p THEN i ELSE i - 1
  <2>1. ASSUME NEW i \in 1 .. Len(t), i # p + 1
        PROVE  h(i) \in 1 .. Len(s) /\ t[i] = s[h(i)] /\ t[i] # c
    <3>1. h(i) \in 1 .. Len(s) /\ t[i] = s[h(i)]
      BY <1>1, <1>5, <2>1
    <3> QED BY <3>1 DEF ToSet
  <2>2. ASSUME NEW i \in 1 .. Len(t), NEW j \in 1 .. Len(t), t[i] = t[j],
               i # p + 1, j # p + 1
        PROVE  i = j
    <3>1. h(i) = h(j)
      BY <2>1, <2>2 DEF NoRepeats
    <3> QED BY <1>1, <1>5, <2>2, <3>1
  <2>3. t[p + 1] = c
    BY <1>1, <1>5
  <2> QED BY <1>5, <2>1, <2>2, <2>3 DEF NoRepeats
<1>7. ASSUME NEW e \in ToSet(s)
      PROVE  e \in ToSet(t)
  <2>1. PICK i \in 1 .. Len(s) : s[i] = e
    BY DEF ToSet
  <2>2. PICK j \in 1 .. Len(s) + 1 : t[j] = e
    <3>1. CASE i <= p
      BY <1>1, <1>5, <2>1, <3>1
    <3>2. CASE i > p
      <4>1. i + 1 \in 1 .. Len(s) + 1 /\ t[i + 1] = e
        BY <1>1, <1>5, <2>1, <3>2
      <4> QED BY <4>1
    <3> QED BY <1>1, <3>1, <3>2
  <2> QED BY <1>5, <2>2 DEF ToSet
<1>8. c \in ToSet(t) /\ ToSet(t) \subseteq ToSet(s) \cup {c}
  <2>1. p + 1 \in 1 .. Len(s) + 1 /\ t[p + 1] = c
    BY <1>1, <1>5
  <2>2. c \in ToSet(t)
    BY <1>5, <2>1 DEF ToSet
  <2>3. ASSUME NEW e \in ToSet(t)
        PROVE  e \in ToSet(s) \cup {c}
    <3>1. PICK i \in 1 .. Len(s) + 1 : t[i] = e
      BY <1>5 DEF ToSet
    <3>2. e = c \/ \E k \in 1 .. Len(s) : e = s[k]
      <4>1. CASE i <= p
        BY <1>1, <1>5, <3>1, <4>1
      <4>2. CASE i = p + 1
        BY <1>1, <1>5, <3>1, <4>2
      <4>3. CASE i > p + 1
        <5>1. i - 1 \in 1 .. Len(s) /\ t[i] = s[i - 1]
          BY <1>1, <1>5, <3>1, <4>3
        <5> QED BY <3>1, <5>1
      <4> QED BY <1>1, <4>1, <4>2, <4>3
    <3> QED BY <3>2 DEF ToSet
  <2> QED BY <2>2, <2>3
<1> QED BY <1>5, <1>6, <1>7, <1>8 DEF t

\* The first of a list that is in a set is on the list and in the set.
LEMMA FirstInList ==
  ASSUME NEW S, NEW s \in Seq(S), NEW C
  PROVE  \/ FirstIn(s, C) = NoClient /\ ToSet(s) \cap C = {}
         \/ FirstIn(s, C) \in ToSet(s) \cap C
<1> SUFFICES ASSUME ToSet(s) \cap C # {}
             PROVE  FirstIn(s, C) \in ToSet(s) \cap C
  BY DEF FirstIn
<1> DEFINE P == {i \in 1 .. Len(s) : s[i] \in C}
<1>1. P # {} /\ P \in SUBSET (1 .. Len(s)) /\ Len(s) \in Nat
  BY DEF ToSet
<1>2. PICK i \in P : \A j \in 1 .. i - 1 : j \notin P
  <2> HIDE DEF P
  <2> QED BY <1>1, FirstPlace
<1>3. i \in DOMAIN s /\ s[i] \in C /\ \A j \in 1 .. i - 1 : s[j] \notin C
  BY <1>2
<1> QED BY <1>3 DEF FirstIn, ToSet

\* The elements of one list, last first, before those of another.
LEMMA ReversedBefore ==
  ASSUME NEW S, NEW s \in Seq(S), NEW t \in Seq(S), NoRepeats(s), NoRepeats(t),
         ToSet(s) \cap ToSet(t) = {}
  PROVE  /\ Reversed(s) \o t \in Seq(S)
         /\ NoRepeats(Reversed(s) \o t)
         /\ ToSet(Reversed(s) \o t) = ToSet(s) \cup ToSet(t)
<1> DEFINE r == Reversed(s)
           u == r \o t
<1>0. Len(s) \in Nat /\ Len(t) \in Nat
  OBVIOUS
<1>1. /\ r \in Seq(S) /\ Len(r) = Len(s)
      /\ \A i \in 1 .. Len(s) : r[i] = s[Len(s) + 1 - i]
  <2>1. r = [i \in 1 .. Len(s) |-> s[Len(s) + 1 - i]]
    BY DEF Reversed
  <2>2. \A i \in 1 .. Len(s) : Len(s) + 1 - i \in 1 .. Len(s)
    BY <1>0
  <2> QED BY <1>0, <2>1, <2>2
<1> HIDE DEF r
<1>2. /\ u \in Seq(S) /\ Len(u) = Len(s) + Len(t)
      /\ \A i \in 1 .. Len(s) + Len(t) :
           u[i] = IF i <= Len(s) THEN r[i] ELSE t[i - Len(s)]
  <2>1. /\ r \o t \in Seq(S) /\ Len(r \o t) = Len(r) + Len(t)
        /\ \A i \in 1 .. Len(r) + Len(t) :
             (r \o t)[i] = IF i <= Len(r) THEN r[i] ELSE t[i - Len(r)]
    BY <1>1, ConcatProperties
  <2> QED BY <1>1, <2>1
<1> HIDE DEF u
<1>d. ASSUME NEW i \in 1 .. Len(u), i > Len(s)
      PROVE  i - Len(s) \in 1 .. Len(t) /\ u[i] = t[i - Len(s)]
  BY <1>0, <1>2, <1>d
<1>e. ASSUME NEW i \in 1 .. Len(u), i <= Len(s)
      PROVE  Len(s) + 1 - i \in 1 .. Len(s) /\ u[i] = s[Len(s) + 1 - i]
  BY <1>0, <1>1, <1>2, <1>e
<1>3. ASSUME NEW i \in 1 .. Len(u), NEW j \in 1 .. Len(u), u[i] = u[j]
      PROVE  i = j
  <2>1. CASE i <= Len(s) /\ j <= Len(s)
    <3>1. Len(s) + 1 - i = Len(s) + 1 - j
      <4>1. /\ Len(s) + 1 - i \in 1 .. Len(s) /\ Len(s) + 1 - j \in 1 .. Len(s)
            /\ s[Len(s) + 1 - i] = s[Len(s) + 1 - j]
        BY <1>3, <1>e, <2>1
      <4> QED BY <4>1 DEF NoRepeats
    <3> QED BY <1>0, <1>2, <3>1
  <2>2. CASE i > Len(s) /\ j > Len(s)
    <3>1. i - Len(s) = j - Len(s)
      BY <1>3, <1>d, <2>2 DEF NoRepeats
    <3> QED BY <1>0, <1>2, <3>1
  <2>3. CASE i <= Len(s) /\ j > Len(s)
    <3>1. u[i] \in ToSet(s) /\ u[j] \in ToSet(t)
      BY <1>0, <1>d, <1>e, <2>3 DEF ToSet
    <3> QED BY <1>3, <3>1
  <2>4. CASE i > Len(s) /\ j <= Len(s)
    <3>1. u[j] \in ToSet(s) /\ u[i] \in ToSet(t)
      BY <1>0, <1>d, <1>e, <2>4 DEF ToSet
    <3> QED BY <1>3, <3>1
  <2> QED BY <1>0, <1>2, <2>1, <2>2, <2>3, <2>4
<1>4. ToSet(u) \subseteq ToSet(s) \cup ToSet(t)
  <2> SUFFICES ASSUME NEW i \in 1 .. Len(u)
               PROVE  u[i] \in ToSet(s) \cup ToSet(t)
    BY <1>2 DEF ToSet
  <2> QED BY <1>0, <1>2, <1>d, <1>e DEF ToSet
<1>5. ASSUME NEW d \in ToSet(s)
      PROVE  d \in ToSet(u)
  <2>1. PICK i \in 1 .. Len(s) : s[i] = d
    BY DEF ToSet
  <2>2. Len(s) + 1 - i \in 1 .. Len(u) /\ u[Len(s) + 1 - i] = d
    BY <1>0, <1>1, <1>2, <2>1
  <2>3. PICK k \in 1 .. Len(u) : u[k] = d
    BY <2>2
  <2> QED BY <1>2, <2>3 DEF ToSet
<1>6. ASSUME NEW d \in ToSet(t)
      PROVE  d \in ToSet(u)
  <2>1. PICK i \in 1 .. Len(t) : t[i] = d
    BY DEF ToSet
  <2>2. Len(s) + i \in 1 .. Len(u) /\ u[Len(s) + i] = d
    <3>1. Len(s) + i - Len(s) = i /\ Len(s) + i > Len(s)
      BY <1>0, <2>1
    <3> QED BY <1>0, <1>2, <2>1, <3>1
  <2>3. PICK k \in 1 .. Len(u) : u[k] = d
    BY <2>2
  <2> QED BY <1>2, <2>3 DEF ToSet
<1>7. NoRepeats(u)
  BY <1>2, <1>3 DEF NoRepeats
<1> QED BY <1>2, <1>4, <1>5, <1>6, <1>7 DEF u, r

\* A client moved to the front of its list.
LEMMA ToFront ==
  ASSUME NEW S, NEW s \in Seq(S), NoRepeats(s), NEW c \in ToSet(s)
  PROVE  /\ Push(Without(s, c), c) \in Seq(S)
         /\ NoRepeats(Push(Without(s, c), c))
         /\ ToSet(Push(Without(s, c), c)) = ToSet(s)
<1> DEFINE t == Without(s, c)
<1>1. t \in Seq(S) /\ NoRepeats(t) /\ ToSet(t) = ToSet(s) \ {c}
  BY WithoutOnce
<1>2. c \in S
  BY PlaceOf
<1> HIDE DEF t
<1>3. c \notin ToSet(t) /\ ToSet(t) \cup {c} = ToSet(s)
  BY <1>1
<1>4. /\ Push(t, c) \in Seq(S) /\ NoRepeats(Push(t, c))
      /\ ToSet(Push(t, c)) = ToSet(t) \cup {c}
  BY <1>1, <1>2, <1>3, PushOnce
<1> QED BY <1>3, <1>4 DEF t

\* The list behind an element has elements of the list.
LEMMA AfterElements ==
  ASSUME NEW S, NEW s \in Seq(S), NEW c \in ToSet(s)
  PROVE  After(s, c) \in Seq(S) /\ ToSet(After(s, c)) \subseteq ToSet(s)
<1> DEFINE p == Position(s, c)
           b == SubSeq(s, p + 1, Len(s))
<1>1. p \in 1 .. Len(s)
  BY PlaceOf
<1>2. /\ b \in Seq(S) /\ Len(b) = Len(s) - p
      /\ \A i \in 1 .. Len(s) - p : b[i] = s[i + p] /\ i + p \in 1 .. Len(s)
  BY <1>1
<1>3. After(s, c) = b
  BY DEF After
<1> HIDE DEF p, b
<1> QED BY <1>2, <1>3 DEF ToSet

(***************************************************************************)
(* The invariant of the memory, in parts.                                   *)
(***************************************************************************)

\* The lists of monitor m.
ListsOn(w, m) ==
  /\ NoRepeats(w.clients[m]) /\ NoRepeats(w.stack[m])
  /\ ToSet(w.clients[m]) = ToSet(w.stack[m])
  /\ \A c \in ToSet(w.clients[m]) : w.mon[c] = m
  /\ m \notin MonsOf(w) => w.clients[m] = <<>>

\* A monitor's selection is one of its clients.
SelOn(w, m) == w.sel[m] \in ToSet(w.clients[m]) \cup {NoClient}

Listed(w) ==
  /\ w \in Memories
  /\ w.selmon \in MonsOf(w)
  /\ \A m \in Mon : ListsOn(w, m) /\ SelOn(w, m)

\* The tags of the managed clients are noted on their windows, and only a
\* managed client is fullscreen.
Noted(w) ==
  /\ \A c \in Managed(w) : w.info[c].tags = w.tags[c]
  /\ w.isfullscreen \subseteq Managed(w)

Sound(w) == Listed(w) /\ Noted(w)

\* The clients of the lists, and no others, are managed.
LEMMA OnItsMonitor ==
  ASSUME NEW w, Listed(w), NEW c
  PROVE  /\ c \in Managed(w) =>
              /\ c \in Client /\ w.mon[c] \in MonsOf(w) /\ w.mon[c] \in Mon
              /\ c \in ToSet(w.clients[w.mon[c]]) /\ c \in ToSet(w.stack[w.mon[c]])
         /\ \A m \in Mon : c \in ToSet(w.clients[m]) \/ c \in ToSet(w.stack[m]) =>
              c \in Managed(w) /\ w.mon[c] = m
<1>1. MonsOf(w) \subseteq Mon
  BY ClientAssumption DEF MonsOf, Mon, Memories, Listed
<1>2. \A m \in Mon : w.clients[m] \in Seq(Client) /\ w.stack[m] \in Seq(Client)
  BY DEF Memories, Listed
<1>3. \A m \in Mon : ToSet(w.clients[m]) \subseteq Client
  BY <1>2 DEF ToSet
<1>4. \A m \in Mon : m \notin MonsOf(w) => ToSet(w.clients[m]) = {}
  BY DEF ListsOn, ToSet, Listed
<1>5. ASSUME c \in Managed(w)
      PROVE  /\ c \in Client /\ w.mon[c] \in MonsOf(w) /\ w.mon[c] \in Mon
             /\ c \in ToSet(w.clients[w.mon[c]]) /\ c \in ToSet(w.stack[w.mon[c]])
  <2>1. PICK m \in MonsOf(w) : c \in ToSet(w.clients[m])
    BY <1>5 DEF Managed
  <2>2. w.mon[c] = m /\ c \in ToSet(w.stack[m])
    BY <1>1, <2>1 DEF ListsOn, Listed
  <2> QED BY <1>1, <1>3, <2>1, <2>2
<1>6. ASSUME NEW m \in Mon, c \in ToSet(w.clients[m]) \/ c \in ToSet(w.stack[m])
      PROVE  c \in Managed(w) /\ w.mon[c] = m
  <2>1. c \in ToSet(w.clients[m])
    BY <1>6 DEF ListsOn, Listed
  <2> QED BY <1>4, <2>1 DEF Managed, ListsOn, Listed
<1> QED BY <1>5, <1>6

\* What is where in a memory whose lists are in order.
LEMMA InRange ==
  ASSUME NEW w, Listed(w)
  PROVE  /\ w \in Memories
         /\ Managed(w) \subseteq Client /\ NoClient \notin Managed(w)
         /\ MonsOf(w) \subseteq Mon /\ w.selmon \in Mon
         /\ 0 \in MonsOf(w) /\ 0 \in Mon
<1>1. w \in Memories /\ w.selmon \in Mon
  BY DEF Listed, Memories
<1>2. Managed(w) \subseteq Client
  BY OnItsMonitor
<1>3. MonsOf(w) \subseteq Mon /\ 0 \in MonsOf(w) /\ 0 \in Mon
  BY <1>1, ClientAssumption DEF MonsOf, Mon, Memories
<1> QED BY <1>1, <1>2, <1>3, ClientAssumption

\* All that is not the lists and the selections of the monitors.
SameButLists(w, v) ==
  /\ v.nmons = w.nmons /\ v.selmon = w.selmon /\ v.mon = w.mon
  /\ v.tagset = w.tagset /\ v.seltags = w.seltags
  /\ v.tags = w.tags /\ v.issticky = w.issticky
  /\ v.isfullscreen = w.isfullscreen /\ v.oldstate = w.oldstate
  /\ v.info = w.info /\ v.fault = w.fault

\* What the lists depend on.
LEMMA ListedFrame ==
  ASSUME NEW w, Listed(w), NEW v \in Memories,
         v.nmons = w.nmons, v.selmon \in MonsOf(w),
         v.clients = w.clients, v.stack = w.stack, \A m \in Mon : SelOn(v, m),
         \A c \in Managed(w) : v.mon[c] = w.mon[c]
  PROVE  Listed(v) /\ Managed(v) = Managed(w)
<1>1. MonsOf(v) = MonsOf(w)
  BY DEF MonsOf
<1>2. Managed(v) = Managed(w)
  BY <1>1 DEF Managed
<1>3. ASSUME NEW m \in Mon
      PROVE  ListsOn(v, m)
  <2>1. ASSUME NEW c \in ToSet(v.clients[m])
        PROVE  v.mon[c] = m
    BY <2>1, OnItsMonitor
  <2> QED BY <1>1, <2>1 DEF ListsOn, Listed
<1> QED BY <1>1, <1>2, <1>3 DEF Listed

\* Monitor m has the lists s and t now, of the same clients, and selects x.
NewLists(w, v, m, s, t, x) ==
  /\ v \in Memories /\ SameButLists(w, v) /\ m \in MonsOf(w)
  /\ NoRepeats(s) /\ NoRepeats(t) /\ ToSet(s) = ToSet(t)
  /\ \A c \in ToSet(s) : w.mon[c] = m
  /\ x \in ToSet(s) \cup {NoClient}
  /\ v.clients = [w.clients EXCEPT ![m] = s]
  /\ v.stack = [w.stack EXCEPT ![m] = t]
  /\ v.sel = [w.sel EXCEPT ![m] = x]

LEMMA ListsChanged ==
  ASSUME NEW w, Listed(w), NEW v, NEW m, NEW s, NEW t, NEW x,
         NewLists(w, v, m, s, t, x)
  PROVE  /\ Listed(v)
         /\ Managed(v) = (Managed(w) \ ToSet(w.clients[m])) \cup ToSet(s)
<1>1. MonsOf(v) = MonsOf(w) /\ MonsOf(w) \subseteq Mon
  BY ClientAssumption DEF MonsOf, Mon, Memories, Listed, SameButLists, NewLists
<1>2. /\ v.clients[m] = s /\ v.stack[m] = t /\ v.sel[m] = x
      /\ \A k \in Mon \ {m} :
           v.clients[k] = w.clients[k] /\ v.stack[k] = w.stack[k] /\ v.sel[k] = w.sel[k]
  BY <1>1 DEF Memories, Listed, NewLists
<1>3. \A k \in Mon : ListsOn(v, k) /\ SelOn(v, k)
  BY <1>1, <1>2 DEF ListsOn, SelOn, Listed, SameButLists, NewLists
<1>4. Managed(v) = (Managed(w) \ ToSet(w.clients[m])) \cup ToSet(s)
  <2>1. \A k \in MonsOf(w) \ {m} : ToSet(v.clients[k]) = ToSet(w.clients[k])
    BY <1>1, <1>2
  <2>2. \A k \in MonsOf(w) \ {m} : ToSet(w.clients[k]) \cap ToSet(w.clients[m]) = {}
    BY <1>1 DEF ListsOn, Listed, NewLists
  <2>3. ToSet(v.clients[m]) = ToSet(s)
    BY <1>2
  <2> QED BY <1>1, <2>1, <2>2, <2>3 DEF Managed, NewLists
<1> QED BY <1>1, <1>3, <1>4 DEF Listed, SameButLists, NewLists

\* A monitor of w whose lists have lost windows in v is left without selection
\* only if it has no sticky window any more, or had no selection.
SelectsOther(w, v) ==
  \A k \in Mon : /\ ToSet(v.stack[k]) \subseteq ToSet(w.stack[k])
                 /\ v.sel[k] = NoClient /\ w.sel[k] # NoClient
                      => ToSet(v.stack[k]) \cap w.issticky = {}

\* detach and detachstack: c is off the lists of its monitor.
LEMMA OffLists ==
  ASSUME NEW w, Listed(w), NEW c \in Managed(w)
  PROVE  LET v == DetachStack(Detach(w, c), c)
         IN  /\ Listed(v) /\ SameButLists(w, v)
             /\ Managed(v) = Managed(w) \ {c}
             /\ SelectsOther(w, v)
<1> DEFINE m == w.mon[c]
           s == Without(w.clients[m], c)
           t == Without(w.stack[m], c)
           rest == [w EXCEPT !.clients[m] = s, !.stack[m] = t]
           x == IF w.sel[m] = c THEN FirstIn(t, Shown(rest, m)) ELSE w.sel[m]
           v == DetachStack(Detach(w, c), c)
<1>1. /\ c \in Client /\ m \in MonsOf(w) /\ m \in Mon
      /\ c \in ToSet(w.clients[m]) /\ c \in ToSet(w.stack[m])
  BY OnItsMonitor
<1>2. /\ w \in Memories /\ w.clients[m] \in Seq(Client) /\ w.stack[m] \in Seq(Client)
      /\ NoRepeats(w.clients[m]) /\ NoRepeats(w.stack[m])
      /\ ToSet(w.clients[m]) = ToSet(w.stack[m])
      /\ \A d \in ToSet(w.clients[m]) : w.mon[d] = m
      /\ w.sel[m] \in ToSet(w.clients[m]) \cup {NoClient}
  BY <1>1 DEF Listed, Memories, ListsOn, SelOn
<1>3. /\ s \in Seq(Client) /\ NoRepeats(s) /\ ToSet(s) = ToSet(w.clients[m]) \ {c}
      /\ t \in Seq(Client) /\ NoRepeats(t) /\ ToSet(t) = ToSet(w.stack[m]) \ {c}
  BY <1>1, <1>2, WithoutOnce
<1>4. x \in ToSet(s) \cup {NoClient}
  <2>1. FirstIn(t, Shown(rest, m)) \in ToSet(t) \cup {NoClient}
    BY <1>3, FirstInList
  <2> QED BY <1>2, <1>3, <2>1
<1>5. x \in Client \cup {NoClient}
  <2>1. ToSet(s) \subseteq Client
    BY <1>3 DEF ToSet
  <2> HIDE DEF x, s
  <2> QED BY <1>4, <2>1
<1>6. Detach(w, c) = [w EXCEPT !.clients[m] = s]
  BY DEF Detach
<1>7. DetachStack(Detach(w, c), c) =
        IF w.sel[m] = c THEN [rest EXCEPT !.sel[m] = FirstIn(rest.stack[m], Shown(rest, m))]
        ELSE rest
  <2> DEFINE d == [w EXCEPT !.clients[m] = s]
  <2>1. d.mon = w.mon /\ d.sel = w.sel /\ [d EXCEPT !.stack[m] = Without(@, c)] = rest
    BY <1>2 DEF Memories
  <2> HIDE DEF d, rest
  <2>2. DetachStack(d, c) =
          LET r == [d EXCEPT !.stack[d.mon[c]] = Without(@, c)]
          IN  IF d.sel[d.mon[c]] = c
              THEN [r EXCEPT !.sel[d.mon[c]] = FirstIn(r.stack[d.mon[c]], Shown(r, d.mon[c]))]
              ELSE r
    BY DEF DetachStack
  <2>3. d.mon[c] = m /\ d.sel[m] = w.sel[m]
    BY <2>1
  <2>4. [d EXCEPT !.stack[d.mon[c]] = Without(@, c)] = rest
    BY <2>1, <2>3
  <2> QED BY <1>6, <2>2, <2>3, <2>4 DEF d
<1>8. v = [w EXCEPT !.clients[m] = s, !.stack[m] = t, !.sel[m] = x]
  <2>1. rest.stack[m] = t
    BY <1>1, <1>2 DEF Memories
  <2>2. CASE w.sel[m] = c
    <3>1. v = [rest EXCEPT !.sel[m] = FirstIn(t, Shown(rest, m))]
      BY <1>7, <2>1, <2>2
    <3> QED BY <1>2, <2>2, <3>1 DEF Memories
  <2>3. CASE w.sel[m] # c
    <3>1. v = rest /\ x = w.sel[m]
      BY <1>7, <2>3
    <3> HIDE DEF m, s, t, x, v
    <3>2. w.sel = [w.sel EXCEPT ![m] = x]
      BY <1>1, <1>2, <3>1 DEF Memories
    <3>3. [w EXCEPT !.clients[m] = s, !.stack[m] = t, !.sel[m] = x] =
            [w EXCEPT !.clients[m] = s, !.stack[m] = t, !.sel = w.sel]
      BY <1>2, <3>2 DEF Memories
    <3> QED BY <1>2, <3>1, <3>3 DEF Memories
  <2> QED BY <2>2, <2>3
<1>e. w.sel[m] = c /\ x = NoClient => ToSet(t) \cap w.issticky = {}
  <2>1. rest.stack[m] = t /\ rest.issticky = w.issticky
    BY <1>1, <1>2 DEF Memories
  <2>2. ToSet(t) \cap w.issticky \subseteq Shown(rest, m)
    BY <2>1 DEF Shown, IsVisible
  <2>3. \/ ToSet(t) \cap Shown(rest, m) = {}
        \/ FirstIn(t, Shown(rest, m)) \in ToSet(t)
    BY <1>3, FirstInList
  <2>4. NoClient \notin ToSet(t)
    BY <1>3, ClientAssumption DEF ToSet
  <2> HIDE DEF rest, t
  <2> QED BY <2>2, <2>3, <2>4
<1>f. w.sel[m] # c /\ x = NoClient => w.sel[m] = NoClient
  OBVIOUS
<1> HIDE DEF m, s, t, x, v
<1>9. /\ v \in Memories /\ SameButLists(w, v)
      /\ v.clients = [w.clients EXCEPT ![m] = s]
      /\ v.stack = [w.stack EXCEPT ![m] = t]
      /\ v.sel = [w.sel EXCEPT ![m] = x]
  BY <1>1, <1>2, <1>3, <1>5, <1>8 DEF Memories, SameButLists
<1>a. \A d \in ToSet(s) : w.mon[d] = m
  BY <1>2, <1>3
<1>b. NoRepeats(s) /\ NoRepeats(t) /\ ToSet(s) = ToSet(t)
  BY <1>2, <1>3
<1>c. NewLists(w, v, m, s, t, x)
  BY <1>1, <1>4, <1>9, <1>a, <1>b DEF NewLists
<1>10. /\ Listed(v)
       /\ Managed(v) = (Managed(w) \ ToSet(w.clients[m])) \cup ToSet(s)
  BY <1>c, ListsChanged
<1>11. ToSet(w.clients[m]) \subseteq Managed(w)
  BY <1>1 DEF Managed
<1>12. SelectsOther(w, v)
  <2>1. /\ v.stack[m] = t /\ v.sel[m] = x
        /\ \A k \in Mon \ {m} : v.stack[k] = w.stack[k] /\ v.sel[k] = w.sel[k]
    BY <1>1, <1>2, <1>9 DEF Memories
  <2>2. ToSet(t) \subseteq ToSet(w.stack[m])
    BY <1>3
  <2> QED BY <1>e, <1>f, <2>1, <2>2 DEF SelectsOther
<1> QED BY <1>1, <1>3, <1>9, <1>10, <1>11, <1>12 DEF v

\* attach and attachstack: c is on the lists of its monitor.
LEMMA OnLists ==
  ASSUME NEW w, Listed(w), NEW c \in Client \ Managed(w), w.mon[c] \in MonsOf(w)
  PROVE  LET v == AttachStack(Attach(w, c), c)
         IN  /\ Listed(v) /\ SameButLists(w, v) /\ v.sel = w.sel
             /\ Managed(v) = Managed(w) \cup {c}
<1> DEFINE m == w.mon[c]
           s == Push(w.clients[m], c)
           t == Push(w.stack[m], c)
           v == AttachStack(Attach(w, c), c)
<1>1. m \in MonsOf(w) /\ m \in Mon
  BY DEF Listed, Memories
<1>2. /\ w \in Memories /\ w.clients[m] \in Seq(Client) /\ w.stack[m] \in Seq(Client)
      /\ NoRepeats(w.clients[m]) /\ NoRepeats(w.stack[m])
      /\ ToSet(w.clients[m]) = ToSet(w.stack[m])
      /\ \A d \in ToSet(w.clients[m]) : w.mon[d] = m
      /\ w.sel[m] \in ToSet(w.clients[m]) \cup {NoClient}
      /\ c \notin ToSet(w.clients[m])
  BY <1>1 DEF Listed, Memories, ListsOn, SelOn, Managed
<1>3. /\ s \in Seq(Client) /\ NoRepeats(s) /\ ToSet(s) = ToSet(w.clients[m]) \cup {c}
      /\ t \in Seq(Client) /\ NoRepeats(t) /\ ToSet(t) = ToSet(w.stack[m]) \cup {c}
  BY <1>1, <1>2, PushOnce
<1>4. v = [w EXCEPT !.clients[m] = s, !.stack[m] = t]
  BY <1>1, <1>2 DEF Memories, Attach, AttachStack
<1> HIDE DEF m, s, t, v
<1>5. /\ v \in Memories /\ SameButLists(w, v) /\ v.sel = w.sel
      /\ v.clients = [w.clients EXCEPT ![m] = s]
      /\ v.stack = [w.stack EXCEPT ![m] = t]
      /\ v.sel = [w.sel EXCEPT ![m] = w.sel[m]]
  BY <1>1, <1>2, <1>3, <1>4 DEF Memories, SameButLists
<1>6. \A d \in ToSet(s) : w.mon[d] = m
  BY <1>2, <1>3 DEF m
<1>a. NoRepeats(s) /\ NoRepeats(t) /\ ToSet(s) = ToSet(t)
  BY <1>2, <1>3
<1>b. w.sel[m] \in ToSet(s) \cup {NoClient}
  BY <1>2, <1>3
<1>c. NewLists(w, v, m, s, t, w.sel[m])
  BY <1>1, <1>5, <1>6, <1>a, <1>b DEF NewLists
<1>7. /\ Listed(v)
      /\ Managed(v) = (Managed(w) \ ToSet(w.clients[m])) \cup ToSet(s)
  BY <1>c, ListsChanged
<1>8. ToSet(w.clients[m]) \subseteq Managed(w)
  BY <1>1 DEF Managed
<1> QED BY <1>1, <1>3, <1>5, <1>7, <1>8 DEF v

(***************************************************************************)
(* focus.                                                                   *)
(***************************************************************************)

\* All that focus leaves alone.
SameButFocus(w, v) ==
  /\ v.nmons = w.nmons /\ v.clients = w.clients /\ v.mon = w.mon
  /\ v.tagset = w.tagset /\ v.seltags = w.seltags
  /\ v.tags = w.tags /\ v.issticky = w.issticky
  /\ v.isfullscreen = w.isfullscreen /\ v.oldstate = w.oldstate
  /\ v.info = w.info

\* A client that gets the focus is the selection of its monitor, which is the
\* selected one, and the first of its stack.
LEMMA GiveFocusForm ==
  ASSUME NEW w, Listed(w), NEW c \in Managed(w)
  PROVE  LET m == w.mon[c]
         IN  GiveFocus(w, c) =
               [w EXCEPT !.stack[m] = Push(Without(@, c), c), !.selmon = m,
                         !.sel[m] = c, !.isurgent = @ \ {c}]
<1> DEFINE m == w.mon[c]
           t == Without(w.stack[m], c)
           y == FirstIn(t, Shown([w EXCEPT !.stack[m] = t], m))
           d == DetachStack(w, c)
<1>1. w \in Memories /\ m \in Mon /\ c \in Client /\ c # NoClient
  BY OnItsMonitor, ClientAssumption DEF Listed
<1>2. w.stack \in [Mon -> Seq(Client)]
  BY <1>1 DEF Memories
<1>3. /\ d \in {[w EXCEPT !.stack[m] = t], [w EXCEPT !.stack[m] = t, !.sel[m] = y]}
  <2>1. [w EXCEPT !.stack[m] = t].stack[m] = t
    BY <1>1, <1>2 DEF Memories
  <2>2. d = IF w.sel[m] = c THEN [w EXCEPT !.stack[m] = t, !.sel[m] = y]
            ELSE [w EXCEPT !.stack[m] = t]
    <3> DEFINE rest == [w EXCEPT !.stack[m] = t]
    <3>1. d = IF w.sel[m] = c
              THEN [rest EXCEPT !.sel[m] = FirstIn(rest.stack[m], Shown(rest, m))]
              ELSE rest
      BY DEF DetachStack
    <3>2. d = IF w.sel[m] = c THEN [rest EXCEPT !.sel[m] = y] ELSE rest
      BY <2>1, <3>1
    <3>3. [rest EXCEPT !.sel[m] = y] = [w EXCEPT !.stack[m] = t, !.sel[m] = y]
      BY <1>1, <1>2 DEF Memories
    <3> HIDE DEF d, rest, y
    <3> QED BY <3>2, <3>3 DEF rest
  <2> QED BY <2>2
<1> HIDE DEF d, t, y
<1>4. PICK e : /\ d = [w EXCEPT !.stack = [w.stack EXCEPT ![m] = t], !.sel = e]
               /\ [e EXCEPT ![m] = c] = [w.sel EXCEPT ![m] = c]
  <2>1. CASE d = [w EXCEPT !.stack[m] = t]
    <3>1. d = [w EXCEPT !.stack = [w.stack EXCEPT ![m] = t], !.sel = w.sel]
      BY <1>1, <2>1 DEF Memories
    <3> QED BY <3>1
  <2>2. CASE d = [w EXCEPT !.stack[m] = t, !.sel[m] = y]
    <3>1. [[w.sel EXCEPT ![m] = y] EXCEPT ![m] = c] = [w.sel EXCEPT ![m] = c]
      BY <1>1 DEF Memories
    <3> QED BY <2>2, <3>1
  <2> QED BY <1>3, <2>1, <2>2
<1>5. GiveFocus(w, c) = [AttachStack(d, c) EXCEPT !.selmon = m, !.sel[m] = c, !.isurgent = @ \ {c}]
  BY <1>1 DEF GiveFocus, Raise, d
<1>6. d.mon = w.mon /\ d.stack = [w.stack EXCEPT ![m] = t] /\ d.stack[m] = t
  BY <1>1, <1>2, <1>4 DEF Memories
<1>7. AttachStack(d, c) = [d EXCEPT !.stack[m] = Push(@, c)]
  BY <1>6 DEF AttachStack
<1>8. [d EXCEPT !.stack[m] = Push(@, c)] =
        [w EXCEPT !.stack = [w.stack EXCEPT ![m] = Push(t, c)], !.sel = e]
  <2>1. [d.stack EXCEPT ![m] = Push(d.stack[m], c)] = [w.stack EXCEPT ![m] = Push(t, c)]
    BY <1>1, <1>2, <1>6
  <2> QED BY <1>1, <1>4, <2>1 DEF Memories
<1>9. GiveFocus(w, c) =
        [w EXCEPT !.stack = [w.stack EXCEPT ![m] = Push(t, c)], !.selmon = m,
                  !.sel = [w.sel EXCEPT ![m] = c], !.isurgent = @ \ {c}]
  <2> DEFINE z == [w EXCEPT !.stack = [w.stack EXCEPT ![m] = Push(t, c)], !.sel = e]
  <2>1. GiveFocus(w, c) = [z EXCEPT !.selmon = m, !.sel[m] = c, !.isurgent = @ \ {c}]
    BY <1>5, <1>7, <1>8
  <2>2. z.sel = e /\ z.isurgent = w.isurgent
    BY <1>1 DEF Memories
  <2>3. GiveFocus(w, c) = [z EXCEPT !.selmon = m, !.sel = [w.sel EXCEPT ![m] = c],
                                    !.isurgent = w.isurgent \ {c}]
    <3> HIDE DEF z
    <3> QED BY <1>4, <2>1, <2>2
  <2> QED BY <1>1, <2>3 DEF Memories
<1> QED BY <1>1, <1>2, <1>9 DEF t, Memories

LEMMA GiveFocusKeeps ==
  ASSUME NEW w, Listed(w), NEW c \in Managed(w) \cup {NoClient}
  PROVE  LET v == GiveFocus(w, c)
         IN  Listed(v) /\ Managed(v) = Managed(w) /\ SameButFocus(w, v)
<1>1. CASE c = NoClient
  <2> DEFINE v == [w EXCEPT !.sel[w.selmon] = NoClient]
  <2>1. v = GiveFocus(w, c)
    BY <1>1 DEF GiveFocus
  <2>2. w \in Memories /\ w.selmon \in MonsOf(w) /\ \A m \in Mon : SelOn(w, m)
    BY DEF Listed
  <2>3. v \in Memories /\ SameButFocus(w, v) /\ v.stack = w.stack /\ v.selmon = w.selmon
        /\ \A m \in Mon : v.sel[m] \in {w.sel[m], NoClient}
    BY <2>2 DEF Memories, SameButFocus
  <2> HIDE DEF v
  <2>4. \A m \in Mon : SelOn(v, m)
    BY <2>2, <2>3 DEF SelOn, SameButFocus
  <2>5. v.selmon \in MonsOf(w)
    BY <2>2, <2>3
  <2>6. Listed(v) /\ Managed(v) = Managed(w)
    BY <2>3, <2>4, <2>5, ListedFrame DEF SameButFocus
  <2> QED BY <2>1, <2>3, <2>6
<1>2. CASE c \in Managed(w)
  <2> DEFINE m == w.mon[c]
             s == w.clients[m]
             t == Push(Without(w.stack[m], c), c)
             u == [w EXCEPT !.stack[m] = t, !.sel[m] = c]
             v == [u EXCEPT !.selmon = m, !.isurgent = @ \ {c}]
  <2>1. w \in Memories /\ c \in Client /\ m \in MonsOf(w) /\ m \in Mon
        /\ c \in ToSet(s) /\ c \in ToSet(w.stack[m])
    BY <1>2, OnItsMonitor DEF Listed
  <2>2. NoRepeats(s) /\ NoRepeats(w.stack[m]) /\ ToSet(s) = ToSet(w.stack[m])
        /\ (\A d \in ToSet(s) : w.mon[d] = m) /\ w.stack[m] \in Seq(Client)
    BY <2>1 DEF Listed, ListsOn, Memories
  <2>3. t \in Seq(Client) /\ NoRepeats(t) /\ ToSet(s) = ToSet(t)
    BY <2>1, <2>2, ToFront
  <2>4. v = GiveFocus(w, c)
    <3>1. GiveFocus(w, c) =
            [w EXCEPT !.stack[m] = t, !.selmon = m, !.sel[m] = c, !.isurgent = @ \ {c}]
      BY <1>2, GiveFocusForm
    <3> HIDE DEF m, t
    <3> QED BY <2>1, <3>1 DEF Memories
  <2> HIDE DEF m, t, s
  <2>5. u \in Memories /\ SameButLists(w, u) /\ u.clients = [w.clients EXCEPT ![m] = s]
        /\ u.stack = [w.stack EXCEPT ![m] = t] /\ u.sel = [w.sel EXCEPT ![m] = c]
    BY <2>1, <2>3 DEF Memories, SameButLists, s
  <2>6. v \in Memories /\ SameButFocus(w, v) /\ v.selmon = m
        /\ v.nmons = u.nmons /\ v.clients = u.clients /\ v.stack = u.stack
        /\ v.sel = u.sel /\ v.mon = u.mon
    BY <2>1, <2>3 DEF Memories, SameButFocus
  <2> HIDE DEF u, v
  <2>7. Listed(u) /\ Managed(u) = (Managed(w) \ ToSet(s)) \cup ToSet(s)
    <3>1. NewLists(w, u, m, s, t, c)
      BY <2>1, <2>2, <2>3, <2>5 DEF NewLists, s, m
    <3> QED BY <3>1, ListsChanged DEF s
  <2>8. Managed(u) = Managed(w)
    BY <2>1, <2>7 DEF Managed, s
  <2>9. \A k \in Mon : SelOn(v, k)
    BY <2>6, <2>7 DEF Listed, SelOn
  <2>10. v.selmon \in MonsOf(u)
    BY <2>1, <2>5, <2>6 DEF SameButLists, MonsOf
  <2>11. Listed(v) /\ Managed(v) = Managed(u)
    BY <2>6, <2>7, <2>9, <2>10, ListedFrame
  <2> QED BY <2>4, <2>6, <2>8, <2>11
<1> QED BY <1>1, <1>2

\* The client focus finds by itself is one of the selected monitor's stack, and
\* is shown; it finds none only if the monitor shows none.
LEMMA CandidateShown ==
  ASSUME NEW w, Listed(w)
  PROVE  \/ FocusCandidate(w) \in Shown(w, w.selmon) /\ FocusCandidate(w) \in Managed(w)
         \/ FocusCandidate(w) = NoClient /\ Shown(w, w.selmon) = {}
<1> DEFINE s == w.stack[w.selmon]
           all == Shown(w, w.selmon)
           plain == IF w.sel[w.selmon] \in w.issticky THEN all ELSE all \ w.issticky
<1>1. w.selmon \in Mon /\ s \in Seq(Client)
  BY ClientAssumption DEF Listed, Memories
<1>2. plain \subseteq all /\ all \subseteq ToSet(s)
  BY DEF Shown
<1>3. all \subseteq Managed(w)
  BY <1>1, <1>2, OnItsMonitor
<1>4. FirstIn(s, plain) = NoClient \/ FirstIn(s, plain) \in plain
  BY <1>1, FirstInList
<1>5. \/ FirstIn(s, all) = NoClient /\ ToSet(s) \cap all = {}
      \/ FirstIn(s, all) \in all
  BY <1>1, FirstInList
<1>6. FocusCandidate(w) = IF FirstIn(s, plain) # NoClient THEN FirstIn(s, plain) ELSE FirstIn(s, all)
  BY DEF FocusCandidate
<1> QED BY <1>2, <1>3, <1>4, <1>5, <1>6

LEMMA FocusKeeps ==
  ASSUME NEW w, Listed(w), NEW c \in Managed(w) \cup {NoClient}
  PROVE  LET v == Focus(w, c)
         IN  Listed(v) /\ Managed(v) = Managed(w) /\ SameButFocus(w, v)
<1> DEFINE v == Focus(w, c)
<1>1. CASE v = w
  BY <1>1 DEF SameButFocus
<1>2. CASE v = Fail(w, "null")
  <2> DEFINE f == Fail(w, "null")
  <2>1. w \in Memories /\ w.selmon \in MonsOf(w) /\ \A m \in Mon : SelOn(w, m)
    BY DEF Listed
  <2>2. f \in Memories /\ SameButFocus(w, f)
        /\ f.selmon = w.selmon /\ f.stack = w.stack /\ f.sel = w.sel
    BY <2>1 DEF Fail, Memories, SameButFocus
  <2> HIDE DEF f
  <2>3. \A m \in Mon : SelOn(f, m)
    BY <2>1, <2>2 DEF SelOn, SameButFocus
  <2>4. Listed(f) /\ Managed(f) = Managed(w)
    BY <2>1, <2>2, <2>3, ListedFrame DEF SameButFocus
  <2> QED BY <1>2, <2>2, <2>4 DEF f
<1>3. CASE v = GiveFocus(w, c)
  BY <1>3, GiveFocusKeeps
<1>4. CASE v = GiveFocus(w, FocusCandidate(w))
  <2>1. FocusCandidate(w) \in Managed(w) \cup {NoClient}
    BY CandidateShown
  <2> QED BY <1>4, <2>1, GiveFocusKeeps
<1> QED BY <1>1, <1>2, <1>3, <1>4 DEF Focus

\* After focus, the selected window is on the screen, and none is selected only
\* if none is.
FocusRight(w) ==
  /\ Selected(w) = NoClient => Shown(w, w.selmon) = {}
  /\ Selected(w) # NoClient => IsVisible(w, Selected(w))

LEMMA VisibleFrame ==
  ASSUME NEW w, NEW v, SameButFocus(w, v), NEW c
  PROVE  IsVisible(v, c) <=> IsVisible(w, c)
BY DEF IsVisible, View, SameButFocus

LEMMA FocusShows ==
  ASSUME NEW w, Listed(w), NEW c \in Managed(w) \cup {NoClient}, ~Failed(Focus(w, c))
  PROVE  FocusRight(Focus(w, c))
<1> DEFINE v == Focus(w, c)
<1>1. w \in Memories /\ w.selmon \in Mon /\ NoClient \notin Managed(w)
  BY OnItsMonitor, ClientAssumption DEF Listed, Memories
<1>2. ASSUME NEW d \in Managed(w), IsVisible(w, d), v = GiveFocus(w, d)
      PROVE  FocusRight(v)
  <2>1. w.mon[d] \in Mon
    BY OnItsMonitor
  <2> HIDE DEF v
  <2>2. v.selmon = w.mon[d] /\ v.sel[w.mon[d]] = d
    <3> DEFINE m == w.mon[d]
    <3>1. v = [w EXCEPT !.stack[m] = Push(Without(@, d), d), !.selmon = m,
                        !.sel[m] = d, !.isurgent = @ \ {d}]
      BY <1>2, GiveFocusForm
    <3> HIDE DEF m
    <3>2. m \in Mon => v.selmon = m /\ v.sel[m] = d
      BY <1>1, <3>1 DEF Memories
    <3> QED BY <2>1, <3>2 DEF m
  <2>3. SameButFocus(w, v)
    BY <1>2, GiveFocusKeeps
  <2>4. IsVisible(v, d)
    BY <1>2, <2>3, VisibleFrame
  <2> QED BY <1>1, <2>2, <2>4 DEF FocusRight, Selected
<1>3. ASSUME Shown(w, w.selmon) = {}, v = GiveFocus(w, NoClient)
      PROVE  FocusRight(v)
  <2>1. v = [w EXCEPT !.sel[w.selmon] = NoClient]
    BY <1>3 DEF GiveFocus
  <2>2. v.selmon = w.selmon /\ v.stack = w.stack /\ v.sel[w.selmon] = NoClient
    BY <1>1, <2>1 DEF Memories
  <2>3. SameButFocus(w, v)
    BY <1>3, GiveFocusKeeps
  <2> HIDE DEF v
  <2>4. Shown(v, w.selmon) = Shown(w, w.selmon)
    BY <2>2, <2>3, VisibleFrame DEF Shown
  <2> QED BY <1>3, <2>2, <2>4 DEF FocusRight, Selected
<1>4. CASE c # NoClient /\ IsVisible(w, c) /\ v = GiveFocus(w, c)
  BY <1>2, <1>4
<1>5. CASE v = GiveFocus(w, FocusCandidate(w))
  <2>1. CASE FocusCandidate(w) \in Shown(w, w.selmon) /\ FocusCandidate(w) \in Managed(w)
    <3>1. IsVisible(w, FocusCandidate(w))
      BY <2>1 DEF Shown
    <3> QED BY <1>2, <1>5, <2>1, <3>1
  <2>2. CASE FocusCandidate(w) = NoClient /\ Shown(w, w.selmon) = {}
    BY <1>3, <1>5, <2>2
  <2> QED BY <2>1, <2>2, CandidateShown
<1>6. \/ c # NoClient /\ IsVisible(w, c) /\ v = GiveFocus(w, c)
      \/ v = GiveFocus(w, FocusCandidate(w))
  <2>1. Failed(Fail(w, "null"))
    BY <1>1 DEF Failed, Fail, Memories
  <2>2. v # Fail(w, "null")
    BY <2>1
  <2>3. ~Failed(w)
    BY DEF Focus
  <2> QED BY <2>2, <2>3 DEF Focus
<1> QED BY <1>4, <1>5, <1>6

\* focus leaves a sound memory behind.
LEMMA FocusSound ==
  ASSUME NEW w, Sound(w), NEW c \in Managed(w) \cup {NoClient}
  PROVE  LET v == Focus(w, c)
         IN  /\ Sound(v) /\ Managed(v) = Managed(w) /\ SameButFocus(w, v)
             /\ ~Failed(v) => FocusRight(v)
BY FocusKeeps, FocusShows DEF Sound, Noted, SameButFocus

(***************************************************************************)
(* Routines that leave the lists alone.                                     *)
(***************************************************************************)

\* A fullscreen window's old state is not touched while it stays fullscreen.
OldKept(w, v) ==
  \A c \in w.isfullscreen \cap v.isfullscreen : c \in w.oldstate <=> c \in v.oldstate

\* A handler that neither adds nor removes a window, and gives other tags to
\* windows of X at most.
Handles(w, v, X) ==
  /\ Sound(v) /\ Managed(v) = Managed(w) /\ OldKept(w, v)
  /\ \A c \in Managed(w) \ X : v.tags[c] = w.tags[c]

FocusOk(w) == Failed(w) \/ FocusRight(w)

\* The half of it that togglesticky does not break.
KeyboardOk(w) == Failed(w) \/ (Selected(w) = NoClient => Shown(w, w.selmon) = {})

FocusStays(w, v) ==
  (FocusOk(w) => FocusOk(v)) /\ (KeyboardOk(w) => KeyboardOk(v))

\* focus finds a selection, or else no sticky window to ask it about.
Safe(w) ==
  /\ ~Failed(w)
  /\ Selected(w) = NoClient => ToSet(w.stack[w.selmon]) \cap w.issticky = {}

LEMMA KeyboardSafe ==
  ASSUME NEW w, KeyboardOk(w), ~Failed(w)
  PROVE  Safe(w)
BY DEF KeyboardOk, Safe, Shown, IsVisible

LEMMA SafeFocus ==
  ASSUME NEW w, Listed(w), Safe(w), NEW c \in Managed(w) \cup {NoClient}
  PROVE  ~Failed(Focus(w, c))
<1> DEFINE s == w.stack[w.selmon]
           all == Shown(w, w.selmon)
<1>1. w \in Memories /\ w.selmon \in Mon
  BY DEF Listed, Memories
<1>2. s \in Seq(Client) /\ NoClient \notin w.issticky
  BY <1>1, ClientAssumption DEF Memories
<1>3. ~FocusDereferencesNull(w)
  <2>1. FirstIn(s, all) = NoClient \/ FirstIn(s, all) \in ToSet(s)
    BY <1>2, FirstInList
  <2>2. Selected(w) = NoClient => FirstIn(s, all) \notin w.issticky
    BY <1>2, <2>1 DEF Safe
  <2> QED BY <2>2 DEF FocusDereferencesNull
<1>4. ASSUME NEW d \in Managed(w) \cup {NoClient}
      PROVE  GiveFocus(w, d).fault = w.fault
  <2>1. CASE d = NoClient
    BY <1>1, <2>1 DEF GiveFocus, Memories
  <2>2. CASE d \in Managed(w)
    <3> DEFINE m == w.mon[d]
    <3>1. GiveFocus(w, d) = [w EXCEPT !.stack[m] = Push(Without(@, d), d), !.selmon = m,
                                      !.sel[m] = d, !.isurgent = @ \ {d}]
      BY <2>2, GiveFocusForm
    <3> HIDE DEF m
    <3> QED BY <1>1, <3>1 DEF Memories
  <2> QED BY <2>1, <2>2
<1>5. FocusCandidate(w) \in Managed(w) \cup {NoClient}
  BY CandidateShown
<1>6. w.fault = "none"
  BY DEF Safe, Failed
<1> QED BY <1>3, <1>4, <1>5, <1>6 DEF Focus, Failed

\* Every monitor shows the tags it showed.
SameViews(w, v) == v.tagset = w.tagset /\ v.seltags = w.seltags

\* What FailsOnlyUnseen says of a step from w to v.
FailsUnseen(w, v) ==
  Failed(v) => v.fault = "div" /\ Selected(w) # NoClient /\ Shown(w, w.selmon) = {}

\* What StickyYieldsOnView says of a step from w to v.
Yields(w, v) ==
  LET m == w.selmon IN
    (/\ v.selmon = m /\ v.nmons = w.nmons /\ v.clients = w.clients
     /\ View(v, m) # View(w, m)
     /\ w.sel[m] \notin w.issticky /\ v.sel[m] \in v.issticky)
      => Shown(v, m) \subseteq v.issticky

LEMMA SameViewsYield ==
  ASSUME NEW w, NEW v, SameViews(w, v)
  PROVE  Yields(w, v)
BY DEF SameViews, Yields, View

\* A step that adds or removes windows is another matter.
LEMMA OtherWindowsYield ==
  ASSUME NEW w, NEW v, Managed(v) # Managed(w)
  PROVE  Yields(w, v)
<1>1. v.nmons = w.nmons /\ v.clients = w.clients => Managed(v) = Managed(w)
  BY DEF Managed, MonsOf
<1> QED BY <1>1 DEF Yields

\* focus(NULL) after a change of the view that touches neither windows nor
\* selections.
LEMMA RefocusYields ==
  ASSUME NEW w, NEW u, Listed(u), u.selmon = w.selmon, u.sel = w.sel,
         u.issticky = w.issticky
  PROVE  Yields(w, Refocus(u))
<1> DEFINE m == w.selmon
           v == Refocus(u)
           plain == Shown(u, m) \ u.issticky
           first == FirstIn(u.stack[m], plain)
<1>1. /\ u \in Memories /\ m \in Mon /\ u.stack[m] \in Seq(Client)
      /\ NoClient \notin u.issticky
  BY ClientAssumption DEF Listed, Memories
<1> SUFFICES ASSUME v.selmon = m, w.sel[m] \notin w.issticky, v.sel[m] \in v.issticky
             PROVE  Shown(v, m) \subseteq v.issticky
  BY DEF Yields
<1>2. SameButFocus(u, v) /\ Managed(v) = Managed(u) /\ Listed(v)
  BY FocusKeeps DEF Refocus
<1>3. v.issticky = u.issticky
  BY <1>2 DEF SameButFocus
<1>4. v = GiveFocus(u, FocusCandidate(u))
  <2>1. v # u
    BY <1>3
  <2>2. v # Fail(u, "null")
    <3>1. Fail(u, "null").sel = u.sel
      BY <1>1 DEF Fail, Memories
    <3> QED BY <1>3, <3>1
  <2>3. v = u \/ v = Fail(u, "null") \/ v = GiveFocus(u, FocusCandidate(u))
    BY DEF Refocus, Focus
  <2> QED BY <2>1, <2>2, <2>3
<1>5. FocusCandidate(u) = IF first # NoClient THEN first ELSE FirstIn(u.stack[m], Shown(u, m))
  BY DEF FocusCandidate
<1>6. \/ first = NoClient /\ ToSet(u.stack[m]) \cap plain = {}
      \/ first \in plain
  BY <1>1, FirstInList
<1>7. CASE first = NoClient /\ ToSet(u.stack[m]) \cap plain = {}
  <2>1. Shown(u, m) \subseteq u.issticky
    BY <1>7 DEF Shown
  <2>2. \A c : IsVisible(v, c) <=> IsVisible(u, c)
    BY <1>2, VisibleFrame
  <2>3. ToSet(v.stack[m]) = ToSet(u.stack[m])
    BY <1>1, <1>2 DEF Listed, ListsOn, SameButFocus
  <2>4. Shown(v, m) = Shown(u, m)
    BY <2>2, <2>3 DEF Shown
  <2> QED BY <1>3, <2>1, <2>4
<1>8. CASE first \in plain
  <2>1. first \in ToSet(u.stack[m]) /\ first \notin u.issticky
    BY <1>8 DEF Shown
  <2>2. first \in Managed(u) /\ u.mon[first] = m /\ first # NoClient
    BY <1>1, <2>1, OnItsMonitor, InRange
  <2> HIDE DEF first, v
  <2>3. v = GiveFocus(u, first)
    BY <1>4, <1>5, <2>2
  <2>4. v = [u EXCEPT !.stack[m] = Push(Without(@, first), first), !.selmon = m,
                      !.sel[m] = first, !.isurgent = @ \ {first}]
    BY <2>2, <2>3, GiveFocusForm
  <2>5. v.sel[m] = first
    <3> HIDE DEF m
    <3> QED BY <1>1, <2>4 DEF Memories
  <2> QED BY <1>3, <2>1, <2>5
<1> QED BY <1>6, <1>7, <1>8

LEMMA SoundFrame ==
  ASSUME NEW w, Sound(w), NEW v \in Memories,
         v.nmons = w.nmons, v.selmon \in MonsOf(w),
         v.clients = w.clients, v.stack = w.stack, \A m \in Mon : SelOn(v, m),
         \A c \in Managed(w) :
           v.mon[c] = w.mon[c] /\ v.tags[c] = w.tags[c] /\ v.info[c] = w.info[c],
         v.isfullscreen \subseteq Managed(w)
  PROVE  Sound(v) /\ Managed(v) = Managed(w)
<1>1. Listed(v) /\ Managed(v) = Managed(w)
  BY ListedFrame DEF Sound
<1> QED BY <1>1 DEF Sound, Noted

\* What full screen, floating and urgency have nothing to do with.
SameWindows(w, v) ==
  /\ v.nmons = w.nmons /\ v.selmon = w.selmon
  /\ v.clients = w.clients /\ v.stack = w.stack /\ v.sel = w.sel
  /\ v.tagset = w.tagset /\ v.seltags = w.seltags
  /\ v.mon = w.mon /\ v.tags = w.tags /\ v.info = w.info
  /\ v.fault = w.fault

LEMMA SameWindowsSound ==
  ASSUME NEW w, Sound(w), NEW v \in Memories, SameWindows(w, v),
         v.isfullscreen \subseteq Managed(w), OldKept(w, v)
  PROVE  Handles(w, v, {})
<1>1. w.selmon \in MonsOf(w) /\ \A m \in Mon : SelOn(w, m)
  BY DEF Sound, Listed
<1>2. Sound(v) /\ Managed(v) = Managed(w)
  BY <1>1, SoundFrame DEF SameWindows, SelOn
<1> QED BY <1>2 DEF Handles, SameWindows

LEMMA SameWindowsFocus ==
  ASSUME NEW w, NEW v, SameWindows(w, v), v.issticky = w.issticky
  PROVE  FocusStays(w, v)
<1>1. \A c : IsVisible(v, c) <=> IsVisible(w, c)
  BY DEF IsVisible, View, SameWindows
<1>2. Shown(v, v.selmon) = Shown(w, w.selmon)
  BY <1>1 DEF Shown, SameWindows
<1> QED BY <1>1, <1>2 DEF FocusStays, FocusOk, KeyboardOk, FocusRight, Selected, Failed,
                          SameWindows

LEMMA SetFullscreenKeeps ==
  ASSUME NEW w \in Memories, NEW c \in Client, NEW on \in BOOLEAN
  PROVE  LET v == SetFullscreen(w, c, on)
         IN  /\ v \in Memories /\ SameWindows(w, v) /\ v.issticky = w.issticky
             /\ v.isfullscreen \subseteq w.isfullscreen \cup {c}
             /\ ~on => v.isfullscreen \subseteq w.isfullscreen
             /\ OldKept(w, v)
             /\ v.isurgent = w.isurgent
<1>1. CASE on /\ c \notin w.isfullscreen
  <2> DEFINE v == EnterFullscreen(w, c)
  <2>1. /\ v \in Memories /\ SameWindows(w, v) /\ v.issticky = w.issticky
        /\ v.isfullscreen = w.isfullscreen \cup {c}
        /\ v.oldstate \in {w.oldstate \cup {c}, w.oldstate \ {c}}
        /\ v.isurgent = w.isurgent
    BY DEF Memories, EnterFullscreen, Flag, SameWindows
  <2> HIDE DEF v
  <2>2. OldKept(w, v)
    BY <1>1, <2>1 DEF OldKept
  <2>3. v = SetFullscreen(w, c, on)
    BY <1>1 DEF SetFullscreen, v
  <2> QED BY <1>1, <2>1, <2>2, <2>3
<1>2. CASE ~on /\ c \in w.isfullscreen
  <2> DEFINE v == LeaveFullscreen(w, c)
  <2>1. /\ v \in Memories /\ SameWindows(w, v) /\ v.issticky = w.issticky
        /\ v.isfullscreen = w.isfullscreen \ {c} /\ v.oldstate = w.oldstate
        /\ v.isurgent = w.isurgent
    BY DEF Memories, LeaveFullscreen, Flag, SameWindows
  <2> HIDE DEF v
  <2>2. v = SetFullscreen(w, c, on)
    BY <1>2 DEF SetFullscreen, v
  <2> QED BY <2>1, <2>2 DEF OldKept
<1>3. CASE SetFullscreen(w, c, on) = w
  BY <1>3 DEF SameWindows, OldKept
<1> QED BY <1>1, <1>2, <1>3 DEF SetFullscreen

LEMMA UpdateWindowTypeKeeps ==
  ASSUME NEW w \in Memories, NEW c \in Client
  PROVE  LET v == UpdateWindowType(w, c)
         IN  /\ v \in Memories /\ SameWindows(w, v) /\ v.issticky = w.issticky
             /\ v.isfullscreen \subseteq w.isfullscreen \cup {c}
             /\ OldKept(w, v)
             /\ v.isurgent = w.isurgent
<1> DEFINE u == IF c \in w.netwm THEN SetFullscreen(w, c, TRUE) ELSE w
           F == Flag(u.isfloating, c, c \in u.isfloating \/ Hints[c].dialog)
           v == [u EXCEPT !.isfloating = F]
<1>1. /\ u \in Memories /\ SameWindows(w, u) /\ u.issticky = w.issticky
      /\ u.isfullscreen \subseteq w.isfullscreen \cup {c} /\ OldKept(w, u)
      /\ u.isurgent = w.isurgent
  <2>1. CASE c \in w.netwm
    BY <2>1, SetFullscreenKeeps
  <2>2. CASE c \notin w.netwm
    BY <2>2 DEF SameWindows, OldKept
  <2> QED BY <2>1, <2>2
<1>2. v = UpdateWindowType(w, c)
  BY DEF UpdateWindowType
<1> HIDE DEF u
<1>3. F \in SUBSET Client
  BY <1>1 DEF Flag, Memories
<1> HIDE DEF F
<1>4. /\ v \in Memories /\ SameWindows(u, v) /\ v.issticky = u.issticky
      /\ v.isfullscreen = u.isfullscreen /\ v.oldstate = u.oldstate /\ v.isurgent = u.isurgent
  BY <1>1, <1>3 DEF Memories, SameWindows
<1> HIDE DEF v
<1>5. SameWindows(w, v)
  BY <1>1, <1>4 DEF SameWindows
<1> QED BY <1>1, <1>2, <1>4, <1>5 DEF OldKept

LEMMA ToggleFloatingKeeps ==
  ASSUME NEW w, Sound(w)
  PROVE  LET v == ToggleFloating(w)
         IN  /\ Handles(w, v, {}) /\ FocusStays(w, v)
             /\ SameWindows(w, v)
<1> DEFINE c == Selected(w)
           F == Flag(w.isfloating, c, c \notin w.isfloating \/ Hints[c].fixed)
           v == [w EXCEPT !.isfloating = F]
<1>1. CASE c = NoClient \/ c \in w.isfullscreen
  BY <1>1 DEF ToggleFloating, Handles, OldKept, SameWindows, FocusStays
<1>2. CASE c # NoClient /\ c \notin w.isfullscreen
  <2>1. w \in Memories /\ c \in Client
    BY <1>2, ClientAssumption DEF Selected, Sound, Listed, Memories
  <2>2. F \in SUBSET Client
    BY <2>1 DEF Flag, Memories
  <2>3. v = ToggleFloating(w)
    BY <1>2 DEF ToggleFloating
  <2> HIDE DEF F, c
  <2>4. /\ v \in Memories /\ SameWindows(w, v) /\ v.issticky = w.issticky
        /\ v.isfullscreen = w.isfullscreen /\ v.oldstate = w.oldstate
    BY <2>1, <2>2 DEF Memories, SameWindows
  <2> HIDE DEF v
  <2>5. v.isfullscreen \subseteq Managed(w) /\ OldKept(w, v)
    BY <2>4 DEF Sound, Noted, OldKept
  <2> QED BY <2>3, <2>4, <2>5, SameWindowsSound, SameWindowsFocus
<1> QED BY <1>1, <1>2

LEMMA HandlesNothing ==
  ASSUME NEW w, Sound(w), NEW X
  PROVE  Handles(w, w, X) /\ FocusStays(w, w)
BY DEF Handles, OldKept, FocusStays

LEMMA FocusAfter ==
  ASSUME NEW w, NEW u, NEW X, Handles(w, u, X), NEW c \in Managed(w) \cup {NoClient}
  PROVE  /\ Handles(w, Focus(u, c), X)
         /\ FocusOk(Focus(u, c)) /\ FocusStays(w, Focus(u, c))
         /\ SameViews(u, Focus(u, c))
         /\ Safe(u) => ~Failed(Focus(u, c))
<1>1. Sound(u) /\ Managed(u) = Managed(w)
  BY DEF Handles
<1>2. /\ Sound(Focus(u, c)) /\ Managed(Focus(u, c)) = Managed(u)
      /\ SameButFocus(u, Focus(u, c))
      /\ ~Failed(Focus(u, c)) => FocusRight(Focus(u, c))
  BY <1>1, FocusSound
<1>3. FocusOk(Focus(u, c)) /\ KeyboardOk(Focus(u, c))
  BY <1>2 DEF FocusOk, KeyboardOk, FocusRight
<1>4. SameViews(u, Focus(u, c))
  BY <1>2 DEF SameButFocus, SameViews
<1>5. Safe(u) => ~Failed(Focus(u, c))
  BY <1>1, SafeFocus DEF Sound
<1> QED BY <1>1, <1>2, <1>3, <1>4, <1>5 DEF Handles, OldKept, SameButFocus, FocusStays

LEMMA RefocusAfter ==
  ASSUME NEW w, NEW u, NEW X, Handles(w, u, X)
  PROVE  /\ Handles(w, Refocus(u), X)
         /\ FocusOk(Refocus(u)) /\ FocusStays(w, Refocus(u))
         /\ SameViews(u, Refocus(u))
         /\ Safe(u) => ~Failed(Refocus(u))
BY FocusAfter DEF Refocus

LEMMA FailSound ==
  ASSUME NEW w, Sound(w), NEW how \in {"null", "div", "hang", "cycle"}, NEW X
  PROVE  /\ Handles(w, Fail(w, how), X) /\ FocusStays(w, Fail(w, how))
         /\ SameViews(w, Fail(w, how))
<1> DEFINE v == Fail(w, how)
<1>1. w \in Memories /\ w.selmon \in MonsOf(w) /\ \A m \in Mon : SelOn(w, m)
  BY DEF Sound, Listed
<1>2. /\ v \in Memories /\ v.fault = how
      /\ v.nmons = w.nmons /\ v.selmon = w.selmon /\ v.clients = w.clients
      /\ v.stack = w.stack /\ v.sel = w.sel /\ v.mon = w.mon /\ v.tags = w.tags
      /\ v.info = w.info /\ v.isfullscreen = w.isfullscreen /\ v.oldstate = w.oldstate
      /\ v.tagset = w.tagset /\ v.seltags = w.seltags
  BY <1>1 DEF Fail, Memories
<1> HIDE DEF v
<1>3. Sound(v) /\ Managed(v) = Managed(w)
  BY <1>1, <1>2, SoundFrame DEF SelOn, Sound, Noted
<1>4. Handles(w, v, X)
  BY <1>2, <1>3 DEF Handles, OldKept
<1> QED BY <1>2, <1>4 DEF v, FocusStays, FocusOk, KeyboardOk, Failed, SameViews

(***************************************************************************)
(* Views and tags.                                                          *)
(***************************************************************************)

LEMMA ViewsTyped ==
  ASSUME NEW w \in Memories, NEW m \in Mon
  PROVE  /\ w.seltags[m] \in 0..1 /\ View(w, m) \in SUBSET TAGMASK
         /\ View(w, m) # {}
BY DEF Memories, View

LEMMA ViewChanged ==
  ASSUME NEW w, Sound(w), NEW T \in [Mon -> [0..1 -> (SUBSET TAGMASK) \ {{}}]],
         NEW F \in [Mon -> 0..1]
  PROVE  LET v == [w EXCEPT !.tagset = T, !.seltags = F]
         IN  /\ Handles(w, v, {}) /\ Handles(w, Refocus(v), {})
             /\ FocusStays(w, Refocus(v))
             /\ Yields(w, Refocus(v))
             /\ Safe(w) => ~Failed(Refocus(v))
<1> DEFINE v == [w EXCEPT !.tagset = T, !.seltags = F]
<1>1. w \in Memories /\ w.selmon \in MonsOf(w) /\ \A m \in Mon : SelOn(w, m)
  BY DEF Sound, Listed
<1>2. /\ v \in Memories
      /\ v.nmons = w.nmons /\ v.selmon = w.selmon /\ v.clients = w.clients
      /\ v.stack = w.stack /\ v.sel = w.sel /\ v.mon = w.mon /\ v.tags = w.tags
      /\ v.info = w.info /\ v.isfullscreen = w.isfullscreen /\ v.oldstate = w.oldstate
      /\ v.issticky = w.issticky /\ v.fault = w.fault
  BY <1>1 DEF Memories
<1> HIDE DEF v
<1>3. Sound(v) /\ Managed(v) = Managed(w)
  BY <1>1, <1>2, SoundFrame DEF SelOn, Sound, Noted
<1>4. Handles(w, v, {})
  BY <1>2, <1>3 DEF Handles, OldKept
<1>5. Yields(w, Refocus(v))
  BY <1>2, <1>3, RefocusYields DEF Sound
<1>6. Safe(w) => Safe(v)
  BY <1>2 DEF Safe, Failed, Selected
<1> QED BY <1>4, <1>5, <1>6, RefocusAfter DEF v

LEMMA ViewSet ==
  ASSUME NEW w, Sound(w), NEW T \in [Mon -> [0..1 -> (SUBSET TAGMASK) \ {{}}]],
         NEW F \in [Mon -> 0..1], NEW u, u = [w EXCEPT !.tagset = T, !.seltags = F]
  PROVE  Handles(w, u, {})
<1>1. LET v == [w EXCEPT !.tagset = T, !.seltags = F]
      IN  /\ Handles(w, v, {}) /\ Handles(w, Refocus(v), {})
          /\ FocusStays(w, Refocus(v))
          /\ Yields(w, Refocus(v))
          /\ Safe(w) => ~Failed(Refocus(v))
  BY ViewChanged, Zenon
<1> QED BY <1>1

LEMMA ViewTagsKeeps ==
  ASSUME NEW w, Sound(w), NEW mask \in SUBSET TAGMASK
  PROVE  LET v == ViewTags(w, mask)
         IN  /\ Handles(w, v, {}) /\ FocusStays(w, v)
             /\ Yields(w, v) /\ (Safe(w) => ~Failed(v))
<1>1. CASE mask = View(w, w.selmon)
  BY <1>1, HandlesNothing DEF ViewTags, Yields, Safe
<1>2. CASE mask # View(w, w.selmon)
  <2> DEFINE m == w.selmon
             flip == 1 - w.seltags[m]
             T == [w.tagset EXCEPT ![m] = [w.tagset[m] EXCEPT
                      ![flip] = IF mask = {} THEN w.tagset[m][flip] ELSE mask]]
             F == [w.seltags EXCEPT ![m] = flip]
  <2>1. w \in Memories /\ m \in Mon /\ w.seltags[m] \in 0..1
    BY DEF Sound, Listed, Memories
  <2>2. flip \in 0..1
    BY <2>1
  <2> HIDE DEF flip
  <2>3. T \in [Mon -> [0..1 -> (SUBSET TAGMASK) \ {{}}]] /\ F \in [Mon -> 0..1]
    <3> DEFINE x == IF mask = {} THEN w.tagset[m][flip] ELSE mask
    <3>1. /\ w.tagset \in [Mon -> [0..1 -> (SUBSET TAGMASK) \ {{}}]]
          /\ w.seltags \in [Mon -> 0..1]
      BY <2>1 DEF Memories
    <3>2. x \in (SUBSET TAGMASK) \ {{}}
      BY <2>1, <2>2, <3>1
    <3> HIDE DEF x
    <3>3. [w.tagset[m] EXCEPT ![flip] = x] \in [0..1 -> (SUBSET TAGMASK) \ {{}}]
      BY <2>1, <2>2, <3>1, <3>2
    <3> QED BY <2>1, <2>2, <3>1, <3>3 DEF x
  <2>4. ViewTags(w, mask) = Refocus([w EXCEPT !.tagset = T, !.seltags = F])
    <3>1. [w EXCEPT !.seltags[m] = flip,
                    !.tagset[m][flip] = IF mask = {} THEN @ ELSE mask]
            = [w EXCEPT !.tagset = T, !.seltags = F]
      BY <2>1 DEF Memories
    <3> QED BY <1>2, <3>1 DEF ViewTags, flip
  <2> HIDE DEF T, F
  <2>5. LET u == [w EXCEPT !.tagset = T, !.seltags = F]
        IN  /\ Handles(w, Refocus(u), {}) /\ FocusStays(w, Refocus(u))
            /\ Yields(w, Refocus(u)) /\ (Safe(w) => ~Failed(Refocus(u)))
    BY <2>3, ViewChanged
  <2> QED BY <2>4, <2>5
<1> QED BY <1>1, <1>2

LEMMA ToggleViewTagsKeeps ==
  ASSUME NEW w, Sound(w), NEW mask \in SUBSET TAGMASK
  PROVE  LET v == ToggleViewTags(w, mask)
         IN  /\ Handles(w, v, {}) /\ FocusStays(w, v)
             /\ Yields(w, v) /\ (Safe(w) => ~Failed(v))
<1> DEFINE m == w.selmon
           to == (View(w, m) \ mask) \cup (mask \ View(w, m))
           T == [w.tagset EXCEPT ![m] = [w.tagset[m] EXCEPT ![w.seltags[m]] = to]]
<1>1. CASE to = {}
  BY <1>1, HandlesNothing DEF ToggleViewTags, Yields, Safe
<1>2. CASE to # {}
  <2>1. w \in Memories /\ m \in Mon
    BY DEF Sound, Listed, Memories
  <2>2. to \in SUBSET TAGMASK /\ w.seltags[m] \in 0..1
    BY <2>1, ViewsTyped
  <2>3. ToggleViewTags(w, mask) = Refocus([w EXCEPT !.tagset[m][w.seltags[m]] = to])
    BY <1>2 DEF ToggleViewTags
  <2> HIDE DEF to
  <2>4. T \in [Mon -> [0..1 -> (SUBSET TAGMASK) \ {{}}]] /\ w.seltags \in [Mon -> 0..1]
    BY <1>2, <2>1, <2>2 DEF Memories
  <2>5. [w EXCEPT !.tagset[m][w.seltags[m]] = to]
          = [w EXCEPT !.tagset = T, !.seltags = w.seltags]
    BY <2>1 DEF Memories
  <2> HIDE DEF T
  <2>6. LET u == [w EXCEPT !.tagset = T, !.seltags = w.seltags]
        IN  /\ Handles(w, Refocus(u), {}) /\ FocusStays(w, Refocus(u))
            /\ Yields(w, Refocus(u)) /\ (Safe(w) => ~Failed(Refocus(u)))
    BY <2>4, ViewChanged
  <2> QED BY <2>3, <2>5, <2>6
<1> QED BY <1>1, <1>2

\* The selected client of a monitor is one of its clients.
LEMMA SelectedManaged ==
  ASSUME NEW w, Sound(w), Selected(w) # NoClient
  PROVE  /\ Selected(w) \in Managed(w) /\ Selected(w) \in Client
         /\ Selected(w) \in ToSet(w.clients[w.selmon])
         /\ w.mon[Selected(w)] = w.selmon
<1>1. w.selmon \in Mon
  BY DEF Sound, Listed, Memories
<1>2. Selected(w) \in ToSet(w.clients[w.selmon])
  BY <1>1 DEF Sound, Listed, SelOn, Selected
<1> QED BY <1>1, <1>2, OnItsMonitor DEF Sound

LEMMA TagSelectedKeeps ==
  ASSUME NEW w, Sound(w), NEW mask \in SUBSET TAGMASK
  PROVE  LET v == TagSelected(w, mask)
         IN  /\ Handles(w, v, {Selected(w)}) /\ FocusStays(w, v)
             /\ SameViews(w, v) /\ (Safe(w) => ~Failed(v))
<1>1. CASE Selected(w) = NoClient \/ mask = {}
  BY <1>1, HandlesNothing DEF TagSelected, SameViews, Safe
<1>2. CASE ~(Selected(w) = NoClient \/ mask = {})
  <2> DEFINE c == Selected(w)
             T == [w.tags EXCEPT ![c] = mask]
             I == [w.info EXCEPT ![c] = [tags |-> mask, num |-> w.mon[c]]]
             u == [w EXCEPT !.tags = T, !.info = I]
  <2>1. w \in Memories /\ c \in Client /\ Listed(w)
    BY <1>2, SelectedManaged DEF Sound, Listed
  <2>2. /\ T \in [Client -> SUBSET TAGMASK] /\ T[c] = mask
        /\ I \in [Client -> [tags : SUBSET TAGMASK, num : Mon \cup {-1}]]
        /\ I[c].tags = mask
        /\ \A d \in Client \ {c} : T[d] = w.tags[d] /\ I[d] = w.info[d]
    BY <2>1 DEF Memories
  <2>3. SetClientTagProp([w EXCEPT !.tags[c] = mask], c) = u
    BY <2>1 DEF Memories, SetClientTagProp
  <2> HIDE DEF T, I
  <2>4. /\ u \in Memories /\ u.tags = T /\ u.info = I
        /\ u.nmons = w.nmons /\ u.selmon = w.selmon /\ u.clients = w.clients
        /\ u.stack = w.stack /\ u.sel = w.sel /\ u.mon = w.mon
        /\ u.isfullscreen = w.isfullscreen /\ u.oldstate = w.oldstate
        /\ u.tagset = w.tagset /\ u.seltags = w.seltags /\ u.fault = w.fault
        /\ u.issticky = w.issticky
    BY <2>1, <2>2 DEF Memories
  <2>5. TagSelected(w, mask) = Refocus(u)
    BY <1>2, <2>3 DEF TagSelected
  <2> HIDE DEF u, c
  <2>6. Listed(u) /\ Managed(u) = Managed(w)
    <3>1. u.selmon \in MonsOf(w) /\ \A m \in Mon : SelOn(u, m)
      BY <2>1, <2>4 DEF Listed, SelOn
    <3> QED BY <2>1, <2>4, <3>1, ListedFrame
  <2>7. Managed(w) \subseteq Client
    BY <2>1, OnItsMonitor
  <2>8. Noted(u)
    <3>1. \A d \in Managed(w) : u.info[d].tags = u.tags[d]
      BY <2>2, <2>4, <2>7 DEF Sound, Noted
    <3> QED BY <2>4, <2>6, <3>1 DEF Sound, Noted
  <2>9. Handles(w, u, {c})
    BY <2>2, <2>4, <2>6, <2>7, <2>8 DEF Handles, Sound, OldKept
  <2>10. Safe(w) => Safe(u)
    BY <2>4 DEF Safe, Failed, Selected
  <2>11. SameViews(w, Refocus(u))
    BY <2>4, <2>9, RefocusAfter DEF SameViews
  <2> QED BY <2>5, <2>9, <2>10, <2>11, RefocusAfter DEF c
<1> QED BY <1>1, <1>2

LEMMA ToggleTagsKeeps ==
  ASSUME NEW w, Sound(w), NEW mask \in SUBSET TAGMASK
  PROVE  LET v == ToggleTagsOfSelected(w, mask)
         IN  /\ Handles(w, v, {Selected(w)}) /\ FocusStays(w, v)
             /\ SameViews(w, v) /\ (Safe(w) => ~Failed(v))
<1> DEFINE to == (w.tags[Selected(w)] \ mask) \cup (mask \ w.tags[Selected(w)])
<1>1. CASE Selected(w) = NoClient
  BY <1>1, HandlesNothing DEF ToggleTagsOfSelected, SameViews, Safe
<1>2. CASE Selected(w) # NoClient
  <2>1. to \in SUBSET TAGMASK
    BY <1>2, SelectedManaged DEF Sound, Listed, Memories
  <2>2. ToggleTagsOfSelected(w, mask) = TagSelected(w, to)
    BY <1>2 DEF ToggleTagsOfSelected
  <2> HIDE DEF to
  <2> QED BY <2>1, <2>2, TagSelectedKeeps
<1> QED BY <1>1, <1>2

LEMMA ShiftKeeps ==
  ASSUME NEW w, Sound(w), NEW i
  PROVE  /\ LET v == ShiftViewTo(w, i)
            IN  Handles(w, v, {}) /\ FocusStays(w, v) /\ Yields(w, v)
         /\ LET v == ShiftTagTo(w, i)
            IN  Handles(w, v, {Selected(w)}) /\ FocusStays(w, v) /\ SameViews(w, v)
<1>1. ASSUME NEW v, v = ShiftViewTo(w, i)
      PROVE  Handles(w, v, {}) /\ FocusStays(w, v) /\ Yields(w, v)
  <2>1. CASE v = Fail(w, "hang")
    BY <2>1, FailSound, SameViewsYield
  <2>2. CASE \E mask \in SUBSET TAGMASK : v = ViewTags(w, mask)
    BY <2>2, ViewTagsKeeps
  <2>3. v = Fail(w, "hang") \/ \E mask : v = ViewTags(w, mask \cap TAGMASK)
    BY <1>1 DEF ShiftViewTo
  <2> QED BY <2>1, <2>2, <2>3
<1>2. ASSUME NEW v, v = ShiftTagTo(w, i)
      PROVE  Handles(w, v, {Selected(w)}) /\ FocusStays(w, v) /\ SameViews(w, v)
  <2>1. \A view, occupied : ShiftedTag(view, occupied, i) \in SUBSET TAGMASK
    BY DEF ShiftedTag
  <2>2. \E mask \in SUBSET TAGMASK : v = TagSelected(w, mask)
    BY <1>2, <2>1 DEF ShiftTagTo
  <2> QED BY <2>2, TagSelectedKeeps
<1> QED BY <1>1, <1>2

LEMMA ToggleScratchpadKeeps ==
  ASSUME NEW w, Sound(w), NEW i \in 0..(NScratch - 1)
  PROVE  LET v == ToggleScratchpad(w, i)
         IN  /\ Handles(w, v, {}) /\ FocusStays(w, v)
             /\ KeyboardOk(w) /\ ~Failed(w) => ~Failed(v)
<1> DEFINE m == w.selmon
           pad == {SPTAG(i)}
           c == FirstIn(w.clients[m], { x \in Client : SPTAG(i) \in w.tags[x] })
           toggled == ToggleViewTags(w, pad)
<1>1. pad \in SUBSET TAGMASK
  BY TagCounts DEF SPTAG, TAGMASK
<1>2. w \in Memories /\ Listed(w) /\ m \in Mon /\ w.clients[m] \in Seq(Client)
  BY DEF Sound, Listed, Memories
<1>3. \/ c = NoClient /\ ToSet(w.clients[m]) \cap { x \in Client : SPTAG(i) \in w.tags[x] } = {}
      \/ c \in ToSet(w.clients[m])
  BY <1>2, FirstInList
<1>4. CASE c = NoClient
  <2> DEFINE T == [w.tagset EXCEPT ![m] = [w.tagset[m] EXCEPT
                      ![w.seltags[m]] = w.tagset[m][w.seltags[m]] \cup pad]]
             u == [w EXCEPT !.tagset = T]
  <2>1. ToggleScratchpad(w, i) = [w EXCEPT !.tagset[m][w.seltags[m]] = @ \cup pad]
    BY <1>4 DEF ToggleScratchpad
  <2> HIDE DEF pad, c
  <2>2. T \in [Mon -> [0..1 -> (SUBSET TAGMASK) \ {{}}]] /\ w.seltags \in [Mon -> 0..1]
        /\ w.seltags[m] \in 0..1
    BY <1>1, <1>2 DEF Memories
  <2>3. u = ToggleScratchpad(w, i) /\ u = [w EXCEPT !.tagset = T, !.seltags = w.seltags]
    BY <1>2, <2>1 DEF Memories
  <2>4. T[m][w.seltags[m]] = View(w, m) \cup pad
    BY <1>2, <2>2 DEF Memories, View
  <2> HIDE DEF T
  <2>5. Handles(w, u, {})
    BY <2>2, <2>3, ViewSet
  <2>6. /\ u.tagset = T /\ u.seltags = w.seltags /\ u.selmon = m /\ u.stack = w.stack
        /\ u.sel = w.sel /\ u.mon = w.mon /\ u.tags = w.tags /\ u.issticky = w.issticky
        /\ u.fault = w.fault
    BY <1>2 DEF Memories
  <2> HIDE DEF u
  <2>7. View(u, m) = View(w, m) \cup pad
    BY <2>4, <2>6 DEF View
  <2>8. c \notin ToSet(w.clients[m])
    BY <1>2, <1>4, OnItsMonitor, ClientAssumption
  <2>9. ASSUME NEW d \in ToSet(w.clients[m])
        PROVE  IsVisible(u, d) <=> IsVisible(w, d)
    <3>1. d \in Client /\ w.mon[d] = m
      BY <1>2, OnItsMonitor
    <3>2. SPTAG(i) \notin w.tags[d]
      BY <1>3, <2>8, <3>1
    <3> QED BY <2>6, <2>7, <3>1, <3>2 DEF IsVisible, pad
  <2>10. ToSet(w.stack[m]) = ToSet(w.clients[m])
    BY <1>2 DEF Listed, ListsOn
  <2>11. Shown(u, m) = Shown(w, m)
    BY <2>6, <2>9, <2>10 DEF Shown
  <2>12. Selected(u) = Selected(w)
    BY <2>6 DEF Selected
  <2>13. FocusStays(w, u)
    BY <2>6, <2>9, <2>11, <2>12, SelectedManaged
       DEF FocusStays, FocusOk, KeyboardOk, FocusRight, Failed
  <2> QED BY <2>3, <2>5, <2>6, <2>13 DEF Failed
<1>5. CASE c # NoClient
  <2>1. c \in Managed(w)
    BY <1>2, <1>3, <1>5, OnItsMonitor
  <2>2. Handles(w, toggled, {}) /\ FocusStays(w, toggled) /\ (Safe(w) => ~Failed(toggled))
    BY <1>1, ToggleViewTagsKeeps
  <2>3. ToggleScratchpad(w, i) = IF IsVisible(toggled, c) THEN Focus(toggled, c) ELSE toggled
    BY <1>5 DEF ToggleScratchpad
  <2> HIDE DEF toggled, c
  <2>4. KeyboardOk(w) /\ ~Failed(w) => Safe(toggled)
    BY <2>2, KeyboardSafe DEF FocusStays
  <2> QED BY <2>1, <2>2, <2>3, <2>4, FocusAfter DEF Safe
<1> QED BY <1>4, <1>5

(***************************************************************************)
(* Windows that come, go and change monitors.                               *)
(***************************************************************************)

LEMMA SendMonKeeps ==
  ASSUME NEW w, Sound(w), NEW c \in Managed(w), NEW m \in MonsOf(w)
  PROVE  LET v == SendMon(w, c, m)
         IN  /\ Handles(w, v, {c}) /\ FocusStays(w, v) /\ v.nmons = w.nmons
             /\ SameViews(w, v)
<1> DEFINE off == DetachStack(Detach(w, c), c)
           on == [off EXCEPT !.mon[c] = m, !.tags[c] = View(w, m)]
           listed == AttachStack(Attach(on, c), c)
           noted == SetClientTagProp(listed, c)
<1>1. CASE w.mon[c] = m
  BY <1>1, HandlesNothing DEF SendMon, SameViews
<1>2. CASE w.mon[c] # m
  <2>1. SendMon(w, c, m) = Refocus(noted)
    BY <1>2 DEF SendMon
  <2>2. /\ w \in Memories /\ Listed(w) /\ c \in Client /\ m \in Mon
        /\ Managed(w) \subseteq Client
    BY InRange DEF Sound
  <2>3. Listed(off) /\ SameButLists(w, off) /\ Managed(off) = Managed(w) \ {c}
    BY <2>2, OffLists
  <2>4. View(w, m) \in SUBSET TAGMASK
    BY <2>2, ViewsTyped
  <2> HIDE DEF off
  <2>5. /\ on \in Memories /\ on.nmons = off.nmons /\ on.selmon = off.selmon
        /\ on.clients = off.clients /\ on.stack = off.stack /\ on.sel = off.sel
        /\ on.info = off.info /\ on.isfullscreen = off.isfullscreen
        /\ on.oldstate = off.oldstate /\ on.mon[c] = m
        /\ on.tagset = off.tagset /\ on.seltags = off.seltags
        /\ \A d \in Client \ {c} : on.mon[d] = off.mon[d] /\ on.tags[d] = off.tags[d]
    BY <2>2, <2>3, <2>4 DEF Listed, Memories
  <2> HIDE DEF on
  <2>6. Listed(on) /\ Managed(on) = Managed(w) \ {c}
    <3>1. on.selmon \in MonsOf(off) /\ \A k \in Mon : SelOn(on, k)
      BY <2>3, <2>5 DEF Listed, SelOn
    <3>2. \A d \in Managed(off) : on.mon[d] = off.mon[d]
      BY <2>2, <2>3, <2>5
    <3> QED BY <2>3, <2>5, <3>1, <3>2, ListedFrame
  <2>7. /\ Listed(listed) /\ SameButLists(on, listed)
        /\ Managed(listed) = Managed(on) \cup {c}
    <3>1. c \in Client \ Managed(on) /\ on.mon[c] \in MonsOf(on)
      BY <2>2, <2>3, <2>5, <2>6 DEF SameButLists, MonsOf
    <3> QED BY <2>6, <3>1, OnLists
  <2> HIDE DEF listed
  <2>8. /\ noted \in Memories /\ noted.nmons = listed.nmons /\ noted.selmon = listed.selmon
        /\ noted.clients = listed.clients /\ noted.stack = listed.stack
        /\ noted.sel = listed.sel /\ noted.mon = listed.mon /\ noted.tags = listed.tags
        /\ noted.isfullscreen = listed.isfullscreen /\ noted.oldstate = listed.oldstate
        /\ noted.info[c].tags = listed.tags[c]
        /\ noted.tagset = listed.tagset /\ noted.seltags = listed.seltags
        /\ \A d \in Client \ {c} : noted.info[d] = listed.info[d]
    BY <2>2, <2>7 DEF SetClientTagProp, Listed, Memories
  <2> HIDE DEF noted
  <2>9. Listed(noted) /\ Managed(noted) = Managed(w)
    <3>1. noted.selmon \in MonsOf(listed) /\ \A k \in Mon : SelOn(noted, k)
      BY <2>7, <2>8 DEF Listed, SelOn
    <3>2. Listed(noted) /\ Managed(noted) = Managed(listed)
      BY <2>7, <2>8, <3>1, ListedFrame
    <3> QED BY <2>6, <2>7, <3>2
  <2>10. \A d \in Managed(w) \ {c} : noted.tags[d] = w.tags[d] /\ noted.info[d] = w.info[d]
    BY <2>2, <2>3, <2>5, <2>7, <2>8 DEF SameButLists
  <2>11. noted.isfullscreen = w.isfullscreen /\ noted.oldstate = w.oldstate
    BY <2>3, <2>5, <2>7, <2>8 DEF SameButLists
  <2>12. Handles(w, noted, {c})
    BY <2>8, <2>9, <2>10, <2>11 DEF Handles, Sound, Noted, OldKept
  <2>13. Refocus(noted).nmons = w.nmons
    <3>1. Refocus(noted).nmons = noted.nmons
      BY <2>12, FocusSound DEF Refocus, Handles, SameButFocus
    <3> QED BY <2>3, <2>5, <2>7, <2>8, <3>1 DEF SameButLists
  <2>14. SameViews(w, Refocus(noted))
    <3>1. SameViews(noted, Refocus(noted))
      BY <2>12, RefocusAfter
    <3> QED BY <2>3, <2>5, <2>7, <2>8, <3>1 DEF SameButLists, SameViews
  <2> QED BY <2>1, <2>12, <2>13, <2>14, RefocusAfter
<1> QED BY <1>1, <1>2

LEMMA UnmanageKeeps ==
  ASSUME NEW w, Sound(w), NEW c \in Managed(w)
  PROVE  LET v == Unmanage(w, c)
         IN  /\ Sound(v) /\ Managed(v) = Managed(w) \ {c}
             /\ OldKept(w, v) /\ FocusOk(v)
             /\ \A d \in Managed(v) : v.tags[d] = w.tags[d]
             /\ Safe(w) => ~Failed(v)
<1> DEFINE off == DetachStack(Detach(w, c), c)
           gone == [off EXCEPT !.mon[c] = 0, !.tags[c] = {}, !.issticky = @ \ {c},
                      !.isfloating = @ \ {c}, !.isfullscreen = @ \ {c},
                      !.oldstate = @ \ {c}, !.isurgent = @ \ {c}]
<1>1. Unmanage(w, c) = Refocus(gone)
  BY DEF Unmanage
<1>2. w \in Memories /\ Listed(w) /\ c \in Client /\ Managed(w) \subseteq Client /\ 0 \in Mon
  BY InRange DEF Sound
<1>3. /\ Listed(off) /\ SameButLists(w, off) /\ Managed(off) = Managed(w) \ {c}
      /\ SelectsOther(w, off)
  BY <1>2, OffLists
<1> HIDE DEF off
<1>4. /\ gone \in Memories /\ gone.nmons = off.nmons /\ gone.selmon = off.selmon
      /\ gone.clients = off.clients /\ gone.stack = off.stack /\ gone.sel = off.sel
      /\ gone.info = off.info /\ gone.isfullscreen = off.isfullscreen \ {c}
      /\ gone.oldstate = off.oldstate \ {c}
      /\ gone.issticky = off.issticky \ {c} /\ gone.fault = off.fault
      /\ \A d \in Client \ {c} : gone.mon[d] = off.mon[d] /\ gone.tags[d] = off.tags[d]
  BY <1>2, <1>3 DEF Listed, Memories
<1> HIDE DEF gone
<1>5. Listed(gone) /\ Managed(gone) = Managed(w) \ {c}
  <2>1. gone.selmon \in MonsOf(off) /\ \A k \in Mon : SelOn(gone, k)
    BY <1>3, <1>4 DEF Listed, SelOn
  <2>2. \A d \in Managed(off) : gone.mon[d] = off.mon[d]
    BY <1>2, <1>3, <1>4
  <2> QED BY <1>3, <1>4, <2>1, <2>2, ListedFrame
<1>6. \A d \in Managed(gone) : gone.tags[d] = w.tags[d] /\ gone.info[d] = w.info[d]
  BY <1>2, <1>3, <1>4, <1>5 DEF SameButLists
<1>7. Sound(gone) /\ OldKept(w, gone)
  BY <1>3, <1>4, <1>5, <1>6 DEF Sound, Noted, OldKept, SameButLists
<1>8. Handles(gone, Refocus(gone), {}) /\ FocusOk(Refocus(gone))
  BY <1>7, HandlesNothing, RefocusAfter
<1>9. SameButFocus(gone, Refocus(gone))
  BY <1>7, FocusSound DEF Refocus
<1>10. Safe(w) => Safe(gone)
  <2>1. w.selmon \in Mon /\ gone.selmon = w.selmon /\ gone.fault = w.fault
        /\ gone.issticky \subseteq w.issticky
    BY <1>2, <1>3, <1>4 DEF SameButLists, Memories
  <2>2. gone.stack = off.stack /\ gone.sel = off.sel
    BY <1>4
  <2> QED BY <1>3, <2>1, <2>2 DEF Safe, Failed, Selected, SelectsOther
<1>11. Safe(gone) => ~Failed(Refocus(gone))
  BY <1>7, SafeFocus DEF Refocus, Sound
<1> QED BY <1>1, <1>5, <1>6, <1>7, <1>8, <1>9, <1>10, <1>11 DEF Handles, OldKept, SameButFocus

\* manage, up to the properties it writes: the window's place and its tags are
\* settled, and noted on it; nothing else of any other window has changed.
Introduced(w, v, c) ==
  /\ v \in Memories
  /\ v.nmons = w.nmons /\ v.selmon = w.selmon
  /\ v.clients = w.clients /\ v.stack = w.stack /\ v.sel = w.sel
  /\ v.mon[c] \in MonsOf(w)
  /\ \A d \in Client \ {c} :
       v.mon[d] = w.mon[d] /\ v.tags[d] = w.tags[d] /\ v.info[d] = w.info[d]
  /\ v.isfullscreen \subseteq w.isfullscreen \cup {c}
  /\ OldKept(w, v)
  /\ v.fault = w.fault

LEMMA PlacedKeeps ==
  ASSUME NEW w, Sound(w), NEW c \in Client \ Managed(w), NEW urgent \in BOOLEAN
  PROVE  LET v == Placed(w, c, urgent)
         IN  Introduced(w, v, c) /\ v.info[c] = w.info[c]
<1> DEFINE t == Hints[c].transient
           follows == t \in Managed(w)
           M == IF follows THEN w.mon[t] ELSE w.selmon
           T == IF follows THEN w.tags[t] ELSE RuledTags(w, c)
           U == Flag(w.isurgent, c, urgent)
           F == Flag(w.isfloating, c, ~follows /\ Hints[c].float)
           u == [w EXCEPT !.mon[c] = M, !.tags[c] = T, !.isurgent = U, !.isfloating = F]
<1>1. w \in Memories /\ Listed(w) /\ w.selmon \in Mon /\ MonsOf(w) \subseteq Mon
      /\ Managed(w) \subseteq Client
  BY InRange DEF Sound
<1>2. M \in MonsOf(w)
  BY <1>1, OnItsMonitor DEF Listed
<1>3. T \in SUBSET TAGMASK
  <2>1. View(w, w.selmon) \in SUBSET TAGMASK
    BY <1>1, ViewsTyped
  <2>2. Hints[c].tags \in SUBSET TAGMASK
    BY HintsAssumption
  <2>3. RuledTags(w, c) \in SUBSET TAGMASK
    BY <2>1, <2>2 DEF RuledTags
  <2>4. follows => w.tags[t] \in SUBSET TAGMASK
    BY <1>1 DEF Memories
  <2> QED BY <2>3, <2>4
<1>4. U \in SUBSET Client /\ F \in SUBSET Client
  BY <1>1 DEF Flag, Memories
<1>5. Placed(w, c, urgent) = UpdateWindowType(u, c)
  BY DEF Placed
<1> HIDE DEF M, T, U, F
<1>6. /\ u \in Memories /\ u.nmons = w.nmons /\ u.selmon = w.selmon
      /\ u.clients = w.clients /\ u.stack = w.stack /\ u.sel = w.sel
      /\ u.mon[c] = M /\ u.info = w.info
      /\ \A d \in Client \ {c} : u.mon[d] = w.mon[d] /\ u.tags[d] = w.tags[d]
      /\ u.isfullscreen = w.isfullscreen /\ u.oldstate = w.oldstate
      /\ u.fault = w.fault
  BY <1>1, <1>2, <1>3, <1>4 DEF Memories
<1> HIDE DEF u
<1>7. /\ UpdateWindowType(u, c) \in Memories /\ SameWindows(u, UpdateWindowType(u, c))
      /\ UpdateWindowType(u, c).isfullscreen \subseteq u.isfullscreen \cup {c}
      /\ OldKept(u, UpdateWindowType(u, c))
  BY <1>6, UpdateWindowTypeKeeps
<1> QED BY <1>2, <1>5, <1>6, <1>7 DEF Introduced, SameWindows, OldKept

LEMMA RestoredKeeps ==
  ASSUME NEW w, Sound(w), NEW c \in Client \ Managed(w), NEW p, Introduced(w, p, c),
         p.info[c] = w.info[c]
  PROVE  LET v == SetClientTagProp(Restored(p, c), c)
         IN  /\ Introduced(w, v, c) /\ v.info[c].tags = v.tags[c]
             /\ w.info[c] # NoInfo => v.tags[c] = w.info[c].tags
<1> DEFINE r == Restored(p, c)
<1>1. p \in Memories /\ MonsOf(p) = MonsOf(w) /\ MonsOf(w) \subseteq Mon
  BY InRange DEF Introduced, MonsOf, Sound
<1>2. /\ r \in Memories /\ r.nmons = p.nmons /\ r.selmon = p.selmon
      /\ r.clients = p.clients /\ r.stack = p.stack /\ r.sel = p.sel
      /\ r.mon[c] \in MonsOf(w) /\ r.info = p.info
      /\ \A d \in Client \ {c} : r.mon[d] = p.mon[d] /\ r.tags[d] = p.tags[d]
      /\ r.isfullscreen = p.isfullscreen /\ r.oldstate = p.oldstate
      /\ r.fault = p.fault
      /\ w.info[c] # NoInfo => r.tags[c] = w.info[c].tags
  <2>1. CASE p.info[c] = NoInfo
    BY <1>1, <2>1 DEF Restored, Introduced
  <2>2. CASE p.info[c] # NoInfo
    <3> DEFINE M == IF p.info[c].num \in MonsOf(p) THEN p.info[c].num ELSE p.mon[c]
               T == p.info[c].tags
               x == [p EXCEPT !.tags[c] = T, !.mon[c] = M]
    <3>1. M \in MonsOf(w) /\ M \in Mon /\ T \in SUBSET TAGMASK
      BY <1>1 DEF Introduced, Memories
    <3>2. r = x
      BY <2>2 DEF Restored
    <3>3. T = w.info[c].tags
      OBVIOUS
    <3> HIDE DEF M, T, r
    <3>4. /\ x \in Memories /\ x.nmons = p.nmons /\ x.selmon = p.selmon
          /\ x.clients = p.clients /\ x.stack = p.stack /\ x.sel = p.sel
          /\ x.mon[c] = M /\ x.info = p.info /\ x.tags[c] = T
          /\ \A d \in Client \ {c} : x.mon[d] = p.mon[d] /\ x.tags[d] = p.tags[d]
          /\ x.isfullscreen = p.isfullscreen /\ x.oldstate = p.oldstate
          /\ x.fault = p.fault
      BY <1>1, <3>1 DEF Memories
    <3> QED BY <3>1, <3>2, <3>3, <3>4
  <2> QED BY <2>1, <2>2
<1> HIDE DEF r
<1> DEFINE v == SetClientTagProp(r, c)
<1>3. /\ v \in Memories /\ v.nmons = r.nmons /\ v.selmon = r.selmon
      /\ v.clients = r.clients /\ v.stack = r.stack /\ v.sel = r.sel
      /\ v.mon = r.mon /\ v.tags = r.tags /\ v.info[c].tags = r.tags[c]
      /\ \A d \in Client \ {c} : v.info[d] = r.info[d]
      /\ v.isfullscreen = r.isfullscreen /\ v.oldstate = r.oldstate
      /\ v.fault = r.fault
  BY <1>2 DEF Memories, SetClientTagProp
<1> HIDE DEF v
<1>4. Introduced(w, v, c)
  BY <1>1, <1>2, <1>3 DEF Introduced, OldKept
<1> QED BY <1>2, <1>3, <1>4 DEF r, v

LEMMA ManageKeeps ==
  ASSUME NEW w, Sound(w), NEW c \in Client \ Managed(w), NEW urgent \in BOOLEAN
  PROVE  LET v == Manage(w, c, urgent)
         IN  /\ Sound(v) /\ Managed(v) = Managed(w) \cup {c}
             /\ OldKept(w, v) /\ FocusOk(v)
             /\ \A d \in Managed(w) : v.tags[d] = w.tags[d]
             /\ w.info[c] # NoInfo => v.tags[c] = w.info[c].tags
             /\ MaxMons = 1 /\ ~Failed(w) => ~Failed(v)
<1> DEFINE placed == SetClientTagProp(Restored(Placed(w, c, urgent), c), c)
           floats == Hints[c].transient # NoClient \/ Hints[c].fixed
           settled == IF c \in placed.isfloating THEN placed
                      ELSE [placed EXCEPT !.isfloating = Flag(@, c, floats),
                                          !.oldstate = Flag(@, c, floats)]
           listed == AttachStack(Attach(settled, c), c)
           cleared == IF Selected(listed) # NoClient /\ c \notin listed.isfloating
                      THEN SetFullscreen(listed, Selected(listed), FALSE) ELSE listed
           u == [cleared EXCEPT !.sel[cleared.mon[c]] = c]
<1>1. Manage(w, c, urgent) = Refocus(u)
  BY DEF Manage
<1>2. /\ Introduced(w, placed, c) /\ placed.info[c].tags = placed.tags[c]
      /\ w.info[c] # NoInfo => placed.tags[c] = w.info[c].tags
  BY PlacedKeeps, RestoredKeeps
<1>3. w \in Memories /\ Listed(w) /\ Managed(w) \subseteq Client /\ MonsOf(w) \subseteq Mon
      /\ w.isfullscreen \subseteq Managed(w)
  BY InRange DEF Sound, Noted
<1> HIDE DEF placed, floats
<1>4. /\ settled \in Memories /\ settled.nmons = w.nmons /\ settled.selmon = w.selmon
      /\ settled.clients = w.clients /\ settled.stack = w.stack /\ settled.sel = w.sel
      /\ settled.mon = placed.mon /\ settled.tags = placed.tags
      /\ settled.info = placed.info /\ settled.isfullscreen = placed.isfullscreen
      /\ settled.fault = w.fault
      /\ \A d \in Client \ {c} : d \in settled.oldstate <=> d \in placed.oldstate
  <2>1. CASE c \in placed.isfloating
    BY <1>2, <2>1 DEF Introduced
  <2>2. CASE c \notin placed.isfloating
    <3> DEFINE F == Flag(placed.isfloating, c, floats)
               O == Flag(placed.oldstate, c, floats)
    <3>1. /\ F \in SUBSET Client /\ O \in SUBSET Client
          /\ \A d \in Client \ {c} : d \in O <=> d \in placed.oldstate
      BY <1>2 DEF Introduced, Memories, Flag
    <3>2. settled = [placed EXCEPT !.isfloating = F, !.oldstate = O]
      BY <2>2
    <3> HIDE DEF F, O, settled
    <3> QED BY <1>2, <3>1, <3>2 DEF Introduced, Memories
  <2> QED BY <2>1, <2>2
<1> HIDE DEF settled
<1>5. Listed(settled) /\ Managed(settled) = Managed(w)
  <2>1. settled.selmon \in MonsOf(w) /\ \A k \in Mon : SelOn(settled, k)
    BY <1>3, <1>4 DEF Listed, SelOn
  <2>2. \A d \in Managed(w) : settled.mon[d] = w.mon[d]
    BY <1>2, <1>3, <1>4 DEF Introduced
  <2> QED BY <1>3, <1>4, <2>1, <2>2, ListedFrame
<1>6. /\ Listed(listed) /\ SameButLists(settled, listed)
      /\ Managed(listed) = Managed(w) \cup {c}
  <2>1. settled.mon[c] \in MonsOf(settled) /\ c \in Client \ Managed(settled)
    BY <1>2, <1>4, <1>5 DEF Introduced, MonsOf
  <2> QED BY <1>5, <2>1, OnLists
<1> HIDE DEF listed
<1>7. /\ cleared \in Memories /\ SameWindows(listed, cleared) /\ OldKept(listed, cleared)
      /\ cleared.isfullscreen \subseteq listed.isfullscreen
  <2>1. CASE cleared = listed
    BY <1>6, <2>1 DEF Listed, SameWindows, OldKept
  <2>2. CASE Selected(listed) # NoClient /\ cleared = SetFullscreen(listed, Selected(listed), FALSE)
    <3>1. listed \in Memories /\ Selected(listed) \in Client
      BY <1>6, <2>2, InRange DEF Listed, Selected, Memories
    <3> DEFINE v == SetFullscreen(listed, Selected(listed), FALSE)
    <3>2. /\ v \in Memories /\ SameWindows(listed, v) /\ OldKept(listed, v)
          /\ v.isfullscreen \subseteq listed.isfullscreen
      BY <3>1, SetFullscreenKeeps
    <3> HIDE DEF v, cleared
    <3> QED BY <2>2, <3>2 DEF v
  <2> QED BY <2>1, <2>2
<1> HIDE DEF cleared
<1>8. Listed(cleared) /\ Managed(cleared) = Managed(listed)
  <2>1. cleared.selmon \in MonsOf(listed) /\ \A k \in Mon : SelOn(cleared, k)
    BY <1>6, <1>7 DEF Listed, SelOn, SameWindows
  <2> QED BY <1>6, <1>7, <2>1, ListedFrame DEF SameWindows
<1>9. c \in Managed(cleared) /\ cleared.mon[c] \in Mon /\ c \in ToSet(cleared.clients[cleared.mon[c]])
  BY <1>6, <1>8, OnItsMonitor
<1>10. /\ u \in Memories /\ u.nmons = cleared.nmons /\ u.selmon = cleared.selmon
       /\ u.clients = cleared.clients /\ u.stack = cleared.stack
       /\ u.mon = cleared.mon /\ u.tags = cleared.tags /\ u.info = cleared.info
       /\ u.isfullscreen = cleared.isfullscreen /\ u.oldstate = cleared.oldstate
       /\ u.fault = cleared.fault
       /\ \A k \in Mon : u.sel[k] = IF k = cleared.mon[c] THEN c ELSE cleared.sel[k]
  BY <1>7, <1>9 DEF Memories
<1> HIDE DEF u
<1>11. Listed(u) /\ Managed(u) = Managed(w) \cup {c}
  <2>1. u.selmon \in MonsOf(cleared) /\ \A k \in Mon : SelOn(u, k)
    BY <1>8, <1>9, <1>10 DEF Listed, SelOn
  <2>2. Listed(u) /\ Managed(u) = Managed(cleared)
    BY <1>8, <1>10, <2>1, ListedFrame
  <2> QED BY <1>6, <1>8, <2>2
<1>12. u.tags = placed.tags /\ u.info = placed.info
  BY <1>4, <1>6, <1>7, <1>10 DEF SameButLists, SameWindows
<1>13. \A d \in Managed(w) : u.tags[d] = w.tags[d] /\ u.info[d] = w.info[d]
  BY <1>2, <1>3, <1>12 DEF Introduced
<1>14. OldKept(w, u) /\ u.isfullscreen \subseteq w.isfullscreen \cup {c}
  <2>1. u.isfullscreen \subseteq listed.isfullscreen /\ listed.isfullscreen = placed.isfullscreen
    BY <1>4, <1>6, <1>7, <1>10 DEF SameButLists
  <2>2. ASSUME NEW d \in w.isfullscreen \cap u.isfullscreen
        PROVE  d \in w.oldstate <=> d \in u.oldstate
    <3>1. d \in Client \ {c} /\ d \in placed.isfullscreen /\ d \in listed.isfullscreen
      BY <1>3, <2>1
    <3>2. d \in w.oldstate <=> d \in placed.oldstate
      BY <1>2, <3>1 DEF Introduced, OldKept
    <3>3. d \in placed.oldstate <=> d \in listed.oldstate
      BY <1>4, <1>6, <3>1 DEF SameButLists
    <3>4. d \in listed.oldstate <=> d \in cleared.oldstate
      BY <1>7, <1>10, <2>2, <3>1 DEF OldKept
    <3> QED BY <1>10, <3>2, <3>3, <3>4
  <2> QED BY <1>2, <2>1, <2>2 DEF OldKept, Introduced
<1>15. Sound(u)
  BY <1>2, <1>3, <1>11, <1>12, <1>13, <1>14 DEF Sound, Noted
<1>16. Handles(u, Refocus(u), {}) /\ FocusOk(Refocus(u))
  BY <1>15, HandlesNothing, RefocusAfter
<1>17. SameButFocus(u, Refocus(u))
  BY <1>15, FocusSound DEF Refocus
<1>18. MaxMons = 1 /\ ~Failed(w) => Safe(u)
  <2>1. u.fault = w.fault
    BY <1>4, <1>6, <1>7, <1>10 DEF SameButLists, SameWindows
  <2>2. MaxMons = 1 => u.selmon = cleared.mon[c]
    <3>1. u.selmon \in Mon
      BY <1>10 DEF Memories
    <3>2. MaxMons = 1 => Mon = {0}
      BY DEF Mon
    <3> QED BY <1>9, <3>1, <3>2
  <2>3. MaxMons = 1 => Selected(u) = c
    BY <1>9, <1>10, <2>2 DEF Selected
  <2> QED BY <2>1, <2>3, ClientAssumption DEF Safe, Failed
<1>19. Safe(u) => ~Failed(Refocus(u))
  BY <1>11, SafeFocus DEF Refocus
<1> QED BY <1>1, <1>2, <1>11, <1>12, <1>13, <1>14, <1>16, <1>17, <1>18, <1>19
        DEF Handles, OldKept, SameButFocus

(***************************************************************************)
(* The order of the windows.                                                *)
(***************************************************************************)

\* A list of the elements of t, each once.
Rearranges(s, t) == NoRepeats(s) /\ ToSet(s) = ToSet(t)

\* Monitor m has its clients in another order.
LEMMA Reordered ==
  ASSUME NEW w, Sound(w), NEW m \in MonsOf(w), NEW s \in Seq(Client),
         Rearranges(s, w.clients[m])
  PROVE  LET v == [w EXCEPT !.clients[m] = s]
         IN  /\ Handles(w, v, {}) /\ FocusStays(w, v)
             /\ SameViews(w, v) /\ (Safe(w) => Safe(v))
<1> DEFINE v == [w EXCEPT !.clients[m] = s]
           t == w.stack[m]
           x == w.sel[m]
<1>1. w \in Memories /\ Listed(w) /\ m \in Mon
  BY InRange DEF Sound
<1>2. /\ v \in Memories /\ SameButLists(w, v)
      /\ v.clients = [w.clients EXCEPT ![m] = s] /\ v.stack = w.stack /\ v.sel = w.sel
      /\ v.stack = [w.stack EXCEPT ![m] = t]
      /\ v.sel = [w.sel EXCEPT ![m] = x]
  BY <1>1 DEF Memories, SameButLists
<1>3. /\ NoRepeats(t) /\ ToSet(s) = ToSet(t)
      /\ \A c \in ToSet(s) : w.mon[c] = m
      /\ x \in ToSet(s) \cup {NoClient}
  BY <1>1 DEF Listed, ListsOn, SelOn, Rearranges
<1> HIDE DEF v, t, x
<1>4. Listed(v) /\ Managed(v) = (Managed(w) \ ToSet(w.clients[m])) \cup ToSet(s)
  <2>1. NewLists(w, v, m, s, t, x)
    BY <1>2, <1>3 DEF NewLists, Rearranges
  <2> QED BY <1>1, <2>1, ListsChanged
<1>5. Managed(v) = Managed(w)
  BY <1>4 DEF Managed, Rearranges
<1>6. Handles(w, v, {})
  BY <1>2, <1>4, <1>5 DEF Handles, Sound, Noted, OldKept, SameButLists
<1>7. \A c : IsVisible(v, c) <=> IsVisible(w, c)
  BY <1>2 DEF IsVisible, View, SameButLists
<1>8. Shown(v, v.selmon) = Shown(w, w.selmon) /\ Selected(v) = Selected(w)
  BY <1>2, <1>7 DEF Shown, Selected, SameButLists
<1>9. FocusStays(w, v)
  BY <1>2, <1>7, <1>8 DEF FocusStays, FocusOk, KeyboardOk, FocusRight, Failed, SameButLists
<1>10. SameViews(w, v) /\ (Safe(w) => Safe(v))
  BY <1>2, <1>8 DEF Safe, Failed, SameViews, SameButLists
<1> QED BY <1>6, <1>9, <1>10 DEF v

\* detach and attach bring a client to the front of its list.
LEMMA ToFrontKeeps ==
  ASSUME NEW w, Sound(w), NEW c \in Managed(w)
  PROVE  LET v == Attach(Detach(w, c), c)
         IN  /\ Handles(w, v, {}) /\ FocusStays(w, v)
             /\ SameViews(w, v) /\ (Safe(w) => Safe(v))
<1> DEFINE m == w.mon[c]
           s == Push(Without(w.clients[m], c), c)
<1>1. w \in Memories /\ c \in Client /\ m \in MonsOf(w) /\ m \in Mon
      /\ c \in ToSet(w.clients[m])
  BY OnItsMonitor DEF Sound, Listed
<1>2. NoRepeats(w.clients[m]) /\ w.clients[m] \in Seq(Client)
  BY <1>1 DEF Sound, Listed, ListsOn, Memories
<1>3. s \in Seq(Client) /\ NoRepeats(s) /\ ToSet(s) = ToSet(w.clients[m])
  BY <1>1, <1>2, ToFront
<1>4. Attach(Detach(w, c), c) = [w EXCEPT !.clients[m] = s]
  BY <1>1, <1>2 DEF Attach, Detach, Memories
<1> HIDE DEF m, s
<1>5. LET v == [w EXCEPT !.clients[m] = s]
      IN  /\ Handles(w, v, {}) /\ FocusStays(w, v)
          /\ SameViews(w, v) /\ (Safe(w) => Safe(v))
  BY <1>1, <1>3, Reordered DEF Rearranges
<1> QED BY <1>4, <1>5

\* The last window of a list, and the n-th shown one, are of that list.
LEMMA OnSelectedMonitor ==
  ASSUME NEW w, Sound(w), w.clients[w.selmon] # <<>>
  PROVE  /\ Last(w.clients[w.selmon]) \in ToSet(w.clients[w.selmon])
         /\ Shown(w, w.selmon) \subseteq ToSet(w.clients[w.selmon])
         /\ ToSet(w.clients[w.selmon]) \subseteq Managed(w)
<1>1. Listed(w) /\ w.selmon \in Mon /\ w.clients[w.selmon] \in Seq(Client)
  BY DEF Sound, Listed, Memories
<1>2. Len(w.clients[w.selmon]) \in DOMAIN w.clients[w.selmon]
  BY <1>1
<1>3. ToSet(w.stack[w.selmon]) = ToSet(w.clients[w.selmon])
  BY <1>1 DEF Listed, ListsOn
<1> QED BY <1>1, <1>2, <1>3, OnItsMonitor DEF Last, ToSet, Shown

LEMMA FocusInStackKeeps ==
  ASSUME NEW w, Sound(w), NEW arg
  PROVE  LET v == FocusInStack(w, arg)
         IN  /\ Handles(w, v, {}) /\ FocusStays(w, v)
             /\ SameViews(w, v) /\ (Safe(w) => FailsUnseen(w, v))
<1> DEFINE v == FocusInStack(w, arg)
           c == NthShown(w, StackPos(w, arg))
<1>1. CASE v = Fail(w, "div") /\ StackPosDivides(w, arg)
  <2>1. v.fault = "div"
    BY <1>1 DEF Fail, Sound, Listed, Memories
  <2>2. FailsUnseen(w, v)
    BY <1>1, <2>1 DEF StackPosDivides, NoStackPos, FailsUnseen
  <2> QED BY <1>1, <2>2, FailSound
<1>2. CASE v = w
  BY <1>2, HandlesNothing DEF SameViews, Safe, FailsUnseen
<1>3. CASE v = Focus(w, c) /\ w.clients[w.selmon] # <<>>
  <2>1. c = Last(w.clients[w.selmon]) \/ c \in Shown(w, w.selmon)
    BY DEF NthShown
  <2>2. c \in Managed(w)
    BY <1>3, <2>1, OnSelectedMonitor
  <2> QED BY <1>3, <2>2, HandlesNothing, FocusAfter DEF FailsUnseen
<1> QED BY <1>1, <1>2, <1>3 DEF FocusInStack, NoStackPos

LEMMA PushInStackKeeps ==
  ASSUME NEW w, Sound(w), NEW arg
  PROVE  LET v == PushInStack(w, arg)
         IN  Handles(w, v, {}) /\ FocusStays(w, v) /\ SameViews(w, v)
<1> DEFINE v == PushInStack(w, arg)
           sel == Selected(w)
           s == w.clients[w.selmon]
           hits == { c \in Shown(w, w.selmon) \ {sel} :
                       OthersBefore(w, c) = StackPos(w, arg) - 1 }
           behind == IF hits = {} THEN Last(s) ELSE CHOOSE c \in hits : TRUE
           t == PutAfter(Without(s, sel), sel, behind)
<1>1. CASE v = Fail(w, "div") \/ v = Fail(w, "cycle")
  BY <1>1, FailSound
<1>2. CASE v = w
  BY <1>2, HandlesNothing DEF SameViews
<1>3. CASE sel # NoClient /\ v = Attach(Detach(w, sel), sel)
  <2>1. sel \in Managed(w)
    BY <1>3, SelectedManaged
  <2> QED BY <1>3, <2>1, ToFrontKeeps
<1>4. CASE /\ sel # NoClient /\ s # <<>> /\ behind # sel
           /\ v = [w EXCEPT !.clients[w.selmon] = t]
  <2>1. /\ w \in Memories /\ w.selmon \in MonsOf(w) /\ w.selmon \in Mon
        /\ s \in Seq(Client) /\ NoRepeats(s) /\ sel \in Client /\ sel \in ToSet(s)
    BY <1>4, SelectedManaged DEF Sound, Listed, ListsOn, Memories
  <2>2. behind \in ToSet(s)
    <3>1. hits \subseteq Shown(w, w.selmon)
      OBVIOUS
    <3> HIDE DEF hits
    <3> QED BY <1>4, <3>1, OnSelectedMonitor
  <2> HIDE DEF behind, s, sel
  <2>3. /\ Without(s, sel) \in Seq(Client) /\ NoRepeats(Without(s, sel))
        /\ ToSet(Without(s, sel)) = ToSet(s) \ {sel}
    BY <2>1, WithoutOnce
  <2>4. t \in Seq(Client) /\ NoRepeats(t) /\ ToSet(t) = ToSet(Without(s, sel)) \cup {sel}
    <3> DEFINE u == Without(s, sel)
    <3>1. u \in Seq(Client) /\ NoRepeats(u) /\ sel \notin ToSet(u) /\ behind \in ToSet(u)
      BY <1>4, <2>2, <2>3
    <3> HIDE DEF u
    <3>2. /\ PutAfter(u, sel, behind) \in Seq(Client) /\ NoRepeats(PutAfter(u, sel, behind))
          /\ ToSet(PutAfter(u, sel, behind)) = ToSet(u) \cup {sel}
      BY <2>1, <3>1, PutAfterOnce
    <3> QED BY <3>2 DEF u
  <2>5. ToSet(t) = ToSet(s)
    BY <2>1, <2>3, <2>4
  <2> HIDE DEF t
  <2>6. LET x == [w EXCEPT !.clients[w.selmon] = t]
        IN  Handles(w, x, {}) /\ FocusStays(w, x) /\ SameViews(w, x)
    BY <2>1, <2>4, <2>5, Reordered DEF s, Rearranges
  <2> QED BY <1>4, <2>6
<1> QED BY <1>1, <1>2, <1>3, <1>4 DEF PushInStack, NoStackPos

(***************************************************************************)
(* pushstack's search.  P says of the places of a list of length n which   *)
(* are shown, q is the place of the selected window, and Passed(k) counts  *)
(* the shown places other than q before place k.                           *)
(***************************************************************************)
ShownUpTo(P, k) == { i \in 1..k : i \in P }
OthersUpTo(P, q, k) == ShownUpTo(P, k) \ {q}

LEMMA OthersCount ==
  ASSUME NEW P, NEW q \in Nat, NEW k \in Nat
  PROVE  /\ IsFiniteSet(ShownUpTo(P, k)) /\ Cardinality(ShownUpTo(P, k)) \in Nat
         /\ IsFiniteSet(OthersUpTo(P, q, k))
         /\ Cardinality(OthersUpTo(P, q, k)) =
              Cardinality(ShownUpTo(P, k)) - (IF q \in ShownUpTo(P, k) THEN 1 ELSE 0)
         /\ Cardinality(OthersUpTo(P, q, k + 1)) =
              Cardinality(OthersUpTo(P, q, k)) + (IF k + 1 \in P \ {q} THEN 1 ELSE 0)
         /\ Cardinality(OthersUpTo(P, q, k)) \in Nat
<1>1. ASSUME NEW j \in Nat
      PROVE  IsFiniteSet(ShownUpTo(P, j)) /\ IsFiniteSet(OthersUpTo(P, q, j))
  <2>1. IsFiniteSet(1..j)
    BY FS_Interval
  <2>2. ShownUpTo(P, j) \subseteq 1..j /\ OthersUpTo(P, q, j) \subseteq 1..j
    BY DEF ShownUpTo, OthersUpTo
  <2> QED BY <2>1, <2>2, FS_Subset
<1>2. Cardinality(ShownUpTo(P, k)) \in Nat /\ Cardinality(OthersUpTo(P, q, k)) \in Nat
  BY <1>1, FS_CardinalityType
<1>3. Cardinality(OthersUpTo(P, q, k)) =
        Cardinality(ShownUpTo(P, k)) - (IF q \in ShownUpTo(P, k) THEN 1 ELSE 0)
  BY <1>1, <1>2, FS_RemoveElement DEF OthersUpTo
<1>4. Cardinality(OthersUpTo(P, q, k + 1)) =
        Cardinality(OthersUpTo(P, q, k)) + (IF k + 1 \in P \ {q} THEN 1 ELSE 0)
  <2>1. CASE k + 1 \in P \ {q}
    <3>1. /\ OthersUpTo(P, q, k + 1) = OthersUpTo(P, q, k) \cup {k + 1}
          /\ k + 1 \notin OthersUpTo(P, q, k)
      BY <2>1 DEF OthersUpTo, ShownUpTo
    <3> QED BY <1>1, <1>2, <2>1, <3>1, FS_AddElement
  <2>2. CASE k + 1 \notin P \ {q}
    <3>1. OthersUpTo(P, q, k + 1) = OthersUpTo(P, q, k)
      BY <2>2 DEF OthersUpTo, ShownUpTo
    <3> QED BY <1>2, <2>2, <3>1
  <2> QED BY <2>1, <2>2
<1> QED BY <1>1, <1>2, <1>3, <1>4

\* Among the places other than q there is one with r of them before it, for
\* every r below their number.
LEMMA PlaceOfRank ==
  ASSUME NEW P, NEW n \in Nat, NEW q \in Nat, NEW r \in Nat,
         r < Cardinality(OthersUpTo(P, q, n))
  PROVE  \E k \in 1..n : k \in P /\ k # q /\ Cardinality(OthersUpTo(P, q, k - 1)) = r
<1> DEFINE C(k) == Cardinality(OthersUpTo(P, q, k))
           S == { k \in Nat : k <= n => C(k) <= r }
<1> SUFFICES ASSUME \A k \in 1..n : k \in P /\ k # q => C(k - 1) # r
             PROVE  FALSE
  OBVIOUS
<1>1. \A k \in Nat : C(k) \in Nat /\ C(k + 1) = C(k) + (IF k + 1 \in P \ {q} THEN 1 ELSE 0)
  BY OthersCount
<1>2. C(0) = 0
  <2>1. OthersUpTo(P, q, 0) = {}
    BY DEF OthersUpTo, ShownUpTo
  <2> QED BY <2>1, FS_EmptySet
<1> HIDE DEF C
<1>3. 0 \in S
  BY <1>2
<1>4. ASSUME NEW k \in S
      PROVE  k + 1 \in S
  <2> SUFFICES ASSUME k + 1 <= n
               PROVE  C(k + 1) <= r
    OBVIOUS
  <2>1. k \in Nat /\ C(k) <= r
    BY <1>4
  <2>2. CASE k + 1 \in P \ {q}
    <3>1. k + 1 \in 1..n /\ (k + 1) - 1 = k
      BY <2>1
    <3>2. C(k) # r
      BY <2>2, <3>1
    <3>3. C(k) \in Nat /\ C(k + 1) = C(k) + 1
      BY <1>1, <2>1, <2>2
    <3> QED BY <2>1, <3>2, <3>3
  <2>3. CASE k + 1 \notin P \ {q}
    <3>1. C(k + 1) = C(k) + 0 /\ C(k) \in Nat
      BY <1>1, <2>1, <2>3
    <3> QED BY <2>1, <3>1
  <2> QED BY <2>2, <2>3
<1>5. S \in SUBSET Nat
  OBVIOUS
<1> HIDE DEF S
<1>6. Nat \subseteq S
  BY <1>3, <1>4, <1>5, NatInductionOnSets
<1>7. C(n) <= r
  BY <1>6 DEF S
<1> QED BY <1>1, <1>7 DEF C

\* The places of the selected monitor's list that hold shown windows.
ShownPlaces(w) ==
  { i \in DOMAIN w.clients[w.selmon] : IsVisible(w, w.clients[w.selmon][i]) }

LEMMA PlacesOfShown ==
  ASSUME NEW w, Sound(w), NEW k \in DOMAIN w.clients[w.selmon]
  PROVE  LET c == w.clients[w.selmon][k]
         IN  /\ k \in Nat /\ k - 1 \in Nat /\ Position(w.clients[w.selmon], c) = k
             /\ ShownBefore(w, c) = Cardinality(ShownUpTo(ShownPlaces(w), k - 1))
             /\ c \in Shown(w, w.selmon) <=> k \in ShownPlaces(w)
<1> DEFINE s == w.clients[w.selmon]
           c == s[k]
           P == ShownPlaces(w)
<1>1. /\ Listed(w) /\ w.selmon \in Mon /\ s \in Seq(Client) /\ NoRepeats(s)
      /\ ToSet(s) = ToSet(w.stack[w.selmon])
  BY DEF Sound, Listed, ListsOn, Memories
<1>2. k \in 1..Len(s) /\ Len(s) \in Nat /\ c \in ToSet(s)
  BY <1>1 DEF ToSet
<1>3. w.mon[c] = w.selmon
  BY <1>1, <1>2, OnItsMonitor
<1>4. Position(s, c) \in 1..Len(s) /\ s[Position(s, c)] = c
  BY <1>1, <1>2, PlaceOf
<1>5. Position(s, c) = k
  BY <1>1, <1>2, <1>4 DEF NoRepeats
<1>6. { i \in 1..(k - 1) : IsVisible(w, s[i]) } = ShownUpTo(P, k - 1)
  BY <1>1, <1>2 DEF ShownUpTo, ShownPlaces
<1>7. ShownBefore(w, c) = Cardinality({ i \in 1..(k - 1) : IsVisible(w, s[i]) })
  BY <1>3, <1>5 DEF ShownBefore
<1>8. c \in Shown(w, w.selmon) <=> k \in P
  BY <1>1, <1>2 DEF Shown, ShownPlaces
<1>9. k \in Nat /\ k - 1 \in Nat
  BY <1>2
<1> QED BY <1>5, <1>6, <1>7, <1>8, <1>9

LEMMA PlacesCount ==
  ASSUME NEW w, Sound(w)
  PROVE  /\ Len(w.clients[w.selmon]) \in Nat
         /\ Cardinality(Shown(w, w.selmon)) \in Nat
         /\ Cardinality(Shown(w, w.selmon)) =
              Cardinality(ShownUpTo(ShownPlaces(w), Len(w.clients[w.selmon])))
         /\ Shown(w, w.selmon) # {} => Cardinality(Shown(w, w.selmon)) # 0
         /\ IsFiniteSet(Shown(w, w.selmon))
<1> DEFINE s == w.clients[w.selmon]
           P == ShownPlaces(w)
           T == Shown(w, w.selmon)
           U == ShownUpTo(P, Len(s))
           f == [i \in U |-> s[i]]
<1>1. /\ s \in Seq(Client) /\ NoRepeats(s) /\ ToSet(s) = ToSet(w.stack[w.selmon])
  BY DEF Sound, Listed, ListsOn, Memories
<1>2. Len(s) \in Nat /\ DOMAIN s = 1..Len(s)
  BY <1>1
<1>3. U = P /\ P \subseteq 1..Len(s)
  BY <1>2 DEF ShownUpTo, ShownPlaces
<1>4. IsFiniteSet(U) /\ Cardinality(U) \in Nat
  BY <1>2, OthersCount
<1>5. T = { s[i] : i \in P }
  BY <1>1 DEF Shown, ShownPlaces, ToSet
<1> HIDE DEF T, U
<1>6. \A i, j \in U : s[i] = s[j] => i = j
  BY <1>1, <1>2, <1>3 DEF NoRepeats
<1> HIDE DEF P, s
<1>7. f \in Bijection(U, T)
  <2>1. f \in [U -> T] /\ DOMAIN f = U
    BY <1>3, <1>5
  <2>2. IsInjective(f)
    BY <1>6, <2>1 DEF IsInjective
  <2>3. \A x \in T : \E i \in U : f[i] = x
    BY <1>3, <1>5
  <2> QED BY <2>1, <2>2, <2>3 DEF Bijection, Injection, Surjection
<1>8. ExistsBijection(U, T)
  BY <1>7 DEF ExistsBijection
<1>9. IsFiniteSet(T) /\ Cardinality(T) = Cardinality(U)
  BY <1>4, <1>8, FS_Bijection
<1>10. T # {} => Cardinality(T) # 0
  BY <1>9, FS_EmptySet
<1> QED BY <1>2, <1>4, <1>9, <1>10 DEF s, T, U, P

(***************************************************************************)
(* The order of a list, which pushstack changes for one window only.        *)
(***************************************************************************)
Precedes(s, c, d) == Position(s, c) < Position(s, d)

LEMMA PlaceIs ==
  ASSUME NEW S, NEW s \in Seq(S), NoRepeats(s), NEW i \in 1 .. Len(s)
  PROVE  Position(s, s[i]) = i
<1>1. s[i] \in ToSet(s)
  BY DEF ToSet
<1>2. Position(s, s[i]) \in 1 .. Len(s) /\ s[Position(s, s[i])] = s[i]
  BY <1>1, PlaceOf
<1> QED BY <1>2 DEF NoRepeats

\* The elements of a list come one before the other.
LEMMA InOrder ==
  ASSUME NEW S, NEW s \in Seq(S), NEW c \in ToSet(s), NEW d \in ToSet(s)
  PROVE  /\ ~Precedes(s, c, c)
         /\ c # d => (Precedes(s, c, d) <=> ~Precedes(s, d, c))
         /\ \A e \in ToSet(s) : Precedes(s, c, d) /\ Precedes(s, d, e) => Precedes(s, c, e)
<1>1. \A x \in ToSet(s) : Position(s, x) \in 1 .. Len(s) /\ s[Position(s, x)] = x
  BY PlaceOf
<1>2. \A x \in ToSet(s) : Position(s, x) \in Int
  BY <1>1
<1>3. c # d => Position(s, c) # Position(s, d)
  BY <1>1
<1> QED BY <1>2, <1>3 DEF Precedes

\* Taking an element out leaves the order of the others.
LEMMA WithoutInOrder ==
  ASSUME NEW S, NEW s \in Seq(S), NoRepeats(s), NEW x \in ToSet(s),
         NEW c \in ToSet(s) \ {x}, NEW d \in ToSet(s) \ {x}
  PROVE  Precedes(Without(s, x), c, d) <=> Precedes(s, c, d)
<1> DEFINE t == Without(s, x)
           p == Position(s, x)
<1>1. /\ t \in Seq(S) /\ Len(t) = Len(s) - 1 /\ Len(s) \in Nat
      /\ \A i \in 1 .. Len(s) - 1 : t[i] = IF i < p THEN s[i] ELSE s[i + 1]
  BY WithoutElements
<1>2. NoRepeats(t)
  BY WithoutOnce
<1>3. p \in 1 .. Len(s) /\ s[p] = x
  BY PlaceOf
<1> HIDE DEF t, p
<1>4. ASSUME NEW e \in ToSet(s) \ {x}
      PROVE  /\ Position(s, e) \in 1 .. Len(s) /\ Position(s, e) # p
             /\ Position(t, e) = IF Position(s, e) < p THEN Position(s, e)
                                 ELSE Position(s, e) - 1
  <2> DEFINE k == Position(s, e)
             j == IF k < p THEN k ELSE k - 1
  <2>1. k \in 1 .. Len(s) /\ s[k] = e
    BY PlaceOf
  <2>2. k # p
    BY <1>3, <2>1
  <2> HIDE DEF k
  <2>3. j \in 1 .. Len(s) - 1 /\ (IF j < p THEN j ELSE j + 1) = k
    BY <1>1, <1>3, <2>1, <2>2
  <2>4. t[j] = e
    BY <1>1, <2>1, <2>3
  <2>5. j \in 1 .. Len(t)
    BY <1>1, <2>3
  <2> HIDE DEF j
  <2>6. Position(t, e) = j
    BY <1>1, <1>2, <2>4, <2>5, PlaceIs
  <2> QED BY <2>1, <2>2, <2>6 DEF k, j
<1> DEFINE a == Position(s, c)
           b == Position(s, d)
<1>5. /\ a \in 1 .. Len(s) /\ a # p /\ b \in 1 .. Len(s) /\ b # p
      /\ Position(t, c) = IF a < p THEN a ELSE a - 1
      /\ Position(t, d) = IF b < p THEN b ELSE b - 1
  BY <1>4
<1> HIDE DEF a, b
<1>6. Position(t, c) < Position(t, d) <=> a < b
  BY <1>1, <1>3, <1>5
<1> QED BY <1>6 DEF a, b, t, Precedes

\* Without what was put in, the list is as it was.
LEMMA PushWithout ==
  ASSUME NEW S, NEW s \in Seq(S), NoRepeats(s), NEW x \in S, x \notin ToSet(s)
  PROVE  /\ Without(Push(s, x), x) = s
         /\ \A c \in ToSet(s) : Precedes(Push(s, x), x, c) /\ ~Precedes(Push(s, x), c, x)
<1> DEFINE t == Push(s, x)
<1>1. /\ t \in Seq(S) /\ Len(t) = Len(s) + 1 /\ Len(s) \in Nat
      /\ \A i \in 1 .. Len(t) : t[i] = IF i = 1 THEN x ELSE s[i - 1]
  BY DEF Push
<1>2. NoRepeats(t) /\ ToSet(t) = ToSet(s) \cup {x}
  BY PushOnce
<1> HIDE DEF t
<1>3. Position(t, x) = 1
  BY <1>1, <1>2, PlaceIs
<1>4. x \in ToSet(t)
  BY <1>2
<1>5. /\ Without(t, x) \in Seq(S) /\ Len(Without(t, x)) = Len(t) - 1
      /\ \A i \in 1 .. Len(t) - 1 : Without(t, x)[i] = IF i < 1 THEN t[i] ELSE t[i + 1]
  BY <1>1, <1>3, <1>4, WithoutElements
<1>6. Without(t, x) = s
  <2> DEFINE u == Without(t, x)
  <2>1. u \in Seq(S) /\ Len(u) = Len(s) /\ \A i \in 1 .. Len(s) : u[i] = t[i + 1]
    BY <1>1, <1>5
  <2> HIDE DEF u
  <2>2. \A i \in 1 .. Len(s) : u[i] = s[i]
    BY <1>1, <2>1
  <2>3. u = s
    BY <2>1, <2>2, SeqEqual
  <2> QED BY <2>3 DEF u
<1>7. ASSUME NEW c \in ToSet(s)
      PROVE  Precedes(t, x, c) /\ ~Precedes(t, c, x)
  <2>1. c # x /\ c \in ToSet(t)
    BY <1>2
  <2>2. Position(t, c) \in 1 .. Len(t) /\ t[Position(t, c)] = c
    BY <1>1, <2>1, PlaceOf
  <2>3. Position(t, c) # 1
    BY <1>1, <2>1, <2>2
  <2> QED BY <1>1, <1>3, <2>2, <2>3 DEF Precedes
<1> QED BY <1>6, <1>7 DEF t

LEMMA PutAfterWithout ==
  ASSUME NEW S, NEW s \in Seq(S), NoRepeats(s), NEW x \in S, x \notin ToSet(s),
         NEW d \in ToSet(s)
  PROVE  /\ Without(PutAfter(s, x, d), x) = s
         /\ \A c \in ToSet(s) :
              Precedes(PutAfter(s, x, d), c, x) <=> c = d \/ Precedes(s, c, d)
<1> DEFINE t == PutAfter(s, x, d)
           p == Position(s, d)
<1>1. /\ t \in Seq(S) /\ Len(t) = Len(s) + 1 /\ Len(s) \in Nat
      /\ \A i \in 1 .. Len(s) + 1 :
           t[i] = IF i <= p THEN s[i] ELSE IF i = p + 1 THEN x ELSE s[i - 1]
  BY PutAfterElements
<1>2. NoRepeats(t) /\ ToSet(t) = ToSet(s) \cup {x}
  BY PutAfterOnce
<1>3. p \in 1 .. Len(s) /\ s[p] = d
  BY PlaceOf
<1> HIDE DEF t, p
<1>4. p + 1 \in 1 .. Len(t) /\ t[p + 1] = x
  BY <1>1, <1>3
<1>5. Position(t, x) = p + 1
  BY <1>1, <1>2, <1>4, PlaceIs
<1>6. x \in ToSet(t)
  BY <1>2
<1>7. Without(t, x) = s
  <2> DEFINE u == Without(t, x)
  <2>1. u \in Seq(S) /\ Len(u) = Len(t) - 1
        /\ \A i \in 1 .. Len(t) - 1 : u[i] = IF i < p + 1 THEN t[i] ELSE t[i + 1]
    BY <1>1, <1>5, <1>6, WithoutElements
  <2> HIDE DEF u
  <2>2. ASSUME NEW i \in 1 .. Len(s)
        PROVE  u[i] = s[i]
    <3>1. u[i] = IF i <= p THEN t[i] ELSE t[i + 1]
      BY <1>1, <1>3, <2>1
    <3>2. i <= p => t[i] = s[i]
      BY <1>1
    <3>3. ~(i <= p) => t[i + 1] = s[i]
      BY <1>1, <1>3
    <3> QED BY <3>1, <3>2, <3>3
  <2>3. u = s
    BY <1>1, <2>1, <2>2, SeqEqual
  <2> QED BY <2>3 DEF u
<1>8. ASSUME NEW c \in ToSet(s)
      PROVE  Precedes(t, c, x) <=> c = d \/ Precedes(s, c, d)
  <2> DEFINE k == Position(s, c)
             j == IF k <= p THEN k ELSE k + 1
  <2>1. k \in 1 .. Len(s) /\ s[k] = c
    BY PlaceOf
  <2> HIDE DEF k
  <2>2. j \in 1 .. Len(t) /\ t[j] = c
    BY <1>1, <1>3, <2>1
  <2>3. j < p + 1 <=> k <= p
    BY <1>3, <2>1
  <2> HIDE DEF j
  <2>4. Position(t, c) = j
    BY <1>1, <1>2, <2>2, PlaceIs
  <2>5. k = p <=> c = d
    BY <1>3, <2>1 DEF k, p
  <2>6. k <= p <=> k = p \/ k < p
    BY <1>3, <2>1
  <2> QED BY <1>5, <2>3, <2>4, <2>5, <2>6 DEF Precedes, k, p
<1> QED BY <1>7, <1>8 DEF t

\* The windows on the selected monitor's screen that come before c.
ShownAhead(w, c) ==
  { d \in Shown(w, w.selmon) : Precedes(w.clients[w.selmon], d, c) }

LEMMA ShownBeforeCounts ==
  ASSUME NEW w, Sound(w), NEW c \in ToSet(w.clients[w.selmon])
  PROVE  /\ IsFiniteSet(ShownAhead(w, c))
         /\ ShownBefore(w, c) = Cardinality(ShownAhead(w, c))
         /\ ShownBefore(w, c) \in Nat
<1> DEFINE s == w.clients[w.selmon]
           P == ShownPlaces(w)
           k == Position(s, c)
           U == ShownUpTo(P, k - 1)
           T == ShownAhead(w, c)
           f == [i \in U |-> s[i]]
<1>1. /\ s \in Seq(Client) /\ NoRepeats(s) /\ ToSet(s) = ToSet(w.stack[w.selmon])
  BY DEF Sound, Listed, ListsOn, Memories
<1>2. k \in 1 .. Len(s) /\ s[k] = c /\ Len(s) \in Nat /\ DOMAIN s = 1 .. Len(s)
  BY <1>1, PlaceOf
<1>3. k - 1 \in Nat /\ ShownBefore(w, c) = Cardinality(U)
  <2> DEFINE e == s[k]
  <2>1. /\ k \in Nat /\ k - 1 \in Nat /\ Position(s, e) = k
        /\ ShownBefore(w, e) = Cardinality(ShownUpTo(P, k - 1))
        /\ e \in Shown(w, w.selmon) <=> k \in P
    BY <1>2, PlacesOfShown
  <2> QED BY <1>2, <2>1
<1>4. IsFiniteSet(U) /\ Cardinality(U) \in Nat
  BY <1>3, OthersCount
<1>5. ASSUME NEW i \in U
      PROVE  i \in 1 .. Len(s) /\ s[i] \in T
  <2>1. i \in 1 .. Len(s) /\ i \in P /\ i < k
    BY <1>2 DEF ShownUpTo
  <2>2. s[i] \in Shown(w, w.selmon)
    BY <1>1, <1>2, <2>1 DEF ShownPlaces, Shown, ToSet
  <2>3. Position(s, s[i]) = i
    BY <1>1, <2>1, PlaceIs
  <2> QED BY <2>1, <2>2, <2>3 DEF ShownAhead, Precedes
<1>6. ASSUME NEW d \in T
      PROVE  \E i \in U : s[i] = d
  <2>1. d \in ToSet(s) /\ IsVisible(w, d) /\ Position(s, d) < k
    BY <1>1 DEF ShownAhead, Shown, Precedes
  <2>2. Position(s, d) \in 1 .. Len(s) /\ s[Position(s, d)] = d
    BY <1>1, <2>1, PlaceOf
  <2>3. Position(s, d) \in P
    BY <1>2, <2>1, <2>2 DEF ShownPlaces
  <2>4. Position(s, d) \in 1 .. k - 1
    BY <1>2, <2>1, <2>2
  <2> QED BY <2>2, <2>3, <2>4 DEF ShownUpTo
<1> HIDE DEF U, T, k
<1>7. f \in Bijection(U, T)
  <2>1. f \in [U -> T] /\ DOMAIN f = U
    BY <1>5
  <2>2. IsInjective(f)
    BY <1>1, <1>2, <1>5, <2>1 DEF IsInjective, NoRepeats
  <2>3. \A x \in T : \E i \in U : f[i] = x
    BY <1>6
  <2> QED BY <2>1, <2>2, <2>3 DEF Bijection, Injection, Surjection
<1>8. ExistsBijection(U, T)
  BY <1>7 DEF ExistsBijection
<1>9. IsFiniteSet(T) /\ Cardinality(T) = Cardinality(U)
  BY <1>4, <1>8, FS_Bijection
<1> QED BY <1>3, <1>4, <1>9 DEF T

\* Every shown window has its own number of shown ones before it.
LEMMA RanksDiffer ==
  ASSUME NEW w, Sound(w), NEW c \in Shown(w, w.selmon), NEW d \in Shown(w, w.selmon),
         ShownBefore(w, c) = ShownBefore(w, d)
  PROVE  c = d
<1> DEFINE s == w.clients[w.selmon]
<1>1. s \in Seq(Client) /\ c \in ToSet(s) /\ d \in ToSet(s) /\ ToSet(s) = ToSet(w.stack[w.selmon])
  BY DEF Sound, Listed, ListsOn, Memories, Shown
<1>2. \A x, y \in Shown(w, w.selmon) : Precedes(s, x, y) => ShownBefore(w, x) # ShownBefore(w, y)
  <2> SUFFICES ASSUME NEW x \in Shown(w, w.selmon), NEW y \in Shown(w, w.selmon),
                      Precedes(s, x, y)
               PROVE  ShownBefore(w, x) # ShownBefore(w, y)
    OBVIOUS
  <2>1. Shown(w, w.selmon) \subseteq ToSet(s)
    BY <1>1 DEF Shown
  <2>2. ShownAhead(w, x) \subseteq ShownAhead(w, y)
    <3>1. ASSUME NEW z \in ToSet(s), Precedes(s, z, x)
          PROVE  Precedes(s, z, y)
      BY <1>1, <2>1, <3>1, InOrder
    <3> QED BY <2>1, <3>1 DEF ShownAhead
  <2>3. x \in ShownAhead(w, y) /\ x \notin ShownAhead(w, x)
    BY <1>1, <2>1, InOrder DEF ShownAhead
  <2>4. /\ IsFiniteSet(ShownAhead(w, y))
        /\ ShownBefore(w, x) = Cardinality(ShownAhead(w, x))
        /\ ShownBefore(w, y) = Cardinality(ShownAhead(w, y))
        /\ ShownBefore(w, x) \in Nat /\ ShownBefore(w, y) \in Nat
    BY <2>1, ShownBeforeCounts
  <2>5. Cardinality(ShownAhead(w, x)) < Cardinality(ShownAhead(w, y))
    BY <2>2, <2>3, <2>4, FS_Subset
  <2> QED BY <2>4, <2>5
<1>3. c # d => Precedes(s, c, d) \/ Precedes(s, d, c)
  BY <1>1, InOrder
<1> QED BY <1>2, <1>3

\* The ranks of the shown windows are the numbers below how many there are.
LEMMA RanksBelow ==
  ASSUME NEW w, Sound(w)
  PROVE  /\ \A c \in Shown(w, w.selmon) :
              ShownBefore(w, c) \in 0 .. Cardinality(Shown(w, w.selmon)) - 1
         /\ \A r \in 0 .. Cardinality(Shown(w, w.selmon)) - 1 :
              \E c \in Shown(w, w.selmon) : ShownBefore(w, c) = r
<1> DEFINE s == w.clients[w.selmon]
           T == Shown(w, w.selmon)
           N == Cardinality(T)
           P == ShownPlaces(w)
<1>1. s \in Seq(Client) /\ T \subseteq ToSet(s)
  BY DEF Sound, Listed, ListsOn, Memories, Shown
<1>2. N \in Nat /\ N = Cardinality(ShownUpTo(P, Len(s))) /\ Len(s) \in Nat
  BY PlacesCount
<1>3. ASSUME NEW c \in T
      PROVE  ShownBefore(w, c) \in 0 .. N - 1
  <2>1. /\ ShownBefore(w, c) = Cardinality(ShownAhead(w, c)) /\ ShownBefore(w, c) \in Nat
    BY <1>1, ShownBeforeCounts
  <2>2. ShownAhead(w, c) \subseteq T /\ c \notin ShownAhead(w, c)
    BY <1>1, InOrder DEF ShownAhead
  <2>0. IsFiniteSet(T)
    BY PlacesCount
  <2> HIDE DEF T
  <2>3. Cardinality(ShownAhead(w, c)) < N
    BY <1>2, <2>0, <2>1, <2>2, FS_Subset
  <2> QED BY <1>2, <2>1, <2>3
<1>4. ASSUME NEW r \in 0 .. N - 1
      PROVE  \E c \in T : ShownBefore(w, c) = r
  <2> DEFINE q == Len(s) + 1
  <2>1. ASSUME NEW k \in Nat, k < q
        PROVE  OthersUpTo(P, q, k) = ShownUpTo(P, k)
    BY <1>2, <2>1 DEF OthersUpTo, ShownUpTo
  <2>2. r < Cardinality(OthersUpTo(P, q, Len(s))) /\ q \in Nat /\ r \in Nat
    BY <1>2, <2>1
  <2>3. PICK k \in 1 .. Len(s) : k \in P /\ Cardinality(OthersUpTo(P, q, k - 1)) = r
    BY <1>2, <2>2, PlaceOfRank
  <2>4. k - 1 \in Nat /\ k - 1 < q /\ k \in DOMAIN s
    BY <1>1, <1>2, <2>3
  <2> DEFINE c == s[k]
  <2>5. /\ k \in Nat /\ k - 1 \in Nat /\ Position(s, c) = k
        /\ ShownBefore(w, c) = Cardinality(ShownUpTo(P, k - 1))
        /\ c \in T <=> k \in P
    BY <2>4, PlacesOfShown
  <2>6. Cardinality(ShownUpTo(P, k - 1)) = r
    BY <2>1, <2>3, <2>4
  <2> QED BY <2>3, <2>5, <2>6
<1> QED BY <1>3, <1>4

\* The search of pushstack ends at a window: with a position that is relative,
\* or the first one, the selected window never becomes its own successor.
LEMMA PushFindsPlace ==
  ASSUME NEW w, Sound(w), NEW arg, arg.rel, arg.i \in Int,
         Selected(w) # NoClient, Shown(w, w.selmon) # {}, StackPos(w, arg) # 0
  PROVE  \E c \in Shown(w, w.selmon) \ {Selected(w)} :
           OthersBefore(w, c) = StackPos(w, arg) - 1
<1> DEFINE s == w.clients[w.selmon]
           sel == Selected(w)
           P == ShownPlaces(w)
           q == Position(s, sel)
           N == Cardinality(Shown(w, w.selmon))
           r == StackPos(w, arg) - 1
           B == Cardinality(ShownUpTo(P, q - 1))
<1>1. s \in Seq(Client) /\ sel \in ToSet(s)
  BY SelectedManaged DEF Sound, Listed, Memories
<1>2. q \in DOMAIN s /\ s[q] = sel
  BY <1>1, PlaceOf
<1>3. /\ q \in Nat /\ q - 1 \in Nat /\ ShownBefore(w, sel) = B
      /\ sel \in Shown(w, w.selmon) <=> q \in P
  <2> DEFINE c == s[q]
  <2>1. /\ q \in Nat /\ q - 1 \in Nat /\ Position(s, c) = q
        /\ ShownBefore(w, c) = Cardinality(ShownUpTo(P, q - 1))
        /\ c \in Shown(w, w.selmon) <=> q \in P
    BY <1>2, PlacesOfShown
  <2> QED BY <1>2, <2>1
<1>4. Len(s) \in Nat /\ N \in Nat /\ N # 0 /\ N = Cardinality(ShownUpTo(P, Len(s)))
  BY PlacesCount
<1>5. B \in Nat
  BY <1>3, OthersCount
<1>6. StackPos(w, arg) = (B + arg.i) % N
  BY <1>3 DEF StackPos
<1> HIDE DEF B, N, q, P, s
<1>7. (B + arg.i) % N \in 0..(N - 1)
  BY <1>4, <1>5
<1>8. r \in Nat /\ r < N - 1
  BY <1>4, <1>6, <1>7
<1>9. /\ Cardinality(OthersUpTo(P, q, Len(s))) \in Nat
      /\ Cardinality(OthersUpTo(P, q, Len(s))) =
           N - (IF q \in ShownUpTo(P, Len(s)) THEN 1 ELSE 0)
  BY <1>3, <1>4, OthersCount
<1> HIDE DEF r
<1>10. r < Cardinality(OthersUpTo(P, q, Len(s)))
  BY <1>4, <1>8, <1>9
<1>11. PICK k \in 1..Len(s) :
         k \in P /\ k # q /\ Cardinality(OthersUpTo(P, q, k - 1)) = r
  BY <1>3, <1>4, <1>8, <1>10, PlaceOfRank
<1> DEFINE c == s[k]
<1>12. k \in DOMAIN s
  BY <1>1, <1>11
<1>13. /\ k \in Nat /\ k - 1 \in Nat /\ Position(s, c) = k
       /\ ShownBefore(w, c) = Cardinality(ShownUpTo(P, k - 1))
       /\ c \in Shown(w, w.selmon)
  <2>1. /\ k \in Nat /\ k - 1 \in Nat /\ Position(s, c) = k
        /\ ShownBefore(w, c) = Cardinality(ShownUpTo(P, k - 1))
        /\ c \in Shown(w, w.selmon) <=> k \in P
    BY <1>12, PlacesOfShown DEF s, P
  <2> QED BY <1>11, <2>1
<1>14. c # sel
  BY <1>2, <1>11, <1>13 DEF q
<1>15. q \in ShownUpTo(P, k - 1) <=> (q \in P /\ q < k)
  <2>1. q \in 1..(k - 1) <=> q < k
    <3>1. q >= 1
      BY <1>3
    <3> QED BY <1>3, <1>13, <3>1
  <2> QED BY <2>1 DEF ShownUpTo
<1>16. OthersBefore(w, c) =
         ShownBefore(w, c) - (IF q \in ShownUpTo(P, k - 1) THEN 1 ELSE 0)
  BY <1>3, <1>13, <1>15 DEF OthersBefore, q, s
<1>17. Cardinality(OthersUpTo(P, q, k - 1)) =
         Cardinality(ShownUpTo(P, k - 1)) - (IF q \in ShownUpTo(P, k - 1) THEN 1 ELSE 0)
  <2>1. ASSUME NEW j \in Nat
        PROVE  Cardinality(OthersUpTo(P, q, j)) =
                 Cardinality(ShownUpTo(P, j)) - (IF q \in ShownUpTo(P, j) THEN 1 ELSE 0)
    BY <1>3, OthersCount
  <2> QED BY <1>13, <2>1
<1>18. OthersBefore(w, c) = r
  BY <1>11, <1>13, <1>16, <1>17
<1> QED BY <1>13, <1>14, <1>18 DEF r

\* Other windows have before them the others that are shown and precede them.
LEMMA OthersBeforeCounts ==
  ASSUME NEW w, Sound(w), NEW c \in ToSet(w.clients[w.selmon]), Selected(w) # NoClient
  PROVE  /\ OthersBefore(w, c) = Cardinality(ShownAhead(w, c) \ {Selected(w)})
         /\ OthersBefore(w, c) \in Nat
<1> DEFINE sel == Selected(w)
           T == ShownAhead(w, c)
<1>1. IsFiniteSet(T) /\ ShownBefore(w, c) = Cardinality(T) /\ ShownBefore(w, c) \in Nat
  BY ShownBeforeCounts
<1>2. OthersBefore(w, c) = ShownBefore(w, c) - (IF sel \in T THEN 1 ELSE 0)
  BY DEF OthersBefore, ShownAhead, Precedes
<1> HIDE DEF T, sel
<1>3. Cardinality(T \ {sel}) \in Nat
  <2>1. IsFiniteSet(T \ {sel})
    BY <1>1, FS_RemoveElement
  <2> QED BY <2>1, FS_CardinalityType
<1>4. Cardinality(T \ {sel}) = Cardinality(T) - (IF sel \in T THEN 1 ELSE 0)
  <2>1. CASE sel \in T
    BY <1>1, <1>3, <2>1, FS_RemoveElement
  <2>2. CASE sel \notin T
    <3>1. T \ {sel} = T
      BY <2>2
    <3> QED BY <1>1, <2>2, <3>1
  <2> QED BY <2>1, <2>2
<1> QED BY <1>1, <1>2, <1>3, <1>4 DEF T, sel

\* What pushstack does with a relative position: the selected window goes to
\* that place among the shown ones, and the others stay in their order.
PushedTo(w, v, n) ==
  LET m == w.selmon
      t == v.clients[m]
  IN  /\ Sound(v) /\ v.selmon = m /\ v.sel = w.sel
      /\ Shown(v, m) = Shown(w, m)
      /\ Without(t, Selected(w)) = Without(w.clients[m], Selected(w))
      /\ t \in Seq(Client) /\ ToSet(t) = ToSet(w.clients[m])
      /\ Cardinality({ d \in Shown(w, m) : Precedes(t, d, Selected(w)) }) = n

LEMMA ReorderedShows ==
  ASSUME NEW w, Sound(w), NEW t \in Seq(Client),
         Rearranges(t, w.clients[w.selmon])
  PROVE  LET v == [w EXCEPT !.clients[w.selmon] = t]
         IN  /\ Sound(v) /\ v.selmon = w.selmon /\ v.sel = w.sel
             /\ Shown(v, w.selmon) = Shown(w, w.selmon)
             /\ v.clients[w.selmon] = t
<1> DEFINE v == [w EXCEPT !.clients[w.selmon] = t]
<1>1. w \in Memories /\ w.selmon \in MonsOf(w) /\ w.selmon \in Mon
  BY DEF Sound, Listed, Memories
<1>2. Sound(v)
  BY <1>1, Reordered DEF Handles
<1>3. /\ v.selmon = w.selmon /\ v.sel = w.sel /\ v.stack = w.stack /\ v.mon = w.mon
      /\ v.tags = w.tags /\ v.issticky = w.issticky
      /\ v.tagset = w.tagset /\ v.seltags = w.seltags
      /\ v.clients[w.selmon] = t
  BY <1>1 DEF Memories
<1> HIDE DEF v
<1>4. Shown(v, w.selmon) = Shown(w, w.selmon)
  BY <1>3 DEF Shown, IsVisible, View
<1> QED BY <1>2, <1>3, <1>4 DEF v

LEMMA PushedToPlace ==
  ASSUME NEW w, Sound(w), NEW arg, arg.rel, arg.i \in Int,
         Selected(w) \in Shown(w, w.selmon)
  PROVE  PushedTo(w, PushInStack(w, arg), StackPos(w, arg))
<1> DEFINE v == PushInStack(w, arg)
           m == w.selmon
           sel == Selected(w)
           s == w.clients[m]
           n == StackPos(w, arg)
           hits == { c \in Shown(w, m) \ {sel} : OthersBefore(w, c) = n - 1 }
           behind == IF hits = {} THEN Last(s) ELSE CHOOSE c \in hits : TRUE
           u == Without(s, sel)
<1>1. /\ w \in Memories /\ m \in Mon /\ m \in MonsOf(w)
      /\ s \in Seq(Client) /\ NoRepeats(s)
      /\ ToSet(s) = ToSet(w.stack[m]) /\ Shown(w, m) \subseteq ToSet(s)
  BY DEF Sound, Listed, ListsOn, Memories, Shown
<1>2. sel # NoClient /\ sel \in ToSet(s) /\ sel \in Client /\ w.mon[sel] = m
  <2>1. sel \in Client
    BY <1>1 DEF ToSet
  <2>2. sel # NoClient
    BY <2>1, ClientAssumption
  <2> QED BY <2>1, <2>2, SelectedManaged
<1>3. ~StackPosDivides(w, arg) /\ ~NoStackPos(w, arg)
  <2>1. s # <<>>
    BY <1>2 DEF ToSet
  <2> QED BY <1>2, <2>1 DEF StackPosDivides, NoStackPos
<1>4. u \in Seq(Client) /\ NoRepeats(u) /\ ToSet(u) = ToSet(s) \ {sel}
  BY <1>1, <1>2, WithoutOnce
<1>5. n \in Nat
  <2>1. ShownBefore(w, sel) \in Nat
    BY <1>2, ShownBeforeCounts
  <2>2. Cardinality(Shown(w, m)) \in Nat /\ Cardinality(Shown(w, m)) # 0
    BY PlacesCount
  <2>3. n = (ShownBefore(w, sel) + arg.i) % Cardinality(Shown(w, m))
    BY DEF StackPos
  <2> HIDE DEF n
  <2> QED BY <2>1, <2>2, <2>3
<1>6. CASE n = 0
  <2> DEFINE t == Push(u, sel)
  <2>1. v = Attach(Detach(w, sel), sel)
    BY <1>2, <1>3, <1>6 DEF PushInStack
  <2>2. v = [w EXCEPT !.clients[m] = t]
    <3>1. w.clients[m] = s /\ w.clients \in [Mon -> Seq(Client)]
      BY <1>1 DEF Memories
    <3>2. Detach(w, sel) = [w EXCEPT !.clients[m] = u]
      BY <1>2 DEF Detach
    <3>3. Detach(w, sel).clients[m] = u /\ Detach(w, sel).mon[sel] = m
      BY <1>1, <1>2, <3>1, <3>2 DEF Memories
    <3>4. Attach(Detach(w, sel), sel) = [Detach(w, sel) EXCEPT !.clients[m] = t]
      BY <3>3 DEF Attach
    <3> HIDE DEF t, u, s, m, sel, v
    <3>5. [[w EXCEPT !.clients[m] = u] EXCEPT !.clients[m] = t] = [w EXCEPT !.clients[m] = t]
      BY <1>1, <3>1 DEF Memories
    <3> QED BY <2>1, <3>2, <3>4, <3>5
  <2>3. t \in Seq(Client) /\ Rearranges(t, s)
    BY <1>1, <1>2, ToFront DEF Rearranges
  <2>4. /\ Without(t, sel) = u
        /\ \A c \in ToSet(u) : ~Precedes(t, c, sel)
    BY <1>2, <1>4, PushWithout
  <2>5. ~Precedes(t, sel, sel)
    BY <1>2, <2>3, InOrder DEF Rearranges
  <2>6. { d \in Shown(w, m) : Precedes(t, d, sel) } = {}
    BY <1>1, <1>4, <2>4, <2>5
  <2>7. Cardinality({ d \in Shown(w, m) : Precedes(t, d, sel) }) = n
    BY <1>6, <2>6, FS_EmptySet
  <2> HIDE DEF t
  <2>8. LET x == [w EXCEPT !.clients[w.selmon] = t]
        IN  /\ Sound(x) /\ x.selmon = w.selmon /\ x.sel = w.sel
            /\ Shown(x, w.selmon) = Shown(w, w.selmon)
            /\ x.clients[w.selmon] = t
    BY <2>3, ReorderedShows
  <2> HIDE DEF u, s, v, n
  <2>9. ToSet(t) = ToSet(s)
    BY <2>3 DEF Rearranges
  <2> QED BY <2>2, <2>3, <2>4, <2>7, <2>8, <2>9 DEF PushedTo, u, s, v, n
<1>7. CASE n # 0
  <2> DEFINE t == PutAfter(u, sel, behind)
  <2>1. behind \in hits
    <3>1. hits # {}
      BY <1>2, <1>7, PushFindsPlace
    <3> QED BY <3>1
  <2>2. behind \in Shown(w, m) /\ behind # sel /\ OthersBefore(w, behind) = n - 1
    BY <2>1
  <2>3. v = [w EXCEPT !.clients[m] = t]
    BY <1>2, <1>3, <1>7, <2>2 DEF PushInStack
  <2> HIDE DEF behind, hits
  <2>4. behind \in ToSet(u)
    BY <1>1, <1>4, <2>2
  <2>5. t \in Seq(Client) /\ Rearranges(t, s)
    <3> HIDE DEF u
    <3>1. t \in Seq(Client) /\ NoRepeats(t) /\ ToSet(t) = ToSet(u) \cup {sel}
      BY <1>2, <1>4, <2>4, PutAfterOnce
    <3> QED BY <1>2, <1>4, <3>1 DEF Rearranges
  <2>6. /\ Without(t, sel) = u
        /\ \A c \in ToSet(u) : Precedes(t, c, sel) <=> c = behind \/ Precedes(u, c, behind)
    <3> HIDE DEF u
    <3> QED BY <1>2, <1>4, <2>4, PutAfterWithout
  <2>7. ~Precedes(t, sel, sel)
    BY <1>2, <2>5, InOrder DEF Rearranges
  <2>8. \A c \in ToSet(u) : Precedes(u, c, behind) <=> Precedes(s, c, behind)
    BY <1>1, <1>2, <1>4, <2>4, WithoutInOrder
  <2>9. { d \in Shown(w, m) : Precedes(t, d, sel) } =
          (ShownAhead(w, behind) \ {sel}) \cup {behind}
    BY <1>1, <1>4, <2>2, <2>6, <2>7, <2>8 DEF ShownAhead
  <2>10. behind \notin ShownAhead(w, behind)
    BY <1>1, <2>2, InOrder DEF ShownAhead
  <2>11. /\ IsFiniteSet(ShownAhead(w, behind) \ {sel})
         /\ Cardinality(ShownAhead(w, behind) \ {sel}) = n - 1
    <3>1. behind \in ToSet(s)
      BY <1>1, <2>2
    <3>2. IsFiniteSet(ShownAhead(w, behind))
      BY <3>1, ShownBeforeCounts
    <3> QED BY <1>2, <2>2, <3>1, <3>2, OthersBeforeCounts, FS_RemoveElement
  <2> HIDE DEF t, n
  <2>12. Cardinality({ d \in Shown(w, m) : Precedes(t, d, sel) }) = n
    BY <1>5, <2>9, <2>10, <2>11, FS_AddElement
  <2>13. LET x == [w EXCEPT !.clients[w.selmon] = t]
        IN  /\ Sound(x) /\ x.selmon = w.selmon /\ x.sel = w.sel
            /\ Shown(x, w.selmon) = Shown(w, w.selmon)
            /\ x.clients[w.selmon] = t
    BY <2>5, ReorderedShows
  <2> HIDE DEF u, s, v
  <2>14. ToSet(t) = ToSet(s)
    BY <2>5 DEF Rearranges
  <2> QED BY <2>3, <2>5, <2>6, <2>12, <2>13, <2>14 DEF PushedTo, u, s, v, n
<1> QED BY <1>6, <1>7

\* Arithmetic of stackpos: one step round a ring of n places.
LEMMA RingSteps ==
  ASSUME NEW n \in Nat \ {0}, NEW r \in 0 .. n - 1
  PROVE  /\ (r + 1) % n = IF r + 1 = n THEN 0 ELSE r + 1
         /\ (r + -1) % n = IF r = 0 THEN n - 1 ELSE r - 1
<1>1. ASSUME NEW x \in 0 .. n - 1
      PROVE  x % n = x
  OBVIOUS
<1>2. n % n = 0
  OBVIOUS
<1>3. (-1) % n = n - 1
  <2>1. n - 1 \in 0 .. n - 1 /\ -1 = n * (-1) + (n - 1)
    OBVIOUS
  <2> QED BY <2>1
<1> QED BY <1>1, <1>2, <1>3

\* The windows ahead of one that moves are told by their number, if the others
\* stay in their order.
LEMMA SameAhead ==
  ASSUME NEW w, Sound(w), NEW v, Sound(v), v.selmon = w.selmon, v.sel = w.sel,
         Shown(v, w.selmon) = Shown(w, w.selmon),
         ToSet(v.clients[w.selmon]) = ToSet(w.clients[w.selmon]),
         Without(v.clients[w.selmon], Selected(w)) =
           Without(w.clients[w.selmon], Selected(w)),
         Selected(w) \in Shown(w, w.selmon),
         ShownBefore(v, Selected(w)) = ShownBefore(w, Selected(w)),
         NEW c \in Shown(w, w.selmon)
  PROVE  ShownBefore(v, c) = ShownBefore(w, c)
<1> DEFINE m == w.selmon
           V == Shown(w, m)
           sel == Selected(w)
           s == w.clients[m]
           t == v.clients[m]
           A == ShownAhead(w, sel)
           B == ShownAhead(v, sel)
<1>1. /\ s \in Seq(Client) /\ NoRepeats(s) /\ ToSet(s) = ToSet(w.stack[m])
      /\ t \in Seq(Client) /\ NoRepeats(t) /\ ToSet(t) = ToSet(s)
      /\ V \subseteq ToSet(s)
  BY DEF Sound, Listed, ListsOn, Memories, Shown
<1>2. ASSUME NEW x \in ToSet(s) \ {sel}, NEW y \in ToSet(s) \ {sel}
      PROVE  Precedes(t, x, y) <=> Precedes(s, x, y)
  <2>1. Precedes(Without(s, sel), x, y) <=> Precedes(s, x, y)
    BY <1>1, WithoutInOrder
  <2>2. Precedes(Without(t, sel), x, y) <=> Precedes(t, x, y)
    BY <1>1, WithoutInOrder
  <2> QED BY <2>1, <2>2
<1>3. /\ A = { d \in V : Precedes(s, d, sel) } /\ B = { d \in V : Precedes(t, d, sel) }
      /\ sel \notin A /\ sel \notin B
  BY <1>1, InOrder DEF ShownAhead
<1>4. /\ IsFiniteSet(A) /\ IsFiniteSet(B)
      /\ Cardinality(A) = Cardinality(B) /\ Cardinality(A) \in Nat
  <2>1. IsFiniteSet(A) /\ ShownBefore(w, sel) = Cardinality(A) /\ ShownBefore(w, sel) \in Nat
    BY <1>1, ShownBeforeCounts
  <2>2. IsFiniteSet(B) /\ ShownBefore(v, sel) = Cardinality(B)
    BY <1>1, ShownBeforeCounts
  <2> QED BY <2>1, <2>2
<1>5. A \subseteq B \/ B \subseteq A
  <2> SUFFICES ASSUME NEW a \in A, a \notin B, NEW b \in B, b \notin A
               PROVE  FALSE
    OBVIOUS
  <2>1. /\ a \in ToSet(s) /\ b \in ToSet(s) /\ a # sel /\ b # sel /\ a # b
        /\ Precedes(s, a, sel) /\ ~Precedes(s, b, sel)
        /\ Precedes(t, b, sel) /\ ~Precedes(t, a, sel)
    BY <1>1, <1>3
  <2>2. Precedes(s, sel, b) /\ Precedes(t, sel, a)
    BY <1>1, <2>1, InOrder
  <2>3. Precedes(s, a, b) /\ Precedes(t, b, a)
    BY <1>1, <2>1, <2>2, InOrder
  <2>4. Precedes(t, a, b)
    BY <1>2, <2>1, <2>3
  <2> QED BY <1>1, <2>1, <2>3, <2>4, InOrder
<1>6. A = B
  <2> HIDE DEF A, B
  <2> QED BY <1>4, <1>5, FS_Subset
<1>7. ShownAhead(v, c) = ShownAhead(w, c)
  <2>1. ASSUME NEW d \in V
        PROVE  Precedes(t, d, c) <=> Precedes(s, d, c)
    <3>1. CASE c = sel
      BY <1>3, <1>6, <3>1
    <3>2. CASE c # sel /\ d = sel
      <4>1. Precedes(s, c, sel) <=> Precedes(t, c, sel)
        BY <1>3, <1>6
      <4> QED BY <1>1, <3>2, <4>1, InOrder
    <3>3. CASE c # sel /\ d # sel
      BY <1>1, <1>2, <3>3
    <3> QED BY <3>1, <3>2, <3>3
  <2> QED BY <2>1 DEF ShownAhead
<1>8. /\ ShownBefore(w, c) = Cardinality(ShownAhead(w, c))
      /\ ShownBefore(v, c) = Cardinality(ShownAhead(v, c))
  BY <1>1, ShownBeforeCounts
<1> QED BY <1>7, <1>8

LEMMA PushThereAndBack ==
  ASSUME NEW w, Sound(w), Selected(w) \in Shown(w, w.selmon)
  PROVE  LET down == PushInStack(w, Inc(1))
             up == PushInStack(down, Inc(-1))
         IN  /\ ShownRanks(up) = ShownRanks(w)
             /\ Without(down.clients[w.selmon], Selected(w)) =
                  Without(w.clients[w.selmon], Selected(w))
<1> DEFINE m == w.selmon
           V == Shown(w, m)
           N == Cardinality(V)
           sel == Selected(w)
           r == ShownBefore(w, sel)
           down == PushInStack(w, Inc(1))
           up == PushInStack(down, Inc(-1))
<1>1. Inc(1).rel /\ Inc(1).i = 1 /\ Inc(-1).rel /\ Inc(-1).i = -1
  BY DEF Inc
<1>2. PushedTo(w, down, StackPos(w, Inc(1)))
  BY <1>1, PushedToPlace
<1> HIDE DEF down
<1>3. /\ Sound(down) /\ down.selmon = m /\ down.sel = w.sel /\ Shown(down, m) = V
      /\ Without(down.clients[m], sel) = Without(w.clients[m], sel)
      /\ ToSet(down.clients[m]) = ToSet(w.clients[m])
      /\ Cardinality({ d \in V : Precedes(down.clients[m], d, sel) }) = StackPos(w, Inc(1))
  BY <1>2 DEF PushedTo
<1>4. Selected(down) = sel /\ Selected(down) \in Shown(down, down.selmon)
  BY <1>3 DEF Selected
<1>5. PushedTo(down, up, StackPos(down, Inc(-1)))
  BY <1>1, <1>3, <1>4, PushedToPlace
<1> HIDE DEF up
<1>6. /\ Sound(up) /\ up.selmon = m /\ up.sel = w.sel /\ Shown(up, m) = V
      /\ Without(up.clients[m], sel) = Without(w.clients[m], sel)
      /\ ToSet(up.clients[m]) = ToSet(w.clients[m])
      /\ Cardinality({ d \in V : Precedes(up.clients[m], d, sel) }) =
           StackPos(down, Inc(-1))
  BY <1>3, <1>4, <1>5 DEF PushedTo
<1>7. sel \in ToSet(w.clients[m]) /\ sel \in V
  BY DEF Sound, Listed, ListsOn, Memories, Shown
<1>8. ShownBefore(down, sel) = StackPos(w, Inc(1))
  <2>1. ShownBefore(down, sel) = Cardinality(ShownAhead(down, sel))
    BY <1>3, <1>7, ShownBeforeCounts
  <2> QED BY <1>3, <2>1 DEF ShownAhead
<1>9. ShownBefore(up, sel) = StackPos(down, Inc(-1))
  <2>1. ShownBefore(up, sel) = Cardinality(ShownAhead(up, sel))
    BY <1>6, <1>7, ShownBeforeCounts
  <2> QED BY <1>6, <2>1 DEF ShownAhead
<1>10. /\ StackPos(w, Inc(1)) = (r + 1) % N
       /\ StackPos(down, Inc(-1)) = (ShownBefore(down, sel) + -1) % N
  BY <1>1, <1>3, <1>4 DEF StackPos
<1>11. N \in Nat \ {0} /\ r \in 0 .. N - 1
  <2>1. N \in Nat /\ N # 0
    BY <1>7, PlacesCount
  <2> QED BY <1>7, <2>1, RanksBelow
<1>12. ShownBefore(up, sel) = r
  <2> DEFINE k == ShownBefore(down, sel)
  <2> HIDE DEF r, N, k
  <2>1. k = IF r + 1 = N THEN 0 ELSE r + 1
    BY <1>8, <1>10, <1>11, RingSteps DEF k
  <2>2. k \in 0 .. N - 1
    BY <1>11, <2>1
  <2>3. (k + -1) % N = IF k = 0 THEN N - 1 ELSE k - 1
    BY <1>11, <2>2, RingSteps
  <2> QED BY <1>9, <1>10, <1>11, <2>1, <2>3 DEF k
<1>13. \A c \in V : ShownBefore(up, c) = ShownBefore(w, c)
  BY <1>6, <1>7, <1>12, SameAhead
<1>14. ShownRanks(up) = ShownRanks(w)
  BY <1>6, <1>13 DEF ShownRanks
<1> QED BY <1>3, <1>14 DEF up, down

LEMMA PushFails ==
  ASSUME NEW w, Sound(w), Safe(w), NEW arg,
         arg.rel \/ arg.i = 0, arg.rel => arg.i \in Int
  PROVE  FailsUnseen(w, PushInStack(w, arg))
<1> DEFINE v == PushInStack(w, arg)
           sel == Selected(w)
           s == w.clients[w.selmon]
           n == StackPos(w, arg)
           hits == { c \in Shown(w, w.selmon) \ {sel} : OthersBefore(w, c) = n - 1 }
           behind == IF hits = {} THEN Last(s) ELSE CHOOSE c \in hits : TRUE
           t == PutAfter(Without(s, sel), sel, behind)
<1>1. CASE v = Fail(w, "div") /\ StackPosDivides(w, arg)
  <2>1. v.fault = "div"
    BY <1>1 DEF Fail, Sound, Listed, Memories
  <2> QED BY <1>1, <2>1 DEF StackPosDivides, NoStackPos, FailsUnseen
<1>2. CASE v = w
  BY <1>2 DEF Safe, FailsUnseen
<1>3. CASE sel # NoClient /\ v = Attach(Detach(w, sel), sel)
  <2>1. sel \in Managed(w)
    BY <1>3, SelectedManaged
  <2>2. Safe(v)
    BY <1>3, <2>1, ToFrontKeeps
  <2> QED BY <2>2 DEF Safe, FailsUnseen
<1>4. CASE /\ sel # NoClient /\ s # <<>> /\ n # 0 /\ behind = sel
           /\ ~StackPosDivides(w, arg)
  <2>1. arg.rel
    BY <1>4 DEF StackPos
  <2>2. Shown(w, w.selmon) # {}
    BY <1>4, <2>1 DEF StackPosDivides, NoStackPos
  <2>3. hits # {}
    BY <1>4, <2>1, <2>2, PushFindsPlace
  <2>4. behind \in hits
    BY <2>3
  <2> QED BY <1>4, <2>4
<1>5. CASE v = [w EXCEPT !.clients[w.selmon] = t]
  <2>1. v.fault = w.fault
    BY <1>5 DEF Sound, Listed, Memories
  <2> QED BY <2>1 DEF Safe, Failed, FailsUnseen
<1> QED BY <1>1, <1>2, <1>3, <1>4, <1>5 DEF PushInStack, NoStackPos

(***************************************************************************)
(* A walk through the windows: each step selects the next shown one.        *)
(***************************************************************************)

\* A state of the walk from w, with the window of rank k selected.
OnWalk(w, v, k) ==
  /\ Sound(v) /\ SameButFocus(w, v) /\ v.selmon = w.selmon /\ ~Failed(v)
  /\ Selected(v) \in Shown(w, w.selmon) /\ ShownBefore(w, Selected(v)) = k

LEMMA WalkFrame ==
  ASSUME NEW w, Sound(w), NEW v, Sound(v), SameButFocus(w, v), v.selmon = w.selmon
  PROVE  /\ Shown(v, w.selmon) = Shown(w, w.selmon)
         /\ \A c : ShownBefore(v, c) = ShownBefore(w, c)
<1>1. \A c : IsVisible(v, c) <=> IsVisible(w, c)
  BY VisibleFrame
<1>2. ToSet(v.stack[w.selmon]) = ToSet(w.stack[w.selmon])
  BY DEF Sound, Listed, ListsOn, Memories, SameButFocus
<1> QED BY <1>1, <1>2 DEF Shown, ShownBefore, SameButFocus

LEMMA WalkStep ==
  ASSUME NEW w, Sound(w), NEW k, NEW v, OnWalk(w, v, k),
         Shown(w, w.selmon) \cap w.isfullscreen = {}
  PROVE  OnWalk(w, FocusInStack(v, Inc(1)), (k + 1) % Cardinality(Shown(w, w.selmon)))
<1> DEFINE m == w.selmon
           V == Shown(w, m)
           N == Cardinality(V)
           n == StackPos(v, Inc(1))
           c == NthShown(v, n)
           u == FocusInStack(v, Inc(1))
<1>1. /\ Sound(v) /\ SameButFocus(w, v) /\ v.selmon = m /\ ~Failed(v)
      /\ Selected(v) \in V /\ ShownBefore(w, Selected(v)) = k
  BY DEF OnWalk
<1>2. Shown(v, m) = V /\ \A d : ShownBefore(v, d) = ShownBefore(w, d)
  BY <1>1, WalkFrame
<1>3. /\ w.clients[m] \in Seq(Client) /\ v.clients[m] = w.clients[m]
      /\ V \subseteq ToSet(w.clients[m])
  BY <1>1 DEF Sound, Listed, ListsOn, Memories, Shown, SameButFocus
<1>4. N \in Nat /\ N # 0
  BY <1>1, PlacesCount
<1>5. n = (k + 1) % N
  BY <1>1, <1>2 DEF StackPos, Inc
<1>6. k \in 0 .. N - 1
  BY <1>1, RanksBelow
<1>7. n \in 0 .. N - 1
  <2> HIDE DEF n, N
  <2> QED BY <1>4, <1>5, <1>6
<1>8. c \in V /\ ShownBefore(v, c) = n
  <2> DEFINE hits == { d \in Shown(v, m) : ShownBefore(v, d) = n }
  <2>1. hits # {}
    BY <1>2, <1>7, RanksBelow
  <2>2. c = CHOOSE d \in hits : TRUE
    BY <1>1, <2>1 DEF NthShown
  <2>3. c \in hits
    BY <2>1, <2>2
  <2> QED BY <1>2, <2>3
<1>9. u = Focus(v, c)
  <2>1. Selected(v) \in Client
    BY <1>1, <1>3 DEF ToSet
  <2>2. Selected(v) # NoClient
    BY <2>1, ClientAssumption
  <2>3. Selected(v) \notin v.isfullscreen
    BY <1>1 DEF SameButFocus
  <2>4. v.clients[v.selmon] # <<>>
    BY <1>1, <1>3 DEF ToSet
  <2> QED BY <1>1, <1>2, <2>2, <2>3, <2>4 DEF FocusInStack, StackPosDivides, NoStackPos
<1> HIDE DEF c, n, u
<1>10. c \in Client /\ c # NoClient /\ IsVisible(v, c) /\ c \in Managed(v) /\ v.mon[c] = m
  <2>1. c \in Client /\ c \in ToSet(v.clients[m])
    BY <1>3, <1>8 DEF ToSet
  <2>2. c \in Managed(v) /\ v.mon[c] = m
    BY <1>1, <2>1, OnItsMonitor DEF Sound, Listed, Memories
  <2>3. IsVisible(v, c)
    BY <1>2, <1>8 DEF Shown
  <2> QED BY <2>1, <2>2, <2>3, ClientAssumption
<1>11. u = GiveFocus(v, c)
  BY <1>1, <1>9, <1>10 DEF Focus
<1>12. u = [v EXCEPT !.stack[m] = Push(Without(@, c), c), !.selmon = m,
                     !.sel[m] = c, !.isurgent = @ \ {c}]
  BY <1>1, <1>10, <1>11, GiveFocusForm DEF Sound
<1>13. u.selmon = m /\ u.sel[m] = c /\ u.fault = v.fault
  BY <1>1, <1>12 DEF Sound, Listed, Memories
<1>14. Sound(u) /\ SameButFocus(v, u)
  BY <1>1, <1>9, <1>10, FocusSound
<1>15. SameButFocus(w, u)
  BY <1>1, <1>14 DEF SameButFocus
<1>16. ~Failed(u) /\ Selected(u) = c
  BY <1>1, <1>13 DEF Failed, Selected
<1>17. ShownBefore(w, Selected(u)) = (k + 1) % N /\ Selected(u) \in V
  <2>1. ShownBefore(w, c) = n
    BY <1>2, <1>8
  <2> QED BY <1>5, <1>8, <1>16, <2>1
<1> QED BY <1>13, <1>14, <1>15, <1>16, <1>17 DEF OnWalk, u

\* The place k steps on from place r, round a ring of n.
Onwards(n, r, k) == IF r + k < n THEN r + k ELSE r + k - n

LEMMA OnwardsOne ==
  ASSUME NEW n \in Nat \ {0}, NEW r \in 0 .. n - 1, NEW k \in 1 .. n - 1
  PROVE  (Onwards(n, r, k - 1) + 1) % n = Onwards(n, r, k)
<1> DEFINE p == Onwards(n, r, k - 1)
<1>1. p \in 0 .. n - 1
  BY DEF Onwards
<1>2. Onwards(n, r, k) = IF p + 1 = n THEN 0 ELSE p + 1
  BY DEF Onwards
<1> HIDE DEF p
<1>3. (p + 1) % n = IF p + 1 = n THEN 0 ELSE p + 1
  BY <1>1, RingSteps
<1> QED BY <1>2, <1>3 DEF p

\* Going on for n - 1 steps passes every place.
LEMMA OnwardsAll ==
  ASSUME NEW n \in Nat \ {0}, NEW r \in 0 .. n - 1, NEW q \in 0 .. n - 1
  PROVE  \E k \in 0 .. n - 1 : Onwards(n, r, k) = q
<1> DEFINE k == IF q >= r THEN q - r ELSE q - r + n
<1>1. k \in 0 .. n - 1 /\ Onwards(n, r, k) = q
  BY DEF Onwards
<1> QED BY <1>1

\* The walk of WalkVisitsAll as a function: w, then one step after the other.
WalkFrom(w, n, g) ==
  g = [k \in 0 .. n |-> IF k = 0 THEN w ELSE FocusInStack(g[k - 1], Inc(1))]

LEMMA WalkFromExists ==
  ASSUME NEW w, Sound(w), NEW n \in Nat
  PROVE  \E g : WalkFrom(w, n, g)
<1> DEFINE V == { v \in Memories : Sound(v) }
           step == [p \in V \X Nat |-> FocusInStack(p[1], Inc(1))]
<1>1. ASSUME NEW v \in V
      PROVE  FocusInStack(v, Inc(1)) \in V
  <2>1. Sound(FocusInStack(v, Inc(1)))
    BY FocusInStackKeeps DEF Handles
  <2> QED BY <2>1 DEF Sound, Listed
<1>2. w \in V /\ step \in [V \X Nat -> V]
  BY <1>1 DEF Sound, Listed
<1>3. \A p \in V \X Nat : step[p] = FocusInStack(p[1], Inc(1))
  OBVIOUS
<1> HIDE DEF V, step
<1>4. PICK g : Unfolds(g, n, w, step, V)
  BY <1>2, UnfoldsExists
<1>5. g \in [0 .. n -> V] /\ g[0] = w
  BY <1>4 DEF Unfolds
<1>6. ASSUME NEW k \in 1 .. n
      PROVE  g[k] = FocusInStack(g[k - 1], Inc(1))
  <2>1. g[k] = step[<<g[k - 1], k>>]
    BY <1>4 DEF Unfolds
  <2>2. <<g[k - 1], k>> \in V \X Nat
    BY <1>5
  <2> QED BY <1>3, <2>1, <2>2
<1>7. \A k \in 0 .. n : g[k] = IF k = 0 THEN w ELSE FocusInStack(g[k - 1], Inc(1))
  BY <1>5, <1>6
<1> QED BY <1>5, <1>7 DEF WalkFrom

LEMMA WalkRanks ==
  ASSUME NEW w, Sound(w), ~Failed(w), Selected(w) \in Shown(w, w.selmon),
         Shown(w, w.selmon) \cap w.isfullscreen = {},
         NEW n, n = Cardinality(Shown(w, w.selmon)),
         NEW g, WalkFrom(w, n - 1, g)
  PROVE  /\ n \in Nat \ {0} /\ ShownBefore(w, Selected(w)) \in 0 .. n - 1
         /\ \A k \in 0 .. n - 1 :
              OnWalk(w, g[k], Onwards(n, ShownBefore(w, Selected(w)), k))
<1> DEFINE r == ShownBefore(w, Selected(w))
<1>1. n \in Nat \ {0}
  BY PlacesCount
<1>2. r \in 0 .. n - 1
  BY RanksBelow
<1>3. /\ g[0] = w
      /\ \A k \in 1 .. n - 1 : g[k] = FocusInStack(g[k - 1], Inc(1))
  BY <1>1 DEF WalkFrom
<1>4. OnWalk(w, w, r)
  BY DEF OnWalk, SameButFocus
<1>5. Onwards(n, r, 0) = r
  <2> HIDE DEF r
  <2> QED BY <1>1, <1>2 DEF Onwards
<1> DEFINE S == { k \in Nat : k <= n - 1 => OnWalk(w, g[k], Onwards(n, r, k)) }
<1>6. 0 \in S
  BY <1>3, <1>4, <1>5
<1>7. ASSUME NEW k \in Nat, k \in S
      PROVE  k + 1 \in S
  <2> SUFFICES ASSUME k + 1 <= n - 1
               PROVE  OnWalk(w, g[k + 1], Onwards(n, r, k + 1))
    OBVIOUS
  <2>1. k + 1 \in 1 .. n - 1 /\ (k + 1) - 1 = k
    BY <1>1
  <2>2. OnWalk(w, g[k], Onwards(n, r, k))
    BY <1>1, <1>7
  <2>3. OnWalk(w, FocusInStack(g[k], Inc(1)), (Onwards(n, r, k) + 1) % n)
    BY <2>2, WalkStep
  <2>4. (Onwards(n, r, k) + 1) % n = Onwards(n, r, k + 1)
    <3> HIDE DEF r
    <3>1. ASSUME NEW j \in 1 .. n - 1
          PROVE  (Onwards(n, r, j - 1) + 1) % n = Onwards(n, r, j)
      BY <1>1, <1>2, OnwardsOne
    <3>2. (Onwards(n, r, (k + 1) - 1) + 1) % n = Onwards(n, r, k + 1)
      BY <2>1, <3>1
    <3> QED BY <2>1, <3>2
  <2>5. g[k + 1] = FocusInStack(g[k], Inc(1))
    BY <1>3, <2>1
  <2> QED BY <2>3, <2>4, <2>5
<1> HIDE DEF S
<1>8. Nat \subseteq S
  BY <1>6, <1>7, NatInductionOnSets
<1>9. \A k \in 0 .. n - 1 : OnWalk(w, g[k], Onwards(n, r, k))
  BY <1>1, <1>8 DEF S
<1> QED BY <1>1, <1>2, <1>9

LEMMA WalkAround ==
  ASSUME NEW w, Sound(w), ~Failed(w), Selected(w) \in Shown(w, w.selmon),
         Shown(w, w.selmon) \cap w.isfullscreen = {},
         NEW n, n = Cardinality(Shown(w, w.selmon)),
         NEW g, WalkFrom(w, n - 1, g)
  PROVE  { Selected(g[k]) : k \in 0 .. n - 1 } = Shown(w, w.selmon)
<1> DEFINE r == ShownBefore(w, Selected(w))
           V == Shown(w, w.selmon)
<1>1. /\ n \in Nat \ {0} /\ r \in 0 .. n - 1
      /\ \A k \in 0 .. n - 1 : OnWalk(w, g[k], Onwards(n, r, k))
  BY WalkRanks
<1>2. \A k \in 0 .. n - 1 : /\ Selected(g[k]) \in V
                            /\ ShownBefore(w, Selected(g[k])) = Onwards(n, r, k)
  BY <1>1 DEF OnWalk
<1>3. ASSUME NEW c \in V
      PROVE  \E k \in 0 .. n - 1 : Selected(g[k]) = c
  <2>1. ShownBefore(w, c) \in 0 .. n - 1
    BY RanksBelow
  <2>2. PICK k \in 0 .. n - 1 : Onwards(n, r, k) = ShownBefore(w, c)
    <3> HIDE DEF r
    <3> QED BY <1>1, <2>1, OnwardsAll
  <2>3. Selected(g[k]) \in V /\ ShownBefore(w, Selected(g[k])) = ShownBefore(w, c)
    BY <1>2, <2>2
  <2> QED BY <2>3, RanksDiffer
<1> QED BY <1>2, <1>3

LEMMA ZoomKeeps ==
  ASSUME NEW w, Sound(w)
  PROVE  LET v == ZoomSelected(w)
         IN  /\ Handles(w, v, {}) /\ FocusStays(w, v)
             /\ SameViews(w, v) /\ (Safe(w) => ~Failed(v))
<1> DEFINE v == ZoomSelected(w)
           sel == Selected(w)
           s == w.clients[w.selmon]
           c == IF sel = NextTiled(w, s) THEN NextTiled(w, After(s, sel)) ELSE sel
<1>1. CASE v = w
  BY <1>1, HandlesNothing DEF SameViews, Safe
<1>2. CASE sel # NoClient /\ c # NoClient /\ v = Focus(Attach(Detach(w, c), c), c)
  <2>1. Listed(w) /\ w.selmon \in Mon /\ s \in Seq(Client) /\ sel \in ToSet(s)
    BY <1>2, SelectedManaged DEF Sound, Listed, Memories
  <2>2. After(s, sel) \in Seq(Client) /\ ToSet(After(s, sel)) \subseteq ToSet(s)
    BY <2>1, AfterElements
  <2>3. NextTiled(w, After(s, sel)) \in ToSet(After(s, sel)) \cup {NoClient}
    BY <2>2, FirstInList DEF NextTiled
  <2>4. c \in ToSet(s)
    BY <1>2, <2>1, <2>2, <2>3
  <2>5. c \in Managed(w)
    BY <2>1, <2>4, OnItsMonitor
  <2> HIDE DEF c
  <2> DEFINE u == Attach(Detach(w, c), c)
  <2>6. Handles(w, u, {}) /\ SameViews(w, u) /\ (Safe(w) => Safe(u))
    BY <2>5, ToFrontKeeps
  <2>7. v = Focus(u, c)
    BY <1>2
  <2> HIDE DEF u, v
  <2>8. SameViews(w, v)
    BY <2>5, <2>6, <2>7, FocusAfter DEF SameViews
  <2>9. Safe(w) => ~Failed(v)
    BY <2>5, <2>6, <2>7, FocusAfter
  <2>10. Handles(w, v, {}) /\ FocusStays(w, v)
    BY <2>5, <2>6, <2>7, FocusAfter
  <2> QED BY <2>8, <2>9, <2>10 DEF v
<1> QED BY <1>1, <1>2 DEF ZoomSelected

(***************************************************************************)
(* Monitors that come and go.                                               *)
(***************************************************************************)

\* Lists, selections and monitors may be others; the windows are as they were.
Moved(w, v) ==
  /\ Sound(v) /\ Managed(v) = Managed(w) /\ v.tags = w.tags
  /\ v.isfullscreen = w.isfullscreen /\ v.oldstate = w.oldstate

LEMMA MovedHandles ==
  ASSUME NEW w, NEW v, Moved(w, v)
  PROVE  Handles(w, v, {})
BY DEF Moved, Handles, OldKept

\* The lists have the clients of the monitors, each once.
ListClients(lists, w) ==
  /\ lists \in [Mon -> Seq(Client)]
  /\ \A j \in Mon : NoRepeats(lists[j]) /\ ToSet(lists[j]) = ToSet(w.clients[j])

\* Monitor m is the last, and not the only one.
LastMon(w, m) == m \in Mon /\ m # 0 /\ w.nmons = m + 1

\* List k of "now" has the clients monitor k gets when those of the last
\* monitor, m, go to the first.
GoneToFirst(w, m, now, k) ==
  /\ now[k] \in Seq(Client) /\ NoRepeats(now[k])
  /\ ToSet(now[k]) = IF k = 0 THEN ToSet(w.clients[0]) \cup ToSet(w.clients[m])
                     ELSE IF k = m THEN {} ELSE ToSet(w.clients[k])
  /\ k = m => now[k] = <<>>

LEMMA EvacuatedLists ==
  ASSUME NEW w, Sound(w), NEW m, LastMon(w, m),
         NEW lists, ListClients(lists, w), NEW k \in Mon
  PROVE  /\ GoneToFirst(w, m, ToFirst(lists, m, w.clients[m]), k)
         /\ k \notin {0, m} => ToFirst(lists, m, w.clients[m])[k] = lists[k]
<1> DEFINE s == w.clients[m]
           now == ToFirst(lists, m, s)
<1>1. w \in Memories /\ Listed(w) /\ 0 \in Mon /\ m \in Mon /\ m # 0
  BY InRange DEF Sound, LastMon
<1>2. s \in Seq(Client) /\ NoRepeats(s)
  BY <1>1 DEF Listed, ListsOn, Memories
<1>3. ToSet(s) \cap ToSet(lists[0]) = {}
  BY <1>1 DEF Listed, ListsOn, ListClients
<1>4. /\ Reversed(s) \o lists[0] \in Seq(Client) /\ NoRepeats(Reversed(s) \o lists[0])
      /\ ToSet(Reversed(s) \o lists[0]) = ToSet(s) \cup ToSet(lists[0])
  <2> DEFINE t == lists[0]
  <2>1. t \in Seq(Client) /\ NoRepeats(t) /\ ToSet(s) \cap ToSet(t) = {}
    BY <1>1, <1>3 DEF ListClients
  <2> HIDE DEF s, t
  <2>2. /\ Reversed(s) \o t \in Seq(Client) /\ NoRepeats(Reversed(s) \o t)
        /\ ToSet(Reversed(s) \o t) = ToSet(s) \cup ToSet(t)
    BY <1>2, <2>1, ReversedBefore
  <2> QED BY <2>2 DEF t
<1> HIDE DEF s
<1>5. now[k] = IF k = m THEN <<>> ELSE IF k = 0 THEN Reversed(s) \o lists[0] ELSE lists[k]
  BY <1>1 DEF ToFirst, ListClients
<1> HIDE DEF now
<1>6. NoRepeats(<<>>) /\ ToSet(<<>>) = {} /\ <<>> \in Seq(Client)
  BY DEF NoRepeats, ToSet
<1>7. CASE k = m
  BY <1>1, <1>5, <1>6, <1>7 DEF s, now, GoneToFirst
<1>8. CASE k = 0
  BY <1>1, <1>4, <1>5, <1>8 DEF s, now, ListClients, GoneToFirst
<1>9. CASE k \notin {0, m}
  BY <1>5, <1>9 DEF s, now, ListClients, GoneToFirst
<1> QED BY <1>7, <1>8, <1>9

LEMMA EvacuateKeeps ==
  ASSUME NEW w, Sound(w), NEW m, LastMon(w, m)
  PROVE  Moved(w, Evacuate(w, m)) /\ Evacuate(w, m).nmons = m
<1> DEFINE v == Evacuate(w, m)
           C == ToFirst(w.clients, m, w.clients[m])
           K == ToFirst(w.stack, m, w.clients[m])
<1>1. w \in Memories /\ Listed(w) /\ 0 \in Mon /\ w.selmon \in MonsOf(w)
      /\ m \in 1 .. MaxMons /\ 0 \in MonsOf(w) /\ m \in Mon /\ w.nmons = m + 1
  <2>1. m \in 1 .. MaxMons
    BY ClientAssumption DEF Mon, LastMon
  <2> QED BY <2>1, InRange DEF Sound, Listed, LastMon
<1>2. \A k \in Mon :
        /\ NoRepeats(w.clients[k]) /\ NoRepeats(w.stack[k])
        /\ ToSet(w.stack[k]) = ToSet(w.clients[k])
        /\ \A c \in ToSet(w.clients[k]) : w.mon[c] = k
        /\ k \notin MonsOf(w) => w.clients[k] = <<>>
  BY <1>1 DEF Listed, ListsOn
<1>3. ASSUME NEW k \in Mon
      PROVE  /\ C[k] \in Seq(Client) /\ NoRepeats(C[k])
             /\ K[k] \in Seq(Client) /\ NoRepeats(K[k])
             /\ ToSet(K[k]) = ToSet(C[k])
             /\ ToSet(C[k]) = IF k = 0 THEN ToSet(w.clients[0]) \cup ToSet(w.clients[m])
                              ELSE IF k = m THEN {} ELSE ToSet(w.clients[k])
             /\ k \notin {0, m} => C[k] = w.clients[k]
             /\ k = m => C[k] = <<>>
  <2>1. w.clients \in [Mon -> Seq(Client)] /\ w.stack \in [Mon -> Seq(Client)]
    BY <1>1 DEF Memories
  <2>2. ListClients(w.clients, w)
    BY <1>2, <2>1 DEF ListClients
  <2>3. ListClients(w.stack, w)
    BY <1>2, <2>1 DEF ListClients
  <2>4. GoneToFirst(w, m, C, k) /\ (k \notin {0, m} => C[k] = w.clients[k])
    BY <2>2, EvacuatedLists
  <2>5. GoneToFirst(w, m, K, k)
    BY <2>3, EvacuatedLists
  <2> HIDE DEF C, K
  <2> QED BY <1>1, <2>4, <2>5 DEF GoneToFirst
<1>4. C \in [Mon -> Seq(Client)] /\ K \in [Mon -> Seq(Client)]
  <2>1. DOMAIN C = Mon /\ DOMAIN K = Mon /\ C = [k \in Mon |-> C[k]] /\ K = [k \in Mon |-> K[k]]
    BY <1>1 DEF ToFirst, Memories
  <2> HIDE DEF C, K
  <2> QED BY <1>3, <2>1
<1>5. Remaining(w, m) \in 0 .. (m - 1) /\ Remaining(w, m) \in Mon
  BY <1>1, ClientAssumption DEF Remaining, MonsOf, Mon
<1>6. OnFirst(w, m) \in [Client -> Mon]
  BY <1>1 DEF OnFirst, Memories
<1>7. NoView \in [0..1 -> (SUBSET TAGMASK) \ {{}}]
  BY TagCounts DEF NoView, TAGMASK
<1>8. v = [w EXCEPT
             !.clients = C, !.stack = K, !.sel[m] = NoClient, !.tagset[m] = NoView,
             !.seltags[m] = 0, !.tiled[m] = TRUE, !.nmons = m,
             !.mon = OnFirst(w, m), !.selmon = Remaining(w, m)]
  BY <1>1 DEF Evacuate, Emptied, Memories
<1> HIDE DEF v, C, K
<1>9. /\ v \in Memories /\ v.clients = C /\ v.stack = K /\ v.nmons = m
      /\ v.mon = OnFirst(w, m) /\ v.selmon = Remaining(w, m)
      /\ v.tags = w.tags /\ v.info = w.info
      /\ v.isfullscreen = w.isfullscreen /\ v.oldstate = w.oldstate
      /\ \A k \in Mon : v.sel[k] = IF k = m THEN NoClient ELSE w.sel[k]
  <2> DEFINE S == [w.sel EXCEPT ![m] = NoClient]
             T == [w.tagset EXCEPT ![m] = NoView]
             F == [w.seltags EXCEPT ![m] = 0]
             L == [w.tiled EXCEPT ![m] = TRUE]
  <2>1. /\ S \in [Mon -> Client \cup {NoClient}]
        /\ T \in [Mon -> [0..1 -> (SUBSET TAGMASK) \ {{}}]]
        /\ F \in [Mon -> 0..1] /\ L \in [Mon -> BOOLEAN]
        /\ \A k \in Mon : S[k] = IF k = m THEN NoClient ELSE w.sel[k]
    BY <1>1, <1>7 DEF Memories
  <2>2. v = [w EXCEPT
               !.clients = C, !.stack = K, !.sel = S, !.tagset = T, !.seltags = F,
               !.tiled = L, !.nmons = m, !.mon = OnFirst(w, m), !.selmon = Remaining(w, m)]
    BY <1>8
  <2> HIDE DEF S, T, F, L
  <2>3. v \in Memories
    BY <1>1, <1>4, <1>5, <1>6, <2>1, <2>2 DEF Memories
  <2> QED BY <1>1, <2>1, <2>2, <2>3 DEF Memories
<1>10. MonsOf(v) = MonsOf(w) \ {m}
  BY <1>1, <1>9 DEF MonsOf
<1>11. ASSUME NEW k \in Mon
       PROVE  ListsOn(v, k) /\ SelOn(v, k)
  <2>1. ASSUME NEW c \in ToSet(C[k])
        PROVE  v.mon[c] = k
    <3>1. c \in Client
      BY <1>3 DEF ToSet
    <3>2. CASE c \in ToSet(w.clients[m])
      <4>1. k = 0
        <5>1. k # m
          BY <1>1, <1>3, <2>1
        <5>2. k # 0 => w.mon[c] = k
          BY <1>2, <1>3, <2>1, <5>1
        <5>3. w.mon[c] = m
          BY <1>1, <1>2, <3>2
        <5> QED BY <5>1, <5>2, <5>3
      <4> QED BY <1>9, <3>1, <3>2, <4>1 DEF OnFirst
    <3>3. CASE c \notin ToSet(w.clients[m])
      <4>1. c \in ToSet(w.clients[k])
        BY <1>3, <2>1, <3>3
      <4> QED BY <1>2, <1>9, <3>1, <3>3, <4>1 DEF OnFirst
    <3> QED BY <3>2, <3>3
  <2>2. k \notin MonsOf(v) => C[k] = <<>>
    <3>1. CASE k = m
      BY <1>3, <3>1
    <3>2. CASE k \notin MonsOf(w)
      <4>1. k \notin {0, m} /\ w.clients[k] = <<>>
        BY <1>1, <1>2, <3>2 DEF MonsOf
      <4> QED BY <1>3, <4>1
    <3> QED BY <1>10, <3>1, <3>2
  <2>3. ListsOn(v, k)
    BY <1>3, <1>9, <2>1, <2>2 DEF ListsOn
  <2>4. w.sel[k] \in ToSet(w.clients[k]) \cup {NoClient}
    BY <1>1 DEF Listed, SelOn
  <2>5. SelOn(v, k)
    BY <1>3, <1>9, <2>4 DEF SelOn
  <2> QED BY <2>3, <2>5
<1>12. Managed(v) = Managed(w)
  <2>1. 0 \in MonsOf(v) /\ m \in MonsOf(w) /\ MonsOf(w) \subseteq Mon
    BY <1>1, <1>9, InRange DEF MonsOf
  <2>2. ASSUME NEW c \in Managed(v)
        PROVE  c \in Managed(w)
    <3>1. PICK k \in MonsOf(v) : c \in ToSet(C[k])
      BY <1>9 DEF Managed
    <3> QED BY <1>3, <1>10, <2>1, <3>1 DEF Managed
  <2>3. ASSUME NEW c \in Managed(w)
        PROVE  c \in Managed(v)
    <3>1. PICK k \in MonsOf(w) : c \in ToSet(w.clients[k])
      BY DEF Managed
    <3>2. \E j \in MonsOf(v) : c \in ToSet(C[j])
      <4>1. CASE k = m
        <5>1. c \in ToSet(C[0])
          BY <1>1, <1>3, <3>1, <4>1
        <5> QED BY <2>1, <5>1
      <4>2. CASE k # m
        BY <1>3, <1>10, <2>1, <3>1, <4>2
      <4> QED BY <4>1, <4>2
    <3> QED BY <1>9, <3>2 DEF Managed
  <2> QED BY <2>2, <2>3
<1>13. Listed(v)
  BY <1>5, <1>9, <1>11 DEF Listed, MonsOf
<1>14. Noted(v)
  BY <1>9, <1>12 DEF Sound, Noted
<1> QED BY <1>9, <1>12, <1>13, <1>14 DEF Moved, Sound, v

\* One monitor after the other goes, down to monitor k.
AfterLosing(w, n, g) ==
  g = [k \in n..w.nmons |-> IF k = w.nmons THEN w ELSE Evacuate(g[k + 1], k)]

LEMMA AfterLosingExists ==
  ASSUME NEW w, w.nmons \in Nat, NEW n \in 0..w.nmons
  PROVE  \E g : AfterLosing(w, n, g)
<1> DEFINE N == w.nmons
           S == { j \in Nat : j <= N => \E g : AfterLosing(w, N - j, g) }
<1>1. 0 \in S
  <2> DEFINE g == [k \in N..N |-> w]
  <2>1. N - 0 = N /\ \A k \in N..N : k = N
    OBVIOUS
  <2>2. g = [k \in N..N |-> IF k = N THEN w ELSE Evacuate(g[k + 1], k)]
    BY <2>1
  <2>3. AfterLosing(w, N - 0, g)
    BY <2>1, <2>2 DEF AfterLosing
  <2> QED BY <2>3
<1>2. ASSUME NEW j \in Nat, j \in S
      PROVE  j + 1 \in S
  <2> SUFFICES ASSUME j + 1 <= N
               PROVE  \E g : AfterLosing(w, N - (j + 1), g)
    OBVIOUS
  <2>1. PICK g : AfterLosing(w, N - j, g)
    BY <1>2
  <2> DEFINE low == N - (j + 1)
             h == [k \in low..N |-> IF k = N THEN w
                                    ELSE IF k = low THEN Evacuate(g[k + 1], k) ELSE g[k]]
  <2>2. low \in Nat /\ low + 1 = N - j /\ low < N
    BY <1>2
  <2>3. ASSUME NEW k \in low..N
        PROVE  h[k] = IF k = N THEN w ELSE Evacuate(h[k + 1], k)
    <3>1. CASE k = N
      BY <3>1
    <3>2. CASE k # N
      <4>1. k + 1 \in low..N /\ k + 1 # low /\ k + 1 \in (N - j)..N
        BY <2>2, <3>2
      <4>2. g[k + 1] = h[k + 1]
        <5>1. CASE k + 1 = N
          <6>1. g[N] = w
            BY <2>1, <4>1, <5>1 DEF AfterLosing
          <6> QED BY <4>1, <5>1, <6>1
        <5>2. CASE k + 1 # N
          BY <4>1, <5>2
        <5> QED BY <5>1, <5>2
      <4>3. k # low => g[k] = Evacuate(g[k + 1], k)
        <5>1. k # low => k \in (N - j)..N
          BY <2>2
        <5> QED BY <2>1, <3>2, <5>1 DEF AfterLosing
      <4> QED BY <3>2, <4>2, <4>3
    <3> QED BY <3>1, <3>2
  <2>4. h = [k \in low..N |-> IF k = N THEN w ELSE Evacuate(h[k + 1], k)]
    <3>1. h = [k \in low..N |-> h[k]]
      OBVIOUS
    <3> HIDE DEF h
    <3> QED BY <2>3, <3>1
  <2> HIDE DEF h
  <2> QED BY <2>4 DEF AfterLosing
<1> HIDE DEF S
<1>3. Nat \subseteq S
  BY <1>1, <1>2, NatInductionOnSets
<1>4. N - n \in Nat /\ N - n <= N /\ N - (N - n) = n
  OBVIOUS
<1>5. N - n \in S
  BY <1>3, <1>4
<1> QED BY <1>4, <1>5 DEF S

LEMMA LosingKeeps ==
  ASSUME NEW w, Sound(w), NEW n \in 1..w.nmons, NEW g, AfterLosing(w, n, g)
  PROVE  Moved(w, g[n]) /\ g[n].nmons = n
<1> DEFINE N == w.nmons
           S == { j \in Nat : N - j \in n..N => Moved(w, g[N - j]) /\ g[N - j].nmons = N - j }
<1>1. N \in 1..MaxMons /\ MaxMons \in Nat /\ n \in Nat
  BY InRange, ClientAssumption DEF Sound, Memories
<1>2. \A k \in n..N : g[k] = IF k = N THEN w ELSE Evacuate(g[k + 1], k)
  BY DEF AfterLosing
<1>3. 0 \in S
  <2>1. g[N] = w /\ N - 0 = N
    BY <1>1, <1>2
  <2> QED BY <2>1 DEF Moved
<1>4. ASSUME NEW j \in Nat, j \in S
      PROVE  j + 1 \in S
  <2> DEFINE k == N - (j + 1)
             u == g[k + 1]
  <2> SUFFICES ASSUME k \in n..N
               PROVE  Moved(w, g[k]) /\ g[k].nmons = k
    OBVIOUS
  <2>1. k + 1 = N - j /\ k + 1 \in n..N /\ k # N /\ k # 0 /\ k \in Mon
    BY <1>1, ClientAssumption DEF Mon
  <2>2. Moved(w, u) /\ u.nmons = k + 1
    BY <1>4, <2>1
  <2>3. g[k] = Evacuate(u, k)
    BY <1>2, <2>1
  <2> HIDE DEF k, u
  <2>4. Sound(u) /\ LastMon(u, k)
    BY <2>1, <2>2 DEF Moved, LastMon
  <2>5. Moved(u, Evacuate(u, k)) /\ Evacuate(u, k).nmons = k
    BY <2>4, EvacuateKeeps
  <2> QED BY <2>2, <2>3, <2>5 DEF Moved
<1> HIDE DEF S
<1>5. Nat \subseteq S
  BY <1>3, <1>4, NatInductionOnSets
<1>6. N - n \in Nat /\ N - (N - n) = n /\ n \in n..N
  BY <1>1
<1>7. N - n \in S
  BY <1>5, <1>6
<1> QED BY <1>6, <1>7 DEF S

LEMMA ResizedKeeps ==
  ASSUME NEW w, Sound(w), NEW n \in 1..MaxMons
  PROVE  Moved(w, Resized(w, n)) /\ Resized(w, n).nmons = n
<1>1. w \in Memories /\ w.nmons \in 1..MaxMons /\ MaxMons \in Nat
  BY InRange, ClientAssumption DEF Sound, Memories
<1>2. CASE n < w.nmons
  <2> DEFINE after == CHOOSE g : AfterLosing(w, n, g)
  <2>1. n \in 0..w.nmons /\ n \in 1..w.nmons /\ w.nmons \in Nat
    BY <1>1, <1>2
  <2>2. AfterLosing(w, n, after)
    BY <2>1, AfterLosingExists
  <2>3. Resized(w, n) = after[n]
    BY <1>2 DEF Resized, AfterLosing
  <2> HIDE DEF after
  <2> QED BY <2>1, <2>2, <2>3, LosingKeeps
<1>3. CASE ~(n < w.nmons)
  <2> DEFINE v == [w EXCEPT !.nmons = n]
  <2>1. v = Resized(w, n)
    BY <1>3 DEF Resized
  <2>2. /\ v \in Memories /\ v.nmons = n /\ v.selmon = w.selmon /\ v.clients = w.clients
        /\ v.stack = w.stack /\ v.sel = w.sel /\ v.mon = w.mon /\ v.tags = w.tags
        /\ v.info = w.info /\ v.isfullscreen = w.isfullscreen /\ v.oldstate = w.oldstate
    BY <1>1 DEF Memories
  <2> HIDE DEF v
  <2>3. MonsOf(w) \subseteq MonsOf(v) /\ MonsOf(v) \subseteq Mon
    BY <1>1, <1>3, <2>2 DEF MonsOf, Mon
  <2>4. \A m \in Mon : m \notin MonsOf(w) => ToSet(w.clients[m]) = {}
    BY DEF Sound, Listed, ListsOn, ToSet
  <2>5. Managed(v) = Managed(w)
    BY <2>2, <2>3, <2>4 DEF Managed
  <2>6. Listed(v)
    BY <2>2, <2>3 DEF Sound, Listed, ListsOn, SelOn
  <2> QED BY <2>1, <2>2, <2>5, <2>6 DEF Moved, Sound, Noted
<1> QED BY <1>2, <1>3

LEMMA ConfigureKeeps ==
  ASSUME NEW w, Sound(w), NEW n \in 1..MaxMons, NEW p \in Mon, p < n,
         NEW moved \in BOOLEAN, NEW resized \in BOOLEAN
  PROVE  LET v == ConfigureMonitors(w, n, p, moved, resized)
         IN  /\ Handles(w, v, {}) /\ Yields(w, v)
             /\ MaxMons = 1 => FocusStays(w, v) /\ (Safe(w) => ~Failed(v))
<1> DEFINE v == ConfigureMonitors(w, n, p, moved, resized)
           now == Resized(w, n)
           placed == [now EXCEPT !.selmon = p]
<1>1. Moved(w, now) /\ now.nmons = n
  BY ResizedKeeps
<1> HIDE DEF now
<1>2. now \in Memories /\ Sound(now)
  BY <1>1, InRange DEF Moved, Sound
<1>3. Moved(w, placed)
  <2>1. /\ placed \in Memories /\ placed.selmon = p
        /\ placed.nmons = now.nmons /\ placed.clients = now.clients
        /\ placed.stack = now.stack /\ placed.sel = now.sel /\ placed.mon = now.mon
        /\ placed.tags = now.tags /\ placed.info = now.info
        /\ placed.isfullscreen = now.isfullscreen /\ placed.oldstate = now.oldstate
    BY <1>2 DEF Memories
  <2> HIDE DEF placed
  <2>2. placed.selmon \in MonsOf(now)
    BY <1>1, <2>1, ClientAssumption DEF MonsOf, Mon
  <2>3. (\A m \in Mon : SelOn(placed, m)) /\ placed.isfullscreen \subseteq Managed(now)
    BY <1>2, <2>1 DEF Sound, Listed, SelOn, Noted
  <2>4. Sound(placed) /\ Managed(placed) = Managed(now)
    BY <1>2, <2>1, <2>2, <2>3, SoundFrame
  <2> QED BY <1>1, <2>1, <2>4 DEF Moved
<1>4. Handles(w, now, {}) /\ Handles(w, placed, {})
  BY <1>1, <1>3, MovedHandles
<1>5. v \in {now, placed, Refocus(now), Refocus(placed)}
  BY DEF ConfigureMonitors, now
<1>6. Handles(w, v, {})
  BY <1>4, <1>5, RefocusAfter
<1>7. w \in Memories /\ placed \in Memories
  BY <1>3, InRange DEF Sound, Moved
<1>8. /\ placed.nmons = n /\ placed.tagset = now.tagset /\ placed.seltags = now.seltags
  BY <1>1, <1>2 DEF Memories
<1>9. v.nmons = n
  <2>1. Sound(now) /\ Sound(placed) /\ now.nmons = n /\ placed.nmons = n
    BY <1>1, <1>2, <1>3, <1>8 DEF Moved
  <2> HIDE DEF placed, v
  <2>2. Refocus(now).nmons = n
    BY <2>1, FocusSound DEF Refocus, SameButFocus
  <2>3. Refocus(placed).nmons = n
    BY <2>1, FocusSound DEF Refocus, SameButFocus
  <2> QED BY <1>5, <2>1, <2>2, <2>3
<1>10. n = w.nmons => now = w
  <2>1. n = w.nmons => Resized(w, n) = [w EXCEPT !.nmons = n]
    BY <1>7, ClientAssumption DEF Resized, Memories
  <2> QED BY <1>7, <2>1 DEF now, Memories
<1>11. n = w.nmons => SameViews(w, v)
  <2>1. SameViews(now, v)
    <3>1. SameViews(now, Refocus(now)) /\ SameViews(placed, Refocus(placed))
      BY <1>4, RefocusAfter
    <3> QED BY <1>5, <1>8, <3>1 DEF SameViews
  <2> QED BY <1>10, <2>1
<1>12. Yields(w, v)
  BY <1>9, <1>11, SameViewsYield DEF Yields
<1>13. MaxMons = 1 => v \in {w, Refocus(w)}
  <2>1. MaxMons = 1 => n = 1 /\ w.nmons = 1 /\ p = w.selmon
    BY <1>7, ClientAssumption DEF Mon, Memories
  <2>2. MaxMons = 1 => placed = w
    <3>1. [w EXCEPT !.selmon = w.selmon] = w
      BY <1>7 DEF Memories
    <3> QED BY <1>10, <2>1, <3>1
  <2> QED BY <1>5, <1>10, <2>1, <2>2
<1>14. MaxMons = 1 => FocusStays(w, v) /\ (Safe(w) => ~Failed(v))
  <2>1. FocusStays(w, w) /\ (Safe(w) => ~Failed(w)) /\ Handles(w, w, {})
    BY HandlesNothing DEF Safe
  <2> QED BY <1>13, <2>1, RefocusAfter
<1> QED BY <1>6, <1>12, <1>14

\* A process that has just started.
LEMMA FreshSound ==
  ASSUME NEW n \in 1..MaxMons, NEW p \in 0..(n - 1), NEW netwm \in SUBSET Client,
         NEW info \in [Client -> [tags : SUBSET TAGMASK, num : Mon \cup {-1}]]
  PROVE  LET w == Fresh(n, p, info, netwm)
         IN  Sound(w) /\ Managed(w) = {} /\ FocusOk(w)
<1> DEFINE w == Fresh(n, p, info, netwm)
<1>1. p \in Mon /\ 0 \in Mon /\ n \in Nat
  BY ClientAssumption DEF Mon
<1>2. NoView \in [0..1 -> (SUBSET TAGMASK) \ {{}}]
  BY TagCounts DEF NoView, TAGMASK
<1>3. <<>> \in Seq(Client) /\ NoRepeats(<<>>) /\ ToSet(<<>>) = {}
  BY DEF NoRepeats, ToSet
<1>4. w \in Memories
  BY <1>1, <1>2, <1>3 DEF Memories, Fresh
<1>5. /\ w.nmons = n /\ w.selmon = p /\ w.isfullscreen = {}
      /\ \A m \in Mon : w.clients[m] = <<>> /\ w.stack[m] = <<>> /\ w.sel[m] = NoClient
  BY DEF Fresh
<1> HIDE DEF w
<1>6. MonsOf(w) \subseteq Mon /\ p \in MonsOf(w)
  BY <1>1, <1>5, ClientAssumption DEF MonsOf, Mon
<1>7. Managed(w) = {}
  BY <1>3, <1>5, <1>6 DEF Managed
<1>8. \A m \in Mon : ListsOn(w, m) /\ SelOn(w, m)
  BY <1>3, <1>5 DEF ListsOn, SelOn
<1>9. Sound(w)
  BY <1>4, <1>5, <1>6, <1>7, <1>8 DEF Sound, Listed, Noted
<1>10. Shown(w, w.selmon) = {} /\ Selected(w) = NoClient
  BY <1>1, <1>3, <1>5 DEF Shown, Selected
<1> QED BY <1>7, <1>9, <1>10 DEF w, FocusOk, FocusRight

=============================================================================
