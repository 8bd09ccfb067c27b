----------------------------- MODULE DmenuProofs -----------------------------
(***************************************************************************)
(* Proofs about dmenu: the matches are those of the text, in their order,   *)
(* the selected one is on the page, -r leaves something to choose, and a     *)
(* click finds what is drawn under it; for any items, texts and sizes.       *)
(***************************************************************************)
EXTENDS Dmenu, Induction

Texts == Seq(Char)

\* What dmenu may have read.
IsMenu(menu) == menu \in Seq(Texts) /\ \A i \in 1..Len(menu) : Len(menu[i]) <= TextMax

LEMMA MenusAre == \A menu \in Menus : IsMenu(menu)
  BY TextAssumption, RoomAssumption DEF IsMenu, Texts

-----------------------------------------------------------------------------
(* The loop over the items.                                                 *)

\* A list of some of the numbers from 1 to n, in their order.
Lists(l, S, n) ==
  /\ l \in Seq(1..n)
  /\ {l[k] : k \in 1..Len(l)} = S \cap (1..n)
  /\ \A j, k \in 1..Len(l) : j < k => l[j] < l[k]

\* appenditem: one item more, behind those before it.
LEMMA OneMoreItem ==
  ASSUME NEW n \in Nat, NEW S, NEW l, Lists(l, S, n)
  PROVE  Lists(IF n + 1 \in S THEN Append(l, n + 1) ELSE l, S, n + 1)
  <1>1. CASE n + 1 \notin S
    <2>1. l \in Seq(1..n + 1)
      BY DEF Lists
    <2>2. S \cap (1..n + 1) = S \cap (1..n)
      BY <1>1
    <2> QED
      BY <1>1, <2>1, <2>2 DEF Lists
  <1>2. CASE n + 1 \in S
    <2> DEFINE a == Append(l, n + 1)
    <2>1. l \in Seq(1..n + 1) /\ n + 1 \in 1..n + 1
      BY DEF Lists
    <2>2. /\ a \in Seq(1..n + 1)
          /\ Len(l) \in Nat /\ Len(a) = Len(l) + 1
          /\ \A k \in 1..Len(l) : a[k] = l[k]
          /\ a[Len(l) + 1] = n + 1
      BY <2>1
    <2> HIDE DEF a
    <2>3. \A k \in 1..Len(l) : l[k] \in S /\ l[k] \in 1..n
      BY DEF Lists
    <2>4. {a[k] : k \in 1..Len(a)} = S \cap (1..n + 1)
      <3>1. ASSUME NEW i \in S \cap (1..n + 1)
            PROVE  \E k \in 1..Len(a) : a[k] = i
        <4>1. CASE i = n + 1
          BY <2>2, <4>1
        <4>2. CASE i # n + 1
          <5>1. i \in {l[k] : k \in 1..Len(l)}
            BY <3>1, <4>2 DEF Lists
          <5> QED
            BY <2>2, <5>1
        <4> QED
          BY <4>1, <4>2
      <3>2. \A k \in 1..Len(a) : a[k] \in S \cap (1..n + 1)
        BY <1>2, <2>2, <2>3
      <3> QED
        BY <3>1, <3>2
    <2>5. \A j, k \in 1..Len(a) : j < k => a[j] < a[k]
      <3> SUFFICES ASSUME NEW j \in 1..Len(a), NEW k \in 1..Len(a), j < k
                   PROVE  a[j] < a[k]
        OBVIOUS
      <3>1. j \in 1..Len(l) /\ a[j] = l[j] /\ l[j] \in 1..n
        BY <2>2, <2>3
      <3>2. CASE k \in 1..Len(l)
        BY <2>2, <3>1, <3>2 DEF Lists
      <3>3. CASE k = Len(l) + 1
        BY <2>2, <3>1, <3>3
      <3>4. k \in 1..Len(l) \/ k = Len(l) + 1
        <4>1. Len(a) = Len(l) + 1 /\ Len(l) \in Nat
          BY <2>2
        <4> QED
          BY <4>1
      <3> QED
        BY <3>2, <3>3, <3>4
    <2>6. Lists(a, S, n + 1)
      BY <2>2, <2>4, <2>5 DEF Lists
    <2> QED
      BY <1>2, <2>6 DEF a
  <1> QED
    BY <1>1, <1>2

\* What the loop makes of the first k items.
IsLoop(f, n, S) ==
  f = [k \in 0..n |-> IF k = 0 THEN <<>> ELSE IF k \in S THEN Append(f[k - 1], k) ELSE f[k - 1]]

LEMMA LoopExists ==
  ASSUME NEW n \in Nat, NEW S
  PROVE  \E f : IsLoop(f, n, S)
  <1> DEFINE V == Seq(Nat)
             step == [p \in V \X Nat |-> IF p[2] \in S THEN Append(p[1], p[2]) ELSE p[1]]
  <1>1. <<>> \in V
    OBVIOUS
  <1>2. step \in [V \X Nat -> V]
    <2>1. ASSUME NEW p \in V \X Nat
          PROVE  (IF p[2] \in S THEN Append(p[1], p[2]) ELSE p[1]) \in V
      <3>1. p[1] \in V /\ p[2] \in Nat
        OBVIOUS
      <3> QED
        BY <3>1
    <2> HIDE DEF V
    <2> QED
      BY <2>1
  <1> HIDE DEF V
  <1>3. PICK f : Unfolds(f, n, <<>>, step, V)
    <2> HIDE DEF step
    <2> QED
      BY <1>1, <1>2, UnfoldsExists
  <1>4. f \in [0..n -> V] /\ f[0] = <<>>
    BY <1>3 DEF Unfolds
  <1>5. ASSUME NEW k \in 0..n, k # 0
        PROVE  f[k] = IF k \in S THEN Append(f[k - 1], k) ELSE f[k - 1]
    <2>1. k \in 1..n /\ k \in Nat /\ k - 1 \in 0..n
      BY <1>5
    <2>2. f[k] = step[<<f[k - 1], k>>]
      BY <1>3, <2>1 DEF Unfolds
    <2>3. <<f[k - 1], k>> \in V \X Nat
      BY <1>4, <2>1
    <2> QED
      BY <2>2, <2>3
  <1> HIDE DEF step
  <1>6. IsLoop(f, n, S)
    BY <1>4, <1>5 DEF IsLoop
  <1> QED
    BY <1>6

\* The list of the items that are in S (the loop of match, with appenditem).
LEMMA InOrderLists ==
  ASSUME NEW r, Len(r.items) \in Nat, NEW S
  PROVE  Lists(InOrder(r, S), S, Len(r.items))
  <1> DEFINE n == Len(r.items)
             f == CHOOSE g : IsLoop(g, n, S)
  <1>1. IsLoop(f, n, S)
    BY LoopExists
  <1>2. InOrder(r, S) = f[n]
    BY DEF InOrder, IsLoop
  <1> HIDE DEF f
  <1> DEFINE P == {k \in Nat : k <= n => Lists(f[k], S, k)}
  <1>3. 0 \in P
    <2>1. f[0] = <<>>
      BY <1>1 DEF IsLoop
    <2>2. Lists(<<>>, S, 0)
      BY DEF Lists
    <2> QED
      BY <2>1, <2>2
  <1>4. ASSUME NEW k \in Nat, k \in P
        PROVE  k + 1 \in P
    <2>1. SUFFICES ASSUME k + 1 <= n
                   PROVE  Lists(f[k + 1], S, k + 1)
      OBVIOUS
    <2>2. k + 1 \in 0..n /\ k + 1 # 0 /\ (k + 1) - 1 = k /\ Lists(f[k], S, k)
      BY <1>4, <2>1
    <2>3. f[k + 1] = IF k + 1 \in S THEN Append(f[k], k + 1) ELSE f[k]
      BY <1>1, <2>2 DEF IsLoop
    <2> QED
      BY <2>2, <2>3, OneMoreItem
  <1>5. Nat \subseteq P
    <2> HIDE DEF P
    <2> QED
      BY <1>3, <1>4, NatInductionOnSets
  <1> QED
    BY <1>2, <1>5

-----------------------------------------------------------------------------
(* Least elements, words and matches.                                       *)

LEMMA LeastIs ==
  ASSUME NEW S, S \subseteq Nat, S # {}
  PROVE  Least(S) \in S /\ \A y \in S : Least(S) <= y
  <1>1. \E x \in S : \A y \in S : x <= y
    BY LeastNumber
  <1> QED
    BY <1>1 DEF Least

\* cistrstr, without sequences that are put together.
LEMMA HoldsMeans ==
  ASSUME NEW s \in Texts, NEW w \in Texts
  PROVE  Holds(s, w) <=> \E j \in 0..Len(s) - Len(w) :
                           \A k \in 1..Len(w) : Fold[s[j + k]] = Fold[w[k]]
  <1>0. Len(s) \in Nat /\ Len(w) \in Nat
    BY DEF Texts
  <1>1. ASSUME NEW j \in 0..Len(s) - Len(w)
        PROVE  Same(SubSeq(s, j + 1, j + Len(w)), w)
                 <=> \A k \in 1..Len(w) : Fold[s[j + k]] = Fold[w[k]]
    <2> DEFINE p == SubSeq(s, j + 1, j + Len(w))
    <2>0. /\ s \in Seq(Char) /\ 1 <= j + 1 /\ j + Len(w) <= Len(s) /\ j \in Nat
          /\ j + Len(w) - (j + 1) + 1 = Len(w)
      BY <1>0 DEF Texts
    <2>1. /\ Len(p) = Len(w)
          /\ \A k \in 1..Len(w) : p[k] = s[j + k]
      BY <1>0, <2>0
    <2> HIDE DEF p
    <2>2. Same(p, w) <=> \A k \in 1..Len(w) : Fold[s[j + k]] = Fold[w[k]]
      BY <2>1 DEF Same
    <2> QED
      BY <2>2 DEF p
  <1> QED
    BY <1>1 DEF Holds

\* strtok: where a word ends.
WordEnds(t, i) == {j \in i..Len(t) : j = Len(t) \/ t[j + 1] = Space}

LEMMA WordIs ==
  ASSUME NEW t \in Texts, NEW i \in WordStarts(t)
  PROVE  \E e \in WordEnds(t, i) :
           /\ \A j \in WordEnds(t, i) : e <= j
           /\ e \in i..Len(t) /\ i \in 1..Len(t)
           /\ WordFrom(t, i) = SubSeq(t, i, e)
           /\ WordFrom(t, i) \in Texts
           /\ Len(WordFrom(t, i)) = e - i + 1
           /\ \A k \in 1..e - i + 1 : WordFrom(t, i)[k] = t[i + k - 1]
  <1>1. i \in 1..Len(t) /\ Len(t) \in Nat
    BY DEF WordStarts, Texts
  <1>2. WordEnds(t, i) \subseteq Nat /\ Len(t) \in WordEnds(t, i)
    BY <1>1 DEF WordEnds
  <1> DEFINE e == Least(WordEnds(t, i))
  <1>3. e \in WordEnds(t, i) /\ \A j \in WordEnds(t, i) : e <= j
    BY <1>2, LeastIs
  <1>4. WordFrom(t, i) = SubSeq(t, i, e)
    BY DEF WordFrom, WordEnds
  <1> HIDE DEF e
  <1>5. e \in i..Len(t)
    BY <1>3 DEF WordEnds
  <1> DEFINE w == SubSeq(t, i, e)
  <1>6. w \in Texts /\ Len(w) = e - i + 1 /\ \A k \in 1..e - i + 1 : w[k] = t[i + k - 1]
    BY <1>1, <1>5 DEF Texts
  <1> HIDE DEF w
  <1>7. WordFrom(t, i) = w
    BY <1>4 DEF w
  <1> QED
    BY <1>1, <1>3, <1>4, <1>5, <1>6, <1>7

HoldsAll(s, t) == \A w \in Words(t) : Holds(s, w)

\* What holds the words of a text holds those of its beginning: a word that is cut is
\* held where the whole one is.
LEMMA BeginningHeld ==
  ASSUME NEW t \in Texts, NEW c \in 0..Len(t), NEW s \in Texts, HoldsAll(s, t)
  PROVE  HoldsAll(s, SubSeq(t, 1, c))
  <1> DEFINE u == SubSeq(t, 1, c)
  <1>1. u \in Texts /\ Len(u) = c /\ \A i \in 1..c : u[i] = t[i]
    BY DEF Texts
  <1>2. Len(t) \in Nat /\ c \in Nat /\ c <= Len(t) /\ Len(s) \in Nat
    BY DEF Texts
  <1> HIDE DEF u
  <1>3. SUFFICES ASSUME NEW i \in WordStarts(u)
                 PROVE  Holds(s, WordFrom(u, i))
    BY DEF HoldsAll, Words, u
  <1>4. i \in WordStarts(t) /\ i \in 1..c
    BY <1>1, <1>2, <1>3 DEF WordStarts
  <1> DEFINE w == WordFrom(u, i)
             v == WordFrom(t, i)
  <1>5. PICK d \in WordEnds(u, i) :
          /\ \A j \in WordEnds(u, i) : d <= j
          /\ d \in i..c
          /\ w \in Texts /\ Len(w) = d - i + 1 /\ \A k \in 1..d - i + 1 : w[k] = u[i + k - 1]
    BY <1>1, WordIs
  <1>6. PICK e \in WordEnds(t, i) :
          /\ e \in i..Len(t)
          /\ v \in Texts /\ Len(v) = e - i + 1 /\ \A k \in 1..e - i + 1 : v[k] = t[i + k - 1]
    BY <1>4, WordIs
  <1>7. Holds(s, v)
    BY <1>4 DEF HoldsAll, Words
  <1> HIDE DEF w, v
  <1>8. d <= e
    <2>1. CASE e < c
      <3>1. e \in WordEnds(u, i)
        BY <1>1, <1>2, <1>4, <1>6, <2>1 DEF WordEnds
      <3> QED
        BY <1>5, <3>1
    <2>2. CASE e >= c
      BY <1>2, <1>5, <1>6, <2>2
    <2> QED
      BY <1>2, <1>6, <2>1, <2>2
  <1>9. PICK j \in 0..Len(s) - Len(v) : \A k \in 1..Len(v) : Fold[s[j + k]] = Fold[v[k]]
    BY <1>6, <1>7, HoldsMeans
  <1>10. j \in 0..Len(s) - Len(w)
    BY <1>2, <1>4, <1>5, <1>6, <1>8, <1>9
  <1>11. ASSUME NEW k \in 1..Len(w)
         PROVE  Fold[s[j + k]] = Fold[w[k]]
    <2>1. k \in 1..Len(v) /\ k \in 1..d - i + 1 /\ k \in 1..e - i + 1
      BY <1>2, <1>4, <1>5, <1>6, <1>8, <1>11
    <2>2. i + k - 1 \in 1..c
      BY <1>2, <1>4, <1>5, <2>1
    <2>3. w[k] = v[k]
      BY <1>1, <1>5, <1>6, <2>1, <2>2
    <2> QED
      BY <1>9, <2>1, <2>3
  <1>12. Holds(s, w)
    BY <1>5, <1>10, <1>11, HoldsMeans
  <1> QED
    BY <1>12 DEF w

\* A text holds its own words.
LEMMA OwnWordsHeld ==
  ASSUME NEW t \in Texts
  PROVE  HoldsAll(t, t)
  <1> SUFFICES ASSUME NEW i \in WordStarts(t)
               PROVE  Holds(t, WordFrom(t, i))
    BY DEF HoldsAll, Words
  <1> DEFINE w == WordFrom(t, i)
  <1>1. PICK e \in WordEnds(t, i) :
          /\ e \in i..Len(t) /\ i \in 1..Len(t)
          /\ w \in Texts /\ Len(w) = e - i + 1 /\ \A k \in 1..e - i + 1 : w[k] = t[i + k - 1]
    BY WordIs
  <1>2. Len(t) \in Nat
    BY DEF Texts
  <1> HIDE DEF w
  <1>3. /\ i - 1 \in 0..Len(t) - Len(w)
        /\ \A k \in 1..Len(w) : Fold[t[(i - 1) + k]] = Fold[w[k]]
    BY <1>1, <1>2
  <1>4. Holds(t, w)
    BY <1>1, <1>3, HoldsMeans
  <1> QED
    BY <1>4 DEF w

\* An empty line has no words.
LEMMA NoWords == Words(<<>>) = {}
  BY DEF Words, WordStarts

-----------------------------------------------------------------------------

\* The items that hold the words of a text, and the kind of match each is.
Fitting(items, text) == {i \in 1..Len(items) : HoldsAll(items[i], text)}
Kind(items, text, i) ==
  IF Words(text) = {} \/ Same(text, items[i]) THEN 1
  ELSE IF StartsWith(items[i], FirstWord(text)) THEN 2 ELSE 3
Kinds(items, text) == [i \in 1..Len(items) |-> Kind(items, text, i)]

\* A list of the members of A, numbers up to n, by kind and then by number.
ByKind(l, A, kind, n) ==
  /\ l \in Seq(1..n)
  /\ \A k \in 1..Len(l) : l[k] \in A
  /\ \A i \in A : \E k \in 1..Len(l) : l[k] = i
  /\ \A j, k \in 1..Len(l) : j < k =>
       kind[l[j]] < kind[l[k]] \/ (kind[l[j]] = kind[l[k]] /\ l[j] < l[k])

\* One list behind another whose kinds come later.
LEMMA JoinLists ==
  ASSUME NEW n \in Nat, NEW A \in SUBSET (1..n), NEW B \in SUBSET (1..n), NEW kind \in [1..n -> Nat],
         NEW a, ByKind(a, A, kind, n), NEW b, ByKind(b, B, kind, n),
         \A i \in A, j \in B : kind[i] < kind[j]
  PROVE  ByKind(a \o b, A \cup B, kind, n)
  <1> DEFINE c == a \o b
  <1>0. a \in Seq(1..n) /\ b \in Seq(1..n)
    BY DEF ByKind
  <1>1. /\ c \in Seq(1..n) /\ Len(c) = Len(a) + Len(b)
        /\ Len(a) \in Nat /\ Len(b) \in Nat
        /\ \A k \in 1..Len(a) : c[k] = a[k]
        /\ \A k \in 1..Len(b) : c[Len(a) + k] = b[k]
    BY <1>0
  <1> HIDE DEF c
  <1>2. \A k \in 1..Len(c) : k \in 1..Len(a) \/ (k - Len(a) \in 1..Len(b) /\ c[k] = b[k - Len(a)])
    <2> TAKE k \in 1..Len(c)
    <2>1. CASE k \notin 1..Len(a)
      <3>1. k - Len(a) \in 1..Len(b) /\ k = Len(a) + (k - Len(a))
        BY <1>1, <2>1
      <3> QED
        BY <1>1, <3>1
    <2> QED
      BY <2>1
  <1>3. \A k \in 1..Len(a) : k \in 1..Len(c) /\ c[k] \in A
    <2> TAKE k \in 1..Len(a)
    <2>1. a[k] \in A
      BY DEF ByKind
    <2> QED
      BY <1>1, <2>1
  <1>4. \A k \in 1..Len(b) : Len(a) + k \in 1..Len(c) /\ b[k] \in B
    <2> TAKE k \in 1..Len(b)
    <2>1. b[k] \in B
      BY DEF ByKind
    <2>2. Len(a) + k \in 1..Len(c)
      BY <1>1
    <2> QED
      BY <2>1, <2>2
  <1>5. \A k \in 1..Len(c) : c[k] \in A \cup B
    BY <1>2, <1>3, <1>4
  <1>6. \A i \in A \cup B : \E k \in 1..Len(c) : c[k] = i
    <2>1. ASSUME NEW i \in A
          PROVE  \E k \in 1..Len(c) : c[k] = i
      <3>1. PICK k \in 1..Len(a) : a[k] = i
        BY DEF ByKind
      <3> QED
        BY <1>1, <1>3, <3>1
    <2>2. ASSUME NEW i \in B
          PROVE  \E k \in 1..Len(c) : c[k] = i
      <3>1. PICK k \in 1..Len(b) : b[k] = i
        BY DEF ByKind
      <3> QED
        BY <1>1, <1>4, <3>1
    <2> QED
      BY <2>1, <2>2
  <1>7. ASSUME NEW j \in 1..Len(c), NEW k \in 1..Len(c), j < k
        PROVE  kind[c[j]] < kind[c[k]] \/ (kind[c[j]] = kind[c[k]] /\ c[j] < c[k])
    <2>1. CASE k \in 1..Len(a)
      <3>1. j \in 1..Len(a)
        BY <1>1, <1>7, <2>1
      <3>2. c[j] = a[j] /\ c[k] = a[k]
        BY <1>1, <2>1, <3>1
      <3> QED
        BY <1>7, <2>1, <3>1, <3>2 DEF ByKind
    <2>2. CASE k \notin 1..Len(a) /\ j \in 1..Len(a)
      <3>1. c[j] \in A /\ c[k] \in B
        BY <1>2, <1>3, <1>4, <2>2
      <3> QED
        BY <3>1
    <2>3. CASE k \notin 1..Len(a) /\ j \notin 1..Len(a)
      <3> DEFINE p == j - Len(a)
                 q == k - Len(a)
      <3>1. p \in 1..Len(b) /\ c[j] = b[p]
        BY <1>2, <2>3
      <3>2. q \in 1..Len(b) /\ c[k] = b[q]
        BY <1>2, <2>3
      <3>3. p < q
        BY <1>1, <1>7
      <3> HIDE DEF p, q
      <3>4. kind[b[p]] < kind[b[q]] \/ (kind[b[p]] = kind[b[q]] /\ b[p] < b[q])
        BY <3>1, <3>2, <3>3 DEF ByKind
      <3> QED
        BY <3>1, <3>2, <3>4
    <2> QED
      BY <2>1, <2>2, <2>3
  <1>8. ByKind(c, A \cup B, kind, n)
    BY <1>1, <1>5, <1>6, <1>7 DEF ByKind
  <1> QED
    BY <1>8 DEF c

\* A list in the order of the items is one by kind, if it has one kind.
LEMMA OneKind ==
  ASSUME NEW n \in Nat, NEW A \in SUBSET (1..n), NEW kind \in [1..n -> Nat], NEW x,
         \A i \in A : kind[i] = x, NEW l, Lists(l, A, n)
  PROVE  ByKind(l, A, kind, n)
  <1>1. \A k \in 1..Len(l) : l[k] \in A
    BY DEF Lists
  <1>2. \A i \in A : i \in {l[k] : k \in 1..Len(l)}
    BY DEF Lists
  <1> QED
    BY <1>1, <1>2 DEF Lists, ByKind

\* match: what fits, each item once, by kind.
LEMMA MatchingLists ==
  ASSUME NEW r, Len(r.items) \in Nat
  PROVE  ByKind(Matching(r), Fitting(r.items, r.text), Kinds(r.items, r.text), Len(r.items))
  <1> DEFINE n == Len(r.items)
             all == Fitting(r.items, r.text)
             exact == {i \in all : Words(r.text) = {} \/ Same(r.text, r.items[i])}
             prefixed == {i \in all \ exact : StartsWith(r.items[i], FirstWord(r.text))}
             rest == all \ (exact \cup prefixed)
             kind == Kinds(r.items, r.text)
  <1>1. Matching(r) = InOrder(r, exact) \o InOrder(r, prefixed) \o InOrder(r, rest)
    BY DEF Matching, Fitting, HoldsAll
  <1>2. all \in SUBSET (1..n) /\ kind \in [1..n -> Nat]
    BY DEF Fitting, Kinds, Kind
  <1>3. \A i \in exact : kind[i] = 1
    BY <1>2 DEF Kinds, Kind
  <1>4. \A i \in prefixed : kind[i] = 2
    BY <1>2 DEF Kinds, Kind
  <1>5. \A i \in rest : kind[i] = 3
    BY <1>2 DEF Kinds, Kind
  <1>6. /\ exact \in SUBSET (1..n) /\ prefixed \in SUBSET (1..n) /\ rest \in SUBSET (1..n)
        /\ exact \cup prefixed \in SUBSET (1..n)
        /\ (exact \cup prefixed) \cup rest = all
    BY <1>2
  <1> HIDE DEF exact, prefixed, rest, all, kind
  <1>7. ByKind(InOrder(r, exact), exact, kind, n)
    BY <1>2, <1>3, <1>6, InOrderLists, OneKind
  <1>8. ByKind(InOrder(r, prefixed), prefixed, kind, n)
    BY <1>2, <1>4, <1>6, InOrderLists, OneKind
  <1>9. ByKind(InOrder(r, rest), rest, kind, n)
    BY <1>2, <1>5, <1>6, InOrderLists, OneKind
  <1>10. ByKind(InOrder(r, exact) \o InOrder(r, prefixed), exact \cup prefixed, kind, n)
    BY <1>2, <1>3, <1>4, <1>6, <1>7, <1>8, JoinLists
  <1>11. \A i \in exact \cup prefixed, j \in rest : kind[i] < kind[j]
    BY <1>3, <1>4, <1>5
  <1>12. ByKind(InOrder(r, exact) \o InOrder(r, prefixed) \o InOrder(r, rest),
                (exact \cup prefixed) \cup rest, kind, n)
    BY <1>2, <1>6, <1>9, <1>10, <1>11, JoinLists
  <1> QED
    BY <1>1, <1>6, <1>12 DEF all, kind

-----------------------------------------------------------------------------
(* Pages.                                                                   *)

Memories ==
  [items : Seq(Texts), lines : Nat, reject : BOOLEAN, text : Texts, cursor : Nat,
   matches : Seq(Nat), curr : Nat, next : Nat, prev : Nat, sel : Nat]

\* What was read, and the line.
LineOK(r) ==
  r \in Memories /\ IsMenu(r.items) /\ Len(r.text) <= TextMax /\ r.cursor <= Len(r.text)

\* calcoffsets' n and what it adds for item i; the sums it makes.
RoomOf(lines) == IF lines > 0 THEN lines ELSE MenuW - (PromptW + InputW + 2 * ArrowW)
WidthOf(items, lines, i) ==
  IF lines > 0 THEN 1 ELSE Smaller(Len(items[i]) + 1, RoomOf(lines))
IsEnds(f, items, lines, ms) ==
  f = [k \in 0..Len(ms) |-> IF k = 0 THEN 0 ELSE f[k - 1] + WidthOf(items, lines, ms[k])]
EndsOf(items, lines, ms) == CHOOSE f : IsEnds(f, items, lines, ms)

LEMMA ExtentIs ==
  ASSUME NEW r
  PROVE  /\ Extent(r) = EndsOf(r.items, r.lines, r.matches)
         /\ Room(r) = RoomOf(r.lines)
  BY DEF Extent, EndsOf, IsEnds, WidthOf, RoomOf, Room, Takes, TextW

\* Every item takes something, and none more than the room there is.
LEMMA Widths ==
  ASSUME NEW items \in Seq(Texts), NEW lines \in Nat, NEW i \in 1..Len(items)
  PROVE  /\ RoomOf(lines) \in Nat \ {0}
         /\ WidthOf(items, lines, i) \in 1..RoomOf(lines)
  <1>1. RoomOf(lines) \in Nat \ {0}
    BY RoomAssumption DEF RoomOf
  <1>2. Len(items[i]) \in Nat
    BY DEF Texts
  <1> QED
    BY <1>1, <1>2 DEF WidthOf, Smaller, RoomOf

LEMMA EndsExist ==
  ASSUME NEW items \in Seq(Texts), NEW lines \in Nat, NEW ms \in Seq(1..Len(items))
  PROVE  \E f : IsEnds(f, items, lines, ms)
  <1> DEFINE n == Len(ms)
             w == [k \in Nat |-> IF k \in 1..n THEN WidthOf(items, lines, ms[k]) ELSE 0]
             step == [p \in Nat \X Nat |-> p[1] + w[p[2]]]
  <1>1. n \in Nat
    OBVIOUS
  <1>2. w \in [Nat -> Nat]
    <2>1. ASSUME NEW k \in 1..n
          PROVE  WidthOf(items, lines, ms[k]) \in Nat
      <3> DEFINE i == ms[k]
      <3>1. i \in 1..Len(items)
        OBVIOUS
      <3> HIDE DEF i
      <3>2. /\ RoomOf(lines) \in Nat \ {0}
            /\ WidthOf(items, lines, i) \in 1..RoomOf(lines)
        BY <3>1, Widths
      <3> QED
        BY <3>2 DEF i
    <2> HIDE DEF n
    <2> QED
      BY <2>1
  <1>3. \A k \in 1..n : w[k] = WidthOf(items, lines, ms[k])
    BY <1>1
  <1> HIDE DEF w
  <1>4. step \in [Nat \X Nat -> Nat]
    <2>1. ASSUME NEW p \in Nat \X Nat
          PROVE  p[1] + w[p[2]] \in Nat
      <3>1. p[1] \in Nat /\ p[2] \in Nat
        OBVIOUS
      <3>2. w[p[2]] \in Nat
        BY <1>2, <3>1
      <3> QED
        BY <3>1, <3>2
    <2> QED
      BY <2>1
  <1>5. \A p \in Nat \X Nat : step[p] = p[1] + w[p[2]]
    OBVIOUS
  <1> HIDE DEF step, n
  <1>6. PICK f : Unfolds(f, n, 0, step, Nat)
    BY <1>1, <1>4, UnfoldsExists
  <1>7. f \in [0..n -> Nat] /\ f[0] = 0
    BY <1>6 DEF Unfolds
  <1>8. ASSUME NEW k \in 0..n, k # 0
        PROVE  f[k] = f[k - 1] + WidthOf(items, lines, ms[k])
    <2>1. k \in 1..n /\ k \in Nat /\ k - 1 \in 0..n
      BY <1>1, <1>8
    <2>2. f[k] = step[<<f[k - 1], k>>]
      BY <1>6, <2>1 DEF Unfolds
    <2> QED
      BY <1>3, <1>5, <1>7, <2>1, <2>2
  <1>9. IsEnds(f, items, lines, ms)
    BY <1>7, <1>8 DEF IsEnds, n
  <1> QED
    BY <1>9

\* The sums grow, by what one item takes at each step.
LEMMA EndsGrow ==
  ASSUME NEW items \in Seq(Texts), NEW lines \in Nat, NEW ms \in Seq(1..Len(items)),
         NEW e, e = EndsOf(items, lines, ms)
  PROVE  /\ e \in [0..Len(ms) -> Nat]
         /\ \A k \in 1..Len(ms) : /\ e[k] = e[k - 1] + WidthOf(items, lines, ms[k])
                                  /\ e[k - 1] < e[k] /\ e[k] - e[k - 1] <= RoomOf(lines)
         /\ \A a, b \in 0..Len(ms) : a <= b => e[a] <= e[b]
  <1> DEFINE n == Len(ms)
  <1>0. n \in Nat /\ \A k \in 1..n : ms[k] \in 1..Len(items)
    OBVIOUS
  <1>1. IsEnds(e, items, lines, ms)
    BY EndsExist DEF EndsOf
  <1>2. \A k \in 1..n : WidthOf(items, lines, ms[k]) \in 1..RoomOf(lines) /\ RoomOf(lines) \in Nat
    BY <1>0, Widths
  <1>3. \A k \in 1..n : e[k] = e[k - 1] + WidthOf(items, lines, ms[k])
    <2>1. e = [k \in 0..n |-> IF k = 0 THEN 0 ELSE e[k - 1] + WidthOf(items, lines, ms[k])]
      BY <1>1 DEF IsEnds
    <2>2. \A k \in 1..n : k \in 0..n /\ k # 0
      BY <1>0
    <2> HIDE DEF n
    <2> QED
      BY <2>1, <2>2
  <1>4. e[0] = 0 /\ DOMAIN e = 0..n /\ e = [k \in 0..n |-> e[k]]
    BY <1>0, <1>1 DEF IsEnds
  <1> HIDE DEF n
  <1> DEFINE P == {k \in Nat : k <= n => e[k] \in Nat /\ \A a \in 0..k : e[a] \in Nat /\ e[a] <= e[k]}
  <1>5. 0 \in P
    BY <1>4
  <1>6. ASSUME NEW k \in Nat, k \in P
        PROVE  k + 1 \in P
    <2>1. SUFFICES ASSUME k + 1 <= n
                   PROVE  /\ e[k + 1] \in Nat
                          /\ \A a \in 0..k + 1 : e[a] \in Nat /\ e[a] <= e[k + 1]
      OBVIOUS
    <2>2. k + 1 \in 1..n /\ (k + 1) - 1 = k
      BY <1>0, <2>1
    <2>3. e[k] \in Nat /\ \A a \in 0..k : e[a] \in Nat /\ e[a] <= e[k]
      BY <1>6, <2>1, <1>0
    <2>4. e[k + 1] \in Nat /\ e[k] <= e[k + 1]
      BY <1>2, <1>3, <2>2, <2>3
    <2>5. ASSUME NEW a \in 0..k + 1
          PROVE  e[a] \in Nat /\ e[a] <= e[k + 1]
      <3>1. a \in 0..k \/ a = k + 1
        BY <1>6
      <3> QED
        BY <2>3, <2>4, <3>1
    <2> QED
      BY <2>4, <2>5
  <1>7. Nat \subseteq P
    <2> HIDE DEF P
    <2> QED
      BY <1>5, <1>6, NatInductionOnSets
  <1>8. \A k \in 0..n : e[k] \in Nat
    BY <1>0, <1>7
  <1>9. \A a, b \in 0..n : a <= b => e[a] <= e[b]
    BY <1>0, <1>7
  <1>10. e \in [0..n -> Nat]
    BY <1>4, <1>8
  <1>11. ASSUME NEW k \in 1..n
         PROVE  e[k - 1] < e[k] /\ e[k] - e[k - 1] <= RoomOf(lines)
    <2>1. k - 1 \in 0..n /\ k \in 0..n
      BY <1>0
    <2> QED
      BY <1>2, <1>3, <1>8, <2>1
  <1> QED
    BY <1>3, <1>9, <1>10, <1>11 DEF n

\* The page that begins with the match curr: next is the first that no longer fits, 0
\* when all do, and from prev on the matches fit up to this page.
PageOK(items, lines, ms, curr, next, prev) ==
  IF ms = <<>> THEN curr = 0 /\ next = 0 /\ prev = 0
  ELSE /\ curr \in 1..Len(ms) /\ prev \in 1..curr
       /\ curr > 1 => prev < curr
       /\ next = 0 \/ next \in curr + 1..Len(ms)
       /\ \A k \in curr..Len(ms) :
            (next = 0 \/ k < next)
              <=> EndsOf(items, lines, ms)[k] - EndsOf(items, lines, ms)[curr - 1] <= RoomOf(lines)
       /\ EndsOf(items, lines, ms)[curr - 1] - EndsOf(items, lines, ms)[prev - 1] <= RoomOf(lines)

Page(r) == PageOK(r.items, r.lines, r.matches, r.curr, r.next, r.prev)

\* calcoffsets makes the page of curr.
LEMMA PageMade ==
  ASSUME NEW r \in Memories, r.matches \in Seq(1..Len(r.items)),
         NEW k \in Nat, IF r.matches = <<>> THEN k = 0 ELSE k \in 1..Len(r.matches)
  PROVE  LET s == ShowFrom(r, k)
         IN /\ Page(s)
            /\ s \in Memories
            /\ \E next, prev \in Nat : s = [r EXCEPT !.curr = k, !.next = next, !.prev = prev]
  <1> DEFINE q == [r EXCEPT !.curr = k]
             s == ShowFrom(r, k)
  <1>1. q \in Memories /\ q.curr = k /\ q.items = r.items /\ q.lines = r.lines /\ q.matches = r.matches
    BY DEF Memories
  <1>2. s = CalcOffsets(q)
    BY DEF ShowFrom
  <1> HIDE DEF q, s
  <1>3. CASE r.matches = <<>>
    <2>1. s = [q EXCEPT !.next = 0, !.prev = 0] /\ k = 0
      BY <1>1, <1>2, <1>3 DEF CalcOffsets
    <2>2. s = [r EXCEPT !.curr = k, !.next = 0, !.prev = 0]
      BY <2>1 DEF q, Memories
    <2>3. s \in Memories /\ s.matches = <<>> /\ s.curr = 0 /\ s.next = 0 /\ s.prev = 0
      BY <1>1, <1>3, <2>1 DEF Memories
    <2>4. Page(s)
      BY <2>3 DEF Page, PageOK
    <2> QED
      BY <2>2, <2>3, <2>4 DEF s
  <1>4. CASE r.matches # <<>>
    <2> DEFINE ms == r.matches
               n == Len(ms)
               e == EndsOf(r.items, r.lines, ms)
               room == RoomOf(r.lines)
    <2>0. k \in 1..n /\ n \in Nat /\ r.items \in Seq(Texts) /\ r.lines \in Nat
      BY <1>4 DEF Memories
    <2>1. /\ e \in [0..n -> Nat]
          /\ \A i \in 1..n : e[i] - e[i - 1] <= room
          /\ \A a, b \in 0..n : a <= b => e[a] <= e[b]
      BY <2>0, EndsGrow
    <2>2. room \in Nat
      BY RoomAssumption, <2>0 DEF RoomOf
    <2>3. Extent(q) = e /\ Room(q) = room
      BY <1>1, ExtentIs
    <2> HIDE DEF e, room
    <2> DEFINE over == {i \in k..n : e[i] - e[k - 1] > room}
               back == {i \in 1..k : e[k - 1] - e[i - 1] <= room}
    <2>4. Over(q) = over /\ Back(q) = back
      BY <1>1, <2>3 DEF Over, Back, Taken
    <2>5. k \in back /\ back \subseteq Nat /\ over \subseteq Nat
      <3>1. k - 1 \in 0..n
        BY <2>0
      <3>0. e[k - 1] \in Nat
        BY <2>1, <3>1
      <3>2. e[k - 1] - e[k - 1] <= room
        BY <2>2, <3>0
      <3> QED
        BY <2>0, <3>2
    <2> DEFINE next == IF over = {} THEN 0 ELSE Least(over)
               prev == Least(back)
    <2>6. prev \in back /\ \A i \in back : prev <= i
      BY <2>5, LeastIs
    <2>7. over # {} => next \in over /\ \A i \in over : next <= i
      BY <2>5, LeastIs
    <2>8. s = [q EXCEPT !.next = next, !.prev = prev]
      BY <1>1, <1>2, <2>0, <2>4 DEF CalcOffsets
    <2>9. next \in Nat /\ prev \in Nat
      <3>1. CASE over = {}
        BY <2>5, <2>6, <3>1
      <3>2. CASE over # {}
        BY <2>5, <2>6, <2>7, <3>2
      <3> QED
        BY <3>1, <3>2
    <2>10. /\ prev \in 1..k /\ e[k - 1] - e[prev - 1] <= room
           /\ k > 1 => prev < k
      <3>1. ASSUME k > 1
            PROVE  k - 1 \in back
        <4>1. k - 1 \in 1..n /\ k - 1 \in 1..k
          BY <2>0, <3>1
        <4>2. e[k - 1] - e[(k - 1) - 1] <= room
          BY <2>1, <4>1
        <4> QED
          BY <4>1, <4>2
      <3>2. prev \in 1..k /\ e[k - 1] - e[prev - 1] <= room
        BY <2>6
      <3>3. k > 1 => prev <= k - 1
        BY <2>6, <3>1
      <3> HIDE DEF prev
      <3> QED
        BY <2>0, <3>2, <3>3
    <2>11. next = 0 \/ next \in k + 1..n
      <3>1. CASE over = {}
        BY <3>1
      <3>2. CASE over # {}
        <4>1. k \notin over
          <5>1. k - 1 \in 0..n /\ k \in 0..n /\ e[k] - e[k - 1] <= room
            BY <2>0, <2>1
          <5>2. e[k] \in Nat /\ e[k - 1] \in Nat
            BY <2>1, <5>1
          <5> QED
            BY <2>2, <5>1, <5>2
        <4>2. next \in k..n /\ next # k
          BY <2>7, <3>2, <4>1
        <4> QED
          BY <2>0, <4>2
      <3> QED
        BY <3>1, <3>2
    <2>12. ASSUME NEW i \in k..n
           PROVE  (next = 0 \/ i < next) <=> e[i] - e[k - 1] <= room
      <3>0. i \in 0..n /\ k - 1 \in 0..n
        BY <2>0
      <3>00. e[i] \in Nat /\ e[k - 1] \in Nat
        BY <2>1, <3>0
      <3>01. i \in over <=> ~(e[i] - e[k - 1] <= room)
        BY <2>2, <3>00
      <3>1. CASE over = {}
        BY <3>01, <3>1
      <3>2. CASE over # {}
        <4>1. next \in over /\ next # 0 /\ next \in 0..n
          <5>1. next \in over /\ next \in k..n
            BY <2>7, <3>2
          <5> HIDE DEF next
          <5> QED
            BY <2>0, <5>1
        <4>2. e[next] \in Nat /\ e[next] - e[k - 1] > room
          BY <2>1, <4>1
        <4>3. CASE i < next
          <5>1. i \notin over
            <6> SUFFICES ASSUME i \in over PROVE FALSE
              OBVIOUS
            <6>1. next <= i
              BY <2>7, <3>2
            <6> HIDE DEF next
            <6> QED
              BY <3>0, <4>1, <4>3, <6>1
          <5> QED
            BY <3>01, <4>3, <5>1
        <4>4. CASE ~(i < next)
          <5> HIDE DEF next, over, back
          <5>0. next <= i
            BY <3>0, <4>1, <4>4
          <5>1. e[next] <= e[i]
            BY <2>1, <3>0, <4>1, <5>0
          <5>2. ~(e[i] - e[k - 1] <= room)
            BY <2>2, <3>00, <4>2, <5>1
          <5> QED
            BY <4>1, <4>4, <5>2
        <4> QED
          BY <4>3, <4>4
      <3> QED
        BY <3>1, <3>2
    <2> HIDE DEF next, prev
    <2>13. s = [r EXCEPT !.curr = k, !.next = next, !.prev = prev]
      BY <2>8, <2>9 DEF q, Memories
    <2>14. /\ s \in Memories /\ s.items = r.items /\ s.lines = r.lines /\ s.matches = ms
           /\ s.curr = k /\ s.next = next /\ s.prev = prev
      BY <1>1, <2>8, <2>9 DEF Memories
    <2>15. Page(s)
      BY <1>4, <2>0, <2>10, <2>11, <2>12, <2>14 DEF Page, PageOK, e, room
    <2> QED
      BY <2>9, <2>13, <2>14, <2>15 DEF s
  <1> QED
    BY <1>3, <1>4

-----------------------------------------------------------------------------
(* What dmenu's routines keep.                                              *)

\* The matches are those of the line.
Listed(r) ==
  ByKind(r.matches, Fitting(r.items, r.text), Kinds(r.items, r.text), Len(r.items))

\* The selected match is on the page.
SelShown(r) ==
  IF r.matches = <<>> THEN r.sel = 0
  ELSE r.sel \in 1..Len(r.matches) /\ r.curr <= r.sel /\ (r.next = 0 \/ r.sel < r.next)

Kept(r) == r.reject /\ r.items # <<>> => r.matches # <<>>

Good(r) == LineOK(r) /\ Listed(r) /\ Page(r) /\ SelShown(r) /\ Kept(r)

\* Parts of the memory that an operation leaves alone.
SameLine(r, s) ==
  /\ s.items = r.items /\ s.lines = r.lines /\ s.reject = r.reject
  /\ s.text = r.text /\ s.matches = r.matches

LEMMA ListedMatches ==
  ASSUME NEW r \in Memories, Listed(r)
  PROVE  /\ r.matches \in Seq(1..Len(r.items)) /\ Len(r.matches) \in Nat
         /\ Len(r.items) \in Nat /\ r.items \in Seq(Texts) /\ r.lines \in Nat
         /\ r.matches # <<>> <=> Len(r.matches) >= 1
  <1>1. r.matches \in Seq(1..Len(r.items))
    BY DEF Listed, ByKind
  <1>2. r.items \in Seq(Texts) /\ r.lines \in Nat
    BY DEF Memories
  <1> QED
    BY <1>1, <1>2

\* Moving the cursor within the line changes nothing else.
LEMMA CursorMoves ==
  ASSUME NEW r, Good(r), NEW c \in 0..Len(r.text)
  PROVE  Good([r EXCEPT !.cursor = c])
  <1> DEFINE s == [r EXCEPT !.cursor = c]
  <1>0. r \in Memories /\ r.text \in Texts
    BY DEF Good, LineOK, Memories
  <1>1. Len(r.text) \in Nat /\ c \in Nat
    BY <1>0 DEF Texts
  <1>2. /\ s \in Memories /\ SameLine(r, s) /\ s.cursor = c
        /\ s.curr = r.curr /\ s.next = r.next /\ s.prev = r.prev /\ s.sel = r.sel
    BY <1>0, <1>1 DEF Memories, SameLine
  <1> HIDE DEF s
  <1>3. Good(s)
    BY <1>1, <1>2 DEF Good, LineOK, Listed, Page, SelShown, Kept, SameLine
  <1> QED
    BY <1>3 DEF s

\* Selecting a match of the page.
LEMMA SelMoves ==
  ASSUME NEW r, LineOK(r), Listed(r), Page(r), Kept(r), NEW k \in 1..Len(r.matches), r.curr <= k, r.next = 0 \/ k < r.next
  PROVE  Good([r EXCEPT !.sel = k])
  <1> DEFINE s == [r EXCEPT !.sel = k]
  <1>0. r \in Memories
    BY DEF LineOK
  <1>1. Len(r.matches) \in Nat /\ r.matches # <<>> /\ k \in Nat
    BY <1>0, ListedMatches
  <1>2. /\ s \in Memories /\ SameLine(r, s) /\ s.cursor = r.cursor
        /\ s.curr = r.curr /\ s.next = r.next /\ s.prev = r.prev /\ s.sel = k
    BY <1>0, <1>1 DEF Memories, SameLine
  <1> HIDE DEF s
  <1>3. Good(s)
    BY <1>1, <1>2 DEF Good, LineOK, Listed, Page, SelShown, Kept, SameLine
  <1> QED
    BY <1>3 DEF s

\* Turning to the page of match k; the selection stays where it was.
LEMMA PageTurns ==
  ASSUME NEW r \in Memories, Listed(r),
         NEW k \in Nat, IF r.matches = <<>> THEN k = 0 ELSE k \in 1..Len(r.matches)
  PROVE  LET s == ShowFrom(r, k)
         IN /\ s \in Memories /\ Listed(s) /\ Page(s)
            /\ SameLine(r, s) /\ s.cursor = r.cursor /\ s.sel = r.sel /\ s.curr = k
  <1> DEFINE s == ShowFrom(r, k)
  <1>1. r.matches \in Seq(1..Len(r.items))
    BY ListedMatches
  <1>2. Page(s) /\ s \in Memories
    BY <1>1, PageMade
  <1>3. PICK next \in Nat, prev \in Nat : s = [r EXCEPT !.curr = k, !.next = next, !.prev = prev]
    BY <1>1, PageMade
  <1> HIDE DEF s
  <1>4. SameLine(r, s) /\ s.cursor = r.cursor /\ s.sel = r.sel /\ s.curr = k
    BY <1>3 DEF Memories, SameLine
  <1>5. Listed(s)
    BY <1>4 DEF Listed, SameLine
  <1> QED
    BY <1>2, <1>4, <1>5 DEF s

\* A page holds its first match.
LEMMA SelectMakes ==
  ASSUME NEW r \in Memories, Listed(r),
         NEW k \in Nat, IF r.matches = <<>> THEN k = 0 ELSE k \in 1..Len(r.matches)
  PROVE  LET q == SelectAt(r, k)
         IN /\ q \in Memories /\ Listed(q) /\ Page(q) /\ SelShown(q)
            /\ SameLine(r, q) /\ q.cursor = r.cursor
  <1> DEFINE s == ShowFrom(r, k)
             q == SelectAt(r, k)
  <1>1. /\ s \in Memories /\ Listed(s) /\ Page(s)
        /\ SameLine(r, s) /\ s.cursor = r.cursor /\ s.curr = k
    BY PageTurns
  <1>2. q = [s EXCEPT !.sel = k]
    BY DEF SelectAt
  <1> HIDE DEF s, q
  <1>3. /\ q \in Memories /\ SameLine(s, q) /\ q.cursor = s.cursor
        /\ q.curr = k /\ q.next = s.next /\ q.prev = s.prev /\ q.sel = k
    BY <1>1, <1>2 DEF Memories, SameLine
  <1>4. SelShown(q)
    BY <1>1, <1>3 DEF SelShown, Page, PageOK, SameLine
  <1>5. Listed(q) /\ Page(q) /\ SameLine(r, q)
    BY <1>1, <1>3 DEF Listed, Page, SameLine
  <1> QED
    BY <1>1, <1>3, <1>4, <1>5 DEF q

LEMMA SelectGood ==
  ASSUME NEW r, Good(r),
         NEW k \in Nat, IF r.matches = <<>> THEN k = 0 ELSE k \in 1..Len(r.matches)
  PROVE  Good(SelectAt(r, k))
  <1> DEFINE q == SelectAt(r, k)
  <1>1. /\ q \in Memories /\ Listed(q) /\ Page(q) /\ SelShown(q)
        /\ SameLine(r, q) /\ q.cursor = r.cursor
    BY SelectMakes DEF Good, LineOK
  <1> HIDE DEF q
  <1>2. LineOK(q) /\ Kept(q)
    BY <1>1 DEF Good, LineOK, Kept, SameLine
  <1> QED
    BY <1>1, <1>2 DEF Good, q

\* match leaves the line alone, lists what fits it and selects the first.
LEMMA MatchMakes ==
  ASSUME NEW r \in Memories
  PROVE  LET s == Match(r)
         IN /\ s \in Memories /\ Listed(s) /\ Page(s) /\ SelShown(s)
            /\ s.items = r.items /\ s.lines = r.lines /\ s.reject = r.reject
            /\ s.text = r.text /\ s.cursor = r.cursor
            /\ s.matches = <<>> <=> Fitting(r.items, r.text) = {}
  <1> DEFINE ms == Matching(r)
             p == [r EXCEPT !.matches = ms]
             k == IF ms = <<>> THEN 0 ELSE 1
             s == Match(r)
  <1>1. s = SelectAt(p, k)
    BY DEF Match
  <1>2. r.items \in Seq(Texts) /\ Len(r.items) \in Nat
    BY DEF Memories
  <1>3. ByKind(ms, Fitting(r.items, r.text), Kinds(r.items, r.text), Len(r.items))
    BY <1>2, MatchingLists
  <1>4. ms \in Seq(1..Len(r.items)) /\ ms \in Seq(Nat) /\ Len(ms) \in Nat
    BY <1>2, <1>3 DEF ByKind
  <1>5. ms = <<>> <=> Fitting(r.items, r.text) = {}
    <2>1. ASSUME ms # <<>>
          PROVE  Fitting(r.items, r.text) # {}
      <3>1. 1 \in 1..Len(ms)
        BY <1>4, <2>1
      <3> QED
        BY <1>3, <3>1 DEF ByKind
    <2>2. ASSUME ms = <<>>
          PROVE  Fitting(r.items, r.text) = {}
      BY <1>3, <2>2 DEF ByKind
    <2> QED
      BY <2>1, <2>2
  <1> HIDE DEF ms
  <1>6. /\ p \in Memories /\ p.items = r.items /\ p.lines = r.lines /\ p.reject = r.reject
        /\ p.text = r.text /\ p.cursor = r.cursor /\ p.matches = ms
    BY <1>4 DEF Memories
  <1> HIDE DEF p
  <1>7. Listed(p)
    BY <1>3, <1>6 DEF Listed
  <1>8. k \in Nat /\ IF p.matches = <<>> THEN k = 0 ELSE k \in 1..Len(p.matches)
    BY <1>4, <1>6
  <1> HIDE DEF k, s
  <1>9. /\ s \in Memories /\ Listed(s) /\ Page(s) /\ SelShown(s)
        /\ SameLine(p, s) /\ s.cursor = p.cursor
    BY <1>1, <1>6, <1>7, <1>8, SelectMakes
  <1> QED
    BY <1>5, <1>6, <1>9 DEF SameLine, s

\* match keeps a line that fits its buffer; something has to match it with -r.
LEMMA MatchGood ==
  ASSUME NEW r, LineOK(r), r.reject /\ r.items # <<>> => Fitting(r.items, r.text) # {}
  PROVE  Good(Match(r))
  <1> DEFINE s == Match(r)
  <1>1. /\ s \in Memories /\ Listed(s) /\ Page(s) /\ SelShown(s)
        /\ s.items = r.items /\ s.lines = r.lines /\ s.reject = r.reject
        /\ s.text = r.text /\ s.cursor = r.cursor
        /\ s.matches = <<>> <=> Fitting(r.items, r.text) = {}
    BY MatchMakes DEF LineOK
  <1> HIDE DEF s
  <1>2. LineOK(s) /\ Kept(s)
    BY <1>1 DEF LineOK, Kept
  <1> QED
    BY <1>1, <1>2 DEF Good, s

\* With -r something fits the line already.
LEMMA SomethingFits ==
  ASSUME NEW r, Good(r), r.reject, r.items # <<>>
  PROVE  \E i \in 1..Len(r.items) : HoldsAll(r.items[i], r.text)
  <1>1. r.matches # <<>> /\ r \in Memories /\ Listed(r)
    BY DEF Good, Kept, LineOK
  <1>2. 1 \in 1..Len(r.matches)
    BY <1>1, ListedMatches
  <1>3. r.matches[1] \in Fitting(r.items, r.text)
    BY <1>1, <1>2 DEF Listed, ByKind
  <1> QED
    BY <1>3 DEF Fitting

\* insert: a good memory stays good, with -r because what would leave no match is
\* taken back.
LEMMA InsertGood ==
  ASSUME NEW r, Good(r), NEW n \in 0..r.cursor, NEW s \in Texts
  PROVE  Good(Insert(r, n, s))
  <1> DEFINE left == SubSeq(r.text, 1, r.cursor - n)
             line == left \o s \o Right(r)
             at == r.cursor - n + Len(s)
             p == [r EXCEPT !.text = line, !.cursor = at]
             new == Match(p)
  <1>1. /\ r \in Memories /\ r.text \in Texts /\ Len(r.text) \in Nat /\ r.cursor \in Nat
        /\ r.cursor <= Len(r.text)
    BY DEF Good, LineOK, Memories, Texts
  <1>2. left \in Texts /\ Len(left) = r.cursor - n
    BY <1>1 DEF Texts
  <1>3. Right(r) \in Texts /\ Len(Right(r)) = Len(r.text) - r.cursor
    BY <1>1 DEF Right, Texts
  <1>4. Len(s) \in Nat
    BY DEF Texts
  <1>5. line \in Texts /\ Len(line) = at + (Len(r.text) - r.cursor) /\ at \in Nat
    <2> DEFINE right == Right(r)
    <2> HIDE DEF left, right
    <2>1. left \o s \in Texts /\ Len(left \o s) = Len(left) + Len(s)
      BY <1>2 DEF Texts
    <2>2. right \in Texts /\ Len(right) = Len(r.text) - r.cursor
      BY <1>3 DEF right
    <2>3. (left \o s) \o right \in Texts /\ Len((left \o s) \o right) = Len(left \o s) + Len(right)
      BY <2>1, <2>2 DEF Texts
    <2>4. at \in Nat
      BY <1>1, <1>4
    <2> QED
      BY <1>2, <2>1, <2>2, <2>3, <2>4 DEF right
  <1>6. Insert(r, n, s) = IF Len(new.text) > TextMax THEN r
                          ELSE IF r.reject /\ new.matches = <<>> THEN Match(r) ELSE new
    BY DEF Insert
  <1> HIDE DEF left, line, at
  <1>7. /\ p \in Memories /\ p.items = r.items /\ p.reject = r.reject
        /\ p.text = line /\ p.cursor = at
    BY <1>1, <1>4, <1>5 DEF Memories
  <1>8. /\ p.cursor <= Len(p.text) /\ IsMenu(p.items)
    BY <1>1, <1>4, <1>5, <1>7 DEF Good, LineOK
  <1> HIDE DEF p
  <1>9. /\ new.text = p.text /\ new.reject = p.reject
        /\ new.matches = <<>> <=> Fitting(p.items, p.text) = {}
    BY <1>7, MatchMakes
  <1>10. CASE Len(new.text) > TextMax
    BY <1>6, <1>10
  <1>11. CASE ~(Len(new.text) > TextMax) /\ r.reject /\ new.matches = <<>>
    <2>1. Insert(r, n, s) = Match(r)
      BY <1>6, <1>11
    <2>2. r.reject /\ r.items # <<>> => Fitting(r.items, r.text) # {}
      BY SomethingFits DEF Fitting
    <2> QED
      BY <2>1, <2>2, MatchGood DEF Good
  <1>12. CASE ~(Len(new.text) > TextMax) /\ ~(r.reject /\ new.matches = <<>>)
    <2>1. Insert(r, n, s) = new
      BY <1>6, <1>12
    <2>2. LineOK(p)
      <3>1. Len(p.text) \in Nat /\ TextMax \in Nat
        BY <1>5, <1>7, TextAssumption DEF Texts
      <3> QED
        BY <1>7, <1>8, <1>9, <1>12, <3>1 DEF LineOK
    <2>3. p.reject => Fitting(p.items, p.text) # {}
      BY <1>7, <1>9, <1>12
    <2> HIDE DEF new
    <2> QED
      BY <2>1, <2>2, <2>3, MatchGood DEF new
  <1> QED
    BY <1>10, <1>11, <1>12

\* The parts of a good memory.
LEMMA GoodHas ==
  ASSUME NEW r, Good(r)
  PROVE  /\ r \in Memories /\ r.text \in Texts /\ Len(r.text) \in Nat
         /\ r.cursor \in 0..Len(r.text) /\ r.items \in Seq(Texts)
         /\ LineOK(r) /\ Listed(r) /\ Page(r) /\ SelShown(r) /\ Kept(r)
         /\ r.matches \in Seq(1..Len(r.items)) /\ Len(r.matches) \in Nat
         /\ r.matches # <<>> <=> Len(r.matches) >= 1
         /\ IF r.matches = <<>> THEN r.curr = 0 /\ r.next = 0 /\ r.prev = 0 /\ r.sel = 0
            ELSE /\ r.curr \in 1..Len(r.matches) /\ r.prev \in 1..r.curr
                 /\ r.next = 0 \/ r.next \in r.curr + 1..Len(r.matches)
                 /\ r.sel \in 1..Len(r.matches)
  <1>1. LineOK(r) /\ Listed(r) /\ Page(r) /\ SelShown(r) /\ Kept(r)
    BY DEF Good
  <1>2. r \in Memories /\ r.text \in Texts /\ r.items \in Seq(Texts) /\ r.cursor \in Nat
    BY <1>1 DEF LineOK, Memories
  <1>3. Len(r.text) \in Nat
    BY <1>2 DEF Texts
  <1>4. r.cursor \in 0..Len(r.text)
    BY <1>1, <1>2, <1>3 DEF LineOK
  <1>5. /\ r.matches \in Seq(1..Len(r.items)) /\ Len(r.matches) \in Nat
        /\ r.matches # <<>> <=> Len(r.matches) >= 1
    BY <1>1, <1>2, ListedMatches
  <1>6. IF r.matches = <<>> THEN r.curr = 0 /\ r.next = 0 /\ r.prev = 0 /\ r.sel = 0
        ELSE /\ r.curr \in 1..Len(r.matches) /\ r.prev \in 1..r.curr
             /\ r.next = 0 \/ r.next \in r.curr + 1..Len(r.matches)
             /\ r.sel \in 1..Len(r.matches)
    BY <1>1 DEF Page, PageOK, SelShown
  <1> QED
    BY <1>1, <1>2, <1>3, <1>4, <1>5, <1>6

\* The selection moves up, and the page before is shown when it leaves this one: that
\* page reaches up to this one (calcoffsets' second loop).
LEMMA UpGood ==
  ASSUME NEW r, Good(r)
  PROVE  Good(Up(r))
  <1> DEFINE n == Len(r.matches)
             s == [r EXCEPT !.sel = r.sel - 1]
             q == ShowFrom(s, r.prev)
  <1>1. CASE r.sel <= 1
    BY <1>1 DEF Up
  <1>2. CASE ~(r.sel <= 1)
    <2>1. /\ r.matches # <<>> /\ n \in Nat /\ r.sel \in 2..n
          /\ r.curr \in 1..n /\ r.prev \in 1..r.curr /\ r.curr <= r.sel
          /\ r.next = 0 \/ (r.next \in r.curr + 1..n /\ r.sel < r.next)
      <3>1. r.matches # <<>> /\ n \in Nat
        BY <1>2, GoodHas
      <3>2. r.sel \in 1..n /\ r.curr \in 1..n /\ r.prev \in 1..r.curr
        BY <3>1, GoodHas
      <3>3. r.curr <= r.sel /\ (r.next = 0 \/ (r.next \in r.curr + 1..n /\ r.sel < r.next))
        BY <3>1, GoodHas DEF SelShown
      <3> QED
        BY <1>2, <3>1, <3>2, <3>3
    <2>2. Up(r) = IF s.sel + 1 = r.curr THEN q ELSE s
      BY <1>2 DEF Up
    <2>3. r.sel - 1 \in Nat
      BY <2>1
    <2>4. /\ s \in Memories /\ SameLine(r, s) /\ s.cursor = r.cursor /\ s.sel = r.sel - 1
          /\ s.curr = r.curr /\ s.next = r.next /\ s.prev = r.prev
      <3>1. r \in Memories
        BY GoodHas
      <3> QED
        BY <2>3, <3>1 DEF Memories, SameLine
    <2>5. CASE s.sel + 1 # r.curr
      <3>1. r.sel - 1 \in 1..n /\ r.curr <= r.sel - 1 /\ (r.next = 0 \/ r.sel - 1 < r.next)
        <4>1. r.sel # r.curr
          BY <2>1, <2>4, <2>5
        <4> QED
          BY <2>1, <4>1
      <3>2. Good(s)
        BY <3>1, GoodHas, SelMoves
      <3> QED
        BY <2>2, <2>5, <3>2
    <2>6. CASE s.sel + 1 = r.curr
      <3>1. r.sel = r.curr /\ r.curr > 1 /\ r.curr \in Nat /\ r.prev \in Nat
        BY <2>1, <2>4, <2>6
      <3>2. /\ r.prev < r.curr /\ r.prev \in 1..n
            /\ EndsOf(r.items, r.lines, r.matches)[r.curr - 1]
                 - EndsOf(r.items, r.lines, r.matches)[r.prev - 1] <= RoomOf(r.lines)
        BY <2>1, <3>1, GoodHas DEF Page, PageOK
      <3>3. Listed(s)
        BY <2>4, GoodHas DEF Listed, SameLine
      <3>4. s.matches = r.matches /\ s.matches # <<>> /\ r.prev \in Nat
        BY <2>1, <2>4, <3>2 DEF SameLine
      <3> HIDE DEF s, q
      <3>5. /\ q \in Memories /\ Listed(q) /\ Page(q)
            /\ SameLine(s, q) /\ q.cursor = s.cursor /\ q.sel = s.sel /\ q.curr = r.prev
        BY <2>4, <3>2, <3>3, <3>4, PageTurns DEF q
      <3>6. q.sel = r.curr - 1 /\ q.sel \in r.prev..n /\ q.matches = r.matches
            /\ q.items = r.items /\ q.lines = r.lines
        BY <2>1, <2>4, <3>1, <3>2, <3>5 DEF SameLine
      <3>7. q.next = 0 \/ q.sel < q.next
        BY <2>1, <3>2, <3>5, <3>6 DEF Page, PageOK
      <3>8. SelShown(q)
        BY <2>1, <3>2, <3>5, <3>6, <3>7 DEF SelShown
      <3>9. LineOK(q) /\ Kept(q)
        BY <2>4, <3>5, GoodHas DEF LineOK, Kept, SameLine
      <3> QED
        BY <2>2, <2>6, <3>5, <3>8, <3>9 DEF Good
    <2> QED
      BY <2>5, <2>6
  <1> QED
    BY <1>1, <1>2

\* The selection moves down, to the first match of the next page when this one ends.
LEMMA DownGood ==
  ASSUME NEW r, Good(r)
  PROVE  Good(Down(r))
  <1> DEFINE n == Len(r.matches)
             s == [r EXCEPT !.sel = r.sel + 1]
             q == ShowFrom(s, r.next)
  <1>1. CASE r.sel = n
    BY <1>1 DEF Down
  <1>2. CASE r.sel # n
    <2>1. /\ r.matches # <<>> /\ n \in Nat /\ r.sel \in 1..n - 1
          /\ r.curr \in 1..n /\ r.curr <= r.sel
          /\ r.next = 0 \/ (r.next \in r.curr + 1..n /\ r.sel < r.next)
      <3>1. r.matches # <<>> /\ n \in Nat
        BY <1>2, GoodHas
      <3>2. r.sel \in 1..n /\ r.curr \in 1..n
        BY <3>1, GoodHas
      <3>3. r.curr <= r.sel /\ (r.next = 0 \/ (r.next \in r.curr + 1..n /\ r.sel < r.next))
        BY <3>1, GoodHas DEF SelShown
      <3> QED
        BY <1>2, <3>1, <3>2, <3>3
    <2>2. Down(r) = IF s.sel = r.next THEN q ELSE s
      <3>1. s.next = r.next
        BY GoodHas DEF Memories
      <3> QED
        BY <1>2, <3>1 DEF Down
    <2>3. r.sel + 1 \in 1..n
      BY <2>1
    <2>4. /\ s \in Memories /\ SameLine(r, s) /\ s.cursor = r.cursor /\ s.sel = r.sel + 1
          /\ s.curr = r.curr /\ s.next = r.next /\ s.prev = r.prev
      <3>1. r \in Memories /\ r.sel + 1 \in Nat
        BY <2>3, GoodHas
      <3> QED
        BY <3>1 DEF Memories, SameLine
    <2>5. CASE s.sel # r.next
      <3>1. r.curr <= r.sel + 1 /\ (r.next = 0 \/ r.sel + 1 < r.next)
        BY <2>1, <2>4, <2>5
      <3>2. Good(s)
        BY <2>3, <3>1, GoodHas, SelMoves
      <3> QED
        BY <2>2, <2>5, <3>2
    <2>6. CASE s.sel = r.next
      <3>1. r.next \in 1..n /\ r.next \in Nat
        BY <2>3, <2>4, <2>6
      <3>2. Listed(s)
        BY <2>4, GoodHas DEF Listed, SameLine
      <3>3. s.matches = r.matches /\ s.matches # <<>>
        BY <2>1, <2>4 DEF SameLine
      <3> HIDE DEF s, q
      <3>4. /\ q \in Memories /\ Listed(q) /\ Page(q)
            /\ SameLine(s, q) /\ q.cursor = s.cursor /\ q.sel = s.sel /\ q.curr = r.next
        BY <2>4, <3>1, <3>2, <3>3, PageTurns DEF q
      <3>5. q.matches # <<>> /\ q.sel = q.curr /\ q.matches = r.matches
        BY <2>6, <3>3, <3>4 DEF SameLine
      <3>6. SelShown(q)
        BY <2>1, <3>1, <3>4, <3>5 DEF SelShown, Page, PageOK
      <3>7. LineOK(q) /\ Kept(q)
        BY <2>4, <3>4, GoodHas DEF LineOK, Kept, SameLine
      <3> QED
        BY <2>2, <2>6, <3>4, <3>6, <3>7 DEF Good
    <2> QED
      BY <2>5, <2>6
  <1> QED
    BY <1>1, <1>2

\* End shows the first page that nothing comes after, from the one before the last
\* match on, and selects its last match.
LEMMA LastPageGood ==
  ASSUME NEW r, Good(r), r.next # 0
  PROVE  Good([LastPage(r) EXCEPT !.sel = Len(r.matches)])
  <1> DEFINE n == Len(r.matches)
             last == ShowFrom(r, n)
             S == {k \in last.prev..n : ShowFrom(r, k).next = 0}
             k0 == Least(S)
             q == ShowFrom(r, k0)
  <1>1. LastPage(r) = q
    BY DEF LastPage
  <1>2. /\ r.matches # <<>> /\ n \in Nat /\ n >= 1 /\ r \in Memories /\ Listed(r)
        /\ LineOK(r) /\ Kept(r)
    BY GoodHas
  <1>3. ASSUME NEW k \in 1..n
        PROVE  LET s == ShowFrom(r, k)
               IN /\ s \in Memories /\ Listed(s) /\ Page(s) /\ SameLine(r, s) /\ s.cursor = r.cursor
                  /\ s.curr = k
    <2>1. k \in Nat
      BY <1>2
    <2> QED
      BY <1>2, <2>1, PageTurns
  <1>4. last.prev \in 1..n /\ last.next = 0
    <2>1. /\ Page(last) /\ last.curr = n /\ last.matches = r.matches
      BY <1>2, <1>3 DEF SameLine
    <2> HIDE DEF last
    <2>2. last.prev \in 1..n /\ (last.next = 0 \/ last.next \in n + 1..n)
      BY <1>2, <2>1 DEF Page, PageOK
    <2> QED
      BY <1>2, <2>2
  <1>5. n \in S /\ S \subseteq 1..n
    BY <1>2, <1>4
  <1>6. k0 \in S
    <2>1. S \subseteq Nat /\ S # {}
      BY <1>2, <1>5
    <2> HIDE DEF S
    <2> QED
      BY <2>1, LeastIs
  <1>7. k0 \in 1..n /\ q.next = 0
    BY <1>5, <1>6
  <1> HIDE DEF k0, S
  <1>8. /\ q \in Memories /\ Listed(q) /\ Page(q) /\ SameLine(r, q) /\ q.cursor = r.cursor
        /\ q.curr = k0
    BY <1>3, <1>7
  <1> HIDE DEF q
  <1>9. LineOK(q) /\ Kept(q)
    BY <1>2, <1>8 DEF LineOK, Kept, SameLine
  <1>10. n \in 1..Len(q.matches) /\ q.curr <= n /\ q.next = 0
    BY <1>2, <1>7, <1>8 DEF SameLine
  <1> QED
    BY <1>1, <1>8, <1>9, <1>10, SelMoves

LEMMA EdgeLeftIs ==
  ASSUME NEW r, Good(r)
  PROVE  WordEdgeLeft(r) \in 0..r.cursor
  <1> DEFINE S == {p \in 0..r.cursor :
                     \A q, s \in p + 1..r.cursor : q < s /\ r.text[q] = Space => r.text[s] = Space}
  <1>1. r.cursor \in Nat
    BY GoodHas
  <1>2. r.cursor \in S /\ S \subseteq Nat
    BY <1>1
  <1>3. Least(S) \in S
    <2> HIDE DEF S
    <2> QED
      BY <1>2, LeastIs
  <1> QED
    BY <1>3 DEF WordEdgeLeft

LEMMA EdgeRightIs ==
  ASSUME NEW r, Good(r)
  PROVE  WordEdgeRight(r) \in 0..Len(r.text)
  <1> DEFINE ends == {p \in r.cursor..Len(r.text) :
                        /\ p = Len(r.text) \/ r.text[p + 1] = Space
                        /\ \E q \in r.cursor + 1..p : r.text[q] # Space}
  <1>1. r.cursor \in Nat /\ Len(r.text) \in Nat
    BY GoodHas
  <1>2. ends \subseteq 0..Len(r.text)
    BY <1>1
  <1>3. ends # {} => Least(ends) \in ends
    <2>1. ends \subseteq Nat
      BY <1>2
    <2> HIDE DEF ends
    <2> QED
      BY <2>1, LeastIs
  <1>4. WordEdgeRight(r) = IF ends = {} THEN Len(r.text) ELSE Least(ends)
    BY Zenon DEF WordEdgeRight
  <1>5. Len(r.text) \in 0..Len(r.text)
    BY <1>1
  <1> HIDE DEF ends
  <1> QED
    BY <1>2, <1>3, <1>4, <1>5

\* Control-k: what held the whole line's words holds those of its beginning.
LEMMA CutGood ==
  ASSUME NEW r, Good(r)
  PROVE  Good(Match([r EXCEPT !.text = Left(r)]))
  <1> DEFINE left == Left(r)
             p == [r EXCEPT !.text = left]
  <1>1. /\ r \in Memories /\ r.text \in Texts /\ Len(r.text) \in Nat /\ r.cursor \in 0..Len(r.text)
        /\ r.items \in Seq(Texts) /\ IsMenu(r.items) /\ Len(r.text) <= TextMax
    BY GoodHas DEF LineOK
  <1>2. left = SubSeq(r.text, 1, r.cursor) /\ left \in Texts /\ Len(left) = r.cursor
    BY <1>1 DEF Left, Texts
  <1> HIDE DEF left
  <1>3. /\ p \in Memories /\ p.items = r.items /\ p.text = left /\ p.cursor = r.cursor
        /\ p.reject = r.reject
    BY <1>1, <1>2 DEF Memories
  <1> HIDE DEF p
  <1>4. LineOK(p)
    <2>1. r.cursor \in Nat /\ Len(r.text) \in Nat /\ TextMax \in Nat
      BY <1>1, TextAssumption
    <2> QED
      BY <1>1, <1>2, <1>3, <2>1 DEF LineOK
  <1>5. ASSUME p.reject, p.items # <<>>
        PROVE  Fitting(p.items, p.text) # {}
    <2>1. PICK i \in 1..Len(r.items) : HoldsAll(r.items[i], r.text)
      BY <1>3, <1>5, SomethingFits
    <2>2. r.items[i] \in Texts
      BY <1>1, <2>1
    <2>3. HoldsAll(r.items[i], left)
      BY <1>1, <1>2, <2>1, <2>2, BeginningHeld
    <2> QED
      BY <1>3, <2>1, <2>3 DEF Fitting
  <1>6. Good(Match(p))
    BY <1>4, <1>5, MatchGood
  <1> QED
    BY <1>6 DEF p, left

\* Tab: an item holds its own words.
LEMMA TakeGood ==
  ASSUME NEW r, Good(r), r.sel # 0
  PROVE  LET t == r.items[r.matches[r.sel]]
         IN Good(Match([r EXCEPT !.text = t, !.cursor = Len(t)]))
  <1> DEFINE i == r.matches[r.sel]
             t == r.items[i]
             p == [r EXCEPT !.text = t, !.cursor = Len(t)]
  <1>1. r \in Memories /\ r.items \in Seq(Texts) /\ IsMenu(r.items)
    BY GoodHas DEF LineOK
  <1>2. i \in 1..Len(r.items)
    <2>1. r.sel \in 1..Len(r.matches) /\ r.matches \in Seq(1..Len(r.items))
      BY GoodHas
    <2> QED
      BY <2>1
  <1> HIDE DEF i
  <1>3. t \in Texts /\ Len(t) \in Nat /\ Len(t) <= TextMax
    BY <1>1, <1>2 DEF IsMenu, Texts
  <1>4. HoldsAll(t, t)
    BY <1>3, OwnWordsHeld
  <1> HIDE DEF t
  <1>5. p \in Memories /\ p.items = r.items /\ p.text = t /\ p.cursor = Len(t)
    BY <1>1, <1>3 DEF Memories
  <1> HIDE DEF p
  <1>6. LineOK(p)
    BY <1>1, <1>3, <1>5 DEF LineOK
  <1>7. Fitting(p.items, p.text) # {}
    BY <1>2, <1>4, <1>5 DEF Fitting, t
  <1>8. Good(Match(p))
    BY <1>6, <1>7, MatchGood
  <1> QED
    BY <1>8 DEF p, t, i

-----------------------------------------------------------------------------
(* Every event keeps the memory good.                                       *)

IInv == Good(m) /\ status \in {"running", "done", "failed", "hung"}

LEMMA InitGood == Init => IInv
  <1> SUFFICES ASSUME NEW menu \in Menus, NEW l \in LineCounts, NEW reject \in BOOLEAN
               PROVE  Good(Match([items |-> menu, lines |-> Smaller(l, Len(menu)),
                                  reject |-> reject, text |-> <<>>, cursor |-> 0,
                                  matches |-> <<>>, curr |-> 0, next |-> 0, prev |-> 0,
                                  sel |-> 0]))
    BY DEF Init, IInv
  <1> DEFINE few == Smaller(l, Len(menu))
             p == [items |-> menu, lines |-> few, reject |-> reject, text |-> <<>>,
                   cursor |-> 0, matches |-> <<>>, curr |-> 0, next |-> 0, prev |-> 0,
                   sel |-> 0]
  <1>1. IsMenu(menu) /\ menu \in Seq(Texts) /\ Len(menu) \in Nat
    BY MenusAre DEF IsMenu
  <1>2. few \in Nat
    BY <1>1, TextAssumption DEF Smaller
  <1>3. <<>> \in Texts /\ <<>> \in Seq(Nat) /\ Len(<<>>) = 0 /\ 0 \in Nat
    BY DEF Texts
  <1> HIDE DEF few
  <1>4. p \in Memories
    BY <1>1, <1>2, <1>3 DEF Memories
  <1>5. p.items = menu /\ p.text = <<>> /\ p.cursor = 0
    OBVIOUS
  <1> HIDE DEF p
  <1>6. LineOK(p)
    BY <1>1, <1>3, <1>4, <1>5, TextAssumption DEF LineOK
  <1>7. ASSUME p.items # <<>>
        PROVE  Fitting(p.items, p.text) # {}
    <2>1. 1 \in 1..Len(p.items)
      BY <1>1, <1>5, <1>7
    <2>2. HoldsAll(p.items[1], p.text)
      BY <1>5, NoWords DEF HoldsAll
    <2> QED
      BY <2>1, <2>2 DEF Fitting
  <1>8. Good(Match(p))
    BY <1>6, <1>7, MatchGood
  <1> QED
    BY <1>8 DEF p, few

LEMMA EditsGood ==
  ASSUME Good(m), Edits \/ SelectionComes
  PROVE  Good(m')
  <1>0. Typed \subseteq Texts /\ Pasted \subseteq Texts /\ <<>> \in Texts
    BY TextAssumption DEF Texts
  <1>1. m.cursor \in 0..Len(m.text) /\ Len(m.text) \in Nat /\ m.cursor \in 0..m.cursor /\ 0 \in 0..m.cursor
    BY GoodHas
  <1>2. CASE KeyText \/ SelectionComes
    <2>1. PICK s \in Texts : m' = Insert(m, 0, s)
      BY <1>0, <1>2 DEF KeyText, SelectionComes, Becomes
    <2> QED
      BY <1>1, <2>1, InsertGood
  <1>3. CASE KeyDeleteRight
    BY <1>3, CutGood DEF KeyDeleteRight, Becomes
  <1>4. CASE KeyDeleteLeft
    <2>1. m' = Insert(m, m.cursor, <<>>)
      BY <1>4 DEF KeyDeleteLeft, Becomes
    <2> QED
      BY <1>0, <1>1, <2>1, InsertGood
  <1>5. CASE KeyBackSpace
    <2>1. m' = Insert(m, 1, <<>>) /\ m.cursor > 0
      BY <1>5 DEF KeyBackSpace, Becomes
    <2>2. 1 \in 0..m.cursor
      BY <1>1, <2>1
    <2> QED
      BY <1>0, <2>1, <2>2, InsertGood
  <1>6. CASE KeyDelete
    <2> DEFINE p == [m EXCEPT !.cursor = m.cursor + 1]
    <2>1. m' = Insert(p, 1, <<>>) /\ m.cursor < Len(m.text)
      BY <1>6 DEF KeyDelete, Becomes
    <2>2. m.cursor + 1 \in 0..Len(m.text)
      BY <1>1, <2>1
    <2>3. Good(p)
      BY <2>2, CursorMoves
    <2>4. p.cursor = m.cursor + 1
      BY GoodHas DEF Memories
    <2>5. 1 \in 0..p.cursor
      BY <1>1, <2>4
    <2> HIDE DEF p
    <2> QED
      BY <1>0, <2>1, <2>3, <2>5, InsertGood
  <1>7. CASE KeyDeleteWord
    <2> DEFINE edge == WordEdgeLeft(m)
    <2>1. m' = m \/ m' = Insert(m, m.cursor - edge, <<>>)
      BY <1>7 DEF KeyDeleteWord, Becomes, Exits
    <2>2. edge \in 0..m.cursor
      BY EdgeLeftIs
    <2> HIDE DEF edge
    <2>3. m.cursor - edge \in 0..m.cursor
      BY <1>1, <2>2
    <2>4. Good(Insert(m, m.cursor - edge, <<>>))
      BY <1>0, <2>3, InsertGood
    <2> QED
      BY <2>1, <2>4
  <1>8. CASE KeyTab
    BY <1>8, TakeGood DEF KeyTab, Becomes
  <1> QED
    BY <1>2, <1>3, <1>4, <1>5, <1>6, <1>7, <1>8 DEF Edits

LEMMA MovesGood ==
  ASSUME Good(m), Moves
  PROVE  Good(m')
  <1>1. m.cursor \in 0..Len(m.text) /\ Len(m.text) \in Nat /\ m \in Memories
    BY GoodHas
  <1>2. CASE KeyWordLeft
    <2>1. WordEdgeLeft(m) \in 0..Len(m.text)
      BY <1>1, EdgeLeftIs
    <2> QED
      BY <1>2, <2>1, CursorMoves DEF KeyWordLeft, Becomes
  <1>3. CASE KeyWordRight
    BY <1>3, EdgeRightIs, CursorMoves DEF KeyWordRight, Becomes
  <1>4. CASE KeyEnd
    <2>1. CASE m.cursor < Len(m.text)
      <3>1. Len(m.text) \in 0..Len(m.text)
        BY <1>1
      <3> QED
        BY <1>4, <2>1, <3>1, CursorMoves DEF KeyEnd, Becomes
    <2>2. CASE ~(m.cursor < Len(m.text)) /\ m.next # 0
      BY <1>4, <2>2, LastPageGood DEF KeyEnd, Becomes
    <2>3. CASE ~(m.cursor < Len(m.text)) /\ m.next = 0
      <3>1. m' = [m EXCEPT !.sel = Len(m.matches)]
        BY <1>4, <2>3 DEF KeyEnd, Becomes
      <3>2. CASE m.matches = <<>>
        <4>1. m.sel = 0 /\ Len(m.matches) = 0
          BY <3>2, GoodHas
        <4>2. m' = m
          BY <1>1, <3>1, <4>1 DEF Memories
        <4> QED
          BY <4>2
      <3>3. CASE m.matches # <<>>
        <4>1. Len(m.matches) \in 1..Len(m.matches) /\ m.curr <= Len(m.matches)
          BY <3>3, GoodHas
        <4> QED
          BY <2>3, <3>1, <4>1, GoodHas, SelMoves
      <3> QED
        BY <3>2, <3>3
    <2> QED
      BY <2>1, <2>2, <2>3
  <1>5. CASE KeyHome
    <2>1. CASE m.sel = Smaller(1, Len(m.matches))
      <3>1. 0 \in 0..Len(m.text)
        BY <1>1
      <3> QED
        BY <1>5, <2>1, <3>1, CursorMoves DEF KeyHome, Becomes
    <2>2. CASE m.sel # Smaller(1, Len(m.matches))
      <3>1. m' = SelectAt(m, 1)
        BY <1>5, <2>2 DEF KeyHome, Becomes
      <3>2. m.matches # <<>>
        <4>1. SUFFICES ASSUME m.matches = <<>>
                       PROVE  m.sel = 0 /\ Smaller(1, Len(m.matches)) = 0
          BY <2>2
        <4> QED
          BY <4>1, GoodHas DEF Smaller
      <3>3. 1 \in 1..Len(m.matches) /\ 1 \in Nat
        BY <3>2, GoodHas
      <3> QED
        BY <3>1, <3>2, <3>3, SelectGood
    <2> QED
      BY <2>1, <2>2
  <1>6. CASE KeyUp
    BY <1>6, UpGood DEF KeyUp, Becomes
  <1>7. CASE KeyDown
    BY <1>7, DownGood DEF KeyDown, Becomes
  <1>8. CASE KeyLeft
    <2>1. (m.cursor > 0 /\ m' = [m EXCEPT !.cursor = m.cursor - 1]) \/ m' = Up(m)
      BY <1>8 DEF KeyLeft, Becomes
    <2>2. m.cursor > 0 => m.cursor - 1 \in 0..Len(m.text)
      BY <1>1
    <2> QED
      BY <2>1, <2>2, CursorMoves, UpGood
  <1>9. CASE KeyRight
    <2>1. (m.cursor < Len(m.text) /\ m' = [m EXCEPT !.cursor = m.cursor + 1]) \/ m' = Down(m)
      BY <1>9 DEF KeyRight, Becomes
    <2>2. m.cursor < Len(m.text) => m.cursor + 1 \in 0..Len(m.text)
      BY <1>1
    <2> QED
      BY <2>1, <2>2, CursorMoves, DownGood
  <1>10. CASE PageDown \/ PageUp
    <2>1. PICK k \in {m.next, m.prev} : k # 0 /\ m' = SelectAt(m, k)
      BY <1>10 DEF PageDown, PageUp, Becomes
    <2>2. m.matches # <<>>
      BY <2>1, GoodHas
    <2>3. k \in 1..Len(m.matches) /\ k \in Nat
      <3>1. m.curr \in 1..Len(m.matches) /\ m.prev \in 1..m.curr /\ Len(m.matches) \in Nat
            /\ (m.next = 0 \/ m.next \in m.curr + 1..Len(m.matches))
        BY <2>2, GoodHas
      <3> QED
        BY <2>1, <3>1
    <2> QED
      BY <2>1, <2>2, <2>3, SelectGood
  <1> QED
    BY <1>2, <1>3, <1>4, <1>5, <1>6, <1>7, <1>8, <1>9, <1>10 DEF Moves

\* What is clicked is on the page.
LEMMA TargetShown ==
  ASSUME Good(m), NEW p, Target(p) # 0
  PROVE  Target(p) \in OnPage(m)
  <1>1. Target(p) = Least(ItemAt(p)) /\ ItemAt(p) # {}
    BY DEF Target
  <1>2. ItemAt(p) \subseteq OnPage(m) /\ OnPage(m) \subseteq Nat
    BY DEF ItemAt, OnPage
  <1> QED
    BY <1>1, <1>2, LeastIs

LEMMA MouseGood ==
  ASSUME Good(m), Mouse
  PROVE  Good(m')
  <1>1. PICK p \in Points, ctrl \in BOOLEAN : Click(p, ctrl)
    BY DEF Mouse
  <1>2. CASE ClickInput(p)
    <2>1. m' = Insert(m, m.cursor, <<>>)
      BY <1>2 DEF ClickInput, Becomes
    <2>2. m.cursor \in 0..m.cursor /\ <<>> \in Texts
      BY GoodHas DEF Texts
    <2> QED
      BY <2>1, <2>2, InsertGood
  <1>3. CASE ClickItem(p, ctrl)
    <2>1. Target(p) # 0 /\ (m' = m \/ m' = [m EXCEPT !.sel = Target(p)])
      BY <1>3 DEF ClickItem, Prints
    <2>2. Target(p) \in OnPage(m)
      BY <2>1, TargetShown
    <2>3. /\ Target(p) \in 1..Len(m.matches) /\ m.curr <= Target(p)
          /\ m.next = 0 \/ Target(p) < m.next
      BY <2>2 DEF OnPage
    <2> QED
      BY <2>1, <2>3, GoodHas, SelMoves
  <1>4. CASE ClickLeftArrow(p) \/ ClickRightArrow(p)
    <2>1. PICK k \in {m.next, m.prev} : k # 0 /\ m' = SelectAt(m, k)
      BY <1>4 DEF ClickLeftArrow, ClickRightArrow, OnLeftArrow, OnRightArrow, Becomes
    <2>2. m.matches # <<>>
      BY <2>1, GoodHas
    <2>3. k \in 1..Len(m.matches) /\ k \in Nat
      <3>1. m.curr \in 1..Len(m.matches) /\ m.prev \in 1..m.curr /\ Len(m.matches) \in Nat
            /\ (m.next = 0 \/ m.next \in m.curr + 1..Len(m.matches))
        BY <2>2, GoodHas
      <3> QED
        BY <2>1, <3>1
    <2> QED
      BY <2>1, <2>2, <2>3, SelectGood
  <1> QED
    BY <1>1, <1>2, <1>3, <1>4 DEF Click

LEMMA NextGood == IInv /\ [Next]_vars => IInv'
  <1> SUFFICES ASSUME IInv, [Next]_vars
               PROVE  IInv'
    OBVIOUS
  <1>1. CASE UNCHANGED vars
    BY <1>1 DEF IInv, vars
  <1>2. CASE Edits \/ SelectionComes
    <2>1. status' \in {"running", "done", "failed", "hung"}
      BY <1>2 DEF IInv, Edits, SelectionComes, KeyText, KeyDeleteRight, KeyDeleteLeft,
                  KeyBackSpace, KeyDelete, KeyDeleteWord, KeyTab, Becomes, Exits
    <2> QED
      BY <1>2, <2>1, EditsGood DEF IInv
  <1>3. CASE Moves
    <2>1. status' = status
      BY <1>3 DEF Moves, KeyWordLeft, KeyWordRight, KeyEnd, KeyHome, KeyUp, KeyDown, KeyLeft,
                  KeyRight, PageDown, PageUp, Becomes
    <2> QED
      BY <1>3, <2>1, MovesGood DEF IInv
  <1>4. CASE Mouse
    <2>1. status' \in {"running", "done", "failed", "hung"}
      BY <1>4 DEF IInv, Mouse, Click, ClickInput, ClickItem, ClickLeftArrow, ClickRightArrow,
                  Becomes, Prints
    <2> QED
      BY <1>4, <2>1, MouseGood DEF IInv
  <1>5. CASE Quit \/ AskSelection \/ \E shift, ctrl \in BOOLEAN : KeyReturn(shift, ctrl)
    BY <1>5 DEF IInv, Quit, Exits, AskSelection, KeyReturn, Prints
  <1> QED
    BY <1>1, <1>2, <1>3, <1>4, <1>5 DEF Next

\* The invariant that the theorems rest on.
THEOREM Invariance == Spec => []IInv
  <1> QED
    BY InitGood, NextGood, PTL DEF Spec

\* The text fits dmenu's buffer, the cursor is in it, and every position that dmenu keeps
\* is one of the list of matches.
THEOREM TypeCorrect == Spec => []TypeOK
  <1>1. IInv => TypeOK
    <2> SUFFICES ASSUME IInv
                 PROVE  TypeOK
      OBVIOUS
    <2>1. Good(m) /\ status \in {"running", "done", "failed", "hung"}
      BY DEF IInv
    <2>2. m.text \in Seq(Char) /\ Len(m.text) <= TextMax /\ m.cursor \in 0..Len(m.text)
      BY <2>1, GoodHas DEF LineOK, Texts
    <2>3. m.matches \in Seq(1..Len(m.items)) /\ Len(m.matches) \in Nat
      BY <2>1, GoodHas
    <2>4. {m.curr, m.next, m.prev, m.sel} \subseteq 0..Len(m.matches)
      <3>1. CASE m.matches = <<>>
        BY <2>1, <2>3, <3>1, GoodHas
      <3>2. CASE m.matches # <<>>
        <4>1. /\ m.curr \in 1..Len(m.matches) /\ m.prev \in 1..m.curr
              /\ m.next = 0 \/ m.next \in m.curr + 1..Len(m.matches)
              /\ m.sel \in 1..Len(m.matches)
          BY <2>1, <3>2, GoodHas
        <4> QED
          BY <2>3, <4>1
      <3> QED
        BY <3>1, <3>2
    <2> QED
      BY <2>1, <2>2, <2>3, <2>4 DEF TypeOK
  <1> QED
    BY <1>1, Invariance, PTL

\* The selected match, which Return and Tab take, is on the page that is drawn, however
\* the pages were turned and the line was edited.
THEOREM SelectedOnPage == Spec => []SelOnPage
  <1>1. IInv => SelOnPage
    <2> SUFFICES ASSUME IInv, m.matches # <<>>
                 PROVE  m.sel \in OnPage(m)
      BY DEF SelOnPage
    <2> QED
      BY GoodHas DEF IInv, SelShown, OnPage
  <1> QED
    BY <1>1, Invariance, PTL

\* What is offered is always what the line asks for, each item once: first the exact
\* matches, then the prefixes, then the rest, each kind in the order it was read.
THEOREM MatchesAlwaysCurrent == Spec => []MatchesAreCurrent
  <1>1. IInv => MatchesAreCurrent
    <2> SUFFICES ASSUME IInv
                 PROVE  MatchesAreCurrent
      OBVIOUS
    <2> DEFINE A == {i \in 1..Len(m.items) : \A w \in Words(m.text) : Holds(m.items[i], w)}
               kind == [i \in 1..Len(m.items) |->
                          IF Words(m.text) = {} \/ Same(m.text, m.items[i]) THEN 1
                          ELSE IF StartsWith(m.items[i], FirstWord(m.text)) THEN 2 ELSE 3]
    <2>1. ByKind(m.matches, A, kind, Len(m.items))
      <3>1. Listed(m)
        BY GoodHas DEF IInv
      <3>2. A = Fitting(m.items, m.text)
        BY DEF Fitting, HoldsAll
      <3>3. kind = Kinds(m.items, m.text)
        BY DEF Kinds, Kind
      <3> QED
        BY <3>1, <3>2, <3>3 DEF Listed
    <2> HIDE DEF A, kind
    <2>2. {m.matches[k] : k \in 1..Len(m.matches)} = A
      BY <2>1 DEF ByKind
    <2>3. \A j, k \in 1..Len(m.matches) : j < k =>
            \/ kind[m.matches[j]] < kind[m.matches[k]]
            \/ kind[m.matches[j]] = kind[m.matches[k]] /\ m.matches[j] < m.matches[k]
      BY <2>1 DEF ByKind
    <2> QED
      BY <2>2, <2>3 DEF MatchesAreCurrent, A, kind
  <1> QED
    BY <1>1, Invariance, PTL

\* With -r there is always something to choose, as dmenu.1 promises, whatever is typed,
\* pasted, deleted or copied.
THEOREM MatchAlwaysLeft == Spec => []RejectKeepsMatch
  <1>1. IInv => RejectKeepsMatch
    BY DEF IInv, Good, Kept, RejectKeepsMatch
  <1> QED
    BY <1>1, Invariance, PTL

\* What is drawn with -l, and what is drawn beside the input: to the right of it and of
\* what is drawn for the matches before.
LEMMA DrawnDown ==
  ASSUME Good(m), m.lines > 0, NEW k \in OnPage(m)
  PROVE  /\ Drawn(m, k).from \in Int /\ Drawn(m, k).to \in Int
         /\ Drawn(m, k).from >= RowH
         /\ \A j \in OnPage(m) : j < k => Drawn(m, j).to <= Drawn(m, k).from
  <1>1. m.matches # <<>> /\ m.curr \in 1..Len(m.matches) /\ Len(m.matches) \in Nat
    BY GoodHas DEF OnPage
  <1>2. \A j \in OnPage(m) : j \in Nat /\ m.curr <= j
    BY DEF OnPage
  <1>3. RowH \in Nat /\ m.curr \in Nat
    BY <1>1, RoomAssumption
  <1>4. \A a, b \in Nat : a <= b => a * RowH <= b * RowH
    BY <1>3
  <1>5. \A a \in Nat : a * RowH \in Nat
    BY <1>3
  <1>6. \A j \in OnPage(m) : Drawn(m, j) = [from |-> (j - m.curr + 1) * RowH,
                                            to |-> (j - m.curr + 2) * RowH]
    BY DEF Drawn
  <1>7. k - m.curr + 1 \in Nat /\ k - m.curr + 2 \in Nat /\ 1 <= k - m.curr + 1
    BY <1>2, <1>3
  <1>8. Drawn(m, k).from \in Int /\ Drawn(m, k).to \in Int
    BY <1>5, <1>6, <1>7
  <1>9. Drawn(m, k).from >= RowH
    <2>1. 1 * RowH <= (k - m.curr + 1) * RowH
      BY <1>4, <1>7
    <2>2. 1 * RowH = RowH
      BY <1>3
    <2> QED
      BY <1>5, <1>6, <1>7, <2>1, <2>2
  <1>10. ASSUME NEW j \in OnPage(m), j < k
         PROVE  Drawn(m, j).to <= Drawn(m, k).from
    <2>1. j - m.curr + 2 \in Nat /\ j - m.curr + 2 <= k - m.curr + 1
      BY <1>2, <1>3, <1>10
    <2>2. (j - m.curr + 2) * RowH <= (k - m.curr + 1) * RowH
      BY <1>4, <1>7, <2>1
    <2> QED
      BY <1>6, <2>2
  <1> QED
    BY <1>8, <1>9, <1>10

LEMMA DrawnAcross ==
  ASSUME Good(m), ~(m.lines > 0), NEW k \in OnPage(m)
  PROVE  /\ Drawn(m, k).from \in Int /\ Drawn(m, k).to \in Int
         /\ Drawn(m, k).from >= PromptW + InputW + ArrowW
         /\ \A j \in OnPage(m) : j < k => Drawn(m, j).to <= Drawn(m, k).from
  <1> DEFINE n == Len(m.matches)
             e == EndsOf(m.items, m.lines, m.matches)
             room == RoomOf(m.lines)
             begin == PromptW + InputW + ArrowW
             x(j) == begin + (e[j - 1] - e[m.curr - 1])
             w(j) == Smaller(TextW(m, m.matches[j]), MenuW - x(j) - ArrowW)
  <1>1. /\ m.matches # <<>> /\ m.curr \in 1..n /\ n \in Nat /\ m \in Memories
        /\ m.matches \in Seq(1..Len(m.items)) /\ m.items \in Seq(Texts) /\ m.lines \in Nat
    <2>1. m.matches # <<>>
      BY GoodHas DEF OnPage
    <2>2. m \in Memories
      BY GoodHas
    <2> QED
      BY <2>1, <2>2, GoodHas DEF Memories
  <1>2. {PromptW, InputW, ArrowW, MenuW} \subseteq Nat
    BY RoomAssumption
  <1>3. room = MenuW - (PromptW + InputW + 2 * ArrowW)
    BY DEF RoomOf
  <1>4. /\ e \in [0..n -> Nat]
        /\ \A j \in 1..n : e[j] = e[j - 1] + WidthOf(m.items, m.lines, m.matches[j])
        /\ \A a, b \in 0..n : a <= b => e[a] <= e[b]
    <2>1. e = EndsOf(m.items, m.lines, m.matches)
      OBVIOUS
    <2>2. /\ m.items \in Seq(Texts) /\ m.lines \in Nat
          /\ m.matches \in Seq(1..Len(m.items))
      BY <1>1
    <2> HIDE DEF e
    <2> QED
      BY ONLY <2>1, <2>2, EndsGrow
  <1>5. Extent(m) = e
    BY ExtentIs
  <1>6. \A j \in OnPage(m) : j \in 1..n /\ m.curr <= j
    BY DEF OnPage
  <1> HIDE DEF e, room
  <1>7. \A j \in OnPage(m) : Drawn(m, j) = [from |-> x(j), to |-> x(j) + w(j)]
    BY <1>5 DEF Drawn, Taken
  <1>8. ASSUME NEW j \in OnPage(m)
        PROVE  /\ x(j) \in Int /\ w(j) \in Int /\ begin <= x(j)
               /\ x(j) + w(j) <= begin + (e[j] - e[m.curr - 1])
    <2>1. j \in 1..n /\ j - 1 \in 0..n /\ j \in 0..n /\ m.curr - 1 \in 0..n /\ m.curr - 1 <= j - 1
      <3>1. j \in 1..n /\ m.curr <= j
        BY <1>6
      <3> QED
        BY <1>1, <3>1
    <2>2. e[j - 1] \in Nat /\ e[j] \in Nat /\ e[m.curr - 1] \in Nat
      BY <1>4, <2>1
    <2>3. e[m.curr - 1] <= e[j - 1]
      BY <1>4, <2>1
    <2>4. begin \in Nat /\ x(j) \in Int /\ begin <= x(j)
      BY <1>2, <2>2, <2>3
    <2> DEFINE i == m.matches[j]
               t == TextW(m, i)
    <2>5. t \in Nat /\ t = Len(m.items[i]) + 1
      <3>1. i \in 1..Len(m.items)
        BY <1>1, <2>1
      <3> HIDE DEF i
      <3>2. m.items[i] \in Texts
        BY <1>1, <3>1
      <3> QED
        BY <3>2 DEF TextW, Texts
    <2>6. e[j] = e[j - 1] + Smaller(t, room)
      <3>1. e[j] = e[j - 1] + WidthOf(m.items, m.lines, i)
        BY <1>4, <2>1
      <3>2. WidthOf(m.items, m.lines, i) = Smaller(Len(m.items[i]) + 1, room)
        BY DEF WidthOf, room
      <3> QED
        BY <2>5, <3>1, <3>2
    <2>7. w(j) = Smaller(t, MenuW - x(j) - ArrowW)
      OBVIOUS
    <2>8. MenuW - x(j) - ArrowW <= room /\ MenuW - x(j) - ArrowW \in Int /\ room \in Int
      BY <1>2, <1>3, <2>2, <2>3
    <2> HIDE DEF i, t
    <2>9. w(j) \in Int /\ w(j) <= Smaller(t, room)
      BY <2>5, <2>7, <2>8 DEF Smaller
    <2>10. Smaller(t, room) \in Int
      BY <2>5, <2>8 DEF Smaller
    <2> HIDE DEF w
    <2>11. x(j) + w(j) <= begin + (e[j] - e[m.curr - 1])
      BY <2>2, <2>4, <2>6, <2>9, <2>10
    <2> QED
      BY <2>4, <2>9, <2>11
  <1>9. ASSUME NEW j \in OnPage(m), j < k
        PROVE  x(j) + w(j) <= x(k)
    <2>1. j \in 0..n /\ k - 1 \in 0..n /\ j <= k - 1 /\ m.curr - 1 \in 0..n
      BY <1>1, <1>6, <1>9
    <2>2. e[j] <= e[k - 1] /\ e[j] \in Nat /\ e[k - 1] \in Nat /\ e[m.curr - 1] \in Nat
      BY <1>4, <2>1
    <2>3. x(j) + w(j) <= begin + (e[j] - e[m.curr - 1]) /\ x(j) + w(j) \in Int
      BY <1>8
    <2> HIDE DEF w
    <2> QED
      BY <1>2, <2>2, <2>3
  <1> HIDE DEF x, w
  <1> QED
    BY <1>7, <1>8, <1>9

\* A click inside what is drawn for an item, but for its first pixel, finds that item: the
\* walk of buttonpress adds up what drawmenu drew.
THEOREM ClicksFindDrawn == Spec => []ClickFindsDrawn
  <1>1. IInv => ClickFindsDrawn
    <2> SUFFICES ASSUME IInv, NEW k \in OnPage(m),
                        NEW p \in Drawn(m, k).from + 1..Drawn(m, k).to - 1
                 PROVE  Target(p) = k
      BY DEF ClickFindsDrawn
    <2>1. Good(m) /\ m.matches # <<>> /\ m.lines \in Nat
      BY GoodHas DEF IInv, OnPage, Memories
    <2>2. /\ Drawn(m, k).from \in Int /\ Drawn(m, k).to \in Int
          /\ \A j \in OnPage(m) : j < k => Drawn(m, j).to <= Drawn(m, k).from
          /\ m.lines > 0 => Drawn(m, k).from >= RowH
          /\ ~(m.lines > 0) => Drawn(m, k).from >= PromptW + InputW + ArrowW
      BY <2>1, DrawnDown, DrawnAcross
    <2>3. p \in Int /\ Drawn(m, k).from < p /\ p <= Drawn(m, k).to
      BY <2>2
    <2>4. {PromptW, InputW, ArrowW, MenuW, RowH} \subseteq Nat
      BY RoomAssumption
    <2>5. ~OnInput(p) /\ ~OnLeftArrow(p)
      <3>1. CASE m.lines > 0
        BY <2>2, <2>3, <2>4, <3>1 DEF OnInput, OnLeftArrow, InputEnds
      <3>2. CASE ~(m.lines > 0)
        <4>1. p > PromptW + InputW + ArrowW
          BY <2>2, <2>3, <2>4, <3>2
        <4>2. InputEnds <= PromptW + InputW + ArrowW /\ InputEnds \in Int
          BY <2>1, <2>4, <3>2 DEF InputEnds
        <4> QED
          BY <2>3, <2>4, <4>1, <4>2 DEF OnInput, OnLeftArrow
      <3> QED
        BY <3>1, <3>2
    <2>6. k \in ItemAt(p) /\ ItemAt(p) \subseteq Nat /\ ItemAt(p) \subseteq OnPage(m)
      BY <2>3 DEF ItemAt, OnPage
    <2>7. \A j \in ItemAt(p) : ~(j < k)
      <3> SUFFICES ASSUME NEW j \in ItemAt(p), j < k
                   PROVE  FALSE
        OBVIOUS
      <3>1. Drawn(m, j).to <= Drawn(m, k).from /\ p <= Drawn(m, j).to
        BY <2>2, <2>6 DEF ItemAt
      <3>2. Drawn(m, j).to \in Int
        BY <2>1, <2>6, DrawnDown, DrawnAcross
      <3> QED
        BY <2>2, <2>3, <3>1, <3>2
    <2>8. Least(ItemAt(p)) \in ItemAt(p) /\ Least(ItemAt(p)) <= k
      BY <2>6, LeastIs
    <2>9. Least(ItemAt(p)) = k
      BY <2>6, <2>7, <2>8
    <2> QED
      BY <2>5, <2>6, <2>9 DEF Target
  <1> QED
    BY <1>1, Invariance, PTL
=============================================================================
