--------------------------- MODULE DwmLayoutProofs ---------------------------
(***************************************************************************)
(* Proofs about DwmLayout.  Each routine takes a memory to one in which     *)
(* some windows have moved and nothing else has changed (Keeps): so do a    *)
(* window that is resized, the loops that lay windows out, the layouts, and *)
(* the arrangement they make up.  A window that floats is moved by Show     *)
(* alone, and how depends on little more than the window.                   *)
(***************************************************************************)
EXTENDS DwmLayout, Induction

AnyClient == [pos : Int \X Int, size : Nat \X Nat, oldpos : Int \X Int, oldsize : Nat \X Nat,
              bw : Nat, oldbw : Nat, floating : BOOLEAN, oldstate : BOOLEAN, full : BOOLEAN]

\* What window i may be: a fullscreen one floats.
ClientsOf(i) ==
  {c \in AnyClient : /\ c.size \in SizesOf(i) /\ c.oldsize \in SizesOf(i)
                     /\ c.full => c.floating}

AnyMemory ==
  [order : Seq(Window), c : [Window -> AnyClient], visible : [Window -> BOOLEAN],
   sel : Window \cup {NoWindow}, lt : Layouts, mfact : 1..19, nmaster : Nat, gaps : AllGaps,
   enablegaps : BOOLEAN, smartgaps : BOOLEAN, showbar : BOOLEAN]

Memories == {m \in AnyMemory : \A i \in Window : m.c[i] \in ClientsOf(i)}

SameScreen(m, n) ==
  /\ n.order = m.order /\ n.visible = m.visible /\ n.sel = m.sel /\ n.lt = m.lt
  /\ n.mfact = m.mfact /\ n.nmaster = m.nmaster /\ n.gaps = m.gaps
  /\ n.enablegaps = m.enablegaps /\ n.smartgaps = m.smartgaps /\ n.showbar = m.showbar

\* A window is what it was, perhaps elsewhere; where one that is fullscreen is to return
\* to is kept.
Elsewhere(c, e) ==
  /\ e.bw = c.bw /\ e.oldbw = c.oldbw
  /\ e.floating = c.floating /\ e.oldstate = c.oldstate /\ e.full = c.full
  /\ c.full => e.oldpos = c.oldpos /\ e.oldsize = c.oldsize

\* Two memories hold the same windows, wherever they are.
Like(m, n) ==
  /\ n \in Memories /\ SameScreen(m, n)
  /\ \A i \in Window : /\ n.c[i].bw = m.c[i].bw /\ n.c[i].full = m.c[i].full
                        /\ n.c[i].floating = m.c[i].floating

\* From m to n windows of S have moved.
Keeps(m, n, S) ==
  /\ n \in Memories /\ SameScreen(m, n)
  /\ \A i \in Window : Elsewhere(m.c[i], n.c[i]) /\ (i \notin S => n.c[i] = m.c[i])

LEMMA KeepsSelf ==
  ASSUME NEW m \in Memories, NEW S
  PROVE  Keeps(m, m, S)
BY DEF Keeps, SameScreen, Elsewhere

LEMMA KeepsThen ==
  ASSUME NEW k, NEW m, NEW n, NEW S, NEW T, Keeps(k, m, S), Keeps(m, n, T)
  PROVE  Keeps(k, n, S \cup T)
<1>1. SameScreen(k, n) /\ n \in Memories
  BY DEF Keeps, SameScreen
<1>2. ASSUME NEW i \in Window
      PROVE  Elsewhere(k.c[i], n.c[i]) /\ (i \notin S \cup T => n.c[i] = k.c[i])
  <2>1. Elsewhere(k.c[i], m.c[i]) /\ Elsewhere(m.c[i], n.c[i])
    BY DEF Keeps
  <2>2. Elsewhere(k.c[i], n.c[i])
    BY <2>1 DEF Elsewhere
  <2>3. i \notin S \cup T => n.c[i] = k.c[i]
    BY DEF Keeps
  <2> QED BY <2>2, <2>3
<1> QED BY <1>1, <1>2 DEF Keeps

LEMMA KeepsLike ==
  ASSUME NEW m, NEW n, NEW S, Keeps(m, n, S)
  PROVE  Like(m, n)
BY DEF Keeps, Like, Elsewhere

LEMMA KeepsMore ==
  ASSUME NEW m, NEW n, NEW S, NEW T, Keeps(m, n, S), S \subseteq T
  PROVE  Keeps(m, n, T)
BY DEF Keeps

\* Two memories with the same windows and settings, k and l, have been taken to m and n
\* by the same requests.  What became of window i: it has the same size, and the same
\* place but for what applysizehints puts at an edge of the window area.
Follows(k, l, m, n, i) ==
  /\ n.c[i].size = m.c[i].size
  /\ l.c[i].size = k.c[i].size => n.c[i].pos = m.c[i].pos
  /\ AtEdge(Area(k), Outer(l.c[i]), m.c[i].pos, n.c[i].pos)

\* The windows of S have been moved in both.
Couple(k, l, m, n, S) ==
  /\ Like(k, l) /\ Keeps(k, m, S) /\ Keeps(l, n, S)
  /\ \A i \in Window : i \in S => Follows(k, l, m, n, i)

LEMMA KeepsArea ==
  ASSUME NEW m, NEW n, SameScreen(m, n)
  PROVE  Area(n) = Area(m) /\ Arranging(n) = Arranging(m)
BY DEF Area, Arranging, SameScreen

LEMMA CoupleLast ==
  ASSUME NEW k, NEW l, NEW m, NEW n, NEW S, Couple(k, l, m, n, S)
  PROVE  Like(m, n)
<1>1. SameScreen(m, n) /\ n \in Memories
  BY DEF Couple, Keeps, Like, SameScreen
<1>2. ASSUME NEW i \in Window
      PROVE  /\ n.c[i].bw = m.c[i].bw /\ n.c[i].full = m.c[i].full
             /\ n.c[i].floating = m.c[i].floating
  <2>1. Elsewhere(k.c[i], m.c[i]) /\ Elsewhere(l.c[i], n.c[i])
    BY DEF Couple, Keeps
  <2> QED BY <2>1 DEF Couple, Like, Elsewhere
<1> QED BY <1>1, <1>2 DEF Like

LEMMA CoupleOuter ==
  ASSUME NEW k, NEW l, NEW m, NEW n, NEW S, Couple(k, l, m, n, S), NEW i \in Window, i \in S
  PROVE  Outer(n.c[i]) = Outer(m.c[i])
<1>1. n.c[i].size = m.c[i].size /\ n.c[i].bw = m.c[i].bw
  BY CoupleLast DEF Couple, Follows, Keeps, Like, Elsewhere
<1> QED BY <1>1 DEF Outer, Pair

LEMMA CoupleSelf ==
  ASSUME NEW k \in Memories, NEW l, Like(k, l)
  PROVE  Couple(k, l, k, l, {})
<1>1. l \in Memories
  BY DEF Like
<1>2. Keeps(k, k, {}) /\ Keeps(l, l, {})
  BY <1>1, KeepsSelf
<1> QED BY <1>2 DEF Couple

LEMMA CoupleThen ==
  ASSUME NEW k, NEW l, NEW m, NEW n, NEW p, NEW q, NEW S, NEW T,
         Couple(k, l, m, n, S), Couple(m, n, p, q, T)
  PROVE  Couple(k, l, p, q, S \cup T)
<1>1. Keeps(k, p, S \cup T) /\ Keeps(l, q, S \cup T) /\ Like(k, l)
  BY KeepsThen DEF Couple
<1>2. Area(m) = Area(k)
  BY KeepsArea DEF Couple, Keeps, Like
<1>3. ASSUME NEW i \in Window, i \in S \cup T
      PROVE  Follows(k, l, p, q, i)
  <2>1. CASE i \in S /\ i \notin T
    <3>1. p.c[i] = m.c[i] /\ q.c[i] = n.c[i] /\ Follows(k, l, m, n, i)
      BY <2>1 DEF Couple, Keeps, Like
    <3> QED BY <3>1 DEF Follows
  <2>2. CASE i \notin S /\ i \in T
    <3>1. m.c[i] = k.c[i] /\ n.c[i] = l.c[i] /\ Follows(m, n, p, q, i)
      BY <2>2 DEF Couple, Keeps, Like
    <3> QED BY <1>2, <3>1 DEF Follows
  <2>3. CASE i \in S /\ i \in T
    <3>1. Follows(k, l, m, n, i) /\ Follows(m, n, p, q, i)
      BY <2>3 DEF Couple
    <3>2. q.c[i].size = p.c[i].size /\ q.c[i].pos = p.c[i].pos
      BY <3>1 DEF Follows
    <3> QED BY <3>2 DEF Follows, AtEdge
  <2> QED BY <1>3, <2>1, <2>2, <2>3
<1> QED BY <1>1, <1>3 DEF Couple

\* The fields of a client and of a memory have their types.
LEMMA ClientTyped ==
  ASSUME NEW m \in Memories, NEW i \in Window
  PROVE  /\ m.c[i] \in ClientsOf(i) /\ m.c[i] \in AnyClient
         /\ m.c[i].pos \in Int \X Int /\ m.c[i].size \in SizesOf(i) /\ m.c[i].size \in Nat \X Nat
         /\ m.c[i].oldpos \in Int \X Int /\ m.c[i].oldsize \in SizesOf(i)
         /\ m.c[i].bw \in Nat /\ m.c[i].oldbw \in Nat
         /\ m.c[i].floating \in BOOLEAN /\ m.c[i].oldstate \in BOOLEAN /\ m.c[i].full \in BOOLEAN
         /\ m.c[i].full => m.c[i].floating
BY DEF Memories, ClientsOf, AnyClient, SizesOf

\* One client is replaced.
LEMMA SetClient ==
  ASSUME NEW m \in Memories, NEW i \in Window, NEW c \in ClientsOf(i),
         NEW n, n = [m EXCEPT !.c[i] = c]
  PROVE  /\ n \in Memories /\ SameScreen(m, n) /\ n.c[i] = c
         /\ \A j \in Window : j # i => n.c[j] = m.c[j]
<1>1. m \in AnyMemory /\ c \in AnyClient
  BY DEF Memories, ClientsOf
<1>2. n \in AnyMemory
  BY <1>1 DEF AnyMemory
<1>3. n.c[i] = c /\ \A j \in Window : j # i => n.c[j] = m.c[j]
  BY <1>1 DEF AnyMemory
<1>4. n \in Memories
  BY <1>2, <1>3 DEF Memories
<1>5. SameScreen(m, n)
  BY <1>1 DEF AnyMemory, SameScreen
<1> QED BY <1>3, <1>4, <1>5

-----------------------------------------------------------------------------
(* One window.                                                              *)

\* What Area, Outer, Larger and Smaller give.
LEMMA AreaTyped ==
  ASSUME NEW m
  PROVE  Area(m).pos \in Int \X Int /\ Area(m).size \in Int \X Int
BY SizesAssumption DEF Area, Positive

LEMMA OuterTyped ==
  ASSUME NEW c \in AnyClient
  PROVE  Outer(c) \in Int \X Int
BY DEF Outer, Pair, AnyClient

LEMMA PartTyped ==
  ASSUME NEW len \in Int, NEW k \in Int
  PROVE  Part(len, k) \in Int
BY DEF Part

LEMMA PlacedTyped ==
  ASSUME NEW m, NEW c \in AnyClient, NEW pos \in Int \X Int, NEW size \in Int \X Int,
         NEW interact \in BOOLEAN
  PROVE  Placed(Area(m), c, pos, size, interact) \in Int \X Int
<1>1. \A d \in Dims : /\ Area(m).pos[d] \in Int /\ Area(m).size[d] \in Int /\ Outer(c)[d] \in Int
                      /\ pos[d] \in Int /\ size[d] \in Int /\ MonPos[d] \in Int /\ MonSize[d] \in Int
  BY AreaTyped, OuterTyped, SizesAssumption DEF Dims, Positive
<1>2. c.bw \in Nat
  BY DEF AnyClient
<1>3. 1 \in Dims /\ 2 \in Dims
  BY DEF Dims
<1> HIDE DEF Dims
<1> QED BY <1>1, <1>2, <1>3 DEF Placed, Pair

LEMMA RemBounds ==
  ASSUME NEW a \in Int, NEW b \in Nat, b > 0
  PROVE  /\ Rem(a, b) \in Int
         /\ a >= 0 => Rem(a, b) <= a /\ Rem(a, b) < b
         /\ a < 0 => Rem(a, b) <= 0
<1>1. CASE a >= 0
  BY <1>1 DEF Rem
<1>2. CASE a < 0
  <2>1. (-a) % b >= 0 /\ (-a) % b \in Int
    BY <1>2
  <2> QED BY <1>2, <2>1 DEF Rem
<1> QED BY <1>1, <1>2

\* One length within its hints.
SteppedLength(size, inc, base) ==
  IF inc > 0 THEN (size - base) - Rem(size - base, inc) ELSE size - base
HintedLength(size, min, max, inc, base) ==
  LET s == Larger(SteppedLength(size, inc, base) + base, min)
  IN IF max > 0 THEN Smaller(s, max) ELSE s

LEMMA LengthHinted ==
  ASSUME NEW size \in Nat, size > 0, size >= BarHeight,
         NEW min \in Nat, NEW max \in Nat, NEW inc \in Nat, NEW base \in Nat
  PROVE  /\ HintedLength(size, min, max, inc, base) \in Nat
         /\ \/ HintedLength(size, min, max, inc, base) > 0
            \/ inc > BarHeight /\ base = 0 /\ min = 0
<1> DEFINE rem == Rem(size - base, inc)
           stepped == SteppedLength(size, inc, base)
           s == Larger(stepped + base, min)
           r == HintedLength(size, min, max, inc, base)
<1>1. BarHeight \in Nat /\ size - base \in Int
  BY SizesAssumption DEF Positive
<1>2. inc > 0 => /\ rem \in Int
                 /\ size - base >= 0 => rem <= size - base /\ rem < inc
                 /\ size - base < 0 => rem <= 0
  BY <1>1, RemBounds
<1> HIDE DEF rem
<1>3. stepped = IF inc > 0 THEN (size - base) - rem ELSE size - base
  BY DEF rem, SteppedLength
<1> HIDE DEF stepped
<1>4. stepped \in Int
  BY <1>2, <1>3
<1>5. stepped + base >= 0
  BY <1>2, <1>3
<1>6. stepped + base > 0 \/ (inc > BarHeight /\ base = 0)
  <2>1. CASE inc > 0 /\ size - base >= 0 /\ base = 0
    BY <1>1, <1>2, <1>3, <2>1
  <2>2. CASE inc > 0 /\ size - base >= 0 /\ base > 0
    BY <1>1, <1>2, <1>3, <2>2
  <2>3. CASE inc > 0 /\ size - base < 0
    BY <1>1, <1>2, <1>3, <2>3
  <2>4. CASE inc = 0
    BY <1>3, <2>4
  <2> QED BY <2>1, <2>2, <2>3, <2>4
<1>7. s \in Nat /\ s >= stepped + base /\ s >= min
  BY <1>4, <1>5 DEF Larger
<1>9. r = IF max > 0 THEN Smaller(s, max) ELSE s
  BY DEF HintedLength, stepped
<1> HIDE DEF s, r
<1>8. r \in Nat /\ (s > 0 => r > 0)
  BY <1>7, <1>9 DEF Smaller
<1>10. r \in Nat /\ (r > 0 \/ (inc > BarHeight /\ base = 0 /\ min = 0))
  BY <1>4, <1>5, <1>6, <1>7, <1>8
<1> QED BY <1>10 DEF r

LEMMA HintedSize ==
  ASSUME NEW i \in Window, NEW size \in Nat \X Nat,
         \A d \in Dims : size[d] > 0 /\ size[d] >= BarHeight
  PROVE  Hinted(Hints[i], size) \in SizesOf(i)
<1> DEFINE h == Hints[i]
           R(d) == HintedLength(size[d], h.min[d], h.max[d], h.inc[d], h.base[d])
<1>1. ASSUME NEW d \in Dims
      PROVE  R(d) \in Nat /\ (R(d) > 0 \/ (h.inc[d] > BarHeight /\ h.base[d] = 0 /\ h.min[d] = 0))
  <2>1. /\ h.min[d] \in Nat /\ h.max[d] \in Nat /\ h.inc[d] \in Nat /\ h.base[d] \in Nat
        /\ size[d] \in Nat /\ size[d] > 0 /\ size[d] >= BarHeight
    BY WindowAssumption DEF Dims
  <2> HIDE DEF h
  <2> QED BY <2>1, LengthHinted
<1>2. Hinted(Hints[i], size) = <<R(1), R(2)>>
  BY DEF Hinted, Pair, HintedLength, SteppedLength
<1>3. 1 \in Dims /\ 2 \in Dims /\ \A d \in Dims : d = 1 \/ d = 2
  BY DEF Dims
<1> HIDE DEF R
<1>4. <<R(1), R(2)>> \in Nat \X Nat
  BY <1>1, <1>3
<1>5. \A d \in Dims : <<R(1), R(2)>>[d] = R(d)
  BY <1>3
<1> QED BY <1>1, <1>2, <1>4, <1>5 DEF SizesOf

LEMMA GivenSizes ==
  ASSUME NEW i \in Window, NEW size \in Positive \X Positive
  PROVE  size \in SizesOf(i)
BY DEF SizesOf, Positive, Dims

\* Where resize puts a window, and what size it gives it.
LandPos(m, i, pos, size, interact) ==
  Placed(Area(m), m.c[i], pos, Pair(LAMBDA d : Larger(1, size[d])), interact)

LandSize(m, i, size) ==
  LET s == Pair(LAMBDA d : Larger(Larger(1, size[d]), BarHeight))
  IN IF m.c[i].floating \/ ~Arranging(m) THEN Hinted(Hints[i], s) ELSE s

LEMMA LandTyped ==
  ASSUME NEW m \in Memories, NEW i \in Window, NEW pos \in Int \X Int, NEW size \in Int \X Int,
         NEW interact \in BOOLEAN
  PROVE  LandPos(m, i, pos, size, interact) \in Int \X Int /\ LandSize(m, i, size) \in SizesOf(i)
<1>1. m.c[i] \in AnyClient
  BY ClientTyped
<1>2. Pair(LAMBDA d : Larger(1, size[d])) \in Int \X Int
  BY DEF Pair, Larger
<1>3. LandPos(m, i, pos, size, interact) \in Int \X Int
  BY <1>1, <1>2, PlacedTyped DEF LandPos
<1> DEFINE s == Pair(LAMBDA d : Larger(Larger(1, size[d]), BarHeight))
<1>4. s \in Positive \X Positive /\ s \in Nat \X Nat /\ \A d \in Dims : s[d] > 0 /\ s[d] >= BarHeight
  BY SizesAssumption DEF Pair, Larger, Positive, Dims
<1>5. LandSize(m, i, size) = IF m.c[i].floating \/ ~Arranging(m) THEN Hinted(Hints[i], s) ELSE s
  BY DEF LandSize
<1> HIDE DEF s
<1>6. s \in SizesOf(i) /\ Hinted(Hints[i], s) \in SizesOf(i)
  BY <1>4, GivenSizes, HintedSize
<1> QED BY <1>3, <1>5, <1>6

LEMMA ResizedClient ==
  ASSUME NEW i \in Window, NEW c \in ClientsOf(i), NEW pos \in Int \X Int, NEW size \in SizesOf(i)
  PROVE  /\ Resized(c, pos, size) \in ClientsOf(i)
         /\ Resized(c, pos, size).pos = pos /\ Resized(c, pos, size).size = size
         /\ Resized(c, pos, size).oldpos = c.pos /\ Resized(c, pos, size).oldsize = c.size
         /\ Resized(c, pos, size).bw = c.bw /\ Resized(c, pos, size).oldbw = c.oldbw
         /\ Resized(c, pos, size).floating = c.floating
         /\ Resized(c, pos, size).oldstate = c.oldstate /\ Resized(c, pos, size).full = c.full
<1>1. size \in Nat \X Nat /\ c \in AnyClient /\ c.size \in SizesOf(i)
  BY DEF SizesOf, ClientsOf
<1>2. Resized(c, pos, size) \in AnyClient
  BY <1>1 DEF Resized, AnyClient
<1> QED BY <1>1, <1>2 DEF Resized, AnyClient, ClientsOf

\* resize moves a window that is not fullscreen to where it lands.
LEMMA ResizeKeeps ==
  ASSUME NEW m \in Memories, NEW i \in Window, NEW pos \in Int \X Int, NEW size \in Int \X Int,
         NEW interact \in BOOLEAN, ~m.c[i].full
  PROVE  /\ Keeps(m, Resize(m, i, pos, size, interact), {i})
         /\ Resize(m, i, pos, size, interact).c[i].pos = LandPos(m, i, pos, size, interact)
         /\ Resize(m, i, pos, size, interact).c[i].size = LandSize(m, i, size)
<1> DEFINE p == LandPos(m, i, pos, size, interact)
           s == LandSize(m, i, size)
           n == ResizeClient(m, i, p, s)
<1>1. p \in Int \X Int /\ s \in SizesOf(i)
  BY LandTyped
<1>2. Resize(m, i, pos, size, interact) = ResizeTo(m, i, p, s)
  BY DEF Resize, LandPos, LandSize
<1> HIDE DEF p, s
<1>3. m.c[i] \in ClientsOf(i)
  BY ClientTyped
<1>4. n = [m EXCEPT !.c[i] = Resized(m.c[i], p, s)]
  BY DEF ResizeClient, Memories, AnyMemory
<1>5. /\ n \in Memories /\ SameScreen(m, n) /\ n.c[i] = Resized(m.c[i], p, s)
      /\ \A j \in Window : j # i => n.c[j] = m.c[j]
  BY <1>1, <1>3, <1>4, ResizedClient, SetClient
<1>6. Keeps(m, n, {i}) /\ n.c[i].pos = p /\ n.c[i].size = s
  BY <1>1, <1>3, <1>5, ResizedClient DEF Keeps, Elsewhere
<1> HIDE DEF n
<1>7. CASE <<p, s>> = <<m.c[i].pos, m.c[i].size>>
  BY <1>2, <1>7, KeepsSelf DEF ResizeTo, p, s
<1>8. CASE <<p, s>> # <<m.c[i].pos, m.c[i].size>>
  BY <1>2, <1>6, <1>8 DEF ResizeTo, p, s, n
<1> QED BY <1>7, <1>8

\* resize, asked the same of both memories.
LEMMA ResizeCouple ==
  ASSUME NEW m \in Memories, NEW n, Like(m, n), NEW i \in Window, ~m.c[i].full,
         NEW pos \in Int \X Int, NEW size \in Int \X Int
  PROVE  Couple(m, n, Resize(m, i, pos, size, FALSE), Resize(n, i, pos, size, FALSE), {i})
<1> DEFINE p == Resize(m, i, pos, size, FALSE)
           q == Resize(n, i, pos, size, FALSE)
           a == Area(m)
           s == Pair(LAMBDA d : Larger(1, size[d]))
<1>1. /\ n \in Memories /\ SameScreen(m, n) /\ ~n.c[i].full
      /\ n.c[i].bw = m.c[i].bw /\ n.c[i].floating = m.c[i].floating
  BY DEF Like
<1>2. Keeps(m, p, {i}) /\ p.c[i].pos = LandPos(m, i, pos, size, FALSE) /\ p.c[i].size = LandSize(m, i, size)
  BY ResizeKeeps
<1>3. Keeps(n, q, {i}) /\ q.c[i].pos = LandPos(n, i, pos, size, FALSE) /\ q.c[i].size = LandSize(n, i, size)
  BY <1>1, ResizeKeeps
<1> HIDE DEF p, q
<1>4. Area(n) = a /\ Arranging(n) = Arranging(m)
  BY <1>1, KeepsArea
<1>5. n.c[i].floating = m.c[i].floating /\ n.c[i].bw = m.c[i].bw
  BY <1>1 DEF Elsewhere
<1>6. q.c[i].size = p.c[i].size
  BY <1>2, <1>3, <1>4, <1>5 DEF LandSize
<1>9. /\ p.c[i].pos = Placed(a, m.c[i], pos, s, FALSE)
      /\ q.c[i].pos = Placed(a, n.c[i], pos, s, FALSE)
  BY <1>2, <1>3, <1>4 DEF LandPos
<1> HIDE DEF s, a
<1>10. n.c[i].size = m.c[i].size => q.c[i].pos = p.c[i].pos
  BY <1>5, <1>9 DEF Placed, Outer, Pair
<1>11. AtEdge(a, Outer(n.c[i]), p.c[i].pos, q.c[i].pos)
  <2>1. ASSUME NEW d \in Dims
        PROVE  q.c[i].pos[d] \in {p.c[i].pos[d], a.pos[d], a.pos[d] + a.size[d] - Outer(n.c[i])[d]}
    <3>1. d = 1 \/ d = 2
      BY DEF Dims
    <3> QED BY <1>5, <1>9, <3>1 DEF Placed, Pair
  <2> QED BY <2>1 DEF AtEdge
<1>12. Follows(m, n, p, q, i)
  BY <1>6, <1>10, <1>11 DEF Follows, a
<1>13. Couple(m, n, p, q, {i})
  BY <1>2, <1>3, <1>12 DEF Couple
<1> QED BY <1>13 DEF p, q

-----------------------------------------------------------------------------
(* Loops.                                                                   *)

\* A loop of n steps within a set has all its values.
Runs(f, V, base, n, step) ==
  f \in [0..n -> V] /\ f[0] = base /\ \A k \in 1..n : f[k] = step[<<f[k - 1], k>>]

LEMMA LoopExists ==
  ASSUME NEW V, NEW base \in V, NEW n \in Nat, NEW step \in [V \X (1..n) -> V]
  PROVE  \E f : Runs(f, V, base, n, step)
<1> DEFINE more == [p \in V \X Nat |-> IF p[2] \in 1..n THEN step[p] ELSE p[1]]
<1>1. more \in [V \X Nat -> V]
  <2>1. ASSUME NEW p \in V \X Nat
        PROVE  (IF p[2] \in 1..n THEN step[p] ELSE p[1]) \in V
    <3>1. p[2] \in 1..n => p \in V \X (1..n)
      OBVIOUS
    <3> QED BY <3>1
  <2> QED BY <2>1
<1>2. \A v \in V, k \in 1..n : more[<<v, k>>] = step[<<v, k>>]
  OBVIOUS
<1> HIDE DEF more
<1>3. PICK f : Unfolds(f, n, base, more, V)
  BY <1>1, UnfoldsExists
<1>4. f \in [0..n -> V] /\ f[0] = base
  BY <1>3 DEF Unfolds
<1>5. ASSUME NEW k \in 1..n
      PROVE  f[k] = step[<<f[k - 1], k>>]
  <2>1. f[k] = more[<<f[k - 1], k>>]
    BY <1>3 DEF Unfolds
  <2>2. f[k - 1] \in V
    BY <1>4
  <2> QED BY <1>2, <2>1, <2>2
<1> QED BY <1>4, <1>5 DEF Runs

\* What Kept has after some steps, and what it has in the end: the members of S, once
\* each if the list has none twice.
KeptRun(f, list, S) ==
  f = [k \in 0..Len(list) |->
         IF k = 0 THEN <<>> ELSE IF list[k] \in S THEN Append(f[k - 1], list[k]) ELSE f[k - 1]]

LEMMA KeptRunExists ==
  ASSUME NEW W, NEW list \in Seq(W), NEW S
  PROVE  \E f : KeptRun(f, list, S)
<1> DEFINE V == Seq(W)
           n == Len(list)
           Step(v, k) == IF list[k] \in S THEN Append(v, list[k]) ELSE v
           step == [p \in V \X (1..n) |-> Step(p[1], p[2])]
<1>1. n \in Nat /\ <<>> \in V
  OBVIOUS
<1>2. ASSUME NEW v \in V, NEW k \in 1..n
      PROVE  Step(v, k) \in V
  <2>1. list[k] \in W
    OBVIOUS
  <2> QED BY <2>1
<1>3. step \in [V \X (1..n) -> V] /\ \A v \in V, k \in 1..n : step[<<v, k>>] = Step(v, k)
  BY <1>2
<1> HIDE DEF V, step, n
<1> DEFINE base == <<>>
<1>7. base \in V
  BY <1>1
<1>8. step \in [V \X (1..n) -> V]
  BY <1>3
<1> HIDE DEF base
<1>9. PICK f : Runs(f, V, base, n, step)
  BY <1>1, <1>7, <1>8, LoopExists
<1>4. f \in [0..n -> V] /\ f[0] = base /\ \A k \in 1..n : f[k] = step[<<f[k - 1], k>>]
  BY <1>9 DEF Runs
<1>5. ASSUME NEW k \in 0..n
      PROVE  f[k] = IF k = 0 THEN <<>> ELSE Step(f[k - 1], k)
  <2>1. CASE k = 0
    BY <1>4, <2>1 DEF base
  <2>2. CASE k # 0
    <3>1. k \in 1..n /\ f[k - 1] \in V
      BY <1>1, <1>4, <2>2
    <3> QED BY <1>3, <1>4, <2>2, <3>1
  <2> QED BY <2>1, <2>2
<1>6. f = [k \in 0..n |-> IF k = 0 THEN <<>> ELSE Step(f[k - 1], k)]
  BY <1>4, <1>5
<1> QED BY <1>6 DEF KeptRun, n

\* What one more element does to the members and to there being no repeats.
LEMMA AppendMembers ==
  ASSUME NEW W, NEW s \in Seq(W), NEW x \in W
  PROVE  /\ Append(s, x) \in Seq(W)
         /\ Members(Append(s, x)) = Members(s) \cup {x}
         /\ NoRepeats(s) /\ x \notin Members(s) => NoRepeats(Append(s, x))
<1> DEFINE t == Append(s, x)
<1>1. /\ t \in Seq(W) /\ Len(t) = Len(s) + 1 /\ t[Len(s) + 1] = x
      /\ \A k \in 1..Len(s) : t[k] = s[k]
  OBVIOUS
<1>2. Len(s) \in Nat
  OBVIOUS
<1> HIDE DEF t
<1>3. \A k \in 1..Len(t) : k \in 1..Len(s) \/ k = Len(s) + 1
  BY <1>1, <1>2
<1>4. Members(t) = Members(s) \cup {x}
  <2>1. ASSUME NEW y \in Members(t)
        PROVE  y \in Members(s) \cup {x}
    BY <1>1, <1>3 DEF Members
  <2>2. ASSUME NEW y \in Members(s) \cup {x}
        PROVE  y \in Members(t)
    <3>1. CASE y = x
      <4>1. Len(s) + 1 \in 1..Len(t)
        BY <1>1, <1>2
      <4> QED BY <1>1, <3>1, <4>1 DEF Members
    <3>2. CASE y \in Members(s)
      <4>1. PICK k \in 1..Len(s) : y = s[k]
        BY <3>2 DEF Members
      <4>2. k \in 1..Len(t) /\ t[k] = y
        BY <1>1, <1>2, <4>1
      <4> QED BY <4>2 DEF Members
    <3> QED BY <3>1, <3>2
  <2> QED BY <2>1, <2>2
<1>5. ASSUME NoRepeats(s), x \notin Members(s), NEW k \in 1..Len(t), NEW l \in 1..Len(t), t[k] = t[l]
      PROVE  k = l
  <2>1. \A j \in 1..Len(s) : s[j] # x
    BY <1>5 DEF Members
  <2>2. CASE k \in 1..Len(s) /\ l \in 1..Len(s)
    BY <1>1, <1>5, <2>2 DEF NoRepeats
  <2>3. CASE k = Len(s) + 1 \/ l = Len(s) + 1
    BY <1>1, <1>3, <1>5, <2>1, <2>3
  <2> QED BY <1>3, <2>2, <2>3
<1> QED BY <1>1, <1>4, <1>5 DEF NoRepeats, t

LEMMA KeptMembers ==
  ASSUME NEW W, NEW list \in Seq(W), NEW S
  PROVE  /\ Kept(list, S) \in Seq(W)
         /\ Members(Kept(list, S)) = Members(list) \cap S
         /\ NoRepeats(list) => NoRepeats(Kept(list, S))
<1> DEFINE upto == CHOOSE f : KeptRun(f, list, S)
           n == Len(list)
           Ahead(k) == {list[j] : j \in 1..k} \cap S
           Good(s, k) == /\ s \in Seq(W) /\ Members(s) = Ahead(k)
                         /\ NoRepeats(list) => NoRepeats(s)
<1>1. KeptRun(upto, list, S)
  BY KeptRunExists
<1>2. n \in Nat
  OBVIOUS
<1>3. Kept(list, S) = upto[n]
  BY DEF Kept, KeptRun
<1> HIDE DEF upto
<1>4. upto[0] = <<>> /\ \A k \in 1..n : upto[k] = IF list[k] \in S THEN Append(upto[k - 1], list[k])
                                                  ELSE upto[k - 1]
  <2>1. upto[0] = <<>>
    BY <1>1, <1>2 DEF KeptRun
  <2>2. ASSUME NEW k \in 1..n
        PROVE  upto[k] = IF list[k] \in S THEN Append(upto[k - 1], list[k]) ELSE upto[k - 1]
    <3>1. k \in 0..n /\ k # 0
      OBVIOUS
    <3> QED BY <1>1, <3>1 DEF KeptRun
  <2> QED BY <2>1, <2>2
<1> DEFINE T == {k \in Nat : k <= n => Good(upto[k], k)}
<1>5. 0 \in T
  <2>1. Members(<<>>) = {} /\ NoRepeats(<<>>) /\ <<>> \in Seq(W) /\ Ahead(0) = {}
    BY DEF Members, NoRepeats
  <2> QED BY <1>4, <2>1
<1>6. ASSUME NEW k \in Nat, k \in T
      PROVE  k + 1 \in T
  <2> SUFFICES ASSUME k + 1 <= n
               PROVE  Good(upto[k + 1], k + 1)
    OBVIOUS
  <2>1. Good(upto[k], k) /\ k + 1 \in 1..n /\ (k + 1) - 1 = k /\ k \in 0..n
    BY <1>2, <1>6
  <2>2. list[k + 1] \in W
    BY <2>1
  <2>3. Ahead(k + 1) = Ahead(k) \cup ({list[k + 1]} \cap S)
    <3>1. \A j : j \in 1..(k + 1) <=> j \in 1..k \/ j = k + 1
      BY <1>6
    <3> QED BY <3>1
  <2>4. CASE list[k + 1] \notin S
    <3>1. upto[k + 1] = upto[k]
      BY <1>4, <2>1, <2>4
    <3> QED BY <2>1, <2>3, <2>4, <3>1
  <2>5. CASE list[k + 1] \in S
    <3>1. upto[k + 1] = Append(upto[k], list[k + 1])
      BY <1>4, <2>1, <2>5
    <3>2. NoRepeats(list) => list[k + 1] \notin Ahead(k)
      <4>1. \A j \in 1..k : j \in 1..n /\ j # k + 1
        BY <2>1
      <4> QED BY <2>1, <4>1 DEF NoRepeats
    <3> HIDE DEF Ahead
    <3>3. Members(upto[k + 1]) = Ahead(k) \cup {list[k + 1]}
      BY <2>1, <2>2, <3>1, AppendMembers
    <3>4. NoRepeats(list) => NoRepeats(upto[k + 1])
      BY <2>1, <2>2, <3>1, <3>2, AppendMembers
    <3>5. upto[k + 1] \in Seq(W)
      BY <2>1, <2>2, <3>1
    <3> QED BY <2>3, <2>5, <3>3, <3>4, <3>5
  <2> QED BY <2>4, <2>5
<1>7. n \in T
  <2> HIDE DEF T
  <2>1. Nat \subseteq T
    BY <1>5, <1>6, NatInductionOnSets
  <2> QED BY <1>2, <2>1
<1>8. Good(upto[n], n)
  BY <1>2, <1>7
<1> QED BY <1>3, <1>8 DEF Members

\* None of the windows of S is fullscreen.
Free(m, S) == S \subseteq Window /\ \A i \in S : ~m.c[i].full

LEMMA StaysFree ==
  ASSUME NEW m, NEW n, NEW S, NEW T, Free(m, S), Keeps(m, n, T)
  PROVE  Free(n, S)
BY DEF Free, Keeps, Elsewhere

LEMMA LikeFree ==
  ASSUME NEW m, NEW n, NEW S, Free(m, S), Like(m, n)
  PROVE  Free(n, S)
BY DEF Free, Like

LEMMA MembersOf ==
  ASSUME NEW W, NEW list \in Seq(W)
  PROVE  /\ Members(list) \subseteq W
         /\ \A k \in 1..Len(list) : list[k] \in Members(list) /\ list[k] \in W
BY DEF Members

\* Windows laid one after the other.
FlowStates == [g : Memories, pos : Int \X Int]

LEMMA FlowStepKeeps ==
  ASSUME NEW s \in FlowStates, NEW i \in Window, ~s.g.c[i].full, NEW d \in Dims,
         NEW len \in Int, NEW cross \in Int, NEW gap \in Int
  PROVE  /\ FlowStep(s, i, d, len, cross, gap) \in FlowStates
         /\ Keeps(s.g, FlowStep(s, i, d, len, cross, gap).g, {i})
<1> DEFINE b == 2 * s.g.c[i].bw
           along == Pair(LAMBDA e : (IF e = d THEN len ELSE cross) - b)
           m == Resize(s.g, i, s.pos, along, FALSE)
           pos == [s.pos EXCEPT ![d] = @ + Outer(m.c[i])[d] + gap]
<1>1. s.g \in Memories /\ s.pos \in Int \X Int
  BY DEF FlowStates
<1>2. b \in Int
  BY <1>1, ClientTyped
<1>3. along \in Int \X Int
  <2> HIDE DEF b
  <2> QED BY <1>2 DEF Pair
<1> HIDE DEF along
<1>4. Keeps(s.g, m, {i})
  BY <1>1, <1>3, ResizeKeeps
<1>5. m \in Memories
  BY <1>4 DEF Keeps
<1> HIDE DEF m
<1>6. Outer(m.c[i]) \in Int \X Int
  BY <1>5, ClientTyped, OuterTyped
<1>7. pos \in Int \X Int
  BY <1>1, <1>6 DEF Dims
<1>8. FlowStep(s, i, d, len, cross, gap) = [g |-> m, pos |-> pos]
  BY DEF FlowStep, m, along
<1> HIDE DEF pos
<1> QED BY <1>4, <1>5, <1>7, <1>8 DEF FlowStates

FlowRun(f, m, ws, d, pos, cross, lens, gap) ==
  f = [k \in 0..Len(ws) |->
         IF k = 0 THEN [g |-> m, pos |-> pos]
         ELSE FlowStep(f[k - 1], ws[k], d, lens[k], cross, gap)]

\* The steps of a flow.
FlowGoes(f, m, ws, d, pos, cross, lens, gap) ==
  /\ Flow(m, ws, d, pos, cross, lens, gap) = f[Len(ws)].g
  /\ f[0] = [g |-> m, pos |-> pos]
  /\ \A k \in 1..Len(ws) : f[k] = FlowStep(f[k - 1], ws[k], d, lens[k], cross, gap)
  /\ \A k \in 0..Len(ws) : f[k] \in FlowStates /\ Keeps(m, f[k].g, Members(ws))

LEMMA FlowRuns ==
  ASSUME NEW m \in Memories, NEW ws \in Seq(Window), Free(m, Members(ws)), NEW d \in Dims,
         NEW pos \in Int \X Int, NEW cross \in Int, NEW lens \in [1..Len(ws) -> Int],
         NEW gap \in Int
  PROVE  \E f : FlowGoes(f, m, ws, d, pos, cross, lens, gap)
<1> DEFINE n == Len(ws)
           S == Members(ws)
           V == {s \in FlowStates : Keeps(m, s.g, S)}
           base == [g |-> m, pos |-> pos]
           Step(s, k) == FlowStep(s, ws[k], d, lens[k], cross, gap)
           step == [p \in V \X (1..n) |-> Step(p[1], p[2])]
<1>1. n \in Nat
  OBVIOUS
<1>2. base \in V
  BY KeepsSelf DEF FlowStates
<1>3. ASSUME NEW s \in V, NEW k \in 1..n
      PROVE  Step(s, k) \in V
  <2>1. ws[k] \in S /\ ws[k] \in Window /\ lens[k] \in Int
    BY MembersOf
  <2>2. ~s.g.c[ws[k]].full
    BY <2>1, StaysFree DEF Free
  <2>3. Step(s, k) \in FlowStates /\ Keeps(s.g, Step(s, k).g, {ws[k]})
    BY <2>1, <2>2, FlowStepKeeps
  <2> HIDE DEF Step, S
  <2>4. Keeps(m, Step(s, k).g, S \cup {ws[k]})
    BY <2>3, KeepsThen
  <2>5. S \cup {ws[k]} = S
    BY <2>1
  <2> QED BY <2>3, <2>4, <2>5
<1>4. step \in [V \X (1..n) -> V]
  BY <1>3
<1>5. \A v \in V, k \in 1..n : step[<<v, k>>] = Step(v, k)
  OBVIOUS
<1> HIDE DEF base, step, V, n
<1>6. PICK f : Runs(f, V, base, n, step)
  BY <1>1, <1>2, <1>4, LoopExists
<1>7. f = [k \in 0..n |-> IF k = 0 THEN base ELSE Step(f[k - 1], k)]
  <2>1. f = [k \in 0..n |-> f[k]] /\ f[0] = base
    BY <1>6 DEF Runs
  <2>2. ASSUME NEW k \in 0..n, k # 0
        PROVE  f[k] = Step(f[k - 1], k)
    <3>1. k \in 1..n /\ k - 1 \in 0..n
      BY <1>1, <2>2
    <3>2. f[k - 1] \in V /\ f[k] = step[<<f[k - 1], k>>]
      BY <1>6, <3>1 DEF Runs
    <3> HIDE DEF Step
    <3> QED BY <1>5, <3>1, <3>2
  <2> HIDE DEF Step
  <2> QED BY <2>1, <2>2
<1>8. FlowRun(f, m, ws, d, pos, cross, lens, gap)
  BY <1>7 DEF FlowRun, base, n
<1> DEFINE after == CHOOSE f1 : FlowRun(f1, m, ws, d, pos, cross, lens, gap)
<1>9. FlowRun(after, m, ws, d, pos, cross, lens, gap)
  BY <1>8
<1>10. Flow(m, ws, d, pos, cross, lens, gap) = after[n].g
  BY DEF Flow, FlowRun, n
<1> HIDE DEF after
<1>11. after[0] = base /\ \A k \in 1..n : after[k] = Step(after[k - 1], k)
  BY <1>1, <1>9 DEF FlowRun, base, n
<1>12. \A k \in 0..n : after[k] \in V
  <2> HIDE DEF Step
  <2>1. \A k \in 1..n : after[k - 1] \in V => after[k] \in V
    BY <1>3, <1>11
  <2>2. after[0] \in V
    BY <1>2, <1>11
  <2> QED BY <1>1, <2>1, <2>2, StaysIn
<1>13. FlowGoes(after, m, ws, d, pos, cross, lens, gap)
  BY <1>10, <1>11, <1>12 DEF FlowGoes, V, base, n
<1> QED BY <1>13

\* Two flows after the same requests.
FlowBoth(s, t, u, v, S) == Couple(s.g, t.g, u.g, v.g, S) /\ v.pos = u.pos

LEMMA FlowStepCouple ==
  ASSUME NEW s \in FlowStates, NEW t \in FlowStates, t.pos = s.pos, Like(s.g, t.g),
         NEW i \in Window, ~s.g.c[i].full, NEW d \in Dims,
         NEW len \in Int, NEW cross \in Int, NEW gap \in Int
  PROVE  FlowBoth(s, t, FlowStep(s, i, d, len, cross, gap), FlowStep(t, i, d, len, cross, gap), {i})
<1> DEFINE b == 2 * s.g.c[i].bw
           along == Pair(LAMBDA e : (IF e = d THEN len ELSE cross) - b)
           pos == s.pos
           m == Resize(s.g, i, pos, along, FALSE)
           n == Resize(t.g, i, pos, along, FALSE)
<1>1. s.g \in Memories /\ pos \in Int \X Int
  BY DEF FlowStates
<1>2. b \in Int /\ t.g.c[i].bw = s.g.c[i].bw
  BY <1>1, ClientTyped DEF Like
<1>3. along \in Int \X Int
  <2> HIDE DEF b
  <2> QED BY <1>2 DEF Pair
<1>4. /\ FlowStep(s, i, d, len, cross, gap)
           = [g |-> m, pos |-> [pos EXCEPT ![d] = @ + Outer(m.c[i])[d] + gap]]
      /\ FlowStep(t, i, d, len, cross, gap)
           = [g |-> n, pos |-> [pos EXCEPT ![d] = @ + Outer(n.c[i])[d] + gap]]
  <2>1. t.pos = pos /\ 2 * t.g.c[i].bw = b
    BY <1>2
  <2>2. /\ FlowStep(s, i, d, len, cross, gap)
             = [g |-> m, pos |-> [pos EXCEPT ![d] = @ + Outer(m.c[i])[d] + gap]]
    BY DEF FlowStep
  <2>3. /\ FlowStep(t, i, d, len, cross, gap)
             = LET v == Resize(t.g, i, t.pos, Pair(LAMBDA e : (IF e = d THEN len ELSE cross) - 2 * t.g.c[i].bw), FALSE)
               IN [g |-> v, pos |-> [t.pos EXCEPT ![d] = @ + Outer(v.c[i])[d] + gap]]
    BY DEF FlowStep
  <2>4. Pair(LAMBDA e : (IF e = d THEN len ELSE cross) - 2 * t.g.c[i].bw) = along
    BY <2>1 DEF Pair
  <2> QED BY <2>1, <2>2, <2>3, <2>4
<1> DEFINE x == s.g
           y == t.g
<1>6. x \in Memories /\ Like(x, y) /\ ~x.c[i].full
  BY <1>1
<1> HIDE DEF along, pos, x, y
<1>5. Couple(x, y, Resize(x, i, pos, along, FALSE), Resize(y, i, pos, along, FALSE), {i})
  BY <1>1, <1>3, <1>6, ResizeCouple
<1>7. Couple(x, y, m, n, {i})
  BY <1>5 DEF x, y
<1> HIDE DEF m, n
<1>8. Outer(n.c[i]) = Outer(m.c[i])
  BY <1>7, CoupleOuter
<1> QED BY <1>4, <1>7, <1>8 DEF x, y, FlowBoth

\* A flow moves its windows, to places that the requests decide.
LEMMA FlowCouple ==
  ASSUME NEW m \in Memories, NEW n, Like(m, n),
         NEW ws \in Seq(Window), Free(m, Members(ws)), NEW d \in Dims,
         NEW pos \in Int \X Int, NEW cross \in Int, NEW lens \in [1..Len(ws) -> Int],
         NEW gap \in Int
  PROVE  Couple(m, n, Flow(m, ws, d, pos, cross, lens, gap),
                Flow(n, ws, d, pos, cross, lens, gap), Members(ws))
<1>1. n \in Memories /\ Free(n, Members(ws))
  BY LikeFree DEF Like
<1>2. PICK f : FlowGoes(f, m, ws, d, pos, cross, lens, gap)
  BY FlowRuns
<1>3. PICK h : FlowGoes(h, n, ws, d, pos, cross, lens, gap)
  BY <1>1, FlowRuns
<1> DEFINE S(k) == {ws[j] : j \in 1..k}
           T == {k \in Nat : k <= Len(ws) =>
                   Couple(m, n, f[k].g, h[k].g, S(k)) /\ h[k].pos = f[k].pos}
<1>4. 0 \in T
  <2>1. f[0].g = m /\ h[0].g = n /\ h[0].pos = f[0].pos
    BY <1>2, <1>3 DEF FlowGoes
  <2>2. S(0) = {}
    OBVIOUS
  <2> QED BY <2>1, <2>2, CoupleSelf
<1>5. ASSUME NEW k \in Nat, k \in T
      PROVE  k + 1 \in T
  <2> SUFFICES ASSUME k + 1 <= Len(ws)
               PROVE  Couple(m, n, f[k + 1].g, h[k + 1].g, S(k + 1)) /\ h[k + 1].pos = f[k + 1].pos
    OBVIOUS
  <2>1. k + 1 \in 1..Len(ws) /\ (k + 1) - 1 = k /\ k \in 0..Len(ws) /\ k <= Len(ws)
    OBVIOUS
  <2>2. Couple(m, n, f[k].g, h[k].g, S(k)) /\ h[k].pos = f[k].pos
    BY <1>5, <2>1
  <2> DEFINE i == ws[k + 1]
             len == lens[k + 1]
  <2>3. i \in Window /\ i \in Members(ws) /\ len \in Int
    BY <2>1, MembersOf
  <2>4. /\ f[k] \in FlowStates /\ h[k] \in FlowStates /\ Keeps(m, f[k].g, Members(ws))
        /\ f[k + 1] = FlowStep(f[k], i, d, len, cross, gap)
        /\ h[k + 1] = FlowStep(h[k], i, d, len, cross, gap)
    BY <1>2, <1>3, <2>1 DEF FlowGoes
  <2>5. S(k + 1) = S(k) \cup {i}
    <3>1. 1..(k + 1) = (1..k) \cup {k + 1}
      OBVIOUS
    <3> QED BY <3>1
  <2> HIDE DEF i, len, S
  <2>6. ~f[k].g.c[i].full
    BY <2>3, <2>4, StaysFree DEF Free
  <2>7. Like(f[k].g, h[k].g)
    BY <2>2, CoupleLast
  <2>8. Couple(f[k].g, h[k].g, f[k + 1].g, h[k + 1].g, {i}) /\ h[k + 1].pos = f[k + 1].pos
    <3> DEFINE x == f[k]
               y == h[k]
    <3>1. /\ x \in FlowStates /\ y \in FlowStates /\ y.pos = x.pos /\ Like(x.g, y.g)
          /\ ~x.g.c[i].full
      BY <2>2, <2>4, <2>6, <2>7
    <3> HIDE DEF x, y
    <3>2. FlowBoth(x, y, FlowStep(x, i, d, len, cross, gap), FlowStep(y, i, d, len, cross, gap), {i})
      BY <2>3, <3>1, FlowStepCouple
    <3> QED BY <2>4, <3>2 DEF x, y, FlowBoth
  <2>9. Couple(m, n, f[k + 1].g, h[k + 1].g, S(k) \cup {i})
    BY <2>2, <2>8, CoupleThen
  <2> QED BY <2>5, <2>8, <2>9
<1>6. Len(ws) \in T
  <2> HIDE DEF T
  <2>1. Nat \subseteq T
    BY <1>4, <1>5, NatInductionOnSets
  <2>2. Len(ws) \in Nat
    OBVIOUS
  <2> QED BY <2>1, <2>2
<1>7. Couple(m, n, f[Len(ws)].g, h[Len(ws)].g, S(Len(ws)))
  BY <1>6
<1> QED BY <1>2, <1>3, <1>7 DEF FlowGoes, Members

\* Windows laid on one another.
LEMMA PileStepKeeps ==
  ASSUME NEW m \in Memories, NEW i \in Window, ~m.c[i].full,
         NEW pos \in Int \X Int, NEW size \in Int \X Int
  PROVE  Keeps(m, PileStep(m, i, pos, size), {i})
<1>1. m.c[i].bw \in Nat
  BY ClientTyped
<1>2. Pair(LAMBDA d : size[d] - 2 * m.c[i].bw) \in Int \X Int
  BY <1>1 DEF Pair
<1> QED BY <1>2, ResizeKeeps DEF PileStep

PileRun(f, m, ws, pos, size) ==
  f = [k \in 0..Len(ws) |-> IF k = 0 THEN m ELSE PileStep(f[k - 1], ws[k], pos, size)]

\* The steps of a pile.
PileGoes(f, m, ws, pos, size) ==
  /\ Pile(m, ws, pos, size) = f[Len(ws)]
  /\ f[0] = m /\ \A k \in 1..Len(ws) : f[k] = PileStep(f[k - 1], ws[k], pos, size)
  /\ \A k \in 0..Len(ws) : f[k] \in Memories /\ Keeps(m, f[k], Members(ws))

LEMMA PileRuns ==
  ASSUME NEW m \in Memories, NEW ws \in Seq(Window), Free(m, Members(ws)),
         NEW pos \in Int \X Int, NEW size \in Int \X Int
  PROVE  \E f : PileGoes(f, m, ws, pos, size)
<1> DEFINE n == Len(ws)
           S == Members(ws)
           V == {s \in Memories : Keeps(m, s, S)}
           Step(s, k) == PileStep(s, ws[k], pos, size)
           step == [p \in V \X (1..n) |-> Step(p[1], p[2])]
<1>1. n \in Nat
  OBVIOUS
<1>2. m \in V
  BY KeepsSelf
<1>3. ASSUME NEW s \in V, NEW k \in 1..n
      PROVE  Step(s, k) \in V
  <2>1. ws[k] \in S /\ ws[k] \in Window
    BY MembersOf
  <2>2. ~s.c[ws[k]].full
    BY <2>1, StaysFree DEF Free
  <2>3. Keeps(s, Step(s, k), {ws[k]})
    BY <2>1, <2>2, PileStepKeeps
  <2> HIDE DEF Step, S
  <2>4. Keeps(m, Step(s, k), S \cup {ws[k]})
    BY <2>3, KeepsThen
  <2>5. S \cup {ws[k]} = S
    BY <2>1
  <2> QED BY <2>3, <2>4, <2>5 DEF Keeps
<1>4. step \in [V \X (1..n) -> V]
  BY <1>3
<1>5. \A v \in V, k \in 1..n : step[<<v, k>>] = Step(v, k)
  OBVIOUS
<1> HIDE DEF step, V, n
<1>6. PICK f : Runs(f, V, m, n, step)
  BY <1>1, <1>2, <1>4, LoopExists
<1>7. f = [k \in 0..n |-> IF k = 0 THEN m ELSE Step(f[k - 1], k)]
  <2>1. f = [k \in 0..n |-> f[k]] /\ f[0] = m
    BY <1>6 DEF Runs
  <2>2. ASSUME NEW k \in 0..n, k # 0
        PROVE  f[k] = Step(f[k - 1], k)
    <3>1. k \in 1..n /\ k - 1 \in 0..n
      BY <1>1, <2>2
    <3>2. f[k - 1] \in V /\ f[k] = step[<<f[k - 1], k>>]
      BY <1>6, <3>1 DEF Runs
    <3> HIDE DEF Step
    <3> QED BY <1>5, <3>1, <3>2
  <2> HIDE DEF Step
  <2> QED BY <2>1, <2>2
<1>8. PileRun(f, m, ws, pos, size)
  BY <1>7 DEF PileRun, n
<1> DEFINE after == CHOOSE f1 : PileRun(f1, m, ws, pos, size)
<1>9. PileRun(after, m, ws, pos, size)
  BY <1>8
<1>10. Pile(m, ws, pos, size) = after[n]
  BY DEF Pile, PileRun, n
<1> HIDE DEF after
<1>11. after[0] = m /\ \A k \in 1..n : after[k] = Step(after[k - 1], k)
  BY <1>1, <1>9 DEF PileRun, n
<1>12. \A k \in 0..n : after[k] \in V
  <2> HIDE DEF Step
  <2>1. \A k \in 1..n : after[k - 1] \in V => after[k] \in V
    BY <1>3, <1>11
  <2>2. after[0] \in V
    BY <1>2, <1>11
  <2> QED BY <1>1, <2>1, <2>2, StaysIn
<1>13. PileGoes(after, m, ws, pos, size)
  BY <1>10, <1>11, <1>12 DEF PileGoes, V, n
<1> QED BY <1>13

LEMMA PileStepCouple ==
  ASSUME NEW m \in Memories, NEW n, Like(m, n), NEW i \in Window, ~m.c[i].full,
         NEW pos \in Int \X Int, NEW size \in Int \X Int
  PROVE  Couple(m, n, PileStep(m, i, pos, size), PileStep(n, i, pos, size), {i})
<1> DEFINE s == Pair(LAMBDA d : size[d] - 2 * m.c[i].bw)
<1>1. m.c[i].bw \in Nat /\ n.c[i].bw = m.c[i].bw
  BY ClientTyped DEF Like
<1>2. s \in Int \X Int
  BY <1>1 DEF Pair
<1>3. /\ PileStep(m, i, pos, size) = Resize(m, i, pos, s, FALSE)
      /\ PileStep(n, i, pos, size) = Resize(n, i, pos, s, FALSE)
  BY <1>1 DEF PileStep, Pair
<1> HIDE DEF s
<1> QED BY <1>2, <1>3, ResizeCouple

LEMMA PileCouple ==
  ASSUME NEW m \in Memories, NEW n, Like(m, n),
         NEW ws \in Seq(Window), Free(m, Members(ws)),
         NEW pos \in Int \X Int, NEW size \in Int \X Int
  PROVE  Couple(m, n, Pile(m, ws, pos, size), Pile(n, ws, pos, size), Members(ws))
<1>1. n \in Memories /\ Free(n, Members(ws))
  BY LikeFree DEF Like
<1>2. PICK f : PileGoes(f, m, ws, pos, size)
  BY PileRuns
<1>3. PICK h : PileGoes(h, n, ws, pos, size)
  BY <1>1, PileRuns
<1> DEFINE S(k) == {ws[j] : j \in 1..k}
           T == {k \in Nat : k <= Len(ws) => Couple(m, n, f[k], h[k], S(k))}
<1>4. 0 \in T
  <2>1. f[0] = m /\ h[0] = n
    BY <1>2, <1>3 DEF PileGoes
  <2>2. S(0) = {}
    OBVIOUS
  <2> QED BY <2>1, <2>2, CoupleSelf
<1>5. ASSUME NEW k \in Nat, k \in T
      PROVE  k + 1 \in T
  <2> SUFFICES ASSUME k + 1 <= Len(ws)
               PROVE  Couple(m, n, f[k + 1], h[k + 1], S(k + 1))
    OBVIOUS
  <2>1. k + 1 \in 1..Len(ws) /\ (k + 1) - 1 = k /\ k \in 0..Len(ws) /\ k <= Len(ws)
    OBVIOUS
  <2>2. Couple(m, n, f[k], h[k], S(k))
    BY <1>5, <2>1
  <2> DEFINE i == ws[k + 1]
  <2>3. i \in Window /\ i \in Members(ws)
    BY <2>1, MembersOf
  <2>4. /\ f[k] \in Memories /\ Keeps(m, f[k], Members(ws))
        /\ f[k + 1] = PileStep(f[k], i, pos, size)
        /\ h[k + 1] = PileStep(h[k], i, pos, size)
    BY <1>2, <1>3, <2>1 DEF PileGoes
  <2>5. S(k + 1) = S(k) \cup {i}
    <3>1. 1..(k + 1) = (1..k) \cup {k + 1}
      OBVIOUS
    <3> QED BY <3>1
  <2> HIDE DEF i, S
  <2>6. ~f[k].c[i].full
    BY <2>3, <2>4, StaysFree DEF Free
  <2>7. Like(f[k], h[k])
    BY <2>2, CoupleLast
  <2>8. Couple(f[k], h[k], f[k + 1], h[k + 1], {i})
    BY <2>3, <2>4, <2>6, <2>7, PileStepCouple
  <2>9. Couple(m, n, f[k + 1], h[k + 1], S(k) \cup {i})
    BY <2>2, <2>8, CoupleThen
  <2> QED BY <2>5, <2>9
<1>6. Len(ws) \in T
  <2> HIDE DEF T
  <2>1. Nat \subseteq T
    BY <1>4, <1>5, NatInductionOnSets
  <2>2. Len(ws) \in Nat
    OBVIOUS
  <2> QED BY <2>1, <2>2
<1>7. Couple(m, n, f[Len(ws)], h[Len(ws)], S(Len(ws)))
  BY <1>6
<1> QED BY <1>2, <1>3, <1>7 DEF PileGoes, Members

\* What a layout works with.
Rectangles == [pos : Int \X Int, size : Int \X Int]
FactSet == [area : Rectangles, in : Rectangles, gap : AllGaps, all : Seq(Window),
            ms : Seq(Window), ss : Seq(Window), split : BOOLEAN]
FactsOK(f) ==
  f \in FactSet /\ Members(f.ms) \cup Members(f.ss) = Members(f.all)

LEMMA FactsTyped ==
  ASSUME NEW f, FactsOK(f)
  PROVE  /\ f.area.pos \in Int \X Int /\ f.area.size \in Int \X Int
         /\ f.in.pos \in Int \X Int /\ f.in.size \in Int \X Int
         /\ f.gap.oh \in Nat /\ f.gap.ov \in Nat /\ f.gap.ih \in Nat /\ f.gap.iv \in Nat
         /\ f.all \in Seq(Window) /\ f.ms \in Seq(Window) /\ f.ss \in Seq(Window)
         /\ f.split \in BOOLEAN
BY DEF FactsOK, FactSet, Rectangles, AllGaps

\* The rectangle that fibonacci divides.
FibStates == [g : Memories, i : Nat, pos : Int \X Int, size : Int \X Int]
SameMemory(s, t) == t \in FibStates /\ t.g = s.g /\ t.i = s.i

LEMMA FibFields ==
  ASSUME NEW s \in FibStates, NEW x \in Int, NEW d \in Dims
  PROVE  /\ SameMemory(s, [s EXCEPT !.pos[d] = x])
         /\ SameMemory(s, [s EXCEPT !.size[d] = x])
<1>1. /\ [s.pos EXCEPT ![d] = x] \in Int \X Int
      /\ [s.size EXCEPT ![d] = x] \in Int \X Int
  BY DEF FibStates, Dims
<1>2. /\ [s EXCEPT !.pos[d] = x] = [s EXCEPT !.pos = [s.pos EXCEPT ![d] = x]]
      /\ [s EXCEPT !.size[d] = x] = [s EXCEPT !.size = [s.size EXCEPT ![d] = x]]
  OBVIOUS
<1>3. \A p \in Int \X Int : SameMemory(s, [s EXCEPT !.pos = p]) /\ SameMemory(s, [s EXCEPT !.size = p])
  BY DEF SameMemory, FibStates
<1> QED BY <1>1, <1>2, <1>3

LEMMA FibTyped ==
  ASSUME NEW s \in FibStates
  PROVE  /\ s.g \in Memories /\ s.i \in Nat /\ s.pos \in Int \X Int /\ s.size \in Int \X Int
         /\ s.pos[1] \in Int /\ s.pos[2] \in Int /\ s.size[1] \in Int /\ s.size[2] \in Int
         /\ SameMemory(s, s)
BY DEF FibStates, SameMemory

Half(s, f) ==
  IF s.i % 2 = 1 THEN [s EXCEPT !.size[2] = (@ - f.gap.ih) \div 2]
  ELSE [s EXCEPT !.size[1] = (@ - f.gap.iv) \div 2]

LEMMA HalfKeeps ==
  ASSUME NEW s \in FibStates, NEW f, FactsOK(f)
  PROVE  SameMemory(s, Half(s, f))
<1>1. f.gap.ih \in Int /\ f.gap.iv \in Int
  BY FactsTyped
<1>2. 1 \in Dims /\ 2 \in Dims
  BY DEF Dims
<1>3. (s.size[2] - f.gap.ih) \div 2 \in Int /\ (s.size[1] - f.gap.iv) \div 2 \in Int
  BY <1>1, FibTyped
<1> QED BY <1>2, <1>3, FibFields DEF Half

LEMMA HalvedKeeps ==
  ASSUME NEW s \in FibStates, NEW f, FactsOK(f), NEW dwindles \in BOOLEAN
  PROVE  SameMemory(s, Halved(s, f, dwindles))
<1> DEFINE h == Half(s, f)
<1>1. f.gap.ih \in Int /\ f.gap.iv \in Int
  BY FactsTyped
<1>2. 1 \in Dims /\ 2 \in Dims
  BY DEF Dims
<1>4. SameMemory(s, h)
  BY HalfKeeps
<1> HIDE DEF h
<1>5. h \in FibStates /\ SameMemory(s, s)
  BY <1>4, FibTyped DEF SameMemory
<1>6. h.pos[1] + h.size[1] + f.gap.iv \in Int /\ h.pos[2] + h.size[2] + f.gap.ih \in Int
  BY <1>1, <1>5, FibTyped
<1>7. /\ SameMemory(h, [h EXCEPT !.pos[1] = h.pos[1] + h.size[1] + f.gap.iv])
      /\ SameMemory(h, [h EXCEPT !.pos[2] = h.pos[2] + h.size[2] + f.gap.ih])
  BY <1>2, <1>5, <1>6, FibFields
<1>8. /\ SameMemory(s, [h EXCEPT !.pos[1] = h.pos[1] + h.size[1] + f.gap.iv])
      /\ SameMemory(s, [h EXCEPT !.pos[2] = h.pos[2] + h.size[2] + f.gap.ih])
  BY <1>4, <1>7 DEF SameMemory
<1>9. \/ Halved(s, f, dwindles) = s \/ Halved(s, f, dwindles) = h
      \/ Halved(s, f, dwindles) = [h EXCEPT !.pos[1] = h.pos[1] + h.size[1] + f.gap.iv]
      \/ Halved(s, f, dwindles) = [h EXCEPT !.pos[2] = h.pos[2] + h.size[2] + f.gap.ih]
  BY DEF Halved, Half, h
<1> QED BY <1>4, <1>5, <1>8, <1>9

LEMMA TurnedKeeps ==
  ASSUME NEW s \in FibStates, NEW f, FactsOK(f), NEW dwindles \in BOOLEAN
  PROVE  SameMemory(s, Turned(s, f, dwindles))
<1> DEFINE right == s.size[1] + f.gap.iv
           down == s.size[2] + f.gap.ih
<1>1. f.gap.ih \in Int /\ f.gap.iv \in Int
  BY FactsTyped
<1>2. 1 \in Dims /\ 2 \in Dims
  BY DEF Dims
<1>3. right \in Int /\ down \in Int
  BY <1>1, FibTyped
<1> DEFINE x == IF dwindles THEN right ELSE -right
           y == IF dwindles THEN down ELSE -down
<1>4. \/ Turned(s, f, dwindles) = [s EXCEPT !.pos[2] = s.pos[2] + y]
      \/ Turned(s, f, dwindles) = [s EXCEPT !.pos[1] = s.pos[1] + right]
      \/ Turned(s, f, dwindles) = [s EXCEPT !.pos[2] = s.pos[2] + down]
      \/ Turned(s, f, dwindles) = [s EXCEPT !.pos[1] = s.pos[1] + x]
  BY DEF Turned
<1> HIDE DEF right, down
<1>5. x \in Int /\ y \in Int
  BY <1>3
<1> HIDE DEF x, y
<1>6. /\ s.pos[2] + y \in Int /\ s.pos[1] + right \in Int
      /\ s.pos[2] + down \in Int /\ s.pos[1] + x \in Int
  BY <1>3, <1>5, FibTyped
<1>7. /\ SameMemory(s, [s EXCEPT !.pos[2] = s.pos[2] + y])
      /\ SameMemory(s, [s EXCEPT !.pos[1] = s.pos[1] + right])
      /\ SameMemory(s, [s EXCEPT !.pos[2] = s.pos[2] + down])
      /\ SameMemory(s, [s EXCEPT !.pos[1] = s.pos[1] + x])
  BY <1>2, <1>6, FibFields
<1> QED BY <1>4, <1>7

LEMMA FirstTwoKeeps ==
  ASSUME NEW s \in FibStates, NEW f, FactsOK(f), NEW m \in Memories
  PROVE  SameMemory(s, FirstTwo(s, m, f))
<1> DEFINE w == IF Len(f.all) = 1 THEN s.size[1] ELSE Part(f.in.size[1] - f.gap.iv, m.mfact)
           t == [s EXCEPT !.pos[2] = f.in.pos[2]]
<1>1. /\ f.gap.iv \in Int /\ f.in.pos[2] \in Int /\ f.in.size[1] \in Int
  BY FactsTyped
<1>2. 1 \in Dims /\ 2 \in Dims
  BY DEF Dims
<1>3. w \in Int
  <2>1. m.mfact \in Int
    BY DEF Memories, AnyMemory
  <2>2. f.in.size[1] - f.gap.iv \in Int
    BY <1>1
  <2>3. Part(f.in.size[1] - f.gap.iv, m.mfact) \in Int
    BY <2>1, <2>2, PartTyped
  <2> QED BY <2>3, FibTyped
<1>4. \/ FirstTwo(s, m, f) = [t EXCEPT !.size[1] = w]
      \/ FirstTwo(s, m, f) = [s EXCEPT !.size[1] = f.in.size[1] - s.size[1] - f.gap.iv]
      \/ FirstTwo(s, m, f) = s
  <2>1. t.size = s.size
    BY DEF FibStates
  <2> QED BY <2>1 DEF FirstTwo
<1> HIDE DEF w
<1>5. SameMemory(s, t)
  BY <1>1, <1>2, FibFields
<1> HIDE DEF t
<1>6. SameMemory(t, [t EXCEPT !.size[1] = w])
  BY <1>2, <1>3, <1>5, FibFields DEF SameMemory
<1>7. SameMemory(s, [t EXCEPT !.size[1] = w])
  BY <1>5, <1>6 DEF SameMemory
<1>8. f.in.size[1] - s.size[1] - f.gap.iv \in Int
  BY <1>1, FibTyped
<1>9. SameMemory(s, [s EXCEPT !.size[1] = f.in.size[1] - s.size[1] - f.gap.iv])
  BY <1>2, <1>8, FibFields
<1> QED BY <1>4, <1>7, <1>9, FibTyped

LEMMA FibonacciStepKeeps ==
  ASSUME NEW s \in FibStates, NEW i \in Window, ~s.g.c[i].full,
         NEW m \in Memories, NEW f, FactsOK(f), NEW dwindles \in BOOLEAN
  PROVE  /\ FibonacciStep(s, i, m, f, dwindles) \in FibStates
         /\ Keeps(s.g, FibonacciStep(s, i, m, f, dwindles).g, {i})
<1> DEFINE b == 2 * s.g.c[i].bw
           u == FirstTwo(Turned(Halved(s, f, dwindles), f, dwindles), m, f)
           turned == [u EXCEPT !.i = @ + 1]
           t == IF s.size[IF s.i % 2 = 1 THEN 2 ELSE 1] \div 2 > b THEN turned ELSE s
           size == Pair(LAMBDA d : t.size[d] - b)
           n == Resize(t.g, i, t.pos, size, FALSE)
<1>1. SameMemory(s, Halved(s, f, dwindles))
  BY HalvedKeeps
<1>2. SameMemory(s, Turned(Halved(s, f, dwindles), f, dwindles))
  BY <1>1, TurnedKeeps DEF SameMemory
<1>3. SameMemory(s, u)
  BY <1>2, FirstTwoKeeps DEF SameMemory
<1>4. FibonacciStep(s, i, m, f, dwindles) = [t EXCEPT !.g = n]
  BY DEF FibonacciStep
<1> HIDE DEF u
<1>5. turned \in FibStates /\ turned.g = s.g
  BY <1>3 DEF SameMemory, FibStates
<1> HIDE DEF turned
<1>6. t \in FibStates /\ t.g = s.g
  BY <1>5
<1> HIDE DEF t
<1>7. b \in Int
  BY FibTyped, ClientTyped
<1> HIDE DEF b
<1>8. size \in Int \X Int
  <2>1. t.size[1] \in Int /\ t.size[2] \in Int
    BY <1>6, FibTyped
  <2> QED BY <1>7, <2>1 DEF Pair
<1> HIDE DEF size
<1>9. Keeps(t.g, n, {i})
  BY <1>6, <1>8, FibTyped, ResizeKeeps
<1>10. n \in Memories
  BY <1>9 DEF Keeps
<1> HIDE DEF n
<1>11. [t EXCEPT !.g = n] \in FibStates /\ [t EXCEPT !.g = n].g = n
  BY <1>6, <1>10 DEF FibStates
<1> QED BY <1>4, <1>6, <1>9, <1>11

FibonacciRun(r, m, f, dwindles) ==
  r = [k \in 0..Len(f.all) |->
         IF k = 0
         THEN [g |-> m, i |-> 0, pos |-> <<f.in.pos[1], f.gap.oh>>, size |-> f.in.size]
         ELSE FibonacciStep(r[k - 1], f.all[k], m, f, dwindles)]

\* The steps of fibonacci.
FibonacciGoes(r, m, f, dwindles) ==
  /\ Fibonacci(m, f, dwindles) = r[Len(f.all)].g
  /\ r[0] = [g |-> m, i |-> 0, pos |-> <<f.in.pos[1], f.gap.oh>>, size |-> f.in.size]
  /\ \A k \in 1..Len(f.all) : r[k] = FibonacciStep(r[k - 1], f.all[k], m, f, dwindles)
  /\ \A k \in 0..Len(f.all) : r[k] \in FibStates /\ Keeps(m, r[k].g, Members(f.all))

LEMMA FibonacciRuns ==
  ASSUME NEW m \in Memories, NEW f, FactsOK(f), Free(m, Members(f.all)), NEW dwindles \in BOOLEAN
  PROVE  \E r : FibonacciGoes(r, m, f, dwindles)
<1> DEFINE n == Len(f.all)
           S == Members(f.all)
           V == {s \in FibStates : Keeps(m, s.g, S)}
           base == [g |-> m, i |-> 0, pos |-> <<f.in.pos[1], f.gap.oh>>, size |-> f.in.size]
           Step(s, k) == FibonacciStep(s, f.all[k], m, f, dwindles)
           step == [p \in V \X (1..n) |-> Step(p[1], p[2])]
<1>1. n \in Nat
  BY FactsTyped
<1>2. base \in V
  <2>1. f.in.pos[1] \in Int /\ f.gap.oh \in Int /\ f.in.size \in Int \X Int
    BY FactsTyped
  <2>2. base \in FibStates /\ base.g = m
    BY <2>1 DEF FibStates
  <2> QED BY <2>2, KeepsSelf
<1>3. ASSUME NEW s \in V, NEW k \in 1..n
      PROVE  Step(s, k) \in V
  <2>1. f.all[k] \in S /\ f.all[k] \in Window
    BY FactsTyped, MembersOf
  <2>2. ~s.g.c[f.all[k]].full
    BY <2>1, StaysFree DEF Free
  <2>3. Step(s, k) \in FibStates /\ Keeps(s.g, Step(s, k).g, {f.all[k]})
    BY <2>1, <2>2, FibonacciStepKeeps
  <2> HIDE DEF Step, S
  <2>4. Keeps(m, Step(s, k).g, S \cup {f.all[k]})
    BY <2>3, KeepsThen
  <2>5. S \cup {f.all[k]} = S
    BY <2>1
  <2> QED BY <2>3, <2>4, <2>5
<1>4. step \in [V \X (1..n) -> V]
  BY <1>3
<1>5. \A v \in V, k \in 1..n : step[<<v, k>>] = Step(v, k)
  OBVIOUS
<1> HIDE DEF base, step, V, n
<1>6. PICK r : Runs(r, V, base, n, step)
  BY <1>1, <1>2, <1>4, LoopExists
<1>7. r = [k \in 0..n |-> IF k = 0 THEN base ELSE Step(r[k - 1], k)]
  <2>1. r = [k \in 0..n |-> r[k]] /\ r[0] = base
    BY <1>6 DEF Runs
  <2>2. ASSUME NEW k \in 0..n, k # 0
        PROVE  r[k] = Step(r[k - 1], k)
    <3>1. k \in 1..n /\ k - 1 \in 0..n
      BY <1>1, <2>2
    <3>2. r[k - 1] \in V /\ r[k] = step[<<r[k - 1], k>>]
      BY <1>6, <3>1 DEF Runs
    <3> HIDE DEF Step
    <3> QED BY <1>5, <3>1, <3>2
  <2> HIDE DEF Step
  <2> QED BY <2>1, <2>2
<1>8. FibonacciRun(r, m, f, dwindles)
  BY <1>7 DEF FibonacciRun, base, n
<1> DEFINE after == CHOOSE r1 : FibonacciRun(r1, m, f, dwindles)
<1>9. FibonacciRun(after, m, f, dwindles)
  BY <1>8
<1>10. Fibonacci(m, f, dwindles) = after[n].g
  BY DEF Fibonacci, FibonacciRun, n
<1> HIDE DEF after
<1>11. after[0] = base /\ \A k \in 1..n : after[k] = Step(after[k - 1], k)
  <2>1. after[0] = base
    BY <1>1, <1>9 DEF FibonacciRun, base, n
  <2>2. ASSUME NEW k \in 1..n
        PROVE  after[k] = Step(after[k - 1], k)
    <3>1. k \in 0..n /\ k # 0
      BY <1>1
    <3> QED BY <1>9, <3>1 DEF FibonacciRun, n
  <2> QED BY <2>1, <2>2
<1>12. \A k \in 0..n : after[k] \in V
  <2> HIDE DEF Step
  <2>1. \A k \in 1..n : after[k - 1] \in V => after[k] \in V
    BY <1>3, <1>11
  <2>2. after[0] \in V
    BY <1>2, <1>11
  <2> QED BY <1>1, <2>1, <2>2, StaysIn
<1>13. FibonacciGoes(after, m, f, dwindles)
  BY <1>10, <1>11, <1>12 DEF FibonacciGoes, V, base, n
<1> QED BY <1>13

\* The rectangle is the same in both runs.
SameRect(s, t) == t.i = s.i /\ t.pos = s.pos /\ t.size = s.size

LEMMA RectFields ==
  ASSUME NEW s \in FibStates, NEW t \in FibStates, SameRect(s, t), NEW x, NEW d
  PROVE  /\ SameRect([s EXCEPT !.pos[d] = x], [t EXCEPT !.pos[d] = x])
         /\ SameRect([s EXCEPT !.size[d] = x], [t EXCEPT !.size[d] = x])
<1>1. \A p : SameRect([s EXCEPT !.pos = p], [t EXCEPT !.pos = p])
             /\ SameRect([s EXCEPT !.size = p], [t EXCEPT !.size = p])
  BY DEF SameRect, FibStates
<1>2. /\ [s EXCEPT !.pos[d] = x] = [s EXCEPT !.pos = [s.pos EXCEPT ![d] = x]]
      /\ [t EXCEPT !.pos[d] = x] = [t EXCEPT !.pos = [t.pos EXCEPT ![d] = x]]
      /\ [s EXCEPT !.size[d] = x] = [s EXCEPT !.size = [s.size EXCEPT ![d] = x]]
      /\ [t EXCEPT !.size[d] = x] = [t EXCEPT !.size = [t.size EXCEPT ![d] = x]]
  OBVIOUS
<1>3. t.pos = s.pos /\ t.size = s.size
  BY DEF SameRect
<1> QED BY <1>1, <1>2, <1>3

LEMMA HalvedRect ==
  ASSUME NEW s \in FibStates, NEW t \in FibStates, SameRect(s, t), NEW f, FactsOK(f),
         NEW dwindles \in BOOLEAN
  PROVE  SameRect(Halved(s, f, dwindles), Halved(t, f, dwindles))
<1> DEFINE h == Half(s, f)
           k == Half(t, f)
<1>1. t.i = s.i /\ t.pos = s.pos /\ t.size = s.size
  BY DEF SameRect
<1>2. SameRect(h, k)
  <2>1. \A x : /\ SameRect([s EXCEPT !.size[2] = x], [t EXCEPT !.size[2] = x])
               /\ SameRect([s EXCEPT !.size[1] = x], [t EXCEPT !.size[1] = x])
    BY RectFields
  <2> QED BY <1>1, <2>1 DEF Half
<1>3. h \in FibStates /\ k \in FibStates /\ h.i = s.i
  BY HalfKeeps DEF SameMemory
<1>4. /\ Halved(s, f, dwindles)
           = IF s.i >= Len(f.all) - 1 THEN s
             ELSE IF s.i % 4 = 2 /\ ~dwindles THEN [h EXCEPT !.pos[1] = h.pos[1] + h.size[1] + f.gap.iv]
             ELSE IF s.i % 4 = 3 /\ ~dwindles THEN [h EXCEPT !.pos[2] = h.pos[2] + h.size[2] + f.gap.ih]
             ELSE h
      /\ Halved(t, f, dwindles)
           = IF t.i >= Len(f.all) - 1 THEN t
             ELSE IF t.i % 4 = 2 /\ ~dwindles THEN [k EXCEPT !.pos[1] = k.pos[1] + k.size[1] + f.gap.iv]
             ELSE IF t.i % 4 = 3 /\ ~dwindles THEN [k EXCEPT !.pos[2] = k.pos[2] + k.size[2] + f.gap.ih]
             ELSE k
  <2>1. s.i \in Nat /\ t.i \in Nat
    BY FibTyped
  <2> QED BY <2>1 DEF Halved, Half
<1> HIDE DEF h, k
<1>5. k.pos = h.pos /\ k.size = h.size
  BY <1>2 DEF SameRect
<1>6. \A x : /\ SameRect([h EXCEPT !.pos[2] = x], [k EXCEPT !.pos[2] = x])
             /\ SameRect([h EXCEPT !.pos[1] = x], [k EXCEPT !.pos[1] = x])
  BY <1>2, <1>3, RectFields
<1> DEFINE p == h.pos[1] + h.size[1] + f.gap.iv
           q == h.pos[2] + h.size[2] + f.gap.ih
<1>7. k.pos[1] + k.size[1] + f.gap.iv = p /\ k.pos[2] + k.size[2] + f.gap.ih = q
  BY <1>5
<1> HIDE DEF p, q
<1>8. /\ SameRect([h EXCEPT !.pos[1] = p], [k EXCEPT !.pos[1] = p])
      /\ SameRect([h EXCEPT !.pos[2] = q], [k EXCEPT !.pos[2] = q])
  BY <1>6
<1>9. /\ Halved(s, f, dwindles)
           = IF s.i >= Len(f.all) - 1 THEN s
             ELSE IF s.i % 4 = 2 /\ ~dwindles THEN [h EXCEPT !.pos[1] = p]
             ELSE IF s.i % 4 = 3 /\ ~dwindles THEN [h EXCEPT !.pos[2] = q]
             ELSE h
      /\ Halved(t, f, dwindles)
           = IF s.i >= Len(f.all) - 1 THEN t
             ELSE IF s.i % 4 = 2 /\ ~dwindles THEN [k EXCEPT !.pos[1] = p]
             ELSE IF s.i % 4 = 3 /\ ~dwindles THEN [k EXCEPT !.pos[2] = q]
             ELSE k
  BY <1>1, <1>4, <1>7 DEF p, q
<1> QED BY <1>2, <1>8, <1>9

LEMMA TurnedRect ==
  ASSUME NEW s \in FibStates, NEW t \in FibStates, SameRect(s, t), NEW f, FactsOK(f),
         NEW dwindles \in BOOLEAN
  PROVE  SameRect(Turned(s, f, dwindles), Turned(t, f, dwindles))
<1>1. t.i = s.i /\ t.pos = s.pos /\ t.size = s.size
  BY DEF SameRect
<1>2. \A x : /\ SameRect([s EXCEPT !.pos[2] = x], [t EXCEPT !.pos[2] = x])
             /\ SameRect([s EXCEPT !.pos[1] = x], [t EXCEPT !.pos[1] = x])
  BY RectFields
<1>3. s.i % 4 \in 0..3
  BY FibTyped
<1> DEFINE right == s.size[1] + f.gap.iv
           down == s.size[2] + f.gap.ih
           y0 == s.pos[2] + (IF dwindles THEN down ELSE -down)
           x0 == s.pos[1] + (IF dwindles THEN right ELSE -right)
           x1 == s.pos[1] + right
           y1 == s.pos[2] + down
<1>4. \/ Turned(s, f, dwindles) = [s EXCEPT !.pos[2] = y0] /\ Turned(t, f, dwindles) = [t EXCEPT !.pos[2] = y0]
      \/ Turned(s, f, dwindles) = [s EXCEPT !.pos[1] = x1] /\ Turned(t, f, dwindles) = [t EXCEPT !.pos[1] = x1]
      \/ Turned(s, f, dwindles) = [s EXCEPT !.pos[2] = y1] /\ Turned(t, f, dwindles) = [t EXCEPT !.pos[2] = y1]
      \/ Turned(s, f, dwindles) = [s EXCEPT !.pos[1] = x0] /\ Turned(t, f, dwindles) = [t EXCEPT !.pos[1] = x0]
  BY <1>1, <1>3 DEF Turned
<1> HIDE DEF y0, x0, x1, y1
<1> QED BY <1>2, <1>4

LEMMA FirstTwoRect ==
  ASSUME NEW s \in FibStates, NEW t \in FibStates, SameRect(s, t), NEW f, FactsOK(f),
         NEW m, NEW n, n.mfact = m.mfact
  PROVE  SameRect(FirstTwo(s, m, f), FirstTwo(t, n, f))
<1>1. t.i = s.i /\ t.pos = s.pos /\ t.size = s.size
  BY DEF SameRect
<1> DEFINE w == IF Len(f.all) = 1 THEN s.size[1] ELSE Part(f.in.size[1] - f.gap.iv, m.mfact)
           x == f.in.size[1] - s.size[1] - f.gap.iv
           u == [s EXCEPT !.pos[2] = f.in.pos[2]]
           v == [t EXCEPT !.pos[2] = f.in.pos[2]]
<1>2. SameRect(u, v) /\ SameRect([s EXCEPT !.size[1] = x], [t EXCEPT !.size[1] = x])
  BY RectFields
<1>3. \/ FirstTwo(s, m, f) = [u EXCEPT !.size[1] = w] /\ FirstTwo(t, n, f) = [v EXCEPT !.size[1] = w]
      \/ FirstTwo(s, m, f) = [s EXCEPT !.size[1] = x] /\ FirstTwo(t, n, f) = [t EXCEPT !.size[1] = x]
      \/ FirstTwo(s, m, f) = s /\ FirstTwo(t, n, f) = t
  <2>1. u.size = s.size /\ v.size = s.size
    BY <1>1 DEF FibStates
  <2> QED BY <1>1, <2>1 DEF FirstTwo
<1>4. u \in FibStates /\ v \in FibStates
  <2>1. f.in.pos[2] \in Int /\ 2 \in Dims
    BY FactsTyped DEF Dims
  <2> QED BY <2>1, FibFields DEF SameMemory
<1> HIDE DEF u, v, x, w
<1>5. SameRect([u EXCEPT !.size[1] = w], [v EXCEPT !.size[1] = w])
  BY <1>2, <1>4, RectFields
<1> QED BY <1>2, <1>3, <1>5

\* Two runs of fibonacci after the same requests.
FibBoth(s, t, u, v, S) == Couple(s.g, t.g, u.g, v.g, S) /\ SameRect(u, v)

LEMMA FibonacciStepCouple ==
  ASSUME NEW s \in FibStates, NEW t \in FibStates, SameRect(s, t), Like(s.g, t.g),
         NEW i \in Window, ~s.g.c[i].full,
         NEW m \in Memories, NEW n \in Memories, n.mfact = m.mfact,
         NEW f, FactsOK(f), NEW dwindles \in BOOLEAN
  PROVE  FibBoth(s, t, FibonacciStep(s, i, m, f, dwindles), FibonacciStep(t, i, n, f, dwindles), {i})
<1> DEFINE b == 2 * s.g.c[i].bw
           U(r, mem) == FirstTwo(Turned(Halved(r, f, dwindles), f, dwindles), mem, f)
           More(r) == [r EXCEPT !.i = @ + 1]
           Goes(r) == r.size[IF r.i % 2 = 1 THEN 2 ELSE 1] \div 2 > b
           u == IF Goes(s) THEN More(U(s, m)) ELSE s
           v == IF Goes(t) THEN More(U(t, n)) ELSE t
           pos == u.pos
           size == Pair(LAMBDA d : u.size[d] - b)
           x == s.g
           y == t.g
<1>1. /\ t.g.c[i].bw = s.g.c[i].bw /\ b \in Int /\ x \in Memories
  BY FibTyped, ClientTyped DEF Like
<1>2. SameRect(U(s, m), U(t, n)) /\ SameMemory(s, U(s, m)) /\ SameMemory(t, U(t, n))
  <2> DEFINE h == Halved(s, f, dwindles)
             k == Halved(t, f, dwindles)
             h2 == Turned(h, f, dwindles)
             k2 == Turned(k, f, dwindles)
  <2>1. SameRect(h, k) /\ SameMemory(s, h) /\ SameMemory(t, k)
    BY HalvedKeeps, HalvedRect
  <2>2. h \in FibStates /\ k \in FibStates
    BY <2>1 DEF SameMemory
  <2> HIDE DEF h, k
  <2>3. SameRect(h2, k2) /\ SameMemory(h, h2) /\ SameMemory(k, k2)
    BY <2>1, <2>2, TurnedKeeps, TurnedRect
  <2>4. h2 \in FibStates /\ k2 \in FibStates
    BY <2>3 DEF SameMemory
  <2> HIDE DEF h2, k2
  <2>5. SameRect(FirstTwo(h2, m, f), FirstTwo(k2, n, f))
    BY <2>3, <2>4, FirstTwoRect
  <2>6. SameMemory(h2, FirstTwo(h2, m, f)) /\ SameMemory(k2, FirstTwo(k2, n, f))
    BY <2>4, FirstTwoKeeps
  <2>7. SameMemory(s, FirstTwo(h2, m, f)) /\ SameMemory(t, FirstTwo(k2, n, f))
    BY <2>1, <2>3, <2>6 DEF SameMemory
  <2> QED BY <2>5, <2>7 DEF h2, k2, h, k
<1>3. /\ FibonacciStep(s, i, m, f, dwindles)
           = [u EXCEPT !.g = Resize(u.g, i, u.pos, Pair(LAMBDA d : u.size[d] - b), FALSE)]
      /\ FibonacciStep(t, i, n, f, dwindles)
           = [v EXCEPT !.g = Resize(v.g, i, v.pos, Pair(LAMBDA d : v.size[d] - b), FALSE)]
  <2>1. 2 * t.g.c[i].bw = b
    BY <1>1
  <2> HIDE DEF b
  <2>2. FibonacciStep(s, i, m, f, dwindles)
           = [u EXCEPT !.g = Resize(u.g, i, u.pos, Pair(LAMBDA d : u.size[d] - b), FALSE)]
    BY DEF FibonacciStep, b
  <2> DEFINE e == 2 * t.g.c[i].bw
             w == IF t.size[IF t.i % 2 = 1 THEN 2 ELSE 1] \div 2 > e THEN More(U(t, n)) ELSE t
  <2>3. FibonacciStep(t, i, n, f, dwindles)
           = [w EXCEPT !.g = Resize(w.g, i, w.pos, Pair(LAMBDA d : w.size[d] - e), FALSE)]
    BY DEF FibonacciStep
  <2>4. w = v
    BY <2>1
  <2>5. Pair(LAMBDA d : w.size[d] - e) = Pair(LAMBDA d : v.size[d] - b)
    BY <2>1, <2>4 DEF Pair
  <2> HIDE DEF w, v, e, u
  <2> QED BY <2>2, <2>3, <2>4, <2>5
<1>4. SameRect(More(U(s, m)), More(U(t, n))) /\ SameMemory(s, U(s, m)) /\ More(U(s, m)) \in FibStates
      /\ More(U(s, m)).g = s.g /\ More(U(t, n)) \in FibStates /\ More(U(t, n)).g = t.g
  <2> HIDE DEF U
  <2>1. U(s, m) \in FibStates /\ U(t, n) \in FibStates /\ U(s, m).g = s.g /\ U(t, n).g = t.g
    BY <1>2 DEF SameMemory
  <2> QED BY <1>2, <2>1 DEF FibStates, SameRect
<1>5. Goes(t) = Goes(s)
  BY DEF SameRect
<1> HIDE DEF More, U, Goes
<1>6. SameRect(u, v) /\ u \in FibStates /\ v \in FibStates /\ u.g = x /\ v.g = y
  BY <1>4, <1>5
<1> HIDE DEF u, v
<1>7. v.pos = pos /\ v.size = u.size
  BY <1>6 DEF SameRect
<1>8. Pair(LAMBDA d : v.size[d] - b) = size
  BY <1>7 DEF Pair
<1>9. pos \in Int \X Int /\ size \in Int \X Int
  <2>1. u.size[1] \in Int /\ u.size[2] \in Int
    BY <1>6, FibTyped
  <2> HIDE DEF b
  <2> QED BY <1>1, <1>6, <2>1, FibTyped DEF Pair
<1>10. Like(x, y) /\ ~x.c[i].full
  OBVIOUS
<1> HIDE DEF pos, size, b, x, y
<1>11. Couple(x, y, Resize(x, i, pos, size, FALSE), Resize(y, i, pos, size, FALSE), {i})
  BY <1>1, <1>9, <1>10, ResizeCouple
<1> DEFINE p == Resize(x, i, pos, size, FALSE)
           q == Resize(y, i, pos, size, FALSE)
<1>12. /\ FibonacciStep(s, i, m, f, dwindles) = [u EXCEPT !.g = p]
       /\ FibonacciStep(t, i, n, f, dwindles) = [v EXCEPT !.g = q]
  BY <1>3, <1>6, <1>7, <1>8 DEF pos, size
<1> HIDE DEF p, q
<1>13. /\ [u EXCEPT !.g = p].g = p /\ [v EXCEPT !.g = q].g = q
       /\ SameRect([u EXCEPT !.g = p], [v EXCEPT !.g = q])
  BY <1>6 DEF SameRect, FibStates
<1> QED BY <1>11, <1>12, <1>13 DEF FibBoth, p, q, x, y

LEMMA FibonacciCouple ==
  ASSUME NEW m \in Memories, NEW n, Like(m, n),
         NEW f, FactsOK(f), Free(m, Members(f.all)), NEW dwindles \in BOOLEAN
  PROVE  Couple(m, n, Fibonacci(m, f, dwindles), Fibonacci(n, f, dwindles), Members(f.all))
<1>1. n \in Memories /\ Free(n, Members(f.all)) /\ n.mfact = m.mfact
  BY LikeFree DEF Like, SameScreen
<1>2. PICK r : FibonacciGoes(r, m, f, dwindles)
  BY FibonacciRuns
<1>3. PICK h : FibonacciGoes(h, n, f, dwindles)
  BY <1>1, FibonacciRuns
<1> DEFINE ws == f.all
           S(k) == {ws[j] : j \in 1..k}
           T == {k \in Nat : k <= Len(ws) =>
                   Couple(m, n, r[k].g, h[k].g, S(k)) /\ SameRect(r[k], h[k])}
<1>a. ws \in Seq(Window)
  BY FactsTyped
<1>4. 0 \in T
  <2>1. r[0].g = m /\ h[0].g = n /\ SameRect(r[0], h[0])
    BY <1>2, <1>3 DEF FibonacciGoes, SameRect
  <2>2. S(0) = {}
    OBVIOUS
  <2> QED BY <2>1, <2>2, CoupleSelf
<1>5. ASSUME NEW k \in Nat, k \in T
      PROVE  k + 1 \in T
  <2> SUFFICES ASSUME k + 1 <= Len(ws)
               PROVE  Couple(m, n, r[k + 1].g, h[k + 1].g, S(k + 1)) /\ SameRect(r[k + 1], h[k + 1])
    OBVIOUS
  <2>1. k + 1 \in 1..Len(ws) /\ (k + 1) - 1 = k /\ k \in 0..Len(ws) /\ k <= Len(ws)
    BY <1>a
  <2>2. Couple(m, n, r[k].g, h[k].g, S(k)) /\ SameRect(r[k], h[k])
    BY <1>5, <2>1
  <2> DEFINE i == ws[k + 1]
             x == r[k]
             y == h[k]
  <2>3. i \in Window /\ i \in Members(ws)
    BY <1>a, <2>1, MembersOf
  <2>4. /\ x \in FibStates /\ y \in FibStates /\ Keeps(m, x.g, Members(ws))
        /\ r[k + 1] = FibonacciStep(x, i, m, f, dwindles)
        /\ h[k + 1] = FibonacciStep(y, i, n, f, dwindles)
    BY <1>2, <1>3, <2>1 DEF FibonacciGoes
  <2>5. S(k + 1) = S(k) \cup {i}
    <3>1. 1..(k + 1) = (1..k) \cup {k + 1}
      OBVIOUS
    <3> QED BY <3>1
  <2>6. ~x.g.c[i].full
    BY <2>3, <2>4, StaysFree DEF Free
  <2>7. Like(x.g, y.g) /\ SameRect(x, y)
    BY <2>2, CoupleLast
  <2> HIDE DEF i, S, x, y
  <2>8. FibBoth(x, y, FibonacciStep(x, i, m, f, dwindles), FibonacciStep(y, i, n, f, dwindles), {i})
    BY <1>1, <2>3, <2>4, <2>6, <2>7, FibonacciStepCouple
  <2>9. Couple(x.g, y.g, r[k + 1].g, h[k + 1].g, {i}) /\ SameRect(r[k + 1], h[k + 1])
    BY <2>4, <2>8 DEF FibBoth
  <2>10. Couple(m, n, r[k + 1].g, h[k + 1].g, S(k) \cup {i})
    BY <2>2, <2>9, CoupleThen DEF x, y
  <2> QED BY <2>5, <2>9, <2>10
<1>6. Len(ws) \in T
  <2> HIDE DEF T
  <2>1. Nat \subseteq T
    BY <1>4, <1>5, NatInductionOnSets
  <2>2. Len(ws) \in Nat
    BY <1>a
  <2> QED BY <2>1, <2>2
<1>7. Couple(m, n, r[Len(ws)].g, h[Len(ws)].g, S(Len(ws)))
  <2>1. Len(ws) <= Len(ws)
    BY <1>a
  <2> HIDE DEF ws, S
  <2> QED BY <1>6, <2>1
<1> QED BY <1>2, <1>3, <1>7 DEF FibonacciGoes, Members

-----------------------------------------------------------------------------
(* Layouts.                                                                 *)

LEMMA SharedTyped ==
  ASSUME NEW len \in Int, NEW n \in Int, NEW gap \in Int
  PROVE  Shared(len, n, gap) \in Int
<1>1. gap * (n - 1) \in Int
  OBVIOUS
<1> QED BY <1>1 DEF Shared

LEMMA SharesTyped ==
  ASSUME NEW len \in Int, NEW n \in Nat, NEW gap \in Int
  PROVE  Shares(len, n, gap) \in [1..n -> Int]
<1>1. Shared(len, n, gap) \in Int
  BY SharedTyped
<1>2. ASSUME NEW k \in 1..n, NEW total \in Int
      PROVE  Share(total, n, k) \in Int
  <2>1. total \div n \in Int
    BY <1>2
  <2> QED BY <2>1 DEF Share
<1> QED BY <1>1, <1>2 DEF Shares

LEMMA PartsTyped ==
  ASSUME NEW m \in Memories, NEW f, FactsOK(f), NEW room \in Int, NEW whole \in Int
  PROVE  MasterPart(m, f, room, whole) \in Int /\ StackPart(m, f, room, whole) \in Int
<1>1. m.mfact \in Int /\ 20 - m.mfact \in Int
  BY DEF Memories, AnyMemory
<1> QED BY <1>1, PartTyped DEF MasterPart, StackPart

LEMMA FreeParts ==
  ASSUME NEW m, NEW f, FactsOK(f), Free(m, Members(f.all))
  PROVE  Free(m, Members(f.ms)) /\ Free(m, Members(f.ss))
BY DEF FactsOK, Free

LEMMA PartsOf ==
  ASSUME NEW m, NEW f, FactsOK(f), Free(m, Members(f.all))
  PROVE  /\ f.ms \in Seq(Window) /\ f.ss \in Seq(Window) /\ f.all \in Seq(Window)
         /\ Len(f.ms) \in Nat /\ Len(f.ss) \in Nat /\ Len(f.all) \in Nat
         /\ Members(f.ms) \cup Members(f.ss) = Members(f.all)
         /\ Free(m, Members(f.ms)) /\ Free(m, Members(f.ss))
<1>1. f.ms \in Seq(Window) /\ f.ss \in Seq(Window) /\ f.all \in Seq(Window)
  BY FactsTyped
<1>2. Len(f.ms) \in Nat /\ Len(f.ss) \in Nat /\ Len(f.all) \in Nat
  BY <1>1
<1>3. Members(f.ms) \cup Members(f.ss) = Members(f.all)
  BY DEF FactsOK
<1>4. Free(m, Members(f.ms)) /\ Free(m, Members(f.ss))
  BY FreeParts
<1> QED BY <1>1, <1>2, <1>3, <1>4

\* What is laid out after other windows have been.
LEMMA FlowThen ==
  ASSUME NEW k, NEW l, NEW m, NEW n, NEW S, Couple(k, l, m, n, S),
         NEW ws \in Seq(Window), Free(k, Members(ws)), NEW d \in Dims,
         NEW pos \in Int \X Int, NEW cross \in Int, NEW lens \in [1..Len(ws) -> Int],
         NEW gap \in Int
  PROVE  Couple(k, l, Flow(m, ws, d, pos, cross, lens, gap),
                Flow(n, ws, d, pos, cross, lens, gap), S \cup Members(ws))
<1>1. Keeps(k, m, S)
  BY DEF Couple
<1>3. m \in Memories /\ Free(m, Members(ws)) /\ Like(m, n)
  <2>1. m \in Memories /\ Free(m, Members(ws))
    BY <1>1, StaysFree DEF Keeps
  <2> QED BY <2>1, CoupleLast
<1>2. Couple(m, n, Flow(m, ws, d, pos, cross, lens, gap),
             Flow(n, ws, d, pos, cross, lens, gap), Members(ws))
  BY <1>3, FlowCouple
<1> QED BY <1>2, CoupleThen

LEMMA PileThen ==
  ASSUME NEW k, NEW l, NEW m, NEW n, NEW S, Couple(k, l, m, n, S),
         NEW ws \in Seq(Window), Free(k, Members(ws)),
         NEW pos \in Int \X Int, NEW size \in Int \X Int
  PROVE  Couple(k, l, Pile(m, ws, pos, size), Pile(n, ws, pos, size), S \cup Members(ws))
<1>1. Keeps(k, m, S)
  BY DEF Couple
<1>3. m \in Memories /\ Free(m, Members(ws)) /\ Like(m, n)
  <2>1. m \in Memories /\ Free(m, Members(ws))
    BY <1>1, StaysFree DEF Keeps
  <2> QED BY <2>1, CoupleLast
<1>2. Couple(m, n, Pile(m, ws, pos, size), Pile(n, ws, pos, size), Members(ws))
  BY <1>3, PileCouple
<1> QED BY <1>2, CoupleThen

LEMMA TwoGroupsCouple ==
  ASSUME NEW m \in Memories, NEW n, Like(m, n), NEW f, FactsOK(f), Free(m, Members(f.all)),
         NEW d \in Dims, NEW e \in Dims, NEW along \in Int, NEW across \in Int
  PROVE  Couple(m, n, TwoGroups(m, f, d, e, along, across), TwoGroups(n, f, d, e, along, across),
                Members(f.all))
<1> DEFINE len == f.in.size[d]
           room == f.in.size[e] - across
           part == MasterPart(m, f, room, f.in.size[e])
           stack == StackPart(m, f, room, f.in.size[e])
           start == IF f.split THEN [f.in.pos EXCEPT ![e] = @ + part + across] ELSE f.in.pos
           lens == Shares(len, Len(f.ms), along)
           rest == Shares(len, Len(f.ss), along)
           First(x) == Flow(x, f.ms, d, f.in.pos, part, lens, along)
           first == First(m)
           second == First(n)
<1>1. /\ f.in.pos \in Int \X Int /\ len \in Int /\ room \in Int /\ f.in.size[e] \in Int
      /\ f.in.pos[e] \in Int
  BY FactsTyped DEF Dims
<1>2. part \in Int /\ stack \in Int
  BY <1>1, PartsTyped
<1>3. /\ TwoGroups(m, f, d, e, along, across) = Flow(first, f.ss, d, start, stack, rest, along)
      /\ TwoGroups(n, f, d, e, along, across) = Flow(second, f.ss, d, start, stack, rest, along)
  <2>1. n.mfact = m.mfact
    BY DEF Like, SameScreen
  <2> QED BY <2>1 DEF TwoGroups, MasterPart, StackPart
<1> HIDE DEF len, room, part, stack
<1>4. start \in Int \X Int
  <2>1. f.in.pos[e] + part + across \in Int
    BY <1>1, <1>2
  <2>2. [f.in.pos EXCEPT ![e] = f.in.pos[e] + part + across] \in Int \X Int
    BY <1>1, <2>1 DEF Dims
  <2> QED BY <1>1, <2>2
<1> HIDE DEF start
<1>5. /\ f.ms \in Seq(Window) /\ f.ss \in Seq(Window) /\ f.all \in Seq(Window)
      /\ Len(f.ms) \in Nat /\ Len(f.ss) \in Nat /\ Len(f.all) \in Nat
      /\ Members(f.ms) \cup Members(f.ss) = Members(f.all)
      /\ Free(m, Members(f.ms)) /\ Free(m, Members(f.ss))
  BY PartsOf
<1>6. lens \in [1..Len(f.ms) -> Int] /\ rest \in [1..Len(f.ss) -> Int]
  BY <1>1, <1>5, SharesTyped
<1> HIDE DEF lens, rest
<1>7. Couple(m, n, first, second, Members(f.ms))
  BY <1>1, <1>2, <1>5, <1>6, FlowCouple
<1> HIDE DEF first, second
<1>8. Couple(m, n, Flow(first, f.ss, d, start, stack, rest, along),
             Flow(second, f.ss, d, start, stack, rest, along), Members(f.ms) \cup Members(f.ss))
  BY <1>1, <1>2, <1>4, <1>5, <1>6, <1>7, FlowThen
<1> QED BY <1>3, <1>5, <1>8

LEMMA DeckCouple ==
  ASSUME NEW m \in Memories, NEW n, Like(m, n), NEW f, FactsOK(f), Free(m, Members(f.all))
  PROVE  Couple(m, n, Deck(m, f), Deck(n, f), Members(f.all))
<1> DEFINE room == f.in.size[1] - f.gap.iv
           part == MasterPart(m, f, room, f.in.size[1])
           stack == StackPart(m, f, room, f.in.size[1])
           x == IF f.split THEN f.in.pos[1] + part + f.gap.iv ELSE f.in.pos[1]
           h == IF f.split THEN f.in.size[2] ELSE Shared(f.in.size[2], Len(f.ms), f.gap.ih)
           lens == Shares(f.in.size[2], Len(f.ms), f.gap.ih)
           First(y) == Flow(y, f.ms, 2, f.in.pos, part, lens, f.gap.ih)
           first == First(m)
           second == First(n)
<1>1. /\ f.in.pos \in Int \X Int /\ f.in.pos[1] \in Int /\ f.in.pos[2] \in Int
      /\ f.in.size[1] \in Int /\ f.in.size[2] \in Int /\ f.gap.iv \in Int /\ f.gap.ih \in Int
      /\ 2 \in Dims
  BY FactsTyped DEF Dims
<1>2. part \in Int /\ stack \in Int
  BY <1>1, PartsTyped
<1>3. /\ Deck(m, f) = Pile(first, f.ss, <<x, f.in.pos[2]>>, <<stack, h>>)
      /\ Deck(n, f) = Pile(second, f.ss, <<x, f.in.pos[2]>>, <<stack, h>>)
  <2>1. n.mfact = m.mfact
    BY DEF Like, SameScreen
  <2> QED BY <2>1 DEF Deck, MasterPart, StackPart
<1>4. /\ f.ms \in Seq(Window) /\ f.ss \in Seq(Window) /\ f.all \in Seq(Window)
      /\ Len(f.ms) \in Nat /\ Len(f.ss) \in Nat /\ Len(f.all) \in Nat
      /\ Members(f.ms) \cup Members(f.ss) = Members(f.all)
      /\ Free(m, Members(f.ms)) /\ Free(m, Members(f.ss))
  BY PartsOf
<1>5. h \in Int
  <2>1. f.in.size[2] \in Int /\ Len(f.ms) \in Int /\ f.gap.ih \in Int
    BY <1>1, <1>4
  <2>2. Shared(f.in.size[2], Len(f.ms), f.gap.ih) \in Int
    BY <2>1, SharedTyped
  <2> QED BY <2>1, <2>2
<1> HIDE DEF room, part, stack, h
<1>6. <<x, f.in.pos[2]>> \in Int \X Int /\ <<stack, h>> \in Int \X Int
  BY <1>1, <1>2, <1>5
<1>7. lens \in [1..Len(f.ms) -> Int]
  BY <1>1, <1>4, SharesTyped
<1> DEFINE pos == <<x, f.in.pos[2]>>
           size == <<stack, h>>
<1> HIDE DEF x, lens, pos, size
<1>8. Couple(m, n, first, second, Members(f.ms))
  BY <1>1, <1>2, <1>4, <1>7, FlowCouple
<1> HIDE DEF first, second
<1>9. pos \in Int \X Int /\ size \in Int \X Int
  BY <1>6 DEF pos, size
<1>10. Couple(m, n, Pile(first, f.ss, pos, size), Pile(second, f.ss, pos, size),
              Members(f.ms) \cup Members(f.ss))
  BY <1>4, <1>8, <1>9, PileThen
<1> QED BY <1>3, <1>4, <1>10 DEF pos, size

LEMMA MonocleCouple ==
  ASSUME NEW m \in Memories, NEW n, Like(m, n), NEW f, FactsOK(f),
         Free(m, Members(f.all))
  PROVE  Couple(m, n, Monocle(m, f), Monocle(n, f), Members(f.all))
BY FactsTyped, PileCouple DEF Monocle

\* Every other window of a list.
LEMMA EveryOther ==
  ASSUME NEW ss \in Seq(Window), NEW n \in Nat, NEW o \in {0, 1}, 2 * n - o <= Len(ss),
         NEW ws, ws = [k \in 1..n |-> ss[2 * k - o]]
  PROVE  ws \in Seq(Window) /\ Len(ws) = n /\ Members(ws) \subseteq Members(ss)
<1>1. ASSUME NEW k \in 1..n
      PROVE  2 * k - o \in 1..Len(ss)
  OBVIOUS
<1>2. \A k \in 1..n : ss[2 * k - o] \in Window
  BY <1>1
<1>3. ws \in Seq(Window) /\ Len(ws) = n
  BY <1>2
<1>4. ASSUME NEW x \in Members(ws)
      PROVE  x \in Members(ss)
  <2>1. PICK k \in 1..n : x = ss[2 * k - o]
    BY <1>3 DEF Members
  <2> QED BY <1>1, <2>1 DEF Members
<1> QED BY <1>3, <1>4

\* The odd places and the even ones are all.
Odds(ss) == [k \in 1..((Len(ss) + 1) \div 2) |-> ss[2 * k - 1]]
Evens(ss) == [k \in 1..(Len(ss) \div 2) |-> ss[2 * k]]

LEMMA OddAndEven ==
  ASSUME NEW ss \in Seq(Window)
  PROVE  /\ Odds(ss) \in Seq(Window) /\ Evens(ss) \in Seq(Window)
         /\ Members(Odds(ss)) \cup Members(Evens(ss)) = Members(ss)
<1> DEFINE rs == Odds(ss)
           ls == Evens(ss)
<1>a. /\ rs = [k \in 1..((Len(ss) + 1) \div 2) |-> ss[2 * k - 1]]
      /\ ls = [k \in 1..(Len(ss) \div 2) |-> ss[2 * k]]
  BY DEF Odds, Evens
<1> HIDE DEF rs, ls
<1>1. rs \in Seq(Window) /\ Len(rs) = (Len(ss) + 1) \div 2 /\ Members(rs) \subseteq Members(ss)
  <2>1. (Len(ss) + 1) \div 2 \in Nat /\ 2 * ((Len(ss) + 1) \div 2) - 1 <= Len(ss)
    OBVIOUS
  <2> DEFINE half == (Len(ss) + 1) \div 2
  <2>2. rs = [k \in 1..half |-> ss[2 * k - 1]] /\ 1 \in {0, 1}
    BY <1>a
  <2>3. half \in Nat /\ 2 * half - 1 <= Len(ss)
    BY <2>1
  <2> HIDE DEF half
  <2>4. rs \in Seq(Window) /\ Len(rs) = half /\ Members(rs) \subseteq Members(ss)
    BY <2>2, <2>3, EveryOther
  <2> QED BY <2>4 DEF half
<1>2. ls \in Seq(Window) /\ Len(ls) = Len(ss) \div 2 /\ Members(ls) \subseteq Members(ss)
  <2>1. Len(ss) \div 2 \in Nat /\ 2 * (Len(ss) \div 2) - 0 <= Len(ss)
    OBVIOUS
  <2>2. ls = [k \in 1..(Len(ss) \div 2) |-> ss[2 * k - 0]]
    BY <1>a
  <2> QED BY <2>1, <2>2, EveryOther
<1>3. ASSUME NEW j \in 1..Len(ss)
      PROVE  ss[j] \in Members(rs) \cup Members(ls)
  <2>1. j \in Nat /\ Len(ss) \in Nat
    OBVIOUS
  <2>2. PICK k \in Nat : j = 2 * k \/ j = 2 * k - 1
    <3>1. (j + 1) \div 2 \in Nat /\ (j = 2 * ((j + 1) \div 2) \/ j = 2 * ((j + 1) \div 2) - 1)
      BY <2>1
    <3> QED BY <3>1
  <2>3. CASE j = 2 * k
    <3>1. k \in 1..(Len(ss) \div 2)
      BY <2>1, <2>3
    <3>2. ls[k] = ss[j]
      BY <1>a, <2>3, <3>1
    <3> QED BY <1>2, <3>1, <3>2 DEF Members
  <2>4. CASE j = 2 * k - 1
    <3>1. k \in 1..((Len(ss) + 1) \div 2)
      BY <2>1, <2>4
    <3>2. rs[k] = ss[j]
      BY <1>a, <2>4, <3>1
    <3> QED BY <1>1, <3>1, <3>2 DEF Members
  <2> QED BY <2>2, <2>3, <2>4
<1>4. Members(ss) \subseteq Members(rs) \cup Members(ls)
  BY <1>3 DEF Members
<1> QED BY <1>1, <1>2, <1>4 DEF rs, ls

LEMMA ThreeColumnsCouple ==
  ASSUME NEW m \in Memories, NEW n, Like(m, n), NEW f, FactsOK(f),
         Free(m, Members(f.all)), NEW ms \in Seq(Window), NEW ss \in Seq(Window),
         Members(ms) \cup Members(ss) = Members(f.all), NEW w \in Int, NEW side \in Int
  PROVE  Couple(m, n, ThreeColumns(m, f, ms, ss, w, side), ThreeColumns(n, f, ms, ss, w, side),
                Members(f.all))
<1> DEFINE rs == [k \in 1..((Len(ss) + 1) \div 2) |-> ss[2 * k - 1]]
           ls == [k \in 1..(Len(ss) \div 2) |-> ss[2 * k]]
<1>4. rs \in Seq(Window) /\ ls \in Seq(Window) /\ Members(rs) \cup Members(ls) = Members(ss)
  <2>1. rs = Odds(ss) /\ ls = Evens(ss)
    BY DEF Odds, Evens
  <2> HIDE DEF rs, ls
  <2> QED BY <2>1, OddAndEven
<1> DEFINE mx == IF Len(ss) > 1 THEN f.in.pos[1] + side + f.gap.iv ELSE f.in.pos[1]
           Height(total, len, late) ==
             (total \div len) + (IF late >= 0 /\ late < 2 * (total % len) THEN 1 ELSE 0)
           Heights(len, first) ==
             [k \in 1..len |-> Height(Shared(f.in.size[2], len, f.gap.ih), len,
                                      2 * (k - 1) + first - m.nmaster)]
           lens == Shares(f.in.size[2], Len(ms), f.gap.ih)
           left == Heights(Len(ls), 1)
           right == Heights(Len(rs), 0)
           mpos == <<mx, f.in.pos[2]>>
           rpos == <<mx + w + f.gap.iv, f.in.pos[2]>>
           lpos == f.in.pos
           gap == f.gap.ih
           First(x) == Flow(x, ms, 2, mpos, w, lens, gap)
           Second(x) == Flow(First(x), ls, 2, lpos, side, left, gap)
           Third(x) == Flow(Second(x), rs, 2, rpos, side, right, gap)
<1>1. /\ lpos \in Int \X Int /\ f.in.pos[1] \in Int /\ f.in.pos[2] \in Int
      /\ f.in.size[2] \in Int /\ f.gap.iv \in Int /\ gap \in Int /\ 2 \in Dims
  BY FactsTyped DEF Dims
<1>2. mx \in Int
  <2>1. f.in.pos[1] \in Int /\ f.gap.iv \in Int
    BY <1>1
  <2>2. f.in.pos[1] + side + f.gap.iv \in Int
    BY <2>1
  <2> HIDE DEF lpos, gap
  <2> QED BY <2>1, <2>2
<1>3. mpos \in Int \X Int /\ rpos \in Int \X Int
  <2> HIDE DEF mx
  <2> QED BY <1>1, <1>2
<1>6. ASSUME NEW len \in Nat, NEW first
      PROVE  Heights(len, first) \in [1..len -> Int]
  <2>1. ASSUME NEW k \in 1..len, NEW late
        PROVE  Height(Shared(f.in.size[2], len, gap), len, late) \in Int
    <3>1. Shared(f.in.size[2], len, gap) \in Int
      <4>1. f.in.size[2] \in Int /\ len \in Int /\ gap \in Int
        BY <1>1
      <4> QED BY <4>1, SharedTyped
    <3>2. Shared(f.in.size[2], len, gap) \div len \in Int
      BY <3>1
    <3> DEFINE one == IF late >= 0 /\ late < 2 * (Shared(f.in.size[2], len, gap) % len) THEN 1 ELSE 0
    <3>3. one \in Int
      OBVIOUS
    <3> HIDE DEF one
    <3>4. Shared(f.in.size[2], len, gap) \div len + one \in Int
      BY <3>2, <3>3
    <3> QED BY <3>4 DEF one
  <2> HIDE DEF Height
  <2> QED BY <2>1
<1>7. /\ ThreeColumns(m, f, ms, ss, w, side) = Third(m)
      /\ ThreeColumns(n, f, ms, ss, w, side) = Third(n)
  <2>1. n.nmaster = m.nmaster
    BY DEF Like, SameScreen
  <2>2. ThreeColumns(m, f, ms, ss, w, side) = Third(m)
    BY DEF ThreeColumns
  <2>3. ThreeColumns(n, f, ms, ss, w, side) = Third(n)
    BY <2>1 DEF ThreeColumns
  <2> QED BY <2>2, <2>3
<1> HIDE DEF rs, ls, mx, mpos, rpos, lpos, gap, Heights, Height
<1>8. left \in [1..Len(ls) -> Int] /\ right \in [1..Len(rs) -> Int]
  <2>1. Len(ls) \in Nat /\ Len(rs) \in Nat
    BY <1>4
  <2> QED BY <1>6, <2>1
<1>9. lens \in [1..Len(ms) -> Int]
  <2>1. Len(ms) \in Nat
    OBVIOUS
  <2> QED BY <1>1, <2>1, SharesTyped DEF gap
<1> HIDE DEF left, right, lens
<1>10. Free(m, Members(ms)) /\ Free(m, Members(ls)) /\ Free(m, Members(rs))
  BY <1>4 DEF Free
<1>12. Couple(m, n, First(m), First(n), Members(ms))
  BY <1>1, <1>3, <1>9, <1>10, FlowCouple
<1> HIDE DEF First
<1>13. Couple(m, n, Second(m), Second(n), Members(ms) \cup Members(ls))
  BY <1>1, <1>4, <1>8, <1>10, <1>12, FlowThen
<1> HIDE DEF Second
<1>14. Couple(m, n, Third(m), Third(n), (Members(ms) \cup Members(ls)) \cup Members(rs))
  BY <1>1, <1>3, <1>4, <1>8, <1>10, <1>13, FlowThen
<1>15. (Members(ms) \cup Members(ls)) \cup Members(rs) = Members(f.all)
  BY <1>4
<1> HIDE DEF Third
<1> QED BY <1>7, <1>14, <1>15

LEMMA CenteredMasterCouple ==
  ASSUME NEW m \in Memories, NEW n, Like(m, n), NEW f, FactsOK(f), Free(m, Members(f.all))
  PROVE  Couple(m, n, CenteredMaster(m, f), CenteredMaster(n, f), Members(f.all))
<1> DEFINE ms == IF m.nmaster = 0 THEN f.all ELSE f.ms
           ss == IF m.nmaster = 0 THEN <<>> ELSE f.ss
           columns == Smaller(Len(ss), 2)
           w == IF columns = 0 THEN f.in.size[1]
                ELSE Part(f.in.size[1] - columns * f.gap.iv, m.mfact)
           rest == f.in.size[1] - w - columns * f.gap.iv
           side == IF columns = 2 THEN rest \div 2 ELSE rest
<1>1. f.in.size[1] \in Int /\ f.gap.iv \in Int /\ m.mfact \in Int
  BY FactsTyped DEF Memories, AnyMemory
<1>2. ms \in Seq(Window) /\ ss \in Seq(Window) /\ Members(ms) \cup Members(ss) = Members(f.all)
  <2>1. <<>> \in Seq(Window) /\ Members(<<>>) = {}
    BY DEF Members
  <2> QED BY <2>1, FactsTyped DEF FactsOK
<1>4. /\ CenteredMaster(m, f) = ThreeColumns(m, f, ms, ss, w, side)
      /\ CenteredMaster(n, f) = ThreeColumns(n, f, ms, ss, w, side)
  <2>1. n.nmaster = m.nmaster /\ n.mfact = m.mfact
    BY DEF Like, SameScreen
  <2> QED BY <2>1 DEF CenteredMaster
<1> HIDE DEF ms, ss
<1>5. columns \in Int
  BY <1>2 DEF Smaller
<1> HIDE DEF columns
<1>6. columns * f.gap.iv \in Int
  BY <1>1, <1>5
<1>7. w \in Int
  <2>1. f.in.size[1] - columns * f.gap.iv \in Int
    BY <1>1, <1>6
  <2>2. Part(f.in.size[1] - columns * f.gap.iv, m.mfact) \in Int
    BY <1>1, <2>1, PartTyped
  <2> QED BY <1>1, <2>2
<1> HIDE DEF w
<1>8. rest \in Int
  BY <1>1, <1>6, <1>7
<1> HIDE DEF rest
<1>9. side \in Int
  BY <1>8
<1> HIDE DEF side
<1>10. Couple(m, n, ThreeColumns(m, f, ms, ss, w, side), ThreeColumns(n, f, ms, ss, w, side),
              Members(f.all))
  BY <1>2, <1>7, <1>9, ThreeColumnsCouple
<1> QED BY <1>4, <1>10

LEMMA CenteredFloatingMasterCouple ==
  ASSUME NEW m \in Memories, NEW n, Like(m, n), NEW f, FactsOK(f), Free(m, Members(f.all))
  PROVE  Couple(m, n, CenteredFloatingMaster(m, f), CenteredFloatingMaster(n, f), Members(f.all))
<1> DEFINE a == f.area
           wide == a.size[1] > a.size[2]
           between == 16 * f.gap.iv * (Len(f.ms) - 1)
           size == IF ~f.split THEN <<Shared(f.in.size[1], Len(f.all), f.gap.iv), f.in.size[2]>>
                   ELSE <<(a.size[1] * (IF wide THEN m.mfact ELSE 18) - between) \div 20,
                          IF wide THEN (a.size[2] * 18 - 40 * f.gap.oh) \div 20
                          ELSE Part(a.size[2], m.mfact)>>
           pos == IF f.split THEN Pair(LAMBDA d : a.pos[d] + (a.size[d] - size[d]) \div 2) ELSE f.in.pos
           gap == IF f.split THEN (16 * f.gap.iv) \div 20 ELSE f.gap.iv
           lens == Shares(size[1], Len(f.ms), 0)
           others == Shares(f.in.size[1], Len(f.ss), f.gap.iv)
           First(x) == Flow(x, f.ms, 1, pos, size[2], lens, gap)
           Second(x) == Flow(First(x), f.ss, 1, f.in.pos, f.in.size[2], others, f.gap.iv)
<1>1. /\ a.pos[1] \in Int /\ a.pos[2] \in Int /\ a.size[1] \in Int /\ a.size[2] \in Int
      /\ f.in.pos \in Int \X Int /\ f.in.size[1] \in Int /\ f.in.size[2] \in Int
      /\ f.gap.oh \in Int /\ f.gap.iv \in Int /\ 1 \in Dims
  <2>1. 1 \in Dims
    BY DEF Dims
  <2>2. a.pos \in Int \X Int /\ a.size \in Int \X Int
    BY FactsTyped
  <2> HIDE DEF a
  <2>3. a.pos[1] \in Int /\ a.pos[2] \in Int /\ a.size[1] \in Int /\ a.size[2] \in Int
    BY <2>2
  <2>4. f.in.pos \in Int \X Int /\ f.in.size[1] \in Int /\ f.in.size[2] \in Int
    BY FactsTyped
  <2>5. f.gap.oh \in Int /\ f.gap.iv \in Int
    BY FactsTyped
  <2> QED BY <2>1, <2>3, <2>4, <2>5
<1>2. /\ f.ms \in Seq(Window) /\ f.ss \in Seq(Window) /\ f.all \in Seq(Window)
      /\ Len(f.ms) \in Nat /\ Len(f.ss) \in Nat /\ Len(f.all) \in Nat
      /\ Members(f.ms) \cup Members(f.ss) = Members(f.all)
      /\ Free(m, Members(f.ms)) /\ Free(m, Members(f.ss))
  BY PartsOf
<1>3. m.mfact \in Int
  BY DEF Memories, AnyMemory
<1>4. CenteredFloatingMaster(m, f) = Second(m) /\ CenteredFloatingMaster(n, f) = Second(n)
  <2>1. n.mfact = m.mfact
    BY DEF Like, SameScreen
  <2>2. CenteredFloatingMaster(m, f) = Second(m)
    BY DEF CenteredFloatingMaster
  <2>3. CenteredFloatingMaster(n, f) = Second(n)
    BY <2>1 DEF CenteredFloatingMaster, Pair
  <2> QED BY <2>2, <2>3
<1>5. size \in Int \X Int
  <2>1. between \in Int
    <3>3. f.gap.iv \in Int /\ Len(f.ms) \in Int
      BY <1>1, <1>2
    <3>1. 16 * f.gap.iv \in Int /\ Len(f.ms) - 1 \in Int
      BY <3>3
    <3>2. \A x, y \in Int : x * y \in Int
      OBVIOUS
    <3> QED BY <3>1, <3>2
  <2> HIDE DEF between
  <2>2. (a.size[1] * (IF wide THEN m.mfact ELSE 18) - between) \div 20 \in Int
    <3> DEFINE by == IF wide THEN m.mfact ELSE 18
    <3>1. by \in Int
      BY <1>3
    <3> HIDE DEF by
    <3>2. a.size[1] * by \in Int
      BY <1>1, <3>1
    <3>3. (a.size[1] * by - between) \div 20 \in Int
      BY <2>1, <3>2
    <3> QED BY <3>3 DEF by
  <2>3. (a.size[2] * 18 - 40 * f.gap.oh) \div 20 \in Int
    BY <1>1
  <2>5. Part(a.size[2], m.mfact) \in Int
    BY <1>1, <1>3, PartTyped
  <2>4. Shared(f.in.size[1], Len(f.all), f.gap.iv) \in Int
    <3>1. f.in.size[1] \in Int /\ Len(f.all) \in Int /\ f.gap.iv \in Int
      BY <1>1, <1>2
    <3> QED BY <3>1, SharedTyped
  <2> QED BY <1>1, <2>2, <2>3, <2>4, <2>5
<1> HIDE DEF size
<1>6. size[1] \in Int /\ size[2] \in Int
  BY <1>5
<1>7. pos \in Int \X Int
  BY <1>1, <1>6 DEF Pair
<1>8. gap \in Int
  BY <1>1
<1>9. lens \in [1..Len(f.ms) -> Int] /\ others \in [1..Len(f.ss) -> Int]
  <2>1. lens \in [1..Len(f.ms) -> Int]
    <3>1. size[1] \in Int /\ Len(f.ms) \in Nat /\ 0 \in Int
      BY <1>2, <1>6
    <3> QED BY <3>1, SharesTyped
  <2>2. others \in [1..Len(f.ss) -> Int]
    BY <1>1, <1>2, SharesTyped
  <2> QED BY <2>1, <2>2
<1> HIDE DEF pos, gap, lens, others
<1>10. Couple(m, n, First(m), First(n), Members(f.ms))
  BY <1>1, <1>2, <1>6, <1>7, <1>8, <1>9, FlowCouple
<1> HIDE DEF First
<1>11. Couple(m, n, Second(m), Second(n), Members(f.ms) \cup Members(f.ss))
  BY <1>1, <1>2, <1>9, <1>10, FlowThen
<1> HIDE DEF Second
<1> QED BY <1>2, <1>4, <1>11

\* Unless the layout lays out nothing, each of its windows is where the requests of
\* the layout put it.
LEMMA LaidOutCouple ==
  ASSUME NEW m \in Memories, NEW n, Like(m, n), NEW f, FactsOK(f),
         Free(m, Members(f.all)), Arranging(m)
  PROVE  Couple(m, n, LaidOut(m, f), LaidOut(n, f), Members(f.all))
<1> DEFINE S == Members(f.all)
<1>1. /\ f.gap.ih \in Int /\ f.gap.iv \in Int /\ 1 \in Dims /\ 2 \in Dims
  BY FactsTyped DEF Dims
<1>2. Couple(m, n, Tile(m, f), Tile(n, f), S) /\ Couple(m, n, Bstack(m, f), Bstack(n, f), S)
  BY <1>1, TwoGroupsCouple DEF Tile, Bstack
<1>3. f.all = <<>> => Couple(m, n, m, n, S)
  <2>1. f.all = <<>> => S = {}
    BY DEF Members
  <2> QED BY <2>1, CoupleSelf
<1>4. Couple(m, n, Fibonacci(m, f, m.lt = "dwindle"), Fibonacci(n, f, m.lt = "dwindle"), S)
  <2>1. (m.lt = "dwindle") \in BOOLEAN
    OBVIOUS
  <2> QED BY <2>1, FibonacciCouple
<1>5. /\ Couple(m, n, Deck(m, f), Deck(n, f), S) /\ Couple(m, n, Monocle(m, f), Monocle(n, f), S)
      /\ Couple(m, n, CenteredMaster(m, f), CenteredMaster(n, f), S)
      /\ Couple(m, n, CenteredFloatingMaster(m, f), CenteredFloatingMaster(n, f), S)
  BY DeckCouple, MonocleCouple, CenteredMasterCouple, CenteredFloatingMasterCouple
<1>6. n.lt = m.lt /\ m.lt \in Layouts /\ m.lt # "floating"
  BY DEF Like, SameScreen, Arranging, Memories, AnyMemory
<1> HIDE DEF S
<1> QED BY <1>2, <1>3, <1>4, <1>5, <1>6 DEF LaidOut, Layouts, S

LEMMA LaidOutKeeps ==
  ASSUME NEW m \in Memories, NEW f, FactsOK(f), Free(m, Members(f.all))
  PROVE  Keeps(m, LaidOut(m, f), Members(f.all))
<1>1. CASE Arranging(m)
  <2>1. Like(m, m)
    BY DEF Like, SameScreen
  <2> QED BY <1>1, <2>1, LaidOutCouple DEF Couple
<1>2. CASE ~Arranging(m)
  <2>1. LaidOut(m, f) = m
    BY <1>2 DEF Arranging, LaidOut
  <2> QED BY <2>1, KeepsSelf
<1> QED BY <1>1, <1>2

LEMMA MemoryTyped ==
  ASSUME NEW m \in Memories
  PROVE  /\ m \in AnyMemory /\ m.order \in Seq(Window) /\ m.c \in [Window -> AnyClient]
         /\ m.visible \in [Window -> BOOLEAN] /\ m.sel \in Window \cup {NoWindow}
         /\ m.lt \in Layouts /\ m.mfact \in 1..19 /\ m.nmaster \in Nat /\ m.gaps \in AllGaps
         /\ m.enablegaps \in BOOLEAN /\ m.smartgaps \in BOOLEAN /\ m.showbar \in BOOLEAN
         /\ OnList(m) \subseteq Window
<1>1. m \in AnyMemory
  BY DEF Memories
<1>2. m.order \in Seq(Window)
  BY <1>1 DEF AnyMemory
<1> QED BY <1>1, <1>2, MembersOf DEF AnyMemory, OnList

LEMMA TiledAre ==
  ASSUME NEW m \in Memories
  PROVE  /\ Tiled(m) \in Seq(Window)
         /\ Members(Tiled(m)) = {i \in Shown(m) : ~m.c[i].floating}
         /\ Free(m, Members(Tiled(m)))
<1> DEFINE S == {i \in Shown(m) : ~m.c[i].floating}
<1>1. m.order \in Seq(Window) /\ OnList(m) \subseteq Window
  BY MemoryTyped
<1>2. Tiled(m) = Kept(m.order, S)
  BY DEF Tiled
<1>3. S \subseteq Members(m.order)
  BY DEF Shown, OnList
<1>4. S \subseteq Window /\ \A i \in S : ~m.c[i].full
  BY <1>1, <1>3, ClientTyped DEF OnList
<1> HIDE DEF S
<1>5. Kept(m.order, S) \in Seq(Window) /\ Members(Kept(m.order, S)) = Members(m.order) \cap S
  BY <1>1, KeptMembers
<1>6. Members(Tiled(m)) = S
  BY <1>2, <1>3, <1>5
<1> QED BY <1>2, <1>4, <1>5, <1>6 DEF S, Free

LEMMA PartOfList ==
  ASSUME NEW W, NEW s \in Seq(W), NEW a \in Nat, a > 0, NEW b \in Nat, b <= Len(s)
  PROVE  SubSeq(s, a, b) \in Seq(W) /\ Members(SubSeq(s, a, b)) \subseteq Members(s)
<1> DEFINE t == SubSeq(s, a, b)
<1>1. t \in Seq(W) /\ Len(t) = (IF a <= b THEN b - a + 1 ELSE 0)
      /\ \A k \in 1..Len(t) : t[k] = s[a + k - 1]
  <2>1. t \in Seq(W)
    OBVIOUS
  <2>2. Len(t) = IF a <= b THEN b - a + 1 ELSE 0
    OBVIOUS
  <2>3. ASSUME NEW k \in 1..Len(t)
        PROVE  t[k] = s[a + k - 1]
    OBVIOUS
  <2> QED BY <2>1, <2>2, <2>3
<1> HIDE DEF t
<1>2. ASSUME NEW x \in Members(t)
      PROVE  x \in Members(s)
  <2>1. PICK k \in 1..Len(t) : x = t[k]
    BY DEF Members
  <2>2. a + k - 1 \in 1..Len(s)
    BY <1>1, <2>1
  <2> QED BY <1>1, <2>1, <2>2 DEF Members
<1> QED BY <1>1, <1>2 DEF t

\* The two ends of a list are all of it.
LEMMA EndsOfList ==
  ASSUME NEW W, NEW s \in Seq(W), NEW k \in Nat, k <= Len(s)
  PROVE  /\ Len(SubSeq(s, 1, k)) = k
         /\ Members(SubSeq(s, 1, k)) \cup Members(SubSeq(s, k + 1, Len(s))) = Members(s)
<1> DEFINE t == SubSeq(s, 1, k)
           u == SubSeq(s, k + 1, Len(s))
<1>1. Len(s) \in Nat /\ Len(s) <= Len(s) /\ 1 \in Nat /\ 1 > 0 /\ k + 1 \in Nat /\ k + 1 > 0
  OBVIOUS
<1>2. Members(t) \subseteq Members(s)
  BY <1>1, PartOfList
<1>3. Members(u) \subseteq Members(s)
  BY <1>1, PartOfList
<1>4. Len(t) = k /\ \A j \in 1..Len(t) : t[j] = s[j]
  OBVIOUS
<1>5. Len(u) = Len(s) - k /\ \A j \in 1..Len(u) : u[j] = s[k + j]
  OBVIOUS
<1> HIDE DEF t, u
<1>6. ASSUME NEW j \in 1..Len(s)
      PROVE  s[j] \in Members(t) \cup Members(u)
  <2>1. CASE j <= k
    <3>1. j \in 1..Len(t) /\ s[j] = t[j]
      BY <1>1, <1>4, <2>1
    <3> QED BY <3>1 DEF Members
  <2>2. CASE j > k
    <3>1. j - k \in 1..Len(u) /\ k + (j - k) = j
      BY <1>1, <1>5, <2>2
    <3>2. s[j] = u[j - k]
      BY <1>5, <3>1
    <3> QED BY <3>1, <3>2 DEF Members
  <2> QED BY <1>1, <2>1, <2>2
<1>7. Members(s) \subseteq Members(t) \cup Members(u)
  BY <1>6 DEF Members
<1> QED BY <1>2, <1>3, <1>4, <1>7 DEF t, u

LEMMA GapsTyped ==
  ASSUME NEW m \in Memories
  PROVE  Gaps(m) \in AllGaps
<1> DEFINE on == IF m.enablegaps THEN 1 ELSE 0
           outer == IF m.smartgaps /\ Len(Tiled(m)) = 1 THEN 0 ELSE on
<1>1. /\ m.gaps.oh \in Nat /\ m.gaps.ov \in Nat /\ m.gaps.ih \in Nat /\ m.gaps.iv \in Nat
  BY MemoryTyped DEF AllGaps
<1>2. on \in Nat /\ outer \in Nat
  OBVIOUS
<1>3. Gaps(m) = [oh |-> m.gaps.oh * outer, ov |-> m.gaps.ov * outer,
                 ih |-> m.gaps.ih * on, iv |-> m.gaps.iv * on]
  BY DEF Gaps
<1> HIDE DEF on, outer
<1>4. /\ m.gaps.oh * outer \in Nat /\ m.gaps.ov * outer \in Nat
      /\ m.gaps.ih * on \in Nat /\ m.gaps.iv * on \in Nat
  BY <1>1, <1>2
<1> QED BY <1>3, <1>4 DEF AllGaps

LEMMA FactsAreOK ==
  ASSUME NEW m \in Memories
  PROVE  /\ FactsOK(Facts(m, Tiled(m), Masters(m, Tiled(m)), Area(m), Gaps(m)))
         /\ Facts(m, Tiled(m), Masters(m, Tiled(m)), Area(m), Gaps(m)).all = Tiled(m)
<1> DEFINE ws == Tiled(m)
           k == Smaller(Len(ws), m.nmaster)
           ms == Masters(m, ws)
           ss == SubSeq(ws, Len(ms) + 1, Len(ws))
           in == Inner(Area(m), Gaps(m))
           f == Facts(m, ws, ms, Area(m), Gaps(m))
<1>1. ws \in Seq(Window) /\ m.nmaster \in Nat
  BY TiledAre, MemoryTyped
<1> HIDE DEF ws
<1>2. k \in Nat /\ k <= Len(ws) /\ Len(ws) \in Nat /\ Len(ws) <= Len(ws)
  BY <1>1 DEF Smaller
<1>3. ms = SubSeq(ws, 1, k)
  BY DEF Masters
<1> HIDE DEF k
<1>4. ms \in Seq(Window)
  BY <1>1, <1>2, <1>3, PartOfList
<1>12. Members(ms) \cup Members(ss) = Members(ws)
  <2>1. /\ Len(SubSeq(ws, 1, k)) = k
        /\ Members(SubSeq(ws, 1, k)) \cup Members(SubSeq(ws, k + 1, Len(ws))) = Members(ws)
    BY <1>1, <1>2, EndsOfList
  <2> HIDE DEF ms
  <2> QED BY <1>3, <2>1
<1> HIDE DEF ms
<1>5. Len(ms) + 1 \in Nat /\ Len(ms) + 1 > 0
  BY <1>4
<1>6. ss \in Seq(Window)
  BY <1>1, <1>2, <1>5, PartOfList
<1> HIDE DEF ss
<1>7. Gaps(m) \in AllGaps
  BY GapsTyped
<1>8. Area(m) \in Rectangles /\ in \in Rectangles
  <2>1. Gaps(m).oh \in Nat /\ Gaps(m).ov \in Nat
    BY <1>7 DEF AllGaps
  <2>2. /\ Area(m).pos[1] \in Int /\ Area(m).pos[2] \in Int
        /\ Area(m).size[1] \in Int /\ Area(m).size[2] \in Int
    BY AreaTyped
  <2>3. in \in Rectangles
    BY <2>1, <2>2 DEF Inner, Rectangles
  <2>4. Area(m) \in Rectangles
    BY SizesAssumption DEF Area, Rectangles, Positive
  <2> QED BY <2>3, <2>4
<1>9. f = [area |-> Area(m), in |-> in, gap |-> Gaps(m), all |-> ws, ms |-> ms, ss |-> ss,
           split |-> m.nmaster > 0 /\ Len(ws) > m.nmaster]
  BY DEF Facts, ss
<1> HIDE DEF in
<1>10. f \in FactSet /\ f.all = ws /\ f.ms = ms /\ f.ss = ss
  BY <1>1, <1>4, <1>6, <1>7, <1>8, <1>9 DEF FactSet
<1> HIDE DEF f
<1>11. FactsOK(f)
  BY <1>10, <1>12 DEF FactsOK
<1> QED BY <1>10, <1>11 DEF f, ms, ws

\* They are the same for memories that differ only in where windows are.
LEMMA FactsAlike ==
  ASSUME NEW m \in Memories, NEW n, Like(m, n)
  PROVE  /\ Shown(n) = Shown(m) /\ Tiled(n) = Tiled(m)
         /\ Facts(n, Tiled(n), Masters(n, Tiled(n)), Area(n), Gaps(n))
              = Facts(m, Tiled(m), Masters(m, Tiled(m)), Area(m), Gaps(m))
<1>1. /\ n.order = m.order /\ n.visible = m.visible /\ n.nmaster = m.nmaster /\ n.gaps = m.gaps
      /\ n.enablegaps = m.enablegaps /\ n.smartgaps = m.smartgaps
  BY DEF Like, SameScreen
<1>2. Area(n) = Area(m)
  BY KeepsArea DEF Like
<1>3. Shown(n) = Shown(m)
  BY <1>1 DEF Shown, OnList
<1>4. \A i \in Shown(m) : n.c[i].floating = m.c[i].floating
  BY MemoryTyped DEF Like, Shown
<1>5. {i \in Shown(n) : ~n.c[i].floating} = {i \in Shown(m) : ~m.c[i].floating}
  BY <1>3, <1>4
<1>6. Tiled(n) = Tiled(m)
  BY <1>1, <1>5 DEF Tiled
<1>7. Gaps(n) = Gaps(m)
  BY <1>1, <1>6 DEF Gaps
<1>8. Masters(n, Tiled(m)) = Masters(m, Tiled(m))
  BY <1>1 DEF Masters
<1>9. Facts(n, Tiled(m), Masters(m, Tiled(m)), Area(m), Gaps(m))
        = Facts(m, Tiled(m), Masters(m, Tiled(m)), Area(m), Gaps(m))
  BY <1>1 DEF Facts
<1> QED BY <1>2, <1>3, <1>6, <1>7, <1>8, <1>9

LEMMA ArrangeMonCouple ==
  ASSUME NEW m \in Memories, NEW n, Like(m, n), Arranging(m)
  PROVE  Couple(m, n, ArrangeMon(m), ArrangeMon(n), Members(Tiled(m)))
<1> DEFINE f == Facts(m, Tiled(m), Masters(m, Tiled(m)), Area(m), Gaps(m))
<1>1. FactsOK(f) /\ f.all = Tiled(m)
  BY FactsAreOK
<1>2. ArrangeMon(m) = LaidOut(m, f) /\ ArrangeMon(n) = LaidOut(n, f)
  BY FactsAlike DEF ArrangeMon
<1> HIDE DEF f
<1>3. Free(m, Members(f.all))
  BY <1>1, TiledAre
<1>4. Couple(m, n, LaidOut(m, f), LaidOut(n, f), Members(f.all))
  BY <1>1, <1>3, LaidOutCouple
<1> QED BY <1>1, <1>2, <1>4

\* The layouts move the tiled windows.
LEMMA ArrangeMonKeeps ==
  ASSUME NEW m \in Memories
  PROVE  Keeps(m, ArrangeMon(m), {i \in Shown(m) : ~m.c[i].floating})
<1> DEFINE f == Facts(m, Tiled(m), Masters(m, Tiled(m)), Area(m), Gaps(m))
<1>1. FactsOK(f) /\ f.all = Tiled(m)
  BY FactsAreOK
<1>2. ArrangeMon(m) = LaidOut(m, f)
  BY DEF ArrangeMon
<1> HIDE DEF f
<1>3. Free(m, Members(f.all))
  BY <1>1, TiledAre
<1>4. Keeps(m, LaidOut(m, f), Members(f.all))
  BY <1>1, <1>3, LaidOutKeeps
<1> QED BY <1>1, <1>2, <1>4, TiledAre

-----------------------------------------------------------------------------
(* Show and Arrange.                                                        *)

\* A scratchpad that floats, taken to the middle.
Middled(m, i) ==
  LET Middle(a) == Pair(LAMBDA d : a.pos[d] + (a.size[d] \div 2) - (Outer(m.c[i])[d] \div 2))
  IN IF Hints[i].scratch /\ m.c[i].floating
     THEN [m EXCEPT !.c[i].pos = Middle(Area(m))] ELSE m

LEMMA MiddledKeeps ==
  ASSUME NEW m \in Memories, NEW i \in Window
  PROVE  Keeps(m, Middled(m, i), {i}) /\ Middled(m, i).c[i].size = m.c[i].size
<1> DEFINE a == Area(m)
           p == Pair(LAMBDA d : a.pos[d] + (a.size[d] \div 2) - (Outer(m.c[i])[d] \div 2))
           c == [m.c[i] EXCEPT !.pos = p]
<1>1. m.c[i] \in ClientsOf(i) /\ m.c[i] \in AnyClient
  BY ClientTyped
<1>2. /\ a.pos[1] \in Int /\ a.pos[2] \in Int /\ a.size[1] \in Int /\ a.size[2] \in Int
      /\ Outer(m.c[i])[1] \in Int /\ Outer(m.c[i])[2] \in Int
  BY <1>1, AreaTyped, OuterTyped
<1>3. p \in Int \X Int
  <2> HIDE DEF a
  <2> QED BY <1>2 DEF Pair
<1>9. PICK n : n = [m EXCEPT !.c[i] = c]
  OBVIOUS
<1>4. Middled(m, i) = IF Hints[i].scratch /\ m.c[i].floating THEN n ELSE m
  BY <1>1, <1>9, MemoryTyped DEF Middled, AnyMemory
<1> HIDE DEF p
<1>5. /\ c \in ClientsOf(i) /\ c.size = m.c[i].size /\ Elsewhere(m.c[i], c)
  BY <1>1, <1>3 DEF ClientsOf, AnyClient, Elsewhere
<1>10. c \in ClientsOf(i)
  BY <1>5
<1> HIDE DEF c
<1>6. /\ n \in Memories /\ SameScreen(m, n)
      /\ \A j \in Window : j # i => n.c[j] = m.c[j]
  BY <1>9, <1>10, SetClient
<1>11. n.c[i] = c
  BY <1>9, MemoryTyped DEF AnyMemory
<1>7. Keeps(m, n, {i}) /\ n.c[i].size = m.c[i].size
  BY <1>5, <1>6, <1>11 DEF Keeps, Elsewhere
<1>8. Keeps(m, m, {i})
  BY KeepsSelf
<1> QED BY <1>4, <1>7, <1>8

\* showhide moves its window only; where to is said by LandPos and LandSize.
LEMMA ShowKeeps ==
  ASSUME NEW m \in Memories, NEW i \in Window
  PROVE  /\ Keeps(m, Show(m, i), {i})
         /\ Show(m, i) = IF ~m.visible[i] THEN m
                         ELSE IF (~Arranging(m) \/ m.c[i].floating) /\ ~m.c[i].full
                         THEN Resize(Middled(m, i), i, Middled(m, i).c[i].pos,
                                     Middled(m, i).c[i].size, FALSE)
                         ELSE Middled(m, i)
<1> DEFINE n == Middled(m, i)
           r == Resize(n, i, n.c[i].pos, n.c[i].size, FALSE)
<1>1. Show(m, i) = IF ~m.visible[i] THEN m
                   ELSE IF (~Arranging(m) \/ m.c[i].floating) /\ ~m.c[i].full THEN r ELSE n
  BY DEF Show, Middled
<1>2. Keeps(m, n, {i})
  BY MiddledKeeps
<1> HIDE DEF n
<1>3. n \in Memories /\ n.c[i].full = m.c[i].full
  BY <1>2 DEF Keeps, Elsewhere
<1>4. n.c[i].pos \in Int \X Int /\ n.c[i].size \in Int \X Int
  BY <1>3, ClientTyped
<1>5. ~m.c[i].full => Keeps(n, r, {i})
  BY <1>3, <1>4, ResizeKeeps
<1> HIDE DEF r
<1>6. ~m.c[i].full => Keeps(m, r, {i})
  <2>1. {i} \cup {i} = {i}
    OBVIOUS
  <2> QED BY <1>2, <1>5, <2>1, KeepsThen
<1>7. Keeps(m, m, {i})
  BY KeepsSelf
<1>8. Keeps(m, Show(m, i), {i})
  BY <1>1, <1>2, <1>6, <1>7
<1> QED BY <1>1, <1>8 DEF r, n

\* What Show does to a window is decided by these.
Alike(m, n, i) ==
  /\ n.lt = m.lt /\ n.showbar = m.showbar /\ n.visible[i] = m.visible[i]
  /\ n.c[i].pos = m.c[i].pos /\ n.c[i].size = m.c[i].size /\ n.c[i].bw = m.c[i].bw
  /\ n.c[i].floating = m.c[i].floating /\ n.c[i].full = m.c[i].full

LEMMA AlikeAreas ==
  ASSUME NEW m, NEW n, NEW i, Alike(m, n, i)
  PROVE  /\ Area(n) = Area(m) /\ Arranging(n) = Arranging(m)
         /\ Outer(n.c[i]) = Outer(m.c[i])
<1>1. Area(n) = Area(m) /\ Arranging(n) = Arranging(m)
  BY DEF Area, Arranging, Alike
<1>2. Outer(n.c[i]) = Outer(m.c[i])
  BY DEF Outer, Pair, Alike
<1> QED BY <1>1, <1>2

LEMMA MiddledAlike ==
  ASSUME NEW m \in Memories, NEW n \in Memories, NEW i \in Window, Alike(m, n, i)
  PROVE  Middled(n, i).c[i].pos = Middled(m, i).c[i].pos
<1> DEFINE a == Area(m)
           p == Pair(LAMBDA d : a.pos[d] + (a.size[d] \div 2) - (Outer(m.c[i])[d] \div 2))
<1>1. Area(n) = a /\ Outer(n.c[i]) = Outer(m.c[i]) /\ n.c[i].floating = m.c[i].floating
      /\ n.c[i].pos = m.c[i].pos
  BY AlikeAreas DEF Alike
<1>2. /\ Middled(m, i) = IF Hints[i].scratch /\ m.c[i].floating
                         THEN [m EXCEPT !.c[i].pos = p] ELSE m
      /\ Middled(n, i) = IF Hints[i].scratch /\ m.c[i].floating
                         THEN [n EXCEPT !.c[i].pos = p] ELSE n
  BY <1>1 DEF Middled, Pair
<1> HIDE DEF p
<1>3. [m EXCEPT !.c[i].pos = p].c[i].pos = p
  BY MemoryTyped DEF AnyMemory, AnyClient
<1>4. [n EXCEPT !.c[i].pos = p].c[i].pos = p
  BY MemoryTyped DEF AnyMemory, AnyClient
<1> QED BY <1>1, <1>2, <1>3, <1>4

LEMMA LandsAgain ==
  ASSUME NEW m \in Memories, NEW i \in Window, ~m.c[i].full
  PROVE  /\ Resize(m, i, m.c[i].pos, m.c[i].size, FALSE).c[i].pos
              = LandPos(m, i, m.c[i].pos, m.c[i].size, FALSE)
         /\ Resize(m, i, m.c[i].pos, m.c[i].size, FALSE).c[i].size
              = LandSize(m, i, m.c[i].size)
<1> DEFINE x == m.c[i].pos
           y == m.c[i].size
<1>1. x \in Int \X Int /\ y \in Int \X Int
  BY ClientTyped
<1> HIDE DEF x, y
<1>2. /\ Resize(m, i, x, y, FALSE).c[i].pos = LandPos(m, i, x, y, FALSE)
      /\ Resize(m, i, x, y, FALSE).c[i].size = LandSize(m, i, y)
  BY <1>1, ResizeKeeps
<1> QED BY <1>2 DEF x, y

LEMMA ShowAlike ==
  ASSUME NEW m \in Memories, NEW n \in Memories, NEW i \in Window, Alike(m, n, i)
  PROVE  /\ Show(n, i).c[i].pos = Show(m, i).c[i].pos
         /\ Show(n, i).c[i].size = Show(m, i).c[i].size
<1> DEFINE p == Middled(m, i)
           q == Middled(n, i)
<1>1. Area(n) = Area(m) /\ Arranging(n) = Arranging(m) /\ Outer(n.c[i]) = Outer(m.c[i])
  BY AlikeAreas
<1>2. /\ Keeps(m, p, {i}) /\ p.c[i].size = m.c[i].size
      /\ Keeps(n, q, {i}) /\ q.c[i].size = n.c[i].size
  BY MiddledKeeps
<1>3. q.c[i].pos = p.c[i].pos
  BY MiddledAlike
<1>4. /\ Show(m, i) = IF ~m.visible[i] THEN m
                      ELSE IF (~Arranging(m) \/ m.c[i].floating) /\ ~m.c[i].full
                      THEN Resize(p, i, p.c[i].pos, p.c[i].size, FALSE) ELSE p
      /\ Show(n, i) = IF ~n.visible[i] THEN n
                      ELSE IF (~Arranging(n) \/ n.c[i].floating) /\ ~n.c[i].full
                      THEN Resize(q, i, q.c[i].pos, q.c[i].size, FALSE) ELSE q
  BY ShowKeeps
<1> HIDE DEF p, q
<1>5. /\ p \in Memories /\ q \in Memories /\ Alike(p, q, i)
      /\ p.c[i].full = m.c[i].full /\ q.c[i].full = n.c[i].full
  BY <1>2, <1>3 DEF Keeps, SameScreen, Elsewhere, Alike
<1>6. /\ p.c[i].pos \in Int \X Int /\ p.c[i].size \in Int \X Int
      /\ q.c[i].pos \in Int \X Int /\ q.c[i].size \in Int \X Int
  BY <1>5, ClientTyped
<1>7. ASSUME ~m.c[i].full
      PROVE  /\ Resize(q, i, q.c[i].pos, q.c[i].size, FALSE).c[i].pos
                  = Resize(p, i, p.c[i].pos, p.c[i].size, FALSE).c[i].pos
             /\ Resize(q, i, q.c[i].pos, q.c[i].size, FALSE).c[i].size
                  = Resize(p, i, p.c[i].pos, p.c[i].size, FALSE).c[i].size
  <2>1. ~p.c[i].full /\ ~q.c[i].full
    BY <1>5, <1>7 DEF Alike
  <2>2. /\ Resize(p, i, p.c[i].pos, p.c[i].size, FALSE).c[i].pos = LandPos(p, i, p.c[i].pos, p.c[i].size, FALSE)
        /\ Resize(p, i, p.c[i].pos, p.c[i].size, FALSE).c[i].size = LandSize(p, i, p.c[i].size)
    BY <1>5, <1>6, <2>1, LandsAgain
  <2>3. /\ Resize(q, i, q.c[i].pos, q.c[i].size, FALSE).c[i].pos = LandPos(q, i, q.c[i].pos, q.c[i].size, FALSE)
        /\ Resize(q, i, q.c[i].pos, q.c[i].size, FALSE).c[i].size = LandSize(q, i, q.c[i].size)
    BY <1>5, <1>6, <2>1, LandsAgain
  <2>4. Area(q) = Area(p) /\ Arranging(q) = Arranging(p) /\ Outer(q.c[i]) = Outer(p.c[i])
    BY <1>5, AlikeAreas
  <2>5. LandSize(q, i, q.c[i].size) = LandSize(p, i, p.c[i].size)
    BY <1>5, <2>4 DEF LandSize, Alike
  <2>6. LandPos(q, i, q.c[i].pos, q.c[i].size, FALSE) = LandPos(p, i, p.c[i].pos, p.c[i].size, FALSE)
    BY <1>5, <2>4 DEF LandPos, Placed, Pair, Alike
  <2> QED BY <2>2, <2>3, <2>5, <2>6
<1>8. /\ n.visible[i] = m.visible[i] /\ n.c[i].floating = m.c[i].floating
      /\ n.c[i].full = m.c[i].full /\ n.c[i].pos = m.c[i].pos /\ n.c[i].size = m.c[i].size
  BY DEF Alike
<1> QED BY <1>1, <1>2, <1>3, <1>4, <1>7, <1>8

ShowRun(f, m) ==
  f = [k \in 0..Len(m.order) |-> IF k = 0 THEN m ELSE Show(f[k - 1], m.order[k])]

LEMMA ShowRunExists ==
  ASSUME NEW m \in Memories
  PROVE  \E f : ShowRun(f, m)
<1> DEFINE n == Len(m.order)
           Step(s, k) == Show(s, m.order[k])
           step == [p \in Memories \X (1..n) |-> Step(p[1], p[2])]
<1>1. n \in Nat
  BY MemoryTyped
<1>2. ASSUME NEW s \in Memories, NEW k \in 1..n
      PROVE  Step(s, k) \in Memories
  <2>1. m.order[k] \in Window
    BY MemoryTyped
  <2> QED BY <2>1, ShowKeeps DEF Keeps
<1>3. step \in [Memories \X (1..n) -> Memories]
  BY <1>2
<1>4. \A v \in Memories, k \in 1..n : step[<<v, k>>] = Step(v, k)
  OBVIOUS
<1> HIDE DEF step, n
<1>5. PICK f : Runs(f, Memories, m, n, step)
  BY <1>1, <1>3, LoopExists
<1>6. f = [k \in 0..n |-> IF k = 0 THEN m ELSE Step(f[k - 1], k)]
  <2>1. f = [k \in 0..n |-> f[k]] /\ f[0] = m
    BY <1>5 DEF Runs
  <2>2. ASSUME NEW k \in 0..n, k # 0
        PROVE  f[k] = Step(f[k - 1], k)
    <3>1. k \in 1..n /\ k - 1 \in 0..n
      BY <1>1, <2>2
    <3>2. f[k - 1] \in Memories /\ f[k] = step[<<f[k - 1], k>>]
      BY <1>5, <3>1 DEF Runs
    <3> HIDE DEF Step
    <3> QED BY <1>4, <3>1, <3>2
  <2> HIDE DEF Step
  <2> QED BY <2>1, <2>2
<1> QED BY <1>6 DEF ShowRun, n

\* Windows of the list have moved; one that is on it once is where Show alone takes it.
LEMMA ShowAllKeeps ==
  ASSUME NEW m \in Memories
  PROVE  /\ Keeps(m, ShowAll(m), OnList(m))
         /\ \A i \in OnList(m) : NoRepeats(m.order) =>
              /\ ShowAll(m).c[i].pos = Show(m, i).c[i].pos
              /\ ShowAll(m).c[i].size = Show(m, i).c[i].size
<1> DEFINE n == Len(m.order)
           S == OnList(m)
           after == CHOOSE f : ShowRun(f, m)
           V == {s \in Memories : Keeps(m, s, S)}
<1>1. n \in Nat
  BY MemoryTyped
<1>2. ShowRun(after, m)
  BY ShowRunExists
<1>3. ShowAll(m) = after[n]
  BY DEF ShowAll, ShowRun
<1> HIDE DEF after
<1>4. after[0] = m
  BY <1>1, <1>2 DEF ShowRun
<1>5. ASSUME NEW k \in 1..n
      PROVE  after[k] = Show(after[k - 1], m.order[k])
  <2>1. k \in 0..n /\ k # 0
    BY <1>1
  <2> QED BY <1>2, <2>1 DEF ShowRun
<1>6. ASSUME NEW k \in 1..n
      PROVE  m.order[k] \in Window /\ m.order[k] \in S
  BY MemoryTyped, MembersOf DEF OnList
<1> HIDE DEF n
<1>7. ASSUME NEW k \in 1..n, after[k - 1] \in V
      PROVE  after[k] \in V /\ Keeps(after[k - 1], after[k], {m.order[k]})
  <2>1. Keeps(after[k - 1], after[k], {m.order[k]})
    <3>1. after[k - 1] \in Memories /\ m.order[k] \in Window
      BY <1>6, <1>7
    <3>2. Keeps(after[k - 1], Show(after[k - 1], m.order[k]), {m.order[k]})
      BY <3>1, ShowKeeps
    <3> QED BY <1>5, <3>2
  <2> HIDE DEF S
  <2>2. Keeps(m, after[k], S \cup {m.order[k]})
    BY <1>7, <2>1, KeepsThen
  <2>3. S \cup {m.order[k]} = S
    BY <1>6
  <2> QED BY <2>1, <2>2, <2>3 DEF Keeps
<1>8. \A k \in 0..n : after[k] \in V
  <2> HIDE DEF V
  <2>1. \A k \in 1..n : after[k - 1] \in V => after[k] \in V
    BY <1>7
  <2>2. after[0] \in V
    BY <1>4, KeepsSelf DEF V
  <2> QED BY <1>1, <2>1, <2>2, StaysIn
<1>9. Keeps(m, ShowAll(m), S)
  BY <1>1, <1>3, <1>8
<1>10. ASSUME NEW i \in S, NoRepeats(m.order)
       PROVE  /\ ShowAll(m).c[i].pos = Show(m, i).c[i].pos
              /\ ShowAll(m).c[i].size = Show(m, i).c[i].size
  <2>1. PICK p \in 1..n : m.order[p] = i
    BY DEF OnList, Members, n
  <2>2. i \in Window
    BY <1>6, <2>1
  <2>3. \A k \in 1..n : k # p => m.order[k] # i
    BY <1>10, <2>1 DEF NoRepeats, n
  <2> DEFINE Done(k) == /\ k < p => after[k].c[i] = m.c[i]
                        /\ k >= p => /\ after[k].c[i].pos = Show(m, i).c[i].pos
                                     /\ after[k].c[i].size = Show(m, i).c[i].size
             T == {k \in Nat : k <= n => Done(k)}
  <2>4. 0 \in T
    BY <1>4, <2>1
  <2>5. ASSUME NEW k \in Nat, k \in T
        PROVE  k + 1 \in T
    <3> SUFFICES ASSUME k + 1 <= n
                 PROVE  Done(k + 1)
      OBVIOUS
    <3>1. k + 1 \in 1..n /\ (k + 1) - 1 = k /\ k \in 0..n /\ Done(k)
      BY <1>1, <2>5
    <3>2. after[k] \in V /\ Keeps(after[k], after[k + 1], {m.order[k + 1]})
      BY <1>7, <1>8, <3>1
    <3>3. CASE k + 1 = p
      <4>1. after[k + 1] = Show(after[k], i)
        BY <1>5, <2>1, <3>1, <3>3
      <4>2. after[k].c[i] = m.c[i]
        BY <3>1, <3>3
      <4>3. after[k] \in Memories /\ Alike(m, after[k], i)
        BY <2>2, <3>2, <4>2 DEF Keeps, SameScreen, Alike
      <4>4. /\ Show(after[k], i).c[i].pos = Show(m, i).c[i].pos
            /\ Show(after[k], i).c[i].size = Show(m, i).c[i].size
        BY <2>2, <4>3, ShowAlike
      <4> QED BY <3>3, <4>1, <4>4
    <3>4. CASE k + 1 # p
      <4>1. after[k + 1].c[i] = after[k].c[i]
        BY <2>2, <2>3, <3>1, <3>2, <3>4 DEF Keeps
      <4>2. (k + 1 < p => k < p) /\ (k + 1 >= p => k >= p)
        BY <3>4
      <4> QED BY <3>1, <4>1, <4>2
    <3> QED BY <3>3, <3>4
  <2>6. n \in T
    <3> HIDE DEF T
    <3>1. Nat \subseteq T
      BY <2>4, <2>5, NatInductionOnSets
    <3> QED BY <1>1, <3>1
  <2>7. Done(n)
    BY <1>1, <2>6
  <2> QED BY <1>1, <1>3, <2>1, <2>7
<1> QED BY <1>9, <1>10

\* arrange moves windows of the list; one that floats is where Show alone takes it.
LEMMA ArrangeKeeps ==
  ASSUME NEW m \in Memories
  PROVE  /\ Keeps(m, Arrange(m), OnList(m))
         /\ \A i \in OnList(m) : NoRepeats(m.order) /\ m.c[i].floating =>
              /\ Arrange(m).c[i].pos = Show(m, i).c[i].pos
              /\ Arrange(m).c[i].size = Show(m, i).c[i].size
<1> DEFINE n == ShowAll(m)
           S == {i \in Shown(n) : ~n.c[i].floating}
<1>1. Keeps(m, n, OnList(m))
  BY ShowAllKeeps
<1>2. n \in Memories /\ OnList(n) = OnList(m)
  BY <1>1 DEF Keeps, SameScreen, OnList
<1>3. Arrange(m) = ArrangeMon(n)
  BY DEF Arrange
<1>4. /\ \A i \in OnList(m) : NoRepeats(m.order) =>
           n.c[i].pos = Show(m, i).c[i].pos /\ n.c[i].size = Show(m, i).c[i].size
  BY ShowAllKeeps
<1> HIDE DEF n
<1>5. Keeps(n, ArrangeMon(n), S)
  BY <1>2, ArrangeMonKeeps
<1>6. S \subseteq OnList(m)
  BY <1>2 DEF Shown
<1>7. Keeps(m, Arrange(m), OnList(m))
  <2>1. Keeps(m, ArrangeMon(n), OnList(m) \cup S)
    BY <1>1, <1>5, KeepsThen
  <2>2. OnList(m) \cup S = OnList(m)
    BY <1>6
  <2> QED BY <1>3, <2>1, <2>2
<1>8. ASSUME NEW i \in OnList(m), NoRepeats(m.order), m.c[i].floating
      PROVE  /\ Arrange(m).c[i].pos = Show(m, i).c[i].pos
             /\ Arrange(m).c[i].size = Show(m, i).c[i].size
  <2>1. i \in Window
    BY MemoryTyped
  <2>2. n.c[i].floating
    BY <1>1, <1>8, <2>1 DEF Keeps, Elsewhere
  <2>3. ArrangeMon(n).c[i] = n.c[i]
    BY <1>5, <2>1, <2>2 DEF Keeps
  <2> QED BY <1>3, <1>4, <1>8, <2>3
<1> QED BY <1>7, <1>8

-----------------------------------------------------------------------------
(* Arranging again.                                                         *)

\* showhide leaves the tiled windows alone.
LEMMA ShowAllTiled ==
  ASSUME NEW m \in Memories, NoRepeats(m.order), Arranging(m), NEW i \in Members(Tiled(m))
  PROVE  ShowAll(m).c[i].pos = m.c[i].pos /\ ShowAll(m).c[i].size = m.c[i].size
<1>1. i \in OnList(m) /\ i \in Window /\ ~m.c[i].floating
  BY TiledAre, MemoryTyped DEF Shown
<1>2. Middled(m, i) = m
  BY <1>1 DEF Middled
<1>3. Show(m, i) = m
  BY <1>1, <1>2, ShowKeeps
<1>4. /\ ShowAll(m).c[i].pos = Show(m, i).c[i].pos
      /\ ShowAll(m).c[i].size = Show(m, i).c[i].size
  BY <1>1, ShowAllKeeps
<1> QED BY <1>3, <1>4

\* Two memories with the same windows, arranged.
LEMMA ArrangeFollows ==
  ASSUME NEW m \in Memories, NoRepeats(m.order), Arranging(m), NEW n, Like(m, n),
         NEW i \in Members(Tiled(m))
  PROVE  Follows(m, n, Arrange(m), Arrange(n), i)
<1> DEFINE k == ShowAll(m)
           l == ShowAll(n)
           p == Arrange(m)
           q == Arrange(n)
<1>1. n \in Memories /\ NoRepeats(n.order) /\ Arranging(n) /\ Tiled(n) = Tiled(m) /\ i \in Window
  <2>1. n \in Memories /\ NoRepeats(n.order)
    BY DEF Like, SameScreen
  <2>2. Arranging(n)
    BY KeepsArea DEF Like
  <2> QED BY <2>1, <2>2, FactsAlike, TiledAre DEF Free
<1>2. Keeps(m, k, OnList(m)) /\ Keeps(n, l, OnList(n))
  BY <1>1, ShowAllKeeps
<1>3. /\ k.c[i].size = m.c[i].size /\ l.c[i].size = n.c[i].size
  BY <1>1, ShowAllTiled
<1>4. p = ArrangeMon(k) /\ q = ArrangeMon(l)
  BY DEF Arrange
<1> HIDE DEF k, l, p, q
<1>5. Like(m, k) /\ Like(n, l)
  BY <1>2, KeepsLike
<1>6. Like(k, l) /\ k \in Memories
  BY <1>5 DEF Like, SameScreen
<1>7. Tiled(k) = Tiled(m)
  BY <1>5, FactsAlike
<1>8. Area(k) = Area(m) /\ Arranging(k)
  BY <1>5, KeepsArea DEF Like
<1>9. Couple(k, l, p, q, Members(Tiled(k)))
  BY <1>4, <1>6, <1>8, ArrangeMonCouple
<1>10. Follows(k, l, p, q, i)
  BY <1>1, <1>7, <1>9 DEF Couple
<1>11. Outer(l.c[i]) = Outer(n.c[i])
  <2>1. l.c[i].bw = n.c[i].bw
    BY <1>1, <1>5 DEF Like
  <2> QED BY <1>3, <2>1 DEF Outer, Pair
<1>12. Follows(m, n, p, q, i)
  BY <1>3, <1>8, <1>10, <1>11 DEF Follows
<1> QED BY <1>12 DEF p, q

LEMMA SettledIs ==
  ASSUME NEW m, Arranging(m) =>
           \A i \in Members(Tiled(m)) : Stays(Area(m), m.c[i], Arrange(m).c[i])
  PROVE  Settled(m)
BY DEF Settled

\* What has just been arranged is settled.
LEMMA ArrangeSettles ==
  ASSUME NEW k, NoRepeats(k.order), k \in Memories
  PROVE  Settled(Arrange(k))
<1> DEFINE m == Arrange(k)
           n == Arrange(m)
<1>1. Like(k, m) /\ m \in Memories
  BY ArrangeKeeps, KeepsLike DEF Keeps
<1>2. Like(m, n)
  BY <1>1, ArrangeKeeps, KeepsLike
<1>3. ASSUME Arranging(m), NEW i \in Members(Tiled(m))
      PROVE  Stays(Area(m), m.c[i], n.c[i])
  <2>1. Arranging(k) /\ Area(m) = Area(k)
    BY <1>1, <1>3, KeepsArea DEF Like
  <2>2. i \in Members(Tiled(k)) /\ i \in Window
    BY <1>1, <1>3, FactsAlike, TiledAre DEF Free
  <2>3. Follows(k, m, m, n, i)
    BY <1>1, <2>1, <2>2, ArrangeFollows
  <2> HIDE DEF m, n
  <2>4. n.c[i].size = m.c[i].size /\ AtEdge(Area(m), Outer(m.c[i]), m.c[i].pos, n.c[i].pos)
    BY <2>1, <2>3 DEF Follows
  <2>5. Outer(n.c[i]) = Outer(m.c[i])
    <3>1. n.c[i].bw = m.c[i].bw
      BY <1>2, <2>2 DEF Like
    <3> QED BY <2>4, <3>1 DEF Outer, Pair
  <2> QED BY <2>4, <2>5 DEF Stays
<1>4. Arranging(m) => \A i \in Members(Tiled(m)) : Stays(Area(m), m.c[i], Arrange(m).c[i])
  BY <1>3
<1> HIDE DEF m, n
<1>5. Settled(m)
  BY <1>4, SettledIs
<1> QED BY <1>5 DEF m

\* Windows that are not tiled do not matter.
LEMMA SettledStays ==
  ASSUME NEW m \in Memories, NoRepeats(m.order), NEW n, Like(m, n), Settled(m),
         \A i \in Members(Tiled(m)) : n.c[i].pos = m.c[i].pos /\ n.c[i].size = m.c[i].size
  PROVE  Settled(n)
<1> DEFINE p == Arrange(m)
           q == Arrange(n)
<1>1. n \in Memories
  BY DEF Like
<1>2. Like(m, p) /\ Like(n, q)
  BY <1>1, ArrangeKeeps, KeepsLike
<1>3. ASSUME Arranging(n), NEW i \in Members(Tiled(n))
      PROVE  Stays(Area(n), n.c[i], q.c[i])
  <2>1. Arranging(m) /\ Area(n) = Area(m)
    BY <1>3, KeepsArea DEF Like
  <2>2. i \in Members(Tiled(m)) /\ i \in Window
    BY <1>3, FactsAlike, TiledAre DEF Free
  <2>3. Follows(m, n, p, q, i)
    BY <2>1, <2>2, ArrangeFollows
  <2>4. Stays(Area(m), m.c[i], p.c[i])
    BY <2>1, <2>2 DEF Settled
  <2> HIDE DEF p, q
  <2>5. q.c[i].size = p.c[i].size /\ q.c[i].pos = p.c[i].pos
    BY <2>2, <2>3 DEF Follows
  <2>6. Outer(q.c[i]) = Outer(p.c[i])
    <3>1. q.c[i].bw = p.c[i].bw
      BY <1>2, <2>2 DEF Like
    <3> QED BY <2>5, <3>1 DEF Outer, Pair
  <2> QED BY <2>1, <2>2, <2>4, <2>5, <2>6 DEF Stays
<1>4. Arranging(n) => \A i \in Members(Tiled(n)) : Stays(Area(n), n.c[i], Arrange(n).c[i])
  BY <1>3
<1> QED BY <1>4, SettledIs

LEMMA LooseSettled ==
  ASSUME NEW m \in Memories, NoRepeats(m.order), NEW n, Like(m, n), Settled(m),
         NEW i \in Window, m.c[i].floating \/ ~Arranging(m),
         \A j \in Window : j # i => n.c[j] = m.c[j]
  PROVE  Settled(n)
<1>1. CASE ~Arranging(m)
  <2>1. ~Arranging(n)
    BY <1>1, KeepsArea DEF Like
  <2> QED BY <2>1, SettledIs
<1>2. CASE m.c[i].floating
  <2>1. \A j \in Members(Tiled(m)) : j \in Window /\ j # i
    BY <1>2, TiledAre DEF Free
  <2> QED BY <2>1, SettledStays
<1> QED BY <1>1, <1>2

-----------------------------------------------------------------------------
(* The invariant, and what a step must do to keep it.                       *)

\* No window is on the list twice, what is selected is shown, and only what is on the
\* list is fullscreen.
Sound(m) ==
  /\ m \in Memories /\ NoRepeats(m.order) /\ m.sel \in Shown(m) \cup {NoWindow}
  /\ \A i \in Window : i \notin OnList(m) => ~m.c[i].full

\* A memory between two steps: where windows are shown, one is selected.
MemoryOK(m) == Sound(m) /\ (m.sel = NoWindow => Shown(m) = {})

\* What is remembered of a window is what its client has saved.
Saved(c) == <<c.oldpos, c.oldsize, c.oldstate>>
IInv ==
  /\ MemoryOK(g) /\ ops \in 0..MaxOps
  /\ before = [i \in Window |-> before[i]]
  /\ \A i \in Window : before[i] # <<>> => g.c[i].full /\ before[i] = Saved(g.c[i])

\* n with window i where m saved it, and where it then is if it returns to n.
Home(m, n, i) == [n EXCEPT !.c[i].pos = m.c[i].oldpos, !.c[i].size = m.c[i].oldsize]
Arrived(m, n, i) ==
  LET k == Show(Home(m, n, i), i)
  IN IF n.order = m.order THEN k ELSE Show(k, i)

\* A window that stays fullscreen keeps what is saved of it, one that becomes so saves
\* what it was, one that stops returns if it floated.
Carries(m, n, i) ==
  /\ n.c[i].full /\ m.c[i].full => Saved(n.c[i]) = Saved(m.c[i])
  /\ n.c[i].full /\ ~m.c[i].full => Saved(n.c[i]) = <<m.c[i].pos, m.c[i].size, m.c[i].floating>>
Returns(m, n, i) ==
  m.c[i].full /\ ~n.c[i].full /\ i \in OnList(n) /\ m.c[i].oldstate =>
    n.c[i].pos = Arrived(m, n, i).c[i].pos /\ n.c[i].size = Arrived(m, n, i).c[i].size

StepOK(m, n, asked) ==
  /\ MemoryOK(n)
  /\ \A i \in Window : (i \notin asked => Carries(m, n, i)) /\ Returns(m, n, i)

\* What was settled still is, but where a window goes to cover the monitor.
Settles(m, n) ==
  (Settled(m) => Settled(n)) \/ \E i \in Window : n.c[i].full /\ ~m.c[i].full
StepGood(m, n, asked) == StepOK(m, n, asked) /\ Settles(m, n)

ReturnsNow ==
  \A i \in OnList(g') :
    (g.c[i].full /\ ~g'.c[i].full /\ before[i] # <<>> /\ before[i][3])
      => <<g'.c[i].pos, g'.c[i].size>> = Returned(i)

LEMMA EndsKeeps ==
  ASSUME IInv, NEW m, NEW asked, Ends(m, asked), StepOK(g, m, asked)
  PROVE  IInv' /\ ReturnsNow
<1>1. /\ g' = m /\ ops' = ops + 1 /\ ops < MaxOps
      /\ before' = [i \in Window |->
           IF ~m.c[i].full \/ i \in asked THEN <<>>
           ELSE IF g.c[i].full THEN before[i]
           ELSE <<g.c[i].pos, g.c[i].size, g.c[i].floating>>]
  BY DEF Ends
<1>2. MemoryOK(g)' /\ (ops \in 0..MaxOps)'
  <2>1. ops + 1 \in 0..MaxOps
    BY <1>1, StartsAssumption DEF IInv
  <2> QED BY <1>1, <2>1 DEF StepOK, MemoryOK, Sound, OnList, Shown
<1>3. before' = [i \in Window |-> before'[i]]
  BY <1>1
<1>4. ASSUME NEW i \in Window, before'[i] # <<>>
      PROVE  g'.c[i].full /\ before'[i] = Saved(g'.c[i])
  <2>a. ASSUME ~m.c[i].full \/ i \in asked
        PROVE  FALSE
    <3>1. before'[i] = <<>>
      BY <1>1, <2>a
    <3> QED BY <1>4, <3>1
  <2>1. m.c[i].full /\ i \notin asked
    BY <2>a
  <2>2. Carries(g, m, i)
    BY <2>1 DEF StepOK
  <2>3. CASE ~g.c[i].full
    <3>1. before'[i] = <<g.c[i].pos, g.c[i].size, g.c[i].floating>>
      BY <1>1, <2>1, <2>3
    <3> QED BY <1>1, <2>1, <2>2, <2>3, <3>1 DEF Carries
  <2>4. CASE g.c[i].full
    <3>1. before'[i] = before[i]
      BY <1>1, <2>1, <2>4
    <3>2. before[i] = Saved(g.c[i])
      BY <1>4, <3>1 DEF IInv
    <3> QED BY <1>1, <2>1, <2>2, <2>4, <3>1, <3>2 DEF Carries
  <2> QED BY <2>3, <2>4
<1>5. ASSUME NEW i \in OnList(g'), g.c[i].full, ~g'.c[i].full, before[i] # <<>>, before[i][3]
      PROVE  <<g'.c[i].pos, g'.c[i].size>> = Returned(i)
  <2>1. m \in Memories /\ i \in Window /\ i \in OnList(m)
    BY <1>1, <1>5, MemoryTyped DEF StepOK, MemoryOK, Sound
  <2>2. before[i] = Saved(g.c[i])
    BY <1>5, <2>1 DEF IInv
  <2>3. before[i][1] = g.c[i].oldpos /\ before[i][2] = g.c[i].oldsize /\ g.c[i].oldstate
    BY <1>5, <2>2 DEF Saved
  <2>4. Returns(g, m, i)
    BY <2>1 DEF StepOK
  <2>5. m.c[i].pos = Arrived(g, m, i).c[i].pos /\ m.c[i].size = Arrived(g, m, i).c[i].size
    BY <1>1, <1>5, <2>1, <2>3, <2>4 DEF Returns
  <2>6. Returned(i) = <<Arrived(g, m, i).c[i].pos, Arrived(g, m, i).c[i].size>>
    BY <1>1, <2>3 DEF Returned, Arrived, Home
  <2> QED BY <1>1, <2>5, <2>6
<1> QED BY <1>2, <1>3, <1>4, <1>5 DEF IInv, ReturnsNow

SettledNow ==
  \/ \E i \in Window : g'.c[i].full /\ ~g.c[i].full
  \/ \E i \in Window, bw \in Borders : RequestBorder(i, bw)
  \/ \E i \in Window, full \in BOOLEAN : UpdateWindowType(i, full, TRUE)
  \/ Settled(g) => Settled(g')
StepDone == IInv' /\ ReturnsNow /\ SettledNow

LEMMA EndsDone ==
  ASSUME IInv, NEW m, NEW asked, Ends(m, asked), StepGood(g, m, asked)
  PROVE  StepDone
<1>1. IInv' /\ ReturnsNow
  BY EndsKeeps DEF StepGood
<1>2. g' = m
  BY DEF Ends
<1>3. SettledNow
  BY <1>2 DEF SettledNow, StepGood, Settles
<1> QED BY <1>1, <1>3 DEF StepDone

\* A step that starts and ends no fullscreen, but for windows that leave the list.
Calm(m, n) ==
  \A i \in Window :
    /\ n.c[i].full => m.c[i].full /\ Saved(n.c[i]) = Saved(m.c[i])
    /\ m.c[i].full /\ i \in OnList(n) => n.c[i].full

LEMMA CalmStep ==
  ASSUME NEW m, NEW n, NEW asked, MemoryOK(n), Calm(m, n)
  PROVE  StepOK(m, n, asked)
BY DEF StepOK, Calm, Carries, Returns

LEMMA KeepsCalm ==
  ASSUME NEW k, NEW m, NEW n, NEW S, Calm(k, m), Keeps(m, n, S)
  PROVE  Calm(k, n)
<1>1. OnList(n) = OnList(m)
  BY DEF Keeps, SameScreen, OnList
<1>2. ASSUME NEW i \in Window
      PROVE  /\ n.c[i].full = m.c[i].full
             /\ n.c[i].full => Saved(n.c[i]) = Saved(m.c[i])
  BY DEF Keeps, Elsewhere, Saved
<1> QED BY <1>1, <1>2 DEF Calm

LEMMA KeepsOK ==
  ASSUME NEW m, NEW n, NEW S, MemoryOK(m), Keeps(m, n, S)
  PROVE  MemoryOK(n)
<1>1. OnList(n) = OnList(m) /\ Shown(n) = Shown(m) /\ n.order = m.order /\ n.sel = m.sel
  BY DEF Keeps, SameScreen, OnList, Shown
<1>2. \A i \in Window : n.c[i].full = m.c[i].full
  BY DEF Keeps, Elsewhere
<1> QED BY <1>1, <1>2 DEF MemoryOK, Sound, Keeps

LEMMA CalmArrange ==
  ASSUME NEW k, NEW m, MemoryOK(m), Calm(k, m), NEW asked
  PROVE  StepGood(k, Arrange(m), asked) /\ StepOK(k, m, asked)
<1>1. Keeps(m, Arrange(m), OnList(m)) /\ Settled(Arrange(m))
  BY ArrangeKeeps, ArrangeSettles DEF MemoryOK, Sound
<1>2. MemoryOK(Arrange(m)) /\ Calm(k, Arrange(m))
  BY <1>1, KeepsOK, KeepsCalm
<1>3. StepOK(k, Arrange(m), asked) /\ StepOK(k, m, asked)
  BY <1>2, CalmStep
<1> QED BY <1>1, <1>3 DEF StepGood, Settles

\* The layout, its numbers and the bar.
SameWindows(m, n) == n.order = m.order /\ n.visible = m.visible /\ n.sel = m.sel /\ n.c = m.c

LEMMA SettingStep ==
  ASSUME NEW m, NEW n \in AnyMemory, MemoryOK(m), SameWindows(m, n), NEW asked
  PROVE  StepOK(m, n, asked) /\ StepGood(m, Arrange(n), asked)
<1>1. n \in Memories
  BY DEF Memories, MemoryOK, Sound, SameWindows
<1>2. MemoryOK(n) /\ Calm(m, n)
  BY <1>1 DEF MemoryOK, Sound, SameWindows, OnList, Shown, Calm
<1> QED BY <1>2, CalmArrange

LEMMA SettingSteps ==
  ASSUME NEW m, MemoryOK(m)
  PROVE  /\ \A l \in Layouts : (m.sel = NoWindow => StepGood(m, [m EXCEPT !.lt = l], {}))
                               /\ StepGood(m, Arrange([m EXCEPT !.lt = l]), {})
         /\ \A f \in 1..19 : StepGood(m, Arrange([m EXCEPT !.mfact = f]), {})
         /\ \A n \in Nat : StepGood(m, Arrange([m EXCEPT !.nmaster = n]), {})
         /\ \A o \in AllGaps : StepGood(m, Arrange([m EXCEPT !.gaps = o]), {})
         /\ \A b \in BOOLEAN : /\ StepGood(m, Arrange([m EXCEPT !.enablegaps = b]), {})
                               /\ StepGood(m, Arrange([m EXCEPT !.smartgaps = b]), {})
                               /\ StepGood(m, Arrange([m EXCEPT !.showbar = b]), {})
<1>1. m \in AnyMemory
  BY MemoryTyped DEF MemoryOK, Sound
<1>2. \A l \in Layouts : [m EXCEPT !.lt = l] \in AnyMemory /\ SameWindows(m, [m EXCEPT !.lt = l])
  BY <1>1 DEF AnyMemory, SameWindows
<1>3. \A f \in 1..19 : [m EXCEPT !.mfact = f] \in AnyMemory /\ SameWindows(m, [m EXCEPT !.mfact = f])
  BY <1>1 DEF AnyMemory, SameWindows
<1>4. \A n \in Nat : [m EXCEPT !.nmaster = n] \in AnyMemory /\ SameWindows(m, [m EXCEPT !.nmaster = n])
  BY <1>1 DEF AnyMemory, SameWindows
<1>5. \A o \in AllGaps : [m EXCEPT !.gaps = o] \in AnyMemory /\ SameWindows(m, [m EXCEPT !.gaps = o])
  BY <1>1 DEF AnyMemory, SameWindows
<1>6. ASSUME NEW b \in BOOLEAN
      PROVE  /\ [m EXCEPT !.enablegaps = b] \in AnyMemory /\ SameWindows(m, [m EXCEPT !.enablegaps = b])
             /\ [m EXCEPT !.smartgaps = b] \in AnyMemory /\ SameWindows(m, [m EXCEPT !.smartgaps = b])
             /\ [m EXCEPT !.showbar = b] \in AnyMemory /\ SameWindows(m, [m EXCEPT !.showbar = b])
  BY <1>1 DEF AnyMemory, SameWindows
<1>7. ASSUME NEW l \in Layouts
      PROVE  /\ m.sel = NoWindow => StepGood(m, [m EXCEPT !.lt = l], {})
             /\ StepGood(m, Arrange([m EXCEPT !.lt = l]), {})
  <2> DEFINE n == [m EXCEPT !.lt = l]
  <2>1. n \in AnyMemory /\ SameWindows(m, n)
    BY <1>2
  <2> HIDE DEF n
  <2>2. StepOK(m, n, {}) /\ StepGood(m, Arrange(n), {})
    BY <2>1, SettingStep
  <2>3. ASSUME m.sel = NoWindow
        PROVE  Settled(n)
    <3>1. Shown(n) = {} /\ n \in Memories
      BY <2>1, <2>2, <2>3 DEF SameWindows, Shown, OnList, MemoryOK, Sound, StepOK
    <3>2. Members(Tiled(n)) = {}
      BY <3>1, TiledAre
    <3> QED BY <3>2, SettledIs
  <2>4. (m.sel = NoWindow => StepGood(m, n, {})) /\ StepGood(m, Arrange(n), {})
    BY <2>2, <2>3 DEF StepGood, Settles
  <2> QED BY <2>4 DEF n
<1>8. \A f \in 1..19 : StepGood(m, Arrange([m EXCEPT !.mfact = f]), {})
  BY <1>3, SettingStep
<1>9. \A n \in Nat : StepGood(m, Arrange([m EXCEPT !.nmaster = n]), {})
  BY <1>4, SettingStep
<1>10. \A o \in AllGaps : StepGood(m, Arrange([m EXCEPT !.gaps = o]), {})
  BY <1>5, SettingStep
<1>11. ASSUME NEW b \in BOOLEAN
       PROVE  /\ StepGood(m, Arrange([m EXCEPT !.enablegaps = b]), {})
              /\ StepGood(m, Arrange([m EXCEPT !.smartgaps = b]), {})
              /\ StepGood(m, Arrange([m EXCEPT !.showbar = b]), {})
  BY <1>6, SettingStep
<1> QED BY <1>7, <1>8, <1>9, <1>10, <1>11

-----------------------------------------------------------------------------
(* Fullscreen.                                                              *)

LEMMA ResizedTo ==
  ASSUME NEW i \in Window, NEW b, b \in ClientsOf(i), NEW p, p \in Int \X Int,
         NEW s, s \in SizesOf(i), NEW e, e = Resized(b, p, s)
  PROVE  /\ e \in ClientsOf(i) /\ e.pos = p /\ e.size = s
         /\ e.oldpos = b.pos /\ e.oldsize = b.size /\ e.bw = b.bw /\ e.oldbw = b.oldbw
         /\ e.floating = b.floating /\ e.oldstate = b.oldstate /\ e.full = b.full
BY ResizedClient

\* A client as setfullscreen leaves it.
Unfilled(c) == [c EXCEPT !.full = FALSE, !.floating = c.oldstate, !.bw = c.oldbw,
                         !.pos = c.oldpos, !.size = c.oldsize]
Left(c) == Resized(Unfilled(c), c.oldpos, c.oldsize)

LEMMA LeftClient ==
  ASSUME NEW i \in Window, NEW c, c \in ClientsOf(i)
  PROVE  /\ Left(c) \in ClientsOf(i) /\ ~Left(c).full /\ Left(c).floating = c.oldstate
         /\ Left(c).bw = c.oldbw /\ Left(c).pos = c.oldpos /\ Left(c).size = c.oldsize
<1> DEFINE b == Unfilled(c)
           p == c.oldpos
           s == c.oldsize
<1>1. /\ b \in ClientsOf(i) /\ ~b.full /\ b.floating = c.oldstate /\ b.bw = c.oldbw
      /\ p \in Int \X Int /\ s \in SizesOf(i)
  BY DEF ClientsOf, AnyClient, Unfilled
<1>2. Left(c) = Resized(b, p, s)
  BY DEF Left
<1> HIDE DEF b, p, s
<1>3. /\ Left(c) \in ClientsOf(i) /\ Left(c).pos = p /\ Left(c).size = s
      /\ Left(c).bw = b.bw /\ Left(c).floating = b.floating /\ Left(c).full = b.full
  BY <1>1, <1>2, ResizedTo
<1> QED BY <1>1, <1>3 DEF p, s

\* Where nothing but the place of window i matters to showhide.
SameSetting(n, h, i) ==
  /\ h.lt = n.lt /\ h.showbar = n.showbar /\ h.visible[i] = n.visible[i]
  /\ h.c[i].bw = n.c[i].bw /\ h.c[i].floating = n.c[i].floating /\ h.c[i].full = n.c[i].full

\* In n window i, if it floats, is where showhide takes it from where m saved it.
Landed(m, n, i) ==
  m.c[i].oldstate =>
    \A h \in Memories :
      SameSetting(n, h, i) /\ h.c[i].pos = m.c[i].oldpos /\ h.c[i].size = m.c[i].oldsize =>
        n.c[i].pos = Show(h, i).c[i].pos /\ n.c[i].size = Show(h, i).c[i].size
Others(m, n, i) == \A j \in Window : j # i => Elsewhere(m.c[j], n.c[j])

LEMMA LeaveFullscreenDoes ==
  ASSUME NEW m, MemoryOK(m), NEW i \in OnList(m), NEW n, n = LeaveFullscreen(m, i)
  PROVE  /\ MemoryOK(n) /\ SameScreen(m, n) /\ Others(m, n, i) /\ Settled(n)
         /\ ~n.c[i].full /\ n.c[i].floating = m.c[i].oldstate /\ Landed(m, n, i)
<1> DEFINE c == m.c[i]
           e == Left(c)
           k == [m EXCEPT !.c[i] = e]
<1>1. m \in Memories /\ i \in Window /\ NoRepeats(m.order)
  BY MemoryTyped DEF MemoryOK, Sound
<1>2. c \in ClientsOf(i)
  BY <1>1, ClientTyped
<1>3. /\ e \in ClientsOf(i) /\ ~e.full /\ e.floating = c.oldstate
      /\ e.bw = c.oldbw /\ e.pos = c.oldpos /\ e.size = c.oldsize
  BY <1>1, <1>2, LeftClient
<1>4. n = Arrange(k)
  BY DEF LeaveFullscreen, Left, Unfilled
<1> HIDE DEF e
<1>5. /\ k \in Memories /\ SameScreen(m, k)
      /\ \A j \in Window : j # i => k.c[j] = m.c[j]
  BY <1>1, <1>3, SetClient
<1>6. k.c[i] = e
  BY <1>1, MemoryTyped DEF AnyMemory
<1> HIDE DEF k
<1>7. MemoryOK(k)
  <2>1. k.order = m.order /\ OnList(k) = OnList(m) /\ Shown(k) = Shown(m) /\ k.sel = m.sel
    BY <1>5 DEF SameScreen, OnList, Shown
  <2>2. ASSUME NEW j \in Window, j \notin OnList(k)
        PROVE  ~k.c[j].full
    BY <1>5, <2>1, <2>2 DEF MemoryOK, Sound
  <2> QED BY <1>5, <2>1, <2>2 DEF MemoryOK, Sound
<1>8. Keeps(k, n, OnList(k)) /\ n \in Memories
  BY <1>4, <1>5, ArrangeKeeps DEF Keeps
<1>9. MemoryOK(n)
  BY <1>7, <1>8, KeepsOK
<1>14. Settled(n)
  BY <1>4, <1>7, ArrangeSettles DEF MemoryOK, Sound
<1>10. SameScreen(m, n) /\ SameScreen(k, n)
  BY <1>5, <1>8 DEF Keeps, SameScreen
<1>11. Others(m, n, i)
  BY <1>5, <1>8 DEF Others, Keeps
<1>12. ~n.c[i].full /\ n.c[i].floating = c.oldstate /\ n.c[i].bw = c.oldbw
  BY <1>1, <1>3, <1>6, <1>8 DEF Keeps, Elsewhere
<1>13. ASSUME c.oldstate, NEW h \in Memories, SameSetting(n, h, i),
              h.c[i].pos = c.oldpos, h.c[i].size = c.oldsize
       PROVE  n.c[i].pos = Show(h, i).c[i].pos /\ n.c[i].size = Show(h, i).c[i].size
  <2>1. i \in OnList(k) /\ NoRepeats(k.order) /\ k.c[i].floating
    BY <1>1, <1>3, <1>5, <1>6, <1>13 DEF SameScreen, OnList
  <2>2. n.c[i].pos = Show(k, i).c[i].pos /\ n.c[i].size = Show(k, i).c[i].size
    BY <1>4, <1>5, <2>1, ArrangeKeeps
  <2>3. Alike(k, h, i)
    <3>1. e.full = FALSE /\ n.c[i].full = FALSE
      BY <1>1, <1>3, <1>8, <1>12, ClientTyped DEF ClientsOf, AnyClient
    <3> QED BY <3>1, <1>3, <1>6, <1>10, <1>12, <1>13 DEF Alike, SameSetting, SameScreen
  <2> QED BY <1>1, <1>5, <1>13, <2>2, <2>3, ShowAlike
<1> QED BY <1>9, <1>10, <1>11, <1>12, <1>13, <1>14 DEF Landed

\* Home is a memory that has the window there.
LEMMA HomeIs ==
  ASSUME NEW m \in Memories, NEW n \in Memories, NEW i \in Window, NEW h, h = Home(m, n, i)
  PROVE  /\ h \in Memories /\ SameSetting(n, h, i)
         /\ h.c[i].pos = m.c[i].oldpos /\ h.c[i].size = m.c[i].oldsize
<1> DEFINE c == [n.c[i] EXCEPT !.pos = m.c[i].oldpos, !.size = m.c[i].oldsize]
<1>1. /\ n.c[i] \in ClientsOf(i) /\ m.c[i].oldpos \in Int \X Int /\ m.c[i].oldsize \in SizesOf(i)
  BY ClientTyped
<1>2. /\ c \in ClientsOf(i) /\ c.pos = m.c[i].oldpos /\ c.size = m.c[i].oldsize
      /\ c.bw = n.c[i].bw /\ c.floating = n.c[i].floating /\ c.full = n.c[i].full
  BY <1>1 DEF ClientsOf, AnyClient, SizesOf
<1>3. h = [n EXCEPT !.c[i] = c]
  BY MemoryTyped DEF Home, AnyMemory
<1> HIDE DEF c
<1>4. h \in Memories /\ SameScreen(n, h)
  BY <1>2, <1>3, SetClient
<1>5. h.c[i] = c
  BY <1>3, MemoryTyped DEF AnyMemory
<1> QED BY <1>2, <1>4, <1>5 DEF SameSetting, SameScreen

LEMMA LeaveFullscreenOK ==
  ASSUME NEW m, MemoryOK(m), NEW i \in OnList(m), NEW asked
  PROVE  StepGood(m, LeaveFullscreen(m, i), asked)
<1> DEFINE n == LeaveFullscreen(m, i)
           h == Home(m, n, i)
<1>1. /\ MemoryOK(n) /\ SameScreen(m, n) /\ Others(m, n, i) /\ Settled(n) /\ ~n.c[i].full /\ Landed(m, n, i)
  BY LeaveFullscreenDoes
<1>2. m \in Memories /\ n \in Memories /\ i \in Window
  BY <1>1, MemoryTyped DEF MemoryOK, Sound
<1> HIDE DEF n
<1>3. ASSUME NEW j \in Window
      PROVE  Carries(m, n, j) /\ (j # i => Returns(m, n, j))
  <2>1. j # i => Elsewhere(m.c[j], n.c[j])
    BY <1>1 DEF Others
  <2> QED BY <1>1, <2>1 DEF Carries, Returns, Elsewhere, Saved
<1>4. Returns(m, n, i)
  <2>1. /\ h \in Memories /\ SameSetting(n, h, i)
        /\ h.c[i].pos = m.c[i].oldpos /\ h.c[i].size = m.c[i].oldsize
    BY <1>2, HomeIs
  <2>2. Arrived(m, n, i) = Show(h, i)
    BY <1>1 DEF Arrived, SameScreen
  <2> QED BY <1>1, <2>1, <2>2 DEF Returns, Landed
<1>5. StepGood(m, n, asked)
  BY <1>1, <1>3, <1>4 DEF StepGood, StepOK, Settles
<1> QED BY <1>5 DEF n

\* A window that becomes fullscreen.
Filling(c) == [c EXCEPT !.full = TRUE, !.oldstate = c.floating, !.oldbw = c.bw,
                        !.bw = 0, !.floating = TRUE]
Filled(c) == Resized(Filling(c), MonPos, MonSize)

LEMMA FilledClient ==
  ASSUME NEW i \in Window, NEW c, c \in ClientsOf(i)
  PROVE  /\ Filled(c) \in ClientsOf(i) /\ Filled(c).full
         /\ Saved(Filled(c)) = <<c.pos, c.size, c.floating>>
<1> DEFINE b == Filling(c)
           e == Filled(c)
<1>1. /\ b \in ClientsOf(i) /\ b.full /\ b.pos = c.pos /\ b.size = c.size /\ b.oldstate = c.floating
  BY DEF ClientsOf, AnyClient, Filling
<1>2. MonPos \in Int \X Int /\ MonSize \in SizesOf(i)
  BY SizesAssumption, GivenSizes
<1>3. e = Resized(b, MonPos, MonSize)
  BY DEF Filled
<1> HIDE DEF b, e
<1>4. /\ e \in ClientsOf(i) /\ e.oldpos = b.pos /\ e.oldsize = b.size
      /\ e.oldstate = b.oldstate /\ e.full = b.full
  BY <1>1, <1>2, <1>3, ResizedTo
<1>5. e \in ClientsOf(i) /\ e.full /\ Saved(e) = <<c.pos, c.size, c.floating>>
  BY <1>1, <1>4 DEF Saved
<1> QED BY <1>5 DEF e

LEMMA EnterFullscreenOK ==
  ASSUME NEW m, MemoryOK(m), NEW i \in OnList(m), ~m.c[i].full, NEW asked
  PROVE  StepGood(m, EnterFullscreen(m, i), asked) /\ EnterFullscreen(m, i).c[i].full
<1> DEFINE c == m.c[i]
           e == Filled(c)
           n == [m EXCEPT !.c[i] = e]
<1>1. m \in Memories /\ i \in Window
  BY MemoryTyped DEF MemoryOK, Sound
<1>2. c \in ClientsOf(i)
  BY <1>1, ClientTyped
<1>3. e \in ClientsOf(i) /\ e.full /\ Saved(e) = <<c.pos, c.size, c.floating>>
  BY <1>1, <1>2, FilledClient
<1>4. EnterFullscreen(m, i) = n
  BY DEF EnterFullscreen, Filled, Filling
<1> HIDE DEF e
<1>5. /\ n \in Memories /\ SameScreen(m, n)
      /\ \A j \in Window : j # i => n.c[j] = m.c[j]
  BY <1>1, <1>3, SetClient
<1>6. n.c[i] = e
  BY <1>1, MemoryTyped DEF AnyMemory
<1> HIDE DEF n
<1>7. MemoryOK(n)
  <2>1. n.order = m.order /\ OnList(n) = OnList(m) /\ Shown(n) = Shown(m) /\ n.sel = m.sel
    BY <1>5 DEF SameScreen, OnList, Shown
  <2>2. ASSUME NEW j \in Window, j \notin OnList(n)
        PROVE  ~n.c[j].full
    BY <1>5, <2>1, <2>2 DEF MemoryOK, Sound
  <2> QED BY <1>5, <2>1, <2>2 DEF MemoryOK, Sound
<1>8. ASSUME NEW j \in Window
      PROVE  Carries(m, n, j) /\ Returns(m, n, j)
  <2>1. CASE j = i
    BY <1>3, <1>6, <2>1 DEF Carries, Returns
  <2>2. CASE j # i
    BY <1>5, <2>2 DEF Carries, Returns
  <2> QED BY <2>1, <2>2
<1>9. Settles(m, n)
  BY <1>1, <1>3, <1>6 DEF Settles
<1> QED BY <1>3, <1>4, <1>6, <1>7, <1>8, <1>9 DEF StepGood, StepOK

LEMMA SetFullscreenOK ==
  ASSUME NEW m, MemoryOK(m), NEW i \in OnList(m), NEW on, NEW asked
  PROVE  StepGood(m, SetFullscreen(m, i, on), asked)
<1>1. Calm(m, m)
  BY DEF Calm
<1>2. StepGood(m, m, asked)
  BY <1>1, CalmStep DEF StepGood, Settles
<1>3. CASE on /\ ~m.c[i].full
  BY <1>3, EnterFullscreenOK DEF SetFullscreen
<1>4. CASE ~on /\ m.c[i].full
  BY <1>4, LeaveFullscreenOK DEF SetFullscreen
<1> QED BY <1>2, <1>3, <1>4 DEF SetFullscreen

-----------------------------------------------------------------------------
(* One window's own changes.                                                *)

LEMMA ArrangeCalm ==
  ASSUME NEW k, NEW m, MemoryOK(m), Calm(k, m)
  PROVE  MemoryOK(Arrange(m)) /\ Calm(k, Arrange(m)) /\ Settled(Arrange(m))
<1>1. Keeps(m, Arrange(m), OnList(m)) /\ Settled(Arrange(m))
  BY ArrangeKeeps, ArrangeSettles DEF MemoryOK, Sound
<1> QED BY <1>1, KeepsOK, KeepsCalm

LEMMA EditKeeps ==
  ASSUME NEW m, MemoryOK(m), NEW i \in OnList(m), NEW c \in ClientsOf(i), c.full = m.c[i].full,
         NEW n, n = [m EXCEPT !.c[i] = c]
  PROVE  MemoryOK(n) /\ StepOK(m, n, {i})
<1>1. m \in Memories /\ i \in Window
  BY MemoryTyped DEF MemoryOK, Sound
<1>2. /\ n \in Memories /\ SameScreen(m, n)
      /\ \A j \in Window : j # i => n.c[j] = m.c[j]
  BY <1>1, SetClient
<1>3. n.c[i] = c
  BY <1>1, MemoryTyped DEF AnyMemory
<1>4. n.order = m.order /\ OnList(n) = OnList(m) /\ Shown(n) = Shown(m) /\ n.sel = m.sel
  BY <1>2 DEF SameScreen, OnList, Shown
<1>5. MemoryOK(n)
  <2>1. ASSUME NEW j \in Window, j \notin OnList(n)
        PROVE  ~n.c[j].full
    BY <1>2, <1>4, <2>1 DEF MemoryOK, Sound
  <2> QED BY <1>2, <1>4, <2>1 DEF MemoryOK, Sound
<1>6. StepOK(m, n, {i})
  <2>1. ASSUME NEW j \in Window
        PROVE  (j \notin {i} => Carries(m, n, j)) /\ Returns(m, n, j)
    <3>1. CASE j = i
      BY <1>3, <3>1 DEF Returns
    <3>2. CASE j # i
      BY <1>2, <3>2 DEF Carries, Returns
    <3> QED BY <3>1, <3>2
  <2> QED BY <1>5, <2>1 DEF StepOK
<1> QED BY <1>5, <1>6

LEMMA EditCalm ==
  ASSUME NEW m, MemoryOK(m), NEW i \in OnList(m), NEW c \in ClientsOf(i), c.full = m.c[i].full,
         Saved(c) = Saved(m.c[i]), NEW n, n = [m EXCEPT !.c[i] = c]
  PROVE  Calm(m, n)
<1>1. m \in Memories /\ i \in Window
  BY MemoryTyped DEF MemoryOK, Sound
<1>2. \A j \in Window : j # i => n.c[j] = m.c[j]
  BY <1>1, SetClient
<1>3. n.c[i] = c
  BY <1>1, MemoryTyped DEF AnyMemory
<1>4. ASSUME NEW j \in Window
      PROVE  /\ n.c[j].full => m.c[j].full /\ Saved(n.c[j]) = Saved(m.c[j])
             /\ m.c[j].full /\ j \in OnList(n) => n.c[j].full
  <2>1. CASE j = i
    BY <1>3, <2>1
  <2>2. CASE j # i
    BY <1>2, <2>2
  <2> QED BY <2>1, <2>2
<1> QED BY <1>4 DEF Calm

LEMMA ResizeCalm ==
  ASSUME NEW k, NEW m, MemoryOK(m), Calm(k, m), NEW i \in Window, ~m.c[i].full,
         NEW pos, pos \in Int \X Int, NEW size, size \in Int \X Int, NEW interact \in BOOLEAN
  PROVE  MemoryOK(Resize(m, i, pos, size, interact)) /\ Calm(k, Resize(m, i, pos, size, interact))
<1>1. m \in Memories
  BY DEF MemoryOK, Sound
<1>2. Keeps(m, Resize(m, i, pos, size, interact), {i})
  BY <1>1, ResizeKeeps
<1> QED BY <1>2, KeepsOK, KeepsCalm

LEMMA CalmSelf ==
  ASSUME NEW m
  PROVE  Calm(m, m)
BY DEF Calm

LEMMA ToggleFloatingCalm ==
  ASSUME NEW m, MemoryOK(m), NEW i \in OnList(m)
  PROVE  /\ MemoryOK(ToggleFloating(m, i)) /\ Calm(m, ToggleFloating(m, i))
         /\ Settled(m) => Settled(ToggleFloating(m, i))
<1> DEFINE c == m.c[i]
           floats == ~c.floating \/ IsFixed(Hints[i])
           e == [c EXCEPT !.floating = floats]
           n == [m EXCEPT !.c[i] = e]
           pos == c.pos
           size == c.size
           r == Resize(n, i, pos, size, FALSE)
<1>1. m \in Memories /\ i \in Window
  BY MemoryTyped DEF MemoryOK, Sound
<1>2. c \in ClientsOf(i) /\ pos \in Int \X Int /\ size \in Int \X Int
  BY <1>1, ClientTyped
<1>3. CASE c.full
  BY <1>3, CalmSelf DEF ToggleFloating
<1>4. CASE ~c.full
  <2>1. floats \in BOOLEAN
    BY DEF IsFixed
  <2>2. ToggleFloating(m, i) = Arrange(n) \/ ToggleFloating(m, i) = Arrange(r)
    BY <1>4 DEF ToggleFloating
  <2> HIDE DEF floats
  <2>3. e \in ClientsOf(i) /\ e.full = c.full /\ Saved(e) = Saved(c)
    BY <1>2, <1>4, <2>1 DEF ClientsOf, AnyClient, Saved
  <2>7. e.full = m.c[i].full /\ Saved(e) = Saved(m.c[i])
    BY <2>3
  <2> HIDE DEF e
  <2>n. n = [m EXCEPT !.c[i] = e]
    OBVIOUS
  <2> HIDE DEF n
  <2>4. MemoryOK(n) /\ Calm(m, n)
    BY <2>3, <2>7, <2>n, EditKeeps, EditCalm
  <2>5. Calm(m, n) /\ ~n.c[i].full
    BY <1>1, <1>4, <2>4 DEF Calm
  <2> HIDE DEF pos, size
  <2>6. MemoryOK(r) /\ Calm(m, r)
    BY <1>1, <1>2, <2>4, <2>5, ResizeCalm
  <2> QED BY <2>2, <2>4, <2>5, <2>6, ArrangeCalm
<1> QED BY <1>3, <1>4

LEMMA RequestBorderOK ==
  ASSUME NEW m, MemoryOK(m), NEW i \in OnList(m), NEW bw \in Nat
  PROVE  StepOK(m, [m EXCEPT !.c[i].bw = bw], {})
<1> DEFINE e == [m.c[i] EXCEPT !.bw = bw]
           n == [m EXCEPT !.c[i] = e]
<1>1. m \in Memories /\ i \in Window
  BY MemoryTyped DEF MemoryOK, Sound
<1>2. e \in ClientsOf(i) /\ e.full = m.c[i].full /\ Saved(e) = Saved(m.c[i])
  BY <1>1, ClientTyped DEF ClientsOf, AnyClient, Saved
<1>3. [m EXCEPT !.c[i].bw = bw] = n
  OBVIOUS
<1> HIDE DEF e
<1>n. n = [m EXCEPT !.c[i] = e]
  OBVIOUS
<1> HIDE DEF n
<1>4. MemoryOK(n) /\ Calm(m, n)
  BY <1>2, <1>n, EditKeeps, EditCalm
<1> QED BY <1>3, <1>4, CalmStep

\* A window that is not fullscreen floats from now on.
LEMMA FloatsNow ==
  ASSUME NEW m, MemoryOK(m), NEW i \in OnList(m), ~m.c[i].full, NEW n,
         n = [m EXCEPT !.c[i].floating = TRUE]
  PROVE  MemoryOK(n) /\ Calm(m, n)
<1> DEFINE e == [m.c[i] EXCEPT !.floating = TRUE]
<1>1. m \in Memories /\ i \in Window
  BY MemoryTyped DEF MemoryOK, Sound
<1>2. e \in ClientsOf(i) /\ e.full = m.c[i].full /\ Saved(e) = Saved(m.c[i])
  BY <1>1, ClientTyped DEF ClientsOf, AnyClient, Saved
<1>3. n = [m EXCEPT !.c[i] = e]
  OBVIOUS
<1> HIDE DEF e
<1> QED BY <1>2, <1>3, EditKeeps, EditCalm

LEMMA TransientForOK ==
  ASSUME NEW m, MemoryOK(m), NEW i \in OnList(m), ~m.c[i].floating
  PROVE  StepGood(m, Arrange([m EXCEPT !.c[i].floating = TRUE]), {})
<1> DEFINE n == [m EXCEPT !.c[i].floating = TRUE]
<1>1. m \in Memories /\ i \in Window
  BY MemoryTyped DEF MemoryOK, Sound
<1>2. ~m.c[i].full
  BY <1>1, ClientTyped
<1> HIDE DEF n
<1>3. MemoryOK(n) /\ Calm(m, n)
  BY <1>2, FloatsNow DEF n
<1>4. StepGood(m, Arrange(n), {})
  BY <1>3, CalmArrange
<1> QED BY <1>4 DEF n

LEMMA UpdatedTypeOK ==
  ASSUME MemoryOK(g), NEW i \in OnList(g), NEW full \in BOOLEAN
  PROVE  /\ StepOK(g, UpdatedType(i, full, TRUE), {})
         /\ StepGood(g, UpdatedType(i, full, FALSE), {})
<1> DEFINE m == SetFullscreen(g, i, TRUE)
           n == [g EXCEPT !.c[i].floating = TRUE]
<1>1. g \in Memories /\ i \in Window
  BY MemoryTyped DEF MemoryOK, Sound
<1>2. Calm(g, g) /\ StepGood(g, g, {})
  BY CalmSelf, CalmStep DEF StepGood, Settles
<1>3. StepGood(g, m, {}) /\ m.c[i].full
  <2>1. CASE g.c[i].full
    BY <1>2, <2>1 DEF SetFullscreen
  <2>2. CASE ~g.c[i].full
    BY <2>2, EnterFullscreenOK DEF SetFullscreen
  <2> QED BY <2>1, <2>2
<1> HIDE DEF m
<1>4. [m EXCEPT !.c[i].floating = TRUE] = m
  <2>1. m \in Memories
    BY <1>3 DEF StepGood, StepOK, MemoryOK, Sound
  <2>2. m.c[i] \in AnyClient /\ m.c[i].floating = TRUE
    BY <1>1, <1>3, <2>1, ClientTyped
  <2>3. [m.c[i] EXCEPT !.floating = TRUE] = m.c[i]
    BY <2>2 DEF AnyClient
  <2>4. m \in AnyMemory
    BY <2>1 DEF Memories
  <2>5. [m.c EXCEPT ![i] = m.c[i]] = m.c
    BY <2>4 DEF AnyMemory
  <2>6. [m EXCEPT !.c = m.c] = m
    BY <2>4 DEF AnyMemory
  <2>7. [m EXCEPT !.c[i].floating = TRUE] = [m EXCEPT !.c = [m.c EXCEPT ![i] = [m.c[i] EXCEPT !.floating = TRUE]]]
    OBVIOUS
  <2> QED BY <2>3, <2>5, <2>6, <2>7
<1>5. StepOK(g, n, {})
  <2>1. CASE g.c[i].full
    <3>1. n = m
      BY <1>4, <2>1 DEF m, SetFullscreen
    <3> QED BY <1>3, <3>1 DEF StepGood
  <2>2. CASE ~g.c[i].full
    BY <2>2, FloatsNow, CalmStep
  <2> QED BY <2>1, <2>2
<1> HIDE DEF n
<1>6. StepOK(g, UpdatedType(i, full, TRUE), {})
  <2>1. UpdatedType(i, full, TRUE) = IF full THEN [m EXCEPT !.c[i].floating = TRUE] ELSE n
    BY DEF UpdatedType, m, n
  <2> QED BY <1>3, <1>4, <1>5, <2>1 DEF StepGood
<1>7. StepGood(g, UpdatedType(i, full, FALSE), {})
  <2>1. UpdatedType(i, full, FALSE) = IF full THEN m ELSE g
    BY DEF UpdatedType, m
  <2> QED BY <1>2, <1>3, <2>1
<1> QED BY <1>6, <1>7

LEMMA RequestGeometryOK ==
  ASSUME NEW m, MemoryOK(m), NEW i \in OnList(m), m.c[i].floating \/ ~Arranging(m),
         NEW pos \in Int \X Int, NEW size \in Positive \X Positive
  PROVE  StepGood(m, [m EXCEPT !.c[i] = Requested(@, pos, size)], {i})
<1> DEFINE c == m.c[i]
           Centered(d) == IF pos[d] + size[d] > MonPos[d] + MonSize[d] /\ c.floating
                          THEN MonPos[d] + (MonSize[d] \div 2 - (size[d] + 2 * c.bw) \div 2)
                          ELSE pos[d]
           p == Pair(Centered)
           e == [c EXCEPT !.pos = p, !.size = size, !.oldpos = c.pos, !.oldsize = c.size]
<1>1. m \in Memories /\ i \in Window
  BY MemoryTyped DEF MemoryOK, Sound
<1>2. /\ c \in ClientsOf(i) /\ c.bw \in Nat /\ c.pos \in Int \X Int /\ c.size \in SizesOf(i)
  BY <1>1, ClientTyped
<1>3. ASSUME NEW d \in Dims
      PROVE  Centered(d) \in Int
  <2>1. /\ pos[d] \in Int /\ size[d] \in Nat /\ MonPos[d] \in Nat /\ MonSize[d] \in Nat
    BY SizesAssumption DEF Dims, Positive
  <2> QED BY <1>2, <2>1
<1>4. p \in Int \X Int
  <2> HIDE DEF Centered
  <2>1. Centered(1) \in Int /\ Centered(2) \in Int
    BY <1>3 DEF Dims
  <2> QED BY <2>1 DEF Pair
<1>5. size \in SizesOf(i)
  BY <1>1, GivenSizes
<1>6. Requested(c, pos, size) = e
  BY DEF Requested
<1> HIDE DEF p
<1>7. e \in ClientsOf(i) /\ e.full = c.full /\ e.bw = c.bw /\ e.floating = c.floating
  BY <1>2, <1>4, <1>5 DEF ClientsOf, AnyClient, SizesOf
<1> DEFINE n == [m EXCEPT !.c[i] = e]
<1>8. [m EXCEPT !.c[i] = Requested(@, pos, size)] = n
  BY <1>6
<1> HIDE DEF e
<1>9. /\ n \in Memories /\ SameScreen(m, n)
      /\ \A j \in Window : j # i => n.c[j] = m.c[j]
  BY <1>1, <1>7, SetClient
<1>10. n.c[i] = e
  BY <1>1, MemoryTyped DEF AnyMemory
<1>11. StepOK(m, n, {i})
  BY <1>7, EditKeeps
<1> HIDE DEF n
<1>12. Like(m, n)
  BY <1>7, <1>9, <1>10 DEF Like
<1>13. Settled(m) => Settled(n)
  BY <1>1, <1>9, <1>12, LooseSettled DEF MemoryOK, Sound
<1> QED BY <1>8, <1>11, <1>13 DEF StepGood, Settles

-----------------------------------------------------------------------------
(* The mouse.                                                               *)

LEMMA LoosenedCalm ==
  ASSUME MemoryOK(g), NEW i \in OnList(g), NEW far
  PROVE  /\ MemoryOK(Loosened(i, far)) /\ Calm(g, Loosened(i, far))
         /\ Settled(g) => Settled(Loosened(i, far))
BY ToggleFloatingCalm, CalmSelf DEF Loosened

LEMMA DraggedOK ==
  ASSUME NEW k, NEW m, MemoryOK(m), Calm(k, m), NEW i \in Window, ~k.c[i].full,
         NEW pos \in Int \X Int, NEW size \in Int \X Int, Settled(k) => Settled(m)
  PROVE  StepGood(k, MovedTo(m, i, pos), {}) /\ StepGood(k, SizedTo(m, i, size), {})
<1>1. m \in Memories /\ ~m.c[i].full
  BY DEF MemoryOK, Sound, Calm
<1>2. m.c[i].pos \in Int \X Int /\ m.c[i].size \in Int \X Int
  BY <1>1, ClientTyped
<1>3. /\ MemoryOK(Resize(m, i, pos, m.c[i].size, TRUE)) /\ Calm(k, Resize(m, i, pos, m.c[i].size, TRUE))
      /\ MemoryOK(Resize(m, i, m.c[i].pos, size, TRUE)) /\ Calm(k, Resize(m, i, m.c[i].pos, size, TRUE))
  BY <1>1, <1>2, ResizeCalm
<1>4. MemoryOK(MovedTo(m, i, pos)) /\ Calm(k, MovedTo(m, i, pos))
  BY <1>3 DEF MovedTo
<1>5. MemoryOK(SizedTo(m, i, size)) /\ Calm(k, SizedTo(m, i, size))
  BY <1>3 DEF SizedTo
<1>6. StepOK(k, MovedTo(m, i, pos), {}) /\ StepOK(k, SizedTo(m, i, size), {})
  BY <1>4, <1>5, CalmStep
<1>7. ASSUME NEW n, Keeps(m, n, {i}), m.c[i].floating \/ ~Arranging(m)
      PROVE  Settled(m) => Settled(n)
  <2>1. Like(m, n)
    BY <1>7, KeepsLike
  <2>2. \A j \in Window : j # i => n.c[j] = m.c[j]
    BY <1>7 DEF Keeps
  <2> QED BY <1>1, <1>7, <2>1, <2>2, LooseSettled DEF MemoryOK, Sound
<1>8. /\ Keeps(m, Resize(m, i, pos, m.c[i].size, TRUE), {i})
      /\ Keeps(m, Resize(m, i, m.c[i].pos, size, TRUE), {i})
  BY <1>1, <1>2, ResizeKeeps
<1>9. /\ Settled(m) => Settled(MovedTo(m, i, pos))
      /\ Settled(m) => Settled(SizedTo(m, i, size))
  BY <1>7, <1>8 DEF MovedTo, SizedTo
<1> QED BY <1>6, <1>9 DEF StepGood, Settles

LEMMA SelectedIs ==
  ASSUME NEW m, MemoryOK(m), m.sel # NoWindow
  PROVE  m.sel \in Shown(m) /\ m.sel \in OnList(m) /\ m.sel \in Window
BY MemoryTyped DEF MemoryOK, Sound, Shown

LEMMA MoveMouseOK ==
  ASSUME IInv, NEW place \in Places, MoveMouse(place)
  PROVE  StepDone
<1> DEFINE i == g.sel
           a == Area(g)
           outer == Outer(g.c[i])
           Snapped(d) == IF Near(a.pos[d], place[d]) THEN a.pos[d]
                         ELSE IF Near(a.pos[d] + a.size[d], place[d] + outer[d])
                         THEN a.pos[d] + a.size[d] - outer[d] ELSE place[d]
           to == Pair(Snapped)
           far == Far(to, g.c[i].pos)
           m == Loosened(i, far)
<1>1. g.sel # NoWindow /\ ~g.c[i].full /\ Becomes(MovedTo(m, i, to))
  BY DEF MoveMouse
<1>2. MemoryOK(g)
  BY DEF IInv
<1>3. i \in OnList(g) /\ i \in Window /\ g \in Memories
  BY <1>1, <1>2, SelectedIs DEF MemoryOK, Sound
<1>4. ASSUME NEW d \in Dims
      PROVE  Snapped(d) \in Int
  <2>1. a.pos[d] \in Int /\ a.size[d] \in Int /\ outer[d] \in Int /\ place[d] \in Int
    BY <1>3, AreaTyped, OuterTyped, ClientTyped, RequestsAssumption DEF Dims
  <2> HIDE DEF a, outer
  <2> QED BY <2>1
<1>5. to \in Int \X Int
  <2>1. Snapped(1) \in Int /\ Snapped(2) \in Int
    BY <1>4 DEF Dims
  <2> HIDE DEF Snapped
  <2> QED BY <2>1 DEF Pair
<1> HIDE DEF to, far
<1>6. MemoryOK(m) /\ Calm(g, m) /\ (Settled(g) => Settled(m))
  BY <1>2, <1>3, LoosenedCalm
<1> HIDE DEF m
<1>7. g.c[i].size \in Int \X Int
  BY <1>3, ClientTyped
<1>8. StepGood(g, MovedTo(m, i, to), {})
  BY <1>1, <1>3, <1>5, <1>6, <1>7, DraggedOK
<1> QED BY <1>1, <1>8, EndsDone DEF Becomes

LEMMA ResizeMouseOK ==
  ASSUME IInv, NEW size \in Sizes, ResizeMouse(size)
  PROVE  StepDone
<1> DEFINE i == g.sel
           inside == \A d \in Dims : size[d] <= Area(g).size[d]
           far == inside /\ Far(size, g.c[i].size)
           m == Loosened(i, far)
<1>1. g.sel # NoWindow /\ ~g.c[i].full /\ Becomes(SizedTo(m, i, size))
  BY DEF ResizeMouse
<1>2. MemoryOK(g)
  BY DEF IInv
<1>3. i \in OnList(g) /\ i \in Window /\ g \in Memories
  BY <1>1, <1>2, SelectedIs DEF MemoryOK, Sound
<1> HIDE DEF far
<1>4. MemoryOK(m) /\ Calm(g, m) /\ (Settled(g) => Settled(m))
  BY <1>2, <1>3, LoosenedCalm
<1> HIDE DEF m
<1>5. size \in Int \X Int /\ g.c[i].pos \in Int \X Int
  BY <1>3, ClientTyped, RequestsAssumption DEF Positive
<1>6. StepGood(g, SizedTo(m, i, size), {})
  BY <1>1, <1>3, <1>4, <1>5, DraggedOK
<1> QED BY <1>1, <1>6, EndsDone DEF Becomes

-----------------------------------------------------------------------------
(* Windows that go, come, are shown and hidden.                             *)

\* Whatever is selected among those shown.
LEMMA SelectOK ==
  ASSUME NEW k, NEW m \in Memories, NoRepeats(m.order),
         \A i \in Window : i \notin OnList(m) => ~m.c[i].full,
         Calm(k, m), NEW s \in IF Shown(m) = {} THEN {NoWindow} ELSE Shown(m)
  PROVE  StepGood(k, Arrange([m EXCEPT !.sel = s]), {})
<1> DEFINE n == [m EXCEPT !.sel = s]
<1>1. s \in Window \cup {NoWindow} /\ s \in Shown(m) \cup {NoWindow}
      /\ (s = NoWindow => Shown(m) = {})
  BY MemoryTyped, WindowAssumption DEF Shown
<1>2. m \in AnyMemory
  BY MemoryTyped
<1>3. /\ n \in AnyMemory /\ n.c = m.c /\ n.order = m.order /\ n.visible = m.visible /\ n.sel = s
  BY <1>1, <1>2 DEF AnyMemory
<1> HIDE DEF n
<1>4. n \in Memories
  BY <1>3 DEF Memories
<1>5. OnList(n) = OnList(m) /\ Shown(n) = Shown(m)
  BY <1>3 DEF OnList, Shown
<1>6. MemoryOK(n) /\ Calm(k, n)
  BY <1>1, <1>3, <1>4, <1>5 DEF MemoryOK, Sound, Calm
<1>7. StepGood(k, Arrange(n), {})
  BY <1>6, CalmArrange
<1> QED BY <1>7 DEF n

LEMMA SelectAnyOK ==
  ASSUME IInv, NEW m \in Memories, NoRepeats(m.order),
         \A i \in Window : i \notin OnList(m) => ~m.c[i].full,
         Calm(g, m), SelectAny(m)
  PROVE  StepDone
<1>1. PICK s \in IF Shown(m) = {} THEN {NoWindow} ELSE Shown(m) :
        Becomes(Arrange([m EXCEPT !.sel = s]))
  BY DEF SelectAny
<1>3. StepGood(g, Arrange([m EXCEPT !.sel = s]), {})
  BY SelectOK
<1> QED BY <1>1, <1>3, EndsDone DEF Becomes

LEMMA NoClientTyped ==
  ASSUME NEW i \in Window
  PROVE  NoClient \in ClientsOf(i) /\ ~NoClient.full
<1>1. <<1, 1>> \in SizesOf(i)
  <2>1. <<1, 1>> \in Positive \X Positive
    BY DEF Positive
  <2> QED BY <2>1, GivenSizes
<1>2. NoClient \in AnyClient /\ NoClient.size = <<1, 1>> /\ NoClient.oldsize = <<1, 1>>
      /\ NoClient.full = FALSE
  BY DEF NoClient, AnyClient
<1> QED BY <1>1, <1>2 DEF ClientsOf

LEMMA UnmapWindowOK ==
  ASSUME IInv, NEW i \in Window, UnmapWindow(i)
  PROVE  StepDone
<1> DEFINE order == Kept(g.order, Window \ {i})
           m == [g EXCEPT !.order = Kept(@, Window \ {i}), !.c[i] = NoClient, !.visible[i] = FALSE]
<1>1. MemoryOK(g) /\ g \in Memories /\ NoRepeats(g.order)
  BY DEF IInv, MemoryOK, Sound
<1>2. g \in AnyMemory /\ g.order \in Seq(Window)
  BY <1>1, MemoryTyped
<1>3. order \in Seq(Window) /\ Members(order) = OnList(g) \cap (Window \ {i}) /\ NoRepeats(order)
  BY <1>1, <1>2, KeptMembers DEF OnList
<1>4. NoClient \in ClientsOf(i) /\ NoClient \in AnyClient /\ ~NoClient.full
  BY NoClientTyped DEF ClientsOf
<1>5. m = [g EXCEPT !.order = order, !.c = [g.c EXCEPT ![i] = NoClient],
                    !.visible = [g.visible EXCEPT ![i] = FALSE]]
  OBVIOUS
<1>6. SelectAny(m)
  BY DEF UnmapWindow
<1> HIDE DEF order, m
<1>7. /\ m \in AnyMemory /\ m.order = order
      /\ m.c[i] = NoClient /\ \A j \in Window : j # i => m.c[j] = g.c[j]
  BY <1>2, <1>3, <1>4, <1>5 DEF AnyMemory
<1>8. m \in Memories
  <2>1. ASSUME NEW j \in Window
        PROVE  m.c[j] \in ClientsOf(j)
    <3>1. CASE j = i
      BY <1>4, <1>7, <3>1
    <3>2. CASE j # i
      BY <1>1, <1>7, <3>2, ClientTyped
    <3> QED BY <3>1, <3>2
  <2> QED BY <1>7, <2>1 DEF Memories
<1>9. OnList(m) = OnList(g) \ {i}
  <2>1. OnList(g) \subseteq Window
    BY <1>1, MemoryTyped
  <2> QED BY <1>3, <1>7, <2>1 DEF OnList
<1>10. ASSUME NEW j \in Window
       PROVE  /\ m.c[j].full => g.c[j].full /\ Saved(m.c[j]) = Saved(g.c[j])
              /\ g.c[j].full /\ j \in OnList(m) => m.c[j].full
              /\ j \notin OnList(m) => ~m.c[j].full
  <2>1. CASE j = i
    BY <1>4, <1>7, <1>9, <2>1
  <2>2. CASE j # i
    BY <1>1, <1>7, <1>9, <2>2 DEF MemoryOK, Sound
  <2> QED BY <2>1, <2>2
<1>11. Calm(g, m)
  BY <1>10 DEF Calm
<1> QED BY <1>3, <1>6, <1>7, <1>8, <1>10, <1>11, SelectAnyOK

LEMMA ShowOrHideOK ==
  ASSUME IInv, NEW i \in Window, ShowOrHide(i)
  PROVE  StepDone
<1> DEFINE b == ~g.visible[i]
           m == [g EXCEPT !.visible[i] = ~@]
<1>1. MemoryOK(g) /\ g \in Memories /\ NoRepeats(g.order)
  BY DEF IInv, MemoryOK, Sound
<1>2. g \in AnyMemory
  BY <1>1, MemoryTyped
<1>3. m = [g EXCEPT !.visible = [g.visible EXCEPT ![i] = b]] /\ b \in BOOLEAN
  OBVIOUS
<1>4. SelectAny(m)
  BY DEF ShowOrHide
<1> HIDE DEF b, m
<1>5. m \in AnyMemory /\ m.c = g.c /\ m.order = g.order
  BY <1>2, <1>3 DEF AnyMemory
<1>6. m \in Memories
  BY <1>1, <1>5 DEF Memories
<1>7. OnList(m) = OnList(g) /\ Calm(g, m)
  BY <1>5 DEF OnList, Calm
<1> QED BY <1>1, <1>4, <1>5, <1>6, <1>7, SelectAnyOK DEF MemoryOK, Sound

\* What manage makes of a new window, and the memory with it on the list.
NewClient(i, size) ==
  LET float == Hints[i].dialog \/ IsFixed(Hints[i])
      pos == Pair(LAMBDA d : MonPos[d] + ((MonSize[d] - size[d] - 2 * Border) \div 2))
  IN [pos |-> pos, size |-> size, oldpos |-> pos, oldsize |-> size, bw |-> Border,
      oldbw |-> Border, floating |-> float, oldstate |-> float, full |-> FALSE]
Prepended(m, i, size) ==
  [m EXCEPT !.order = <<i>> \o @, !.c[i] = NewClient(i, size), !.visible[i] = TRUE]

LEMMA NewClientTyped ==
  ASSUME NEW i \in Window, NEW size \in Positive \X Positive
  PROVE  NewClient(i, size) \in ClientsOf(i) /\ ~NewClient(i, size).full
<1> DEFINE float == Hints[i].dialog \/ IsFixed(Hints[i])
           pos == Pair(LAMBDA d : MonPos[d] + ((MonSize[d] - size[d] - 2 * Border) \div 2))
           c == [pos |-> pos, size |-> size, oldpos |-> pos, oldsize |-> size, bw |-> Border,
                 oldbw |-> Border, floating |-> float, oldstate |-> float, full |-> FALSE]
<1>1. size \in SizesOf(i) /\ size \in Nat \X Nat
  BY GivenSizes DEF Positive
<1>2. pos \in Int \X Int
  BY SizesAssumption DEF Pair, Positive
<1>3. float \in BOOLEAN
  BY DEF IsFixed
<1>4. NewClient(i, size) = c
  BY DEF NewClient
<1> HIDE DEF pos, float
<1>5. c \in AnyClient /\ c.size = size /\ c.oldsize = size /\ c.full = FALSE
  BY <1>1, <1>2, <1>3, SizesAssumption DEF AnyClient
<1> HIDE DEF c
<1> QED BY <1>1, <1>4, <1>5 DEF ClientsOf

LEMMA PrependMembers ==
  ASSUME NEW W, NEW list \in Seq(W), NEW x \in W
  PROVE  /\ <<x>> \o list \in Seq(W)
         /\ Members(<<x>> \o list) = Members(list) \cup {x}
         /\ NoRepeats(list) /\ x \notin Members(list) => NoRepeats(<<x>> \o list)
<1> DEFINE t == <<x>> \o list
<1>1. /\ t \in Seq(W) /\ Len(t) = Len(list) + 1 /\ t[1] = x
      /\ \A k \in 2..Len(t) : t[k] = list[k - 1]
      /\ Len(list) \in Nat
  OBVIOUS
<1> HIDE DEF t
<1>2. Members(t) \subseteq Members(list) \cup {x}
  <2>1. ASSUME NEW k \in 1..Len(t)
        PROVE  t[k] \in Members(list) \cup {x}
    <3>1. CASE k = 1
      BY <1>1, <3>1
    <3>2. CASE k # 1
      <4>1. k - 1 \in 1..Len(list) /\ k \in 2..Len(t)
        BY <1>1, <3>2
      <4> QED BY <1>1, <4>1 DEF Members
    <3> QED BY <3>1, <3>2
  <2> QED BY <2>1 DEF Members
<1>3. Members(list) \cup {x} \subseteq Members(t)
  <2>1. x \in Members(t)
    <3>1. 1 \in 1..Len(t)
      BY <1>1
    <3> QED BY <1>1, <3>1 DEF Members
  <2>2. ASSUME NEW k \in 1..Len(list)
        PROVE  list[k] \in Members(t)
    <3>1. k + 1 \in 2..Len(t) /\ k + 1 \in 1..Len(t) /\ (k + 1) - 1 = k
      BY <1>1
    <3>2. t[k + 1] = list[k]
      BY <1>1, <3>1
    <3> QED BY <3>1, <3>2 DEF Members
  <2> QED BY <2>1, <2>2 DEF Members
<1>4. ASSUME NoRepeats(list), x \notin Members(list)
      PROVE  NoRepeats(t)
  <2>1. ASSUME NEW k \in 1..Len(t), NEW l \in 1..Len(t), t[k] = t[l]
        PROVE  k = l
    <3>1. k # 1 => k - 1 \in 1..Len(list) /\ t[k] = list[k - 1] /\ t[k] \in Members(list)
      BY <1>1 DEF Members
    <3>2. l # 1 => l - 1 \in 1..Len(list) /\ t[l] = list[l - 1] /\ t[l] \in Members(list)
      BY <1>1 DEF Members
    <3>3. CASE k # 1 /\ l # 1
      <4>1. list[k - 1] = list[l - 1]
        BY <2>1, <3>1, <3>2, <3>3
      <4>2. k - 1 = l - 1
        BY <1>4, <3>1, <3>2, <3>3, <4>1 DEF NoRepeats
      <4> QED BY <4>2
    <3> QED BY <1>1, <1>4, <2>1, <3>1, <3>2, <3>3
  <2> QED BY <2>1 DEF NoRepeats
<1> QED BY <1>1, <1>2, <1>3, <1>4 DEF t

\* The list with a new window is one between two steps.
LEMMA PrependedIs ==
  ASSUME NEW m, MemoryOK(m), NEW i \in Window, i \notin OnList(m),
         NEW size \in Positive \X Positive, NEW n, n = Prepended(m, i, size)
  PROVE  /\ Sound(n) /\ OnList(n) = OnList(m) \cup {i} /\ i \in Shown(n) /\ n.sel = m.sel
         /\ n.order # m.order /\ ~m.c[i].full /\ ~n.c[i].full
         /\ n.lt = m.lt /\ n.showbar = m.showbar
         /\ \A j \in Window : j # i => n.c[j] = m.c[j] /\ n.visible[j] = m.visible[j]
<1> DEFINE c == NewClient(i, size)
           order == <<i>> \o m.order
<1>1. /\ m \in Memories /\ m \in AnyMemory /\ m.order \in Seq(Window) /\ NoRepeats(m.order)
      /\ m.sel \in Shown(m) \cup {NoWindow}
  BY MemoryTyped DEF MemoryOK, Sound
<1>2. c \in ClientsOf(i) /\ c \in AnyClient /\ ~c.full
  BY NewClientTyped DEF ClientsOf
<1>3. order \in Seq(Window) /\ Members(order) = OnList(m) \cup {i} /\ NoRepeats(order)
  BY <1>1, PrependMembers DEF OnList
<1>4. n = [m EXCEPT !.order = order, !.c = [m.c EXCEPT ![i] = c],
                    !.visible = [m.visible EXCEPT ![i] = TRUE]]
  BY DEF Prepended
<1>5. order # m.order
  BY <1>3 DEF OnList
<1> HIDE DEF c, order
<1> DEFINE cs == [m.c EXCEPT ![i] = c]
           vs == [m.visible EXCEPT ![i] = TRUE]
<1>a. /\ cs \in [Window -> AnyClient] /\ vs \in [Window -> BOOLEAN]
      /\ cs[i] = c /\ vs[i] = TRUE
      /\ \A j \in Window : j # i => cs[j] = m.c[j] /\ vs[j] = m.visible[j]
  BY <1>1, <1>2, MemoryTyped
<1> HIDE DEF cs, vs
<1>b. /\ n \in AnyMemory /\ n.order = order /\ n.c = cs /\ n.visible = vs /\ n.sel = m.sel
      /\ n.lt = m.lt /\ n.showbar = m.showbar
  BY <1>1, <1>3, <1>4, <1>a DEF AnyMemory, cs, vs
<1>6. /\ n \in AnyMemory /\ n.order = order /\ n.c[i] = c /\ n.visible[i] = TRUE /\ n.sel = m.sel
      /\ n.lt = m.lt /\ n.showbar = m.showbar
      /\ \A j \in Window : j # i => n.c[j] = m.c[j] /\ n.visible[j] = m.visible[j]
  BY <1>a, <1>b
<1>7. n \in Memories
  <2>1. ASSUME NEW j \in Window
        PROVE  n.c[j] \in ClientsOf(j)
    <3>1. CASE j = i
      BY <1>2, <1>6, <3>1
    <3>2. CASE j # i
      BY <1>1, <1>6, <3>2, ClientTyped
    <3> QED BY <3>1, <3>2
  <2> QED BY <1>6, <2>1 DEF Memories
<1>8. OnList(n) = OnList(m) \cup {i}
  BY <1>3, <1>6 DEF OnList
<1>9. i \in Shown(n) /\ Shown(m) \subseteq Shown(n)
  <2>1. OnList(m) \subseteq Window
    BY <1>1, MemoryTyped
  <2> QED BY <1>6, <1>8, <2>1 DEF Shown
<1>10. ASSUME NEW j \in Window, j \notin OnList(n)
       PROVE  ~n.c[j].full
  BY <1>6, <1>8, <1>10 DEF MemoryOK, Sound
<1>11. Sound(n)
  BY <1>1, <1>3, <1>6, <1>7, <1>9, <1>10 DEF Sound
<1>12. ~m.c[i].full
  BY DEF MemoryOK, Sound
<1> QED BY <1>2, <1>5, <1>6, <1>8, <1>9, <1>11, <1>12

LEMMA ManagedIs ==
  ASSUME NEW m, NEW i \in Window, NEW size
  PROVE  \/ /\ m.sel # NoWindow
            /\ Managed(m, i, size) =
                 Arrange([SetFullscreen(Prepended(m, i, size), m.sel, FALSE) EXCEPT !.sel = i])
         \/ Managed(m, i, size) = Arrange([Prepended(m, i, size) EXCEPT !.sel = i])
BY DEF Managed, Prepended, NewClient

LEMMA ChooseSel ==
  ASSUME NEW m, Sound(m), NEW i \in Shown(m), NEW n, n = [m EXCEPT !.sel = i]
  PROVE  MemoryOK(n) /\ n.c = m.c /\ n.order = m.order /\ n.visible = m.visible
         /\ n.lt = m.lt /\ n.showbar = m.showbar
<1>1. i \in Window /\ m \in AnyMemory
  BY MemoryTyped DEF Sound, Shown
<1>2. /\ n \in AnyMemory /\ n.c = m.c /\ n.order = m.order /\ n.visible = m.visible /\ n.sel = i
      /\ n.lt = m.lt /\ n.showbar = m.showbar
  BY <1>1 DEF AnyMemory
<1>3. n \in Memories
  BY <1>2 DEF Memories, Sound
<1>4. OnList(n) = OnList(m) /\ Shown(n) = Shown(m)
  BY <1>2 DEF OnList, Shown
<1>5. n.sel # NoWindow
  BY <1>1, <1>2, WindowAssumption
<1> QED BY <1>2, <1>3, <1>4, <1>5 DEF MemoryOK, Sound

LEMMA ManagedCalm ==
  ASSUME NEW m, MemoryOK(m), NEW i \in Window, i \notin OnList(m),
         NEW size \in Positive \X Positive
  PROVE  StepGood(m, Arrange([Prepended(m, i, size) EXCEPT !.sel = i]), {})
<1> DEFINE k == Prepended(m, i, size)
           l == [k EXCEPT !.sel = i]
<1>1. /\ Sound(k) /\ i \in Shown(k) /\ ~m.c[i].full /\ ~k.c[i].full
      /\ \A j \in Window : j # i => k.c[j] = m.c[j]
  BY PrependedIs
<1> HIDE DEF k
<1>2. MemoryOK(l) /\ l.c = k.c
  BY <1>1, ChooseSel
<1> HIDE DEF l
<1>3. ASSUME NEW j \in Window
      PROVE  /\ l.c[j].full => m.c[j].full /\ Saved(l.c[j]) = Saved(m.c[j])
             /\ m.c[j].full /\ j \in OnList(l) => l.c[j].full
  <2>1. CASE j = i
    BY <1>1, <1>2, <2>1
  <2>2. CASE j # i
    BY <1>1, <1>2, <2>2
  <2> QED BY <2>1, <2>2
<1>4. Calm(m, l)
  BY <1>3 DEF Calm
<1>5. StepGood(m, Arrange(l), {})
  BY <1>2, <1>4, CalmArrange
<1> QED BY <1>5 DEF l, k

\* The selected window leaves fullscreen, and is arranged once more.
LEMMA ManagedEnds ==
  ASSUME NEW m, MemoryOK(m), NEW i \in Window, i \notin OnList(m),
         NEW size \in Positive \X Positive, m.sel # NoWindow
  PROVE  StepGood(m, Arrange([LeaveFullscreen(Prepended(m, i, size), m.sel) EXCEPT !.sel = i]), {})
<1> DEFINE s == m.sel
           k == Prepended(m, i, size)
           l == LeaveFullscreen(k, s)
           r == [l EXCEPT !.sel = i]
           n == Arrange(r)
           h == Home(m, n, s)
<1>1. s \in Shown(m) /\ s \in OnList(m) /\ s \in Window /\ s # i
  BY SelectedIs
<1>2. /\ Sound(k) /\ OnList(k) = OnList(m) \cup {i} /\ i \in Shown(k) /\ k.sel = s
      /\ k.order # m.order /\ ~m.c[i].full /\ ~k.c[i].full
      /\ k.lt = m.lt /\ k.showbar = m.showbar
      /\ \A j \in Window : j # i => k.c[j] = m.c[j] /\ k.visible[j] = m.visible[j]
  BY PrependedIs
<1> HIDE DEF k, s
<1>3. /\ MemoryOK(l) /\ SameScreen(k, l) /\ Others(k, l, s)
      /\ ~l.c[s].full /\ l.c[s].floating = k.c[s].oldstate /\ Landed(k, l, s)
  <2>1. s \in OnList(k) /\ s # NoWindow
    BY <1>1, <1>2, WindowAssumption
  <2>2. MemoryOK(k)
    BY <1>2, <2>1 DEF MemoryOK
  <2> QED BY <2>1, <2>2, LeaveFullscreenDoes
<1> HIDE DEF l
<1>4. i \in Shown(l) /\ Sound(l)
  BY <1>2, <1>3 DEF SameScreen, Shown, OnList, MemoryOK
<1>5. /\ MemoryOK(r) /\ r.c = l.c /\ r.order = l.order /\ r.visible = l.visible
      /\ r.lt = l.lt /\ r.showbar = l.showbar
  BY <1>3, <1>4, ChooseSel
<1> HIDE DEF r
<1>6. MemoryOK(n) /\ Keeps(r, n, OnList(r)) /\ n \in Memories /\ r \in Memories /\ l \in Memories
  BY <1>3, <1>5, ArrangeKeeps, KeepsOK DEF MemoryOK, Sound
<1>7. n.order # m.order
  BY <1>2, <1>3, <1>5, <1>6 DEF Keeps, SameScreen
<1>8. ASSUME NEW j \in Window, j # s
      PROVE  Carries(m, n, j) /\ Returns(m, n, j)
  <2>1. Elsewhere(k.c[j], l.c[j])
    BY <1>3, <1>8 DEF Others
  <2>2. Elsewhere(l.c[j], n.c[j])
    BY <1>5, <1>6 DEF Keeps
  <2>3. CASE j = i
    <3>1. ~n.c[j].full /\ ~m.c[j].full
      BY <1>2, <2>1, <2>2, <2>3 DEF Elsewhere
    <3> QED BY <3>1 DEF Carries, Returns
  <2>4. CASE j # i
    <3>1. k.c[j] = m.c[j]
      BY <1>2, <2>4
    <3> QED BY <2>1, <2>2, <3>1 DEF Elsewhere, Carries, Returns, Saved
  <2> QED BY <2>3, <2>4
<1>9. ~n.c[s].full /\ n.c[s].floating = k.c[s].oldstate /\ n.c[s].bw = l.c[s].bw
      /\ k.c[s] = m.c[s]
  BY <1>1, <1>2, <1>3, <1>5, <1>6 DEF Keeps, Elsewhere
<1>10. ASSUME m.c[s].oldstate
       PROVE  /\ n.c[s].pos = Arrived(m, n, s).c[s].pos
              /\ n.c[s].size = Arrived(m, n, s).c[s].size
  <2> DEFINE t == Show(h, s)
  <2>1. m \in Memories
    BY DEF MemoryOK, Sound
  <2>2. /\ h \in Memories /\ SameSetting(n, h, s)
        /\ h.c[s].pos = m.c[s].oldpos /\ h.c[s].size = m.c[s].oldsize
    BY <1>1, <1>6, <2>1, HomeIs
  <2>3. Arrived(m, n, s) = Show(t, s)
    BY <1>7 DEF Arrived
  <2> HIDE DEF h
  <2>4. Keeps(h, t, {s}) /\ t \in Memories
    BY <1>1, <2>2, ShowKeeps DEF Keeps
  <2>5. SameSetting(l, h, s)
    <3>1. Elsewhere(l.c[s], n.c[s]) /\ SameScreen(r, n)
      BY <1>1, <1>5, <1>6 DEF Keeps
    <3> QED BY <1>5, <2>2, <3>1 DEF SameSetting, Elsewhere, SameScreen
  <2>6. l.c[s].pos = t.c[s].pos /\ l.c[s].size = t.c[s].size
    BY <1>3, <1>9, <1>10, <2>2, <2>5 DEF Landed
  <2>7. Alike(r, t, s)
    <3>1. SameScreen(h, t) /\ Elsewhere(h.c[s], t.c[s])
      BY <1>1, <2>4 DEF Keeps
    <3> QED BY <1>5, <2>5, <2>6, <3>1 DEF Alike, SameSetting, SameScreen, Elsewhere
  <2>8. /\ Show(t, s).c[s].pos = Show(r, s).c[s].pos
        /\ Show(t, s).c[s].size = Show(r, s).c[s].size
    BY <1>1, <1>6, <2>4, <2>7, ShowAlike
  <2>9. n.c[s].pos = Show(r, s).c[s].pos /\ n.c[s].size = Show(r, s).c[s].size
    <3>1. s \in OnList(r) /\ NoRepeats(r.order) /\ r.c[s].floating
      BY <1>1, <1>2, <1>3, <1>5, <1>9, <1>10 DEF SameScreen, OnList, MemoryOK, Sound
    <3> QED BY <1>6, <3>1, ArrangeKeeps
  <2> QED BY <2>3, <2>8, <2>9
<1>11. Carries(m, n, s) /\ Returns(m, n, s)
  BY <1>9, <1>10 DEF Carries, Returns
<1>13. Settled(n)
  BY <1>5, ArrangeSettles DEF MemoryOK, Sound
<1> HIDE DEF n
<1>12. StepGood(m, n, {})
  BY <1>6, <1>8, <1>11, <1>13 DEF StepGood, StepOK, Settles
<1> QED BY <1>12 DEF n, r, l, k, s

LEMMA ManagedOK ==
  ASSUME NEW m, MemoryOK(m), NEW i \in Window, i \notin OnList(m),
         NEW size \in Positive \X Positive
  PROVE  StepGood(m, Managed(m, i, size), {})
<1> DEFINE k == Prepended(m, i, size)
<1>1. CASE Managed(m, i, size) = Arrange([k EXCEPT !.sel = i])
  BY <1>1, ManagedCalm
<1>2. CASE m.sel # NoWindow /\ Managed(m, i, size) = Arrange([SetFullscreen(k, m.sel, FALSE) EXCEPT !.sel = i])
  <2>1. SetFullscreen(k, m.sel, FALSE) = k \/ SetFullscreen(k, m.sel, FALSE) = LeaveFullscreen(k, m.sel)
    BY DEF SetFullscreen
  <2>2. CASE SetFullscreen(k, m.sel, FALSE) = k
    BY <1>2, <2>2, ManagedCalm
  <2>3. CASE SetFullscreen(k, m.sel, FALSE) = LeaveFullscreen(k, m.sel)
    BY <1>2, <2>3, ManagedEnds
  <2> QED BY <2>1, <2>2, <2>3
<1> QED BY <1>1, <1>2, ManagedIs

LEMMA ManagedLists ==
  ASSUME NEW m, MemoryOK(m), NEW i \in Window, i \notin OnList(m),
         NEW size \in Positive \X Positive
  PROVE  OnList(Managed(m, i, size)) = OnList(m) \cup {i}
<1> DEFINE k == Prepended(m, i, size)
<1>1. Sound(k) /\ OnList(k) = OnList(m) \cup {i} /\ i \in Shown(k) /\ k.sel = m.sel
  BY PrependedIs
<1> HIDE DEF k
<1>2. ASSUME NEW l, Sound(l), OnList(l) = OnList(k), i \in Shown(l)
      PROVE  OnList(Arrange([l EXCEPT !.sel = i])) = OnList(k)
  <2> DEFINE r == [l EXCEPT !.sel = i]
  <2>1. MemoryOK(r) /\ r.order = l.order
    BY <1>2, ChooseSel
  <2> HIDE DEF r
  <2>2. Keeps(r, Arrange(r), OnList(r))
    BY <2>1, ArrangeKeeps DEF MemoryOK, Sound
  <2>3. OnList(Arrange(r)) = OnList(k)
    BY <1>2, <2>1, <2>2 DEF Keeps, SameScreen, OnList
  <2> QED BY <2>3 DEF r
<1>3. OnList(Arrange([k EXCEPT !.sel = i])) = OnList(k)
  BY <1>1, <1>2
<1>4. ASSUME m.sel # NoWindow
      PROVE  OnList(Arrange([SetFullscreen(k, m.sel, FALSE) EXCEPT !.sel = i])) = OnList(k)
  <2> DEFINE l == LeaveFullscreen(k, m.sel)
  <2>1. m.sel \in OnList(k) /\ MemoryOK(k)
    BY <1>1, <1>4, SelectedIs DEF MemoryOK
  <2>2. Sound(l) /\ SameScreen(k, l)
    BY <2>1, LeaveFullscreenDoes DEF MemoryOK
  <2> HIDE DEF l
  <2>3. OnList(l) = OnList(k) /\ i \in Shown(l)
    BY <1>1, <2>2 DEF SameScreen, OnList, Shown
  <2>4. OnList(Arrange([l EXCEPT !.sel = i])) = OnList(k)
    BY <1>2, <2>2, <2>3
  <2>5. SetFullscreen(k, m.sel, FALSE) = k \/ SetFullscreen(k, m.sel, FALSE) = l
    BY DEF SetFullscreen, l
  <2> QED BY <1>3, <2>4, <2>5
<1> QED BY <1>1, <1>3, <1>4, ManagedIs DEF k

-----------------------------------------------------------------------------
(* The windows dwm begins with come one after the other.                    *)

LEMMA NoWindowsOK ==
  ASSUME NEW s \in Starts
  PROVE  MemoryOK(NoWindows(s)) /\ OnList(NoWindows(s)) = {}
<1> DEFINE m == NoWindows(s)
<1>1. ASSUME NEW i \in Window
      PROVE  NoClient \in ClientsOf(i) /\ NoClient \in AnyClient /\ ~NoClient.full
  BY NoClientTyped DEF ClientsOf
<1>2. s.lt \in Layouts /\ s.nmaster \in Nat /\ DefaultGaps \in AllGaps /\ <<>> \in Seq(Window)
  BY StartsAssumption, SizesAssumption
<1>3. /\ m \in AnyMemory /\ m.order = <<>> /\ m.sel = NoWindow
      /\ \A i \in Window : m.c[i] = NoClient
  BY <1>1, <1>2 DEF NoWindows, AnyMemory
<1> HIDE DEF m
<1>4. m \in Memories
  BY <1>1, <1>3 DEF Memories
<1>5. OnList(m) = {} /\ NoRepeats(m.order)
  BY <1>3 DEF OnList, Members, NoRepeats
<1>6. MemoryOK(m)
  BY <1>1, <1>3, <1>4, <1>5 DEF MemoryOK, Sound, Shown
<1> QED BY <1>5, <1>6 DEF m

ManagedRun(f, s) ==
  f = [k \in 0..Len(s.windows) |->
         IF k = 0 THEN NoWindows(s) ELSE Managed(f[k - 1], s.windows[k], s.size)]

\* The windows a start has by the time it has k.
Come(s, k) == {s.windows[j] : j \in 1..k}

LEMMA ComesAnother ==
  ASSUME NEW s \in Starts, NEW k \in 1..Len(s.windows), NEW m, MemoryOK(m),
         OnList(m) = Come(s, k - 1)
  PROVE  /\ MemoryOK(Managed(m, s.windows[k], s.size))
         /\ OnList(Managed(m, s.windows[k], s.size)) = Come(s, k)
<1> DEFINE i == s.windows[k]
<1>1. /\ s.windows \in Seq(Window) /\ NoRepeats(s.windows) /\ s.size \in Positive \X Positive
      /\ Len(s.windows) \in Nat
  BY StartsAssumption
<1>2. i \in Window
  BY <1>1
<1>3. i \notin OnList(m)
  <2>1. SUFFICES ASSUME NEW j \in 1..(k - 1), i = s.windows[j]
                 PROVE  FALSE
    BY DEF Come
  <2>2. j \in 1..Len(s.windows) /\ k \in 1..Len(s.windows) /\ j # k
    BY <1>1
  <2> QED BY <1>1, <2>1, <2>2 DEF NoRepeats
<1>4. Come(s, k) = Come(s, k - 1) \cup {i}
  <2>1. 1..k = (1..(k - 1)) \cup {k}
    BY <1>1
  <2> QED BY <2>1 DEF Come
<1> HIDE DEF i
<1>5. StepGood(m, Managed(m, i, s.size), {}) /\ OnList(Managed(m, i, s.size)) = OnList(m) \cup {i}
  BY <1>1, <1>2, <1>3, ManagedOK, ManagedLists
<1> QED BY <1>4, <1>5 DEF StepGood, StepOK, i

LEMMA ManagedRunExists ==
  ASSUME NEW s \in Starts
  PROVE  \E f : ManagedRun(f, s)
<1> DEFINE n == Len(s.windows)
           V == {m \in Memories : MemoryOK(m)}
           Step(m, k) == IF OnList(m) = Come(s, k - 1) THEN Managed(m, s.windows[k], s.size) ELSE m
           step == [p \in V \X (1..n) |-> Step(p[1], p[2])]
           base == NoWindows(s)
<1>1. n \in Nat
  BY StartsAssumption
<1>2. base \in V /\ OnList(base) = {}
  BY NoWindowsOK DEF MemoryOK, Sound
<1>3. ASSUME NEW m \in V, NEW k \in 1..n
      PROVE  Step(m, k) \in V
  <2>1. CASE OnList(m) = Come(s, k - 1)
    <3>1. MemoryOK(Managed(m, s.windows[k], s.size))
      BY <2>1, ComesAnother
    <3> QED BY <2>1, <3>1 DEF MemoryOK, Sound
  <2>2. CASE OnList(m) # Come(s, k - 1)
    BY <2>2
  <2> QED BY <2>1, <2>2
<1> HIDE DEF Step
<1>4. step \in [V \X (1..n) -> V]
  BY <1>3
<1>5. \A m \in V, k \in 1..n : step[<<m, k>>] = Step(m, k)
  OBVIOUS
<1> HIDE DEF step, V, n, base
<1>6. PICK f : Runs(f, V, base, n, step)
  BY <1>1, <1>2, <1>4, LoopExists
<1>7. f \in [0..n -> V] /\ f[0] = base /\ \A k \in 1..n : f[k] = step[<<f[k - 1], k>>]
  BY <1>6 DEF Runs
<1>8. ASSUME NEW k \in 1..n
      PROVE  f[k] = Step(f[k - 1], k)
  <2>1. k - 1 \in 0..n /\ f[k - 1] \in V
    BY <1>1, <1>7
  <2> QED BY <1>5, <1>7, <2>1
<1>9. \A k \in 0..n : OnList(f[k]) = Come(s, k)
  <2> DEFINE S == {k \in Nat : k <= n => OnList(f[k]) = Come(s, k)}
  <2>1. 0 \in S
    BY <1>2, <1>7 DEF Come
  <2>2. ASSUME NEW k \in Nat, k \in S
        PROVE  k + 1 \in S
    <3>1. SUFFICES ASSUME k + 1 <= n
                   PROVE  OnList(f[k + 1]) = Come(s, k + 1)
      OBVIOUS
    <3>2. k \in 0..n /\ k + 1 \in 1..n /\ (k + 1) - 1 = k /\ k <= n
      BY <1>1, <3>1
    <3>3. f[k] \in V /\ MemoryOK(f[k])
      BY <1>7, <3>2 DEF V
    <3>4. OnList(f[k]) = Come(s, k)
      BY <2>2, <3>2
    <3>5. f[k + 1] = Managed(f[k], s.windows[k + 1], s.size)
      BY <1>8, <3>2, <3>4 DEF Step
    <3> QED BY <3>2, <3>3, <3>4, <3>5, ComesAnother DEF n
  <2>3. Nat \subseteq S
    <3> HIDE DEF S
    <3> QED BY <2>1, <2>2, NatInductionOnSets
  <2> QED BY <1>1, <2>3
<1>10. ASSUME NEW k \in 0..n
       PROVE  f[k] = IF k = 0 THEN NoWindows(s) ELSE Managed(f[k - 1], s.windows[k], s.size)
  <2>1. CASE k = 0
    BY <1>7, <2>1 DEF base
  <2>2. CASE k # 0
    <3>1. k \in 1..n /\ k - 1 \in 0..n /\ k - 1 \in Nat
      BY <1>1, <2>2
    <3>2. OnList(f[k - 1]) = Come(s, k - 1)
      BY <1>9, <3>1
    <3> QED BY <1>8, <2>2, <3>1, <3>2 DEF Step
  <2> QED BY <2>1, <2>2
<1>11. ManagedRun(f, s)
  <2>1. f = [k \in 0..n |-> f[k]]
    BY <1>7
  <2> QED BY <1>10, <2>1 DEF ManagedRun, n
<1> QED BY <1>11

LEMMA AllManagedOK ==
  ASSUME NEW s \in Starts
  PROVE  MemoryOK(AllManaged(s))
<1> DEFINE n == Len(s.windows)
           after == CHOOSE f : ManagedRun(f, s)
           S == {k \in Nat : k <= n => MemoryOK(after[k]) /\ OnList(after[k]) = Come(s, k)}
<1>1. n \in Nat
  BY StartsAssumption
<1>2. ManagedRun(after, s)
  BY ManagedRunExists
<1>3. AllManaged(s) = after[n]
  BY DEF AllManaged, ManagedRun
<1> HIDE DEF after
<1>4. after[0] = NoWindows(s)
  BY <1>1, <1>2 DEF ManagedRun
<1>5. ASSUME NEW k \in 1..n
      PROVE  after[k] = Managed(after[k - 1], s.windows[k], s.size)
  <2>1. k \in 0..n /\ k # 0
    BY <1>1
  <2> QED BY <1>2, <2>1 DEF ManagedRun
<1>6. 0 \in S
  BY <1>4, NoWindowsOK DEF Come
<1>7. ASSUME NEW k \in Nat, k \in S
      PROVE  k + 1 \in S
  <2>1. SUFFICES ASSUME k + 1 <= n
                 PROVE  MemoryOK(after[k + 1]) /\ OnList(after[k + 1]) = Come(s, k + 1)
    OBVIOUS
  <2>2. k + 1 \in 1..n /\ (k + 1) - 1 = k /\ k <= n
    BY <1>1, <2>1
  <2>3. MemoryOK(after[k]) /\ OnList(after[k]) = Come(s, k)
    BY <1>7, <2>2
  <2>4. after[k + 1] = Managed(after[k], s.windows[k + 1], s.size)
    BY <1>5, <2>2
  <2> QED BY <2>2, <2>3, <2>4, ComesAnother
<1>8. Nat \subseteq S
  <2> HIDE DEF S
  <2> QED BY <1>6, <1>7, NatInductionOnSets
<1> QED BY <1>1, <1>3, <1>8

LEMMA InitIInv ==
  ASSUME Init
  PROVE  IInv
<1>1. PICK s \in Starts : g = AllManaged(s) /\ ops = MaxOps - s.left
  BY DEF Init
<1>2. MemoryOK(g)
  BY <1>1, AllManagedOK
<1>3. ops \in 0..MaxOps
  BY <1>1, StartsAssumption
<1>4. before = [i \in Window |-> <<>>]
  BY DEF Init
<1> QED BY <1>2, <1>3, <1>4 DEF IInv

-----------------------------------------------------------------------------
(* Every step keeps the invariant, and a window that leaves fullscreen      *)
(* returns.                                                                 *)

LEMMA KeysKeep ==
  ASSUME IInv, Keys
  PROVE  StepDone
<1>1. MemoryOK(g) /\ g \in Memories
  BY DEF IInv, MemoryOK, Sound
<1>2. ASSUME NEW n, StepGood(g, n, {}), Becomes(n)
      PROVE  StepDone
  BY <1>2, EndsDone DEF Becomes
<1>3. ASSUME NEW l \in Layouts, KeySetLayout(l)
      PROVE  StepDone
  BY <1>1, <1>2, <1>3, SettingSteps DEF KeySetLayout
<1>4. ASSUME NEW by \in {-1, 1}, KeySetMfact(by)
      PROVE  StepDone
  <2>1. [g EXCEPT !.mfact = @ + by] = [g EXCEPT !.mfact = g.mfact + by]
    OBVIOUS
  <2> QED BY <1>1, <1>2, <1>4, <2>1, SettingSteps DEF KeySetMfact
<1>5. ASSUME NEW by \in {-1, 1}, KeyIncNmaster(by)
      PROVE  StepDone
  <2>1. [g EXCEPT !.nmaster = Larger(@ + by, 0)] = [g EXCEPT !.nmaster = Larger(g.nmaster + by, 0)]
    OBVIOUS
  <2>2. Larger(g.nmaster + by, 0) \in Nat
    BY <1>1, MemoryTyped DEF Larger
  <2> QED BY <1>1, <1>2, <1>5, <2>1, <2>2, SettingSteps DEF KeyIncNmaster
<1>6. ASSUME NEW gaps \in [oh : Int, ov : Int, ih : Int, iv : Int], Becomes(SetGaps(g, gaps))
      PROVE  StepDone
  <2>1. NoLess(gaps) \in AllGaps
    BY DEF NoLess, Larger, AllGaps
  <2> QED BY <1>1, <1>2, <1>6, <2>1, SettingSteps DEF SetGaps
<1>7. ASSUME NEW by \in {-3, 3}, KeyIncrGaps(by)
      PROVE  StepDone
  <2> DEFINE gaps == [oh |-> g.gaps.oh + by, ov |-> g.gaps.ov + by,
                      ih |-> g.gaps.ih + by, iv |-> g.gaps.iv + by]
  <2>1. gaps \in [oh : Int, ov : Int, ih : Int, iv : Int]
    BY <1>1, MemoryTyped DEF AllGaps
  <2>2. Becomes(SetGaps(g, gaps))
    BY <1>7 DEF KeyIncrGaps
  <2> HIDE DEF gaps
  <2> QED BY <1>6, <2>1, <2>2
<1>8. CASE KeyDefaultGaps
  <2>1. DefaultGaps \in [oh : Int, ov : Int, ih : Int, iv : Int]
    BY SizesAssumption DEF AllGaps
  <2> QED BY <1>6, <1>8, <2>1 DEF KeyDefaultGaps
<1>9. CASE KeyToggleGaps
  <2>1. [g EXCEPT !.enablegaps = ~@] = [g EXCEPT !.enablegaps = ~g.enablegaps]
    OBVIOUS
  <2>2. (~g.enablegaps) \in BOOLEAN
    OBVIOUS
  <2> QED BY <1>1, <1>2, <1>9, <2>1, <2>2, SettingSteps DEF KeyToggleGaps
<1>10. CASE KeyToggleSmartGaps
  <2>1. [g EXCEPT !.smartgaps = ~@] = [g EXCEPT !.smartgaps = ~g.smartgaps]
    OBVIOUS
  <2>2. (~g.smartgaps) \in BOOLEAN
    OBVIOUS
  <2> QED BY <1>1, <1>2, <1>10, <2>1, <2>2, SettingSteps DEF KeyToggleSmartGaps
<1>11. CASE KeyToggleBar
  <2>1. [g EXCEPT !.showbar = ~@] = [g EXCEPT !.showbar = ~g.showbar]
    OBVIOUS
  <2>2. (~g.showbar) \in BOOLEAN
    OBVIOUS
  <2> QED BY <1>1, <1>2, <1>11, <2>1, <2>2, SettingSteps DEF KeyToggleBar
<1>12. CASE KeyToggleFloating
  <2>1. g.sel \in OnList(g)
    BY <1>1, <1>12, SelectedIs DEF KeyToggleFloating
  <2>2. StepGood(g, ToggleFloating(g, g.sel), {})
    BY <1>1, <2>1, ToggleFloatingCalm, CalmStep DEF StepGood, Settles
  <2> QED BY <1>2, <1>12, <2>2 DEF KeyToggleFloating
<1>13. CASE KeyToggleFullscreen
  <2>1. g.sel \in OnList(g)
    BY <1>1, <1>13, SelectedIs DEF KeyToggleFullscreen
  <2>2. StepGood(g, SetFullscreen(g, g.sel, ~g.c[g.sel].full), {})
    BY <1>1, <2>1, SetFullscreenOK
  <2> QED BY <1>2, <1>13, <2>2 DEF KeyToggleFullscreen
<1> QED BY <1>3, <1>4, <1>5, <1>7, <1>8, <1>9, <1>10, <1>11, <1>12, <1>13 DEF Keys

LEMMA RequestsKeep ==
  ASSUME IInv, Requests
  PROVE  StepDone
<1>1. MemoryOK(g) /\ g \in Memories
  BY DEF IInv, MemoryOK, Sound
<1>2. ASSUME NEW n, StepGood(g, n, {}), Becomes(n)
      PROVE  StepDone
  BY <1>2, EndsDone DEF Becomes
<1>3. ASSUME NEW i \in Window, NEW size \in Sizes, MapWindow(i, size)
      PROVE  StepDone
  <2>1. size \in Positive \X Positive
    BY RequestsAssumption
  <2>2. StepGood(g, Managed(g, i, size), {})
    BY <1>1, <1>3, <2>1, ManagedOK DEF MapWindow
  <2> QED BY <1>2, <1>3, <2>2 DEF MapWindow
<1>4. ASSUME NEW i \in Window, UnmapWindow(i) \/ ShowOrHide(i)
      PROVE  StepDone
  BY <1>4, UnmapWindowOK, ShowOrHideOK
<1>5. ASSUME NEW i \in Window, NEW bw \in Borders, RequestBorder(i, bw)
      PROVE  StepDone
  <2>1. StepOK(g, [g EXCEPT !.c[i].bw = bw], {})
    BY <1>1, <1>5, RequestBorderOK, RequestsAssumption DEF RequestBorder
  <2>2. IInv' /\ ReturnsNow
    BY <1>5, <2>1, EndsKeeps DEF RequestBorder, Becomes
  <2> QED BY <1>5, <2>2 DEF StepDone, SettledNow
<1>6. ASSUME NEW i \in Window, NEW on \in BOOLEAN, RequestFullscreen(i, on)
      PROVE  StepDone
  <2>1. StepGood(g, SetFullscreen(g, i, on), {})
    BY <1>1, <1>6, SetFullscreenOK DEF RequestFullscreen
  <2> QED BY <1>2, <1>6, <2>1 DEF RequestFullscreen
<1>7. ASSUME NEW i \in Window, NEW place \in Places, NEW size \in Sizes,
             RequestGeometry(i, place, size)
      PROVE  StepDone
  <2> DEFINE pos == Pair(LAMBDA d : MonPos[d] + place[d])
             n == [g EXCEPT !.c[i] = Requested(@, pos, size)]
  <2>1. size \in Positive \X Positive /\ place \in Int \X Int
    BY RequestsAssumption
  <2>2. pos \in Int \X Int
    BY <2>1, SizesAssumption DEF Pair
  <2>3. i \in OnList(g) /\ Ends(n, {i}) /\ (g.c[i].floating \/ ~Arranging(g))
    BY <1>7 DEF RequestGeometry
  <2> HIDE DEF pos
  <2>4. StepGood(g, n, {i})
    BY <1>1, <2>1, <2>2, <2>3, RequestGeometryOK
  <2> HIDE DEF n
  <2> QED BY <2>3, <2>4, EndsDone
<1>8. ASSUME NEW i \in Window, TransientFor(i)
      PROVE  StepDone
  BY <1>1, <1>2, <1>8, TransientForOK DEF TransientFor
<1>9. ASSUME NEW i \in Window, NEW full \in BOOLEAN, NEW dialog \in BOOLEAN,
             UpdateWindowType(i, full, dialog)
      PROVE  StepDone
  <2>1. i \in OnList(g) /\ Becomes(UpdatedType(i, full, dialog))
    BY <1>9 DEF UpdateWindowType
  <2>2. CASE dialog = TRUE
    <3>1. StepOK(g, UpdatedType(i, full, dialog), {})
      BY <1>1, <2>1, <2>2, UpdatedTypeOK
    <3>2. IInv' /\ ReturnsNow
      BY <2>1, <3>1, EndsKeeps DEF Becomes
    <3> QED BY <1>9, <2>2, <3>2 DEF StepDone, SettledNow
  <2>3. CASE dialog = FALSE
    <3>1. StepGood(g, UpdatedType(i, full, dialog), {})
      BY <1>1, <2>1, <2>3, UpdatedTypeOK
    <3> QED BY <1>2, <2>1, <3>1
  <2> QED BY <2>2, <2>3
<1> QED BY <1>3, <1>4, <1>5, <1>6, <1>7, <1>8, <1>9 DEF Requests

LEMMA NextKeeps ==
  ASSUME IInv, [Next]_vars
  PROVE  IInv' /\ ((ReturnsNow /\ SettledNow) \/ UNCHANGED vars)
<1>1. CASE Keys
  BY <1>1, KeysKeep DEF StepDone
<1>2. CASE Requests
  BY <1>2, RequestsKeep DEF StepDone
<1>3. CASE Mouse
  BY <1>3, MoveMouseOK, ResizeMouseOK DEF Mouse, StepDone
<1>4. CASE UNCHANGED vars
  BY <1>4 DEF vars, IInv, MemoryOK, Sound, OnList, Shown
<1> QED BY <1>1, <1>2, <1>3, <1>4 DEF Next

LEMMA InvariantHolds == Spec => []IInv
<1>1. Init => IInv
  BY InitIInv
<1>2. IInv /\ [Next]_vars => IInv'
  BY NextKeeps
<1> QED BY <1>1, <1>2, PTL DEF Spec

\* The memory stays what dwm can hold: what is selected is shown, every window has a
\* position and a size that its hints and the bar allow, and one that is fullscreen
\* floats (resize, applysizehints, setfullscreen, manage, unmanage).
THEOREM TypeCorrect == Spec => []TypeOK
<1>1. IInv => TypeOK
  <2>1. SUFFICES ASSUME IInv
                 PROVE  TypeOK
    OBVIOUS
  <2>2. MemoryOK(g) /\ g \in Memories /\ ops \in 0..MaxOps
    BY <2>1 DEF IInv, MemoryOK, Sound
  <2>3. /\ g.lt \in Layouts /\ g.nmaster \in Nat /\ g.mfact \in 1..19
        /\ g.sel \in Shown(g) \cup {NoWindow}
    BY <2>2, MemoryTyped DEF MemoryOK, Sound
  <2>4. ASSUME NEW i \in Window
        PROVE  /\ g.c[i].pos \in Int \X Int /\ g.c[i].size \in SizesOf(i)
               /\ g.c[i].full => g.c[i].floating
    BY <2>2, ClientTyped
  <2> QED BY <2>2, <2>3, <2>4 DEF TypeOK
<1> QED BY <1>1, InvariantHolds, PTL

\* A floating window that leaves fullscreen is where it would be had it never been
\* fullscreen, whatever was done meanwhile to the others, the layout and the bar
\* (setfullscreen, showhide, manage).
THEOREM FullscreenAlwaysReturns == Spec => FullscreenReturns
<1>1. IInv /\ [Next]_vars => [ReturnsNow]_vars
  BY NextKeeps
<1>2. FullscreenReturns <=> [][ReturnsNow]_vars
  BY DEF FullscreenReturns, ReturnsNow
<1>3. Spec => [][ReturnsNow]_vars
  BY <1>1, InvariantHolds, PTL DEF Spec
<1> QED BY <1>2, <1>3

\* Whatever changes the layout, its numbers, the gaps, the bar or the windows on the
\* screen arranges, or does not touch the tiled windows: arranging again changes no size
\* and moves none but to an edge (arrange, showhide, the layouts, applysizehints).  The
\* three steps that leave it to the next arrange are those of TiledSettled: a border
\* (configurerequest), a window that goes to fullscreen, one that turns into a dialog
\* (updatewindowtype).
THEOREM TiledAlwaysSettled == Spec => TiledSettled
<1>1. IInv /\ [Next]_vars => [SettledNow]_vars
  BY NextKeeps
<1>2. TiledSettled <=> [][SettledNow]_vars
  BY DEF TiledSettled, SettledNow
<1>3. Spec => [][SettledNow]_vars
  BY <1>1, InvariantHolds, PTL DEF Spec
<1> QED BY <1>2, <1>3
=============================================================================
