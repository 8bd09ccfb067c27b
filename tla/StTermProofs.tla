---------------------------- MODULE StTermProofs ----------------------------
(***************************************************************************)
(* Proofs about st's terminal, for any size of the window, any history, any *)
(* text and any number of steps.                                            *)
(*                                                                         *)
(* Sound says what a terminal may hold, OriginHolds where its cursor may be.*)
(* Every operator of StScreen is put into one of a few relations between    *)
(* the terminal s before and z after it:                                    *)
(*   Marks    the selection and the rows to draw change, no cell            *)
(*   Writes   cells may change, the cursor and the history do not           *)
(*   Edits    size, other screen, saved cursors, region and modes stay      *)
(*   Prints   an edit after which lines may have left at the top            *)
(*   Settles  cursor and region change, no cell, no history                 *)
(*   Keeps    size, region and history stay                                 *)
(* What became of the history is said of its Tape, the texts of its lines   *)
(* from the oldest on followed by those of the scrolling region:            *)
(*   Moves    it went along by k places, and the window with it             *)
(*   Fed      by one at most, no row written                                *)
(*   Pushed   by m at most, no row above the cursor's written               *)
(*   Records  the history holds what was k places further on before         *)
(*   Scrolls  what a step does to the history that prints nothing           *)
(*   Outputs  what one does that prints                                     *)
(* TermInv adds to Sound and OriginHolds what an episode on the alternate   *)
(* screen has to remember; one lemma per group of actions shows that a step *)
(* keeps it.  The theorems are at the end.                                  *)
(***************************************************************************)
EXTENDS StTerm, Induction, SequenceTheorems

CharactersOf(s) == s.chars \cup {s.text[i] : i \in DOMAIN s.text}

\* What may stand in a cell: a character of a session or one st writes itself.
Characters ==
  {" ", "", "?", "E"} \cup UNION {CharactersOf(s) : s \in Sessions}
Glyphs == [u : Characters, wrap : BOOLEAN, part : {"one", "wide", "dummy"}]
LinesOf(cols) == [0..(cols - 1) -> Glyphs]
Screens(rows, cols) == [0..(rows - 1) -> LinesOf(cols)]
Cursors == [x : Int, y : Int, wrapnext : BOOLEAN, origin : BOOLEAN]
Points == Int \X Nat
Selections == [mode : {"idle", "empty", "ready"}, type : {"regular", "rectangular"},
               snap : 0..2, alt : BOOLEAN,
               ob : Points, oe : Points, nb : Points, ne : Points]
Modes == {"wrap", "insert", "echo", "crlf", "altscreen"}

Terminals(rows, cols, max) ==
  [row : {rows}, col : {cols}, maxcol : {max},
   line : Screens(rows, max), alt : Screens(rows, max),
   hist : [0..(HISTSIZE - 1) -> LinesOf(max)], histi : 0..(HISTSIZE - 1), scr : 0..HISTSIZE,
   dirty : SUBSET (0..(rows - 1)), c : Cursors, saved : [BOOLEAN -> Cursors],
   top : 0..(rows - 1), bot : 0..(rows - 1), mode : SUBSET Modes, tabs : SUBSET (0..(max - 1)),
   lastc : Characters, sel : Selections]

\* A memory of the right types: rows, columns and cursor are where they can be.
Sound(s) ==
  /\ s.row \in Nat \ {0} /\ s.col \in Nat \ {0} /\ s.maxcol \in Nat /\ s.col <= s.maxcol
  /\ s \in Terminals(s.row, s.col, s.maxcol)
  /\ s.top <= s.bot
  /\ s.c.x \in ColsOf(s) /\ s.c.y \in RowsOf(s)

OriginHolds(s) == s.c.origin => s.c.y \in s.top..s.bot

\* What a sequence makes of s that is about text and cursor: the size, the other
\* screen, the saved cursors, region and modes are the same.
Edits(s, z) ==
  /\ Sound(z)
  /\ z.row = s.row /\ z.col = s.col /\ z.maxcol = s.maxcol
  /\ z.alt = s.alt /\ z.saved = s.saved /\ z.top = s.top /\ z.bot = s.bot /\ z.mode = s.mode
  /\ z.c.origin = s.c.origin
  /\ OriginHolds(s) => OriginHolds(z)

SamePast(s, z) == z.hist = s.hist /\ z.histi = s.histi /\ z.scr = s.scr
SameCursor(s, z) == z.c = s.c

LEMMA EditsTwice ==
  ASSUME NEW s, NEW z, NEW w, Edits(s, z), Edits(z, w)
  PROVE  Edits(s, w)
  BY DEF Edits

LEMMA EditsNothing ==
  ASSUME NEW s, Sound(s)
  PROVE  Edits(s, s) /\ SamePast(s, s) /\ SameCursor(s, s)
  BY DEF Edits, SamePast, SameCursor

-----------------------------------------------------------------------------
(* Numbers.                                                                 *)

LEMMA LimitIs ==
  ASSUME NEW v \in Int, NEW lo \in Int, NEW hi \in Int, lo <= hi
  PROVE  /\ Limit(v, lo, hi) \in lo..hi
         /\ v \in lo..hi => Limit(v, lo, hi) = v
  BY DEF Limit

LEMMA MinIs ==
  ASSUME NEW lo \in Int, NEW S \in SUBSET Int, S # {}, \A x \in S : lo <= x
  PROVE  Min(S) \in S /\ \A x \in S : Min(S) <= x
  <1> DEFINE D == {n \in Nat : lo + n \in S}
  <1>1. D \subseteq Nat /\ D # {}
    <2>1. PICK x \in S : TRUE
      OBVIOUS
    <2>2. x - lo \in Nat /\ lo + (x - lo) = x
      BY <2>1
    <2> QED
      BY <2>1, <2>2
  <1>2. PICK n \in D : \A k \in D : n <= k
    <2> HIDE DEF D
    <2> QED
      BY <1>1, LeastNumber
  <1>3. \A x \in S : lo + n <= x
    <2> SUFFICES ASSUME NEW x \in S
                 PROVE  lo + n <= x
      OBVIOUS
    <2>1. x - lo \in Nat /\ lo + (x - lo) = x
      OBVIOUS
    <2> QED
      BY <1>2, <2>1
  <1> QED
    BY <1>2, <1>3 DEF Min

LEMMA MaxIs ==
  ASSUME NEW hi \in Int, NEW S \in SUBSET Int, S # {}, \A x \in S : x <= hi
  PROVE  Max(S) \in S /\ \A x \in S : x <= Max(S)
  <1> DEFINE D == {n \in Nat : hi - n \in S}
  <1>1. D \subseteq Nat /\ D # {}
    <2>1. PICK x \in S : TRUE
      OBVIOUS
    <2>2. hi - x \in Nat /\ hi - (hi - x) = x
      BY <2>1
    <2> QED
      BY <2>1, <2>2
  <1>2. PICK n \in D : \A k \in D : n <= k
    <2> HIDE DEF D
    <2> QED
      BY <1>1, LeastNumber
  <1>3. \A x \in S : hi - n >= x
    <2> SUFFICES ASSUME NEW x \in S
                 PROVE  hi - n >= x
      OBVIOUS
    <2>1. hi - x \in Nat /\ hi - (hi - x) = x
      OBVIOUS
    <2> QED
      BY <1>2, <2>1
  <1> QED
    BY <1>2, <1>3 DEF Max

LEMMA TwoInts ==
  ASSUME NEW a \in Int, NEW b \in Int
  PROVE  /\ Min({a, b}) = IF a <= b THEN a ELSE b
         /\ Max({a, b}) = IF a <= b THEN b ELSE a
  <1>1. {a, b} \in SUBSET Int /\ {a, b} # {}
    OBVIOUS
  <1>2. Min({a, b}) \in {a, b} /\ \A x \in {a, b} : Min({a, b}) <= x
    <2>1. PICK lo \in Int : lo <= a /\ lo <= b
      <3>1. a <= b \/ b <= a
        OBVIOUS
      <3> QED
        BY <3>1
    <2>2. \A x \in {a, b} : lo <= x
      BY <2>1
    <2> QED
      BY <1>1, <2>2, MinIs
  <1>3. Max({a, b}) \in {a, b} /\ \A x \in {a, b} : x <= Max({a, b})
    <2>1. PICK hi \in Int : a <= hi /\ b <= hi
      <3>1. a <= b \/ b <= a
        OBVIOUS
      <3> QED
        BY <3>1
    <2>2. \A x \in {a, b} : x <= hi
      BY <2>1
    <2> QED
      BY <1>1, <2>2, MaxIs
  <1> QED
    BY <1>2, <1>3

-----------------------------------------------------------------------------
(* Parts of the memory.                                                     *)

LEMMA SoundIs ==
  ASSUME NEW s, Sound(s)
  PROVE  /\ s.row \in Nat /\ s.col \in Nat /\ s.maxcol \in Nat
         /\ 1 <= s.row /\ 1 <= s.col /\ s.col <= s.maxcol
         /\ s.line \in Screens(s.row, s.maxcol) /\ s.alt \in Screens(s.row, s.maxcol)
         /\ s.hist \in [0..(HISTSIZE - 1) -> LinesOf(s.maxcol)]
         /\ s.histi \in 0..(HISTSIZE - 1) /\ s.scr \in 0..HISTSIZE
         /\ s.dirty \in SUBSET (0..(s.row - 1))
         /\ s.c \in Cursors /\ s.c.x \in 0..(s.col - 1) /\ s.c.y \in 0..(s.row - 1)
         /\ s.saved \in [BOOLEAN -> Cursors]
         /\ s.top \in 0..(s.row - 1) /\ s.bot \in 0..(s.row - 1) /\ s.top <= s.bot
         /\ s.mode \in SUBSET Modes /\ s.tabs \in SUBSET (0..(s.maxcol - 1))
         /\ s.lastc \in Characters /\ s.sel \in Selections
  BY DEF Sound, Terminals, ColsOf, RowsOf

LEMMA LineSet ==
  ASSUME NEW s, Sound(s), NEW l \in Screens(s.row, s.maxcol), NEW d \in SUBSET (0..(s.row - 1))
  PROVE  LET z == [s EXCEPT !.line = l, !.dirty = d]
         IN Edits(s, z) /\ SamePast(s, z) /\ SameCursor(s, z) /\ z.sel = s.sel
  BY DEF Sound, Terminals, Edits, SamePast, SameCursor, OriginHolds, ColsOf, RowsOf

LEMMA DirtySet ==
  ASSUME NEW s, Sound(s), NEW d \in SUBSET (0..(s.row - 1))
  PROVE  LET z == [s EXCEPT !.dirty = d]
         IN Edits(s, z) /\ SamePast(s, z) /\ SameCursor(s, z) /\ z.sel = s.sel /\ z.line = s.line
  BY DEF Sound, Terminals, Edits, SamePast, SameCursor, OriginHolds, ColsOf, RowsOf

LEMMA SelSet ==
  ASSUME NEW s, Sound(s), NEW e \in Selections
  PROVE  LET z == [s EXCEPT !.sel = e]
         IN Edits(s, z) /\ SamePast(s, z) /\ SameCursor(s, z) /\ z.sel = e
            /\ z.line = s.line /\ z.dirty = s.dirty
  BY DEF Sound, Terminals, Edits, SamePast, SameCursor, OriginHolds, ColsOf, RowsOf

LEMMA LastSet ==
  ASSUME NEW s, Sound(s), NEW u \in Characters
  PROVE  LET z == [s EXCEPT !.lastc = u]
         IN Edits(s, z) /\ SamePast(s, z) /\ SameCursor(s, z) /\ z.lastc = u
            /\ z.line = s.line /\ z.sel = s.sel /\ z.dirty = s.dirty
  BY DEF Sound, Terminals, Edits, SamePast, SameCursor, OriginHolds, ColsOf, RowsOf

LEMMA CursorSet ==
  ASSUME NEW s, Sound(s), NEW c \in Cursors, c.x \in 0..(s.col - 1), c.y \in 0..(s.row - 1)
  PROVE  LET z == [s EXCEPT !.c = c]
         IN Sound(z) /\ SamePast(s, z)
            /\ z = [s EXCEPT !.c = c] /\ z.c = c
            /\ (c.origin = s.c.origin /\ (c.origin => c.y \in s.top..s.bot \/ c.y = s.c.y) => Edits(s, z))
  BY DEF Sound, Terminals, Edits, SamePast, OriginHolds, ColsOf, RowsOf

LEMMA LimitsIn ==
  ASSUME NEW s, Sound(s), NEW v \in Int
  PROVE  /\ Limit(v, 0, s.row - 1) \in 0..(s.row - 1)
         /\ Limit(v, 0, s.col - 1) \in 0..(s.col - 1)
         /\ Limit(v, 0, s.maxcol - 1) \in 0..(s.maxcol - 1)
         /\ Limit(v, s.top, s.bot) \in s.top..s.bot
         /\ v \in s.top..s.bot => Limit(v, s.top, s.bot) = v
         /\ v \in 0..(s.row - 1) => Limit(v, 0, s.row - 1) = v
         /\ v \in 0..(s.col - 1) => Limit(v, 0, s.col - 1) = v
  <1> DEFINE r == s.row - 1
             c == s.col - 1
             m == s.maxcol - 1
             a == s.top
             b == s.bot
  <1>1. /\ r \in Int /\ c \in Int /\ m \in Int /\ a \in Int /\ b \in Int
        /\ 0 <= r /\ 0 <= c /\ 0 <= m /\ a <= b /\ 0 \in Int
    BY SoundIs
  <1> HIDE DEF r, c, m, a, b
  <1>2. Limit(v, 0, r) \in 0..r /\ (v \in 0..r => Limit(v, 0, r) = v)
    BY <1>1, LimitIs
  <1>3. Limit(v, 0, c) \in 0..c /\ (v \in 0..c => Limit(v, 0, c) = v)
    BY <1>1, LimitIs
  <1>4. Limit(v, 0, m) \in 0..m /\ Limit(v, a, b) \in a..b /\ (v \in a..b => Limit(v, a, b) = v)
    BY <1>1, LimitIs
  <1> QED
    BY <1>2, <1>3, <1>4 DEF r, c, m, a, b

-----------------------------------------------------------------------------
(* Marks and the selection.                                                 *)

\* An operation on marks and selection only.
Marks(s, z) == Edits(s, z) /\ SamePast(s, z) /\ SameCursor(s, z) /\ z.line = s.line

LEMMA MarksTwice ==
  ASSUME NEW s, NEW z, NEW w, Marks(s, z), Marks(z, w)
  PROVE  Marks(s, w)
  BY EditsTwice DEF Marks, SamePast, SameCursor

LEMMA DirtMarks ==
  ASSUME NEW s, Sound(s), NEW a \in Int, NEW b \in Int
  PROVE  Marks(s, TSetDirt(s, a, b)) /\ TSetDirt(s, a, b).sel = s.sel
  <1> DEFINE d == s.dirty \cup (Limit(a, 0, s.row - 1)..Limit(b, 0, s.row - 1))
  <1>1. TSetDirt(s, a, b) = [s EXCEPT !.dirty = d]
    BY DEF TSetDirt
  <1>2. s.row \in Nat /\ 1 <= s.row /\ s.dirty \in SUBSET (0..(s.row - 1))
    BY SoundIs
  <1>3. Limit(a, 0, s.row - 1) \in 0..(s.row - 1) /\ Limit(b, 0, s.row - 1) \in 0..(s.row - 1)
    BY LimitsIn
  <1>4. d \in SUBSET (0..(s.row - 1))
    BY <1>2, <1>3
  <1> HIDE DEF d
  <1> QED
    BY <1>1, <1>4, DirtySet DEF Marks

LEMMA FullDirtMarks ==
  ASSUME NEW s, Sound(s)
  PROVE  Marks(s, TFullDirt(s)) /\ TFullDirt(s).sel = s.sel
  <1>1. s.row - 1 \in Int
    BY SoundIs
  <1> QED
    BY <1>1, DirtMarks DEF TFullDirt

LEMMA NoSelIs == NoSel \in Selections
  BY DEF NoSel, Selections, Points

LEMMA SelClearMarks ==
  ASSUME NEW s, Sound(s)
  PROVE  Marks(s, SelClear(s))
  <1>1. CASE s.sel.ob[1] = -1
    BY <1>1, EditsNothing DEF SelClear, Marks
  <1>2. CASE s.sel.ob[1] # -1
    <2> DEFINE z == TSetDirt(s, s.sel.nb[2], s.sel.ne[2])
    <2>1. s.sel.nb[2] \in Int /\ s.sel.ne[2] \in Int
      BY SoundIs DEF Selections, Points
    <2>2. Marks(s, z)
      BY <2>1, DirtMarks
    <2>3. SelClear(s) = [z EXCEPT !.sel = NoSel]
      BY <1>2 DEF SelClear
    <2> HIDE DEF z
    <2>4. Marks(z, [z EXCEPT !.sel = NoSel])
      BY <2>2, SelSet, NoSelIs DEF Marks, Edits
    <2> QED
      BY <2>2, <2>3, <2>4, MarksTwice
  <1> QED
    BY <1>1, <1>2

LEMMA LineLenIs ==
  ASSUME NEW s, Sound(s), NEW y
  PROVE  TLineLen(s, y) \in 0..s.col
  <1> DEFINE E == {x + 1 : x \in {c \in ColsOf(s) : TLINE(s, y)[c].u # " "}}
  <1>1. s.col \in Nat /\ 1 <= s.col
    BY SoundIs
  <1>2. E \subseteq 0..s.col
    <2> SUFFICES ASSUME NEW x \in 0..(s.col - 1)
                 PROVE  x + 1 \in 0..s.col
      BY DEF ColsOf
    <2> QED
      BY <1>1
  <1>3. TLineLen(s, y) = s.col \/ TLineLen(s, y) = Max({0} \cup E)
    BY DEF TLineLen
  <1> HIDE DEF E
  <1> DEFINE F == {0} \cup E
  <1>4. F \in SUBSET Int /\ F # {} /\ F \subseteq 0..s.col
    BY <1>1, <1>2
  <1>5. \A x \in F : x <= s.col
    BY <1>1, <1>4
  <1> HIDE DEF F
  <1>6. Max(F) \in F
    <2>1. PICK hi \in Int : hi = s.col
      BY <1>1
    <2>2. \A x \in F : x <= hi
      BY <1>5, <2>1
    <2> QED
      BY <1>4, <2>2, MaxIs
  <1> QED
    BY <1>1, <1>3, <1>4, <1>6 DEF F

\* selsnap: the end of a word or line is a place in the window.
LEMMA WordStepIs ==
  ASSUME NEW s, Sound(s), NEW p \in Points, NEW d \in {-1, 1}
  PROVE  WordStep(s, p, d) \in Points
  <1> DEFINE q == Beside(s, p, d)
  <1>1. s.col \in Nat /\ 1 <= s.col /\ p[1] \in Int /\ p[2] \in Nat
    BY SoundIs DEF Points
  <1>2. q[1] \in Int /\ q = <<q[1], q[2]>>
    <2>1. (p[1] + d + s.col) % s.col \in Int /\ p[1] + d \in Int
      BY <1>1
    <2> QED
      BY <2>1 DEF Beside
  <1> HIDE DEF q
  <1>3. WordGoesOn(s, p, q, d) => q[2] \in Nat
    BY <1>1 DEF WordGoesOn, RowsOf
  <1> QED
    BY <1>2, <1>3 DEF WordStep, Points, q

LEMMA SnapWordIs ==
  ASSUME NEW s, Sound(s), NEW p \in Points, NEW d \in {-1, 1}
  PROVE  SnapWord(s, p, d) \in Points
  <1> DEFINE step == [v \in Points \X Nat |-> WordStep(s, v[1], d)]
             walked(f) == f = [k \in Nat |-> IF k = 0 THEN p ELSE WordStep(s, f[k - 1], d)]
             walk == CHOOSE f : walked(f)
  <1>1. IsStep(step, Points)
    BY WordStepIs DEF IsStep
  <1>2. PICK f \in [Nat -> Points] : f[0] = p /\ \A n \in Nat : f[n + 1] = step[<<f[n], n + 1>>]
    BY <1>1, NatRecursion
  <1>3. walked(f)
    <2>1. ASSUME NEW k \in Nat, k # 0
          PROVE  f[k] = WordStep(s, f[k - 1], d)
      <3>1. k - 1 \in Nat /\ (k - 1) + 1 = k
        BY <2>1
      <3>2. f[k] = step[<<f[k - 1], k>>] /\ f[k - 1] \in Points
        BY <1>2, <3>1
      <3> QED
        BY <3>2
    <2> QED
      BY <1>2, <2>1
  <1>4. walked(walk)
    BY <1>3
  <1> HIDE DEF walk
  <1>5. walk[0] = p /\ \A k \in Nat : walk[k + 1] = WordStep(s, walk[k], d)
    <2>1. ASSUME NEW k \in Nat
          PROVE  walk[k + 1] = WordStep(s, walk[k], d)
      <3>1. k + 1 \in Nat /\ k + 1 # 0 /\ (k + 1) - 1 = k
        OBVIOUS
      <3> QED
        BY <1>4, <3>1
    <2> QED
      BY <1>4, <2>1
  <1> DEFINE I == {k \in Nat : walk[k] \in Points}
  <1>6. 0 \in I /\ \A k \in Nat : k \in I => k + 1 \in I
    BY <1>5, WordStepIs
  <1>7. Nat \subseteq I
    <2> HIDE DEF I
    <2> QED
      BY <1>6, NatInductionOnSets
  <1>8. s.col * (s.row + 1) \in Nat
    BY SoundIs
  <1>9. SnapWord(s, p, d) = walk[s.col * (s.row + 1)]
    BY DEF SnapWord, walk
  <1> QED
    BY <1>7, <1>8, <1>9

LEMMA RowRunsIn ==
  ASSUME NEW s, Sound(s), NEW y \in Nat
  PROVE  FirstRow(s, y) \in Nat /\ LastRow(s, y) \in Nat
  <1>1. FirstRow(s, y) \in Nat
    <2> DEFINE F == {r \in 0..y : \A k \in (r + 1)..y : TLINE(s, k - 1)[s.col - 1].wrap}
    <2>1. y \in F /\ F \in SUBSET Nat
      OBVIOUS
    <2>2. FirstRow(s, y) = Min(F)
      BY DEF FirstRow
    <2> HIDE DEF F
    <2>3. F \in SUBSET Int /\ F # {} /\ 0 \in Int /\ \A x \in F : 0 <= x
      BY <2>1
    <2>4. Min(F) \in F
      BY <2>3, MinIs
    <2> QED
      BY <2>1, <2>2, <2>4
  <1>2. LastRow(s, y) \in Nat
    <2> DEFINE last == s.row - 1
               top == Max({y, last})
               F == {r \in y..top : \A k \in y..(r - 1) : TLINE(s, k)[s.col - 1].wrap}
    <2>1. last \in Int /\ y \in Int
      BY SoundIs
    <2> HIDE DEF last
    <2>2. top \in Int /\ y <= top
      BY <2>1, TwoInts
    <2> HIDE DEF top
    <2>3. y \in F /\ F \in SUBSET Nat /\ F \in SUBSET Int
      BY <2>2
    <2>4. \A x \in F : x <= top
      BY <2>2
    <2>5. LastRow(s, y) = Max(F)
      BY DEF LastRow, top, last
    <2> HIDE DEF F
    <2>6. Max(F) \in F
      BY <2>2, <2>3, <2>4, MaxIs
    <2> QED
      BY <2>3, <2>5, <2>6
  <1> QED
    BY <1>1, <1>2

LEMMA SelSnapIs ==
  ASSUME NEW s, Sound(s), NEW p \in Points, NEW d \in {-1, 1}
  PROVE  SelSnap(s, p, d) \in Points
  <1>1. s.col - 1 \in Int /\ p[2] \in Nat
    BY SoundIs DEF Points
  <1>2. SnapWord(s, p, d) \in Points
    BY SnapWordIs
  <1>3. FirstRow(s, p[2]) \in Nat /\ LastRow(s, p[2]) \in Nat
    BY <1>1, RowRunsIn
  <1>4. <<0, FirstRow(s, p[2])>> \in Points /\ <<s.col - 1, LastRow(s, p[2])>> \in Points
    BY <1>1, <1>3 DEF Points
  <1> QED
    BY <1>2, <1>4 DEF SelSnap

LEMMA CornersMark ==
  ASSUME NEW s, Sound(s), NEW nb \in Points, NEW ne \in Points
  PROVE  \E e \in Selections : /\ WithCorners(s, nb, ne) = [s EXCEPT !.sel = e]
                               /\ e.ob = s.sel.ob /\ e.oe = s.sel.oe
  <1> DEFINE breaks == s.sel.type # "rectangular"
             b == IF breaks THEN <<Min({nb[1], TLineLen(s, nb[2])}), nb[2]>> ELSE nb
             f == IF breaks /\ TLineLen(s, ne[2]) <= ne[1] THEN <<s.col - 1, ne[2]>> ELSE ne
             e == [s.sel EXCEPT !.nb = b, !.ne = f]
  <1>1. s.col - 1 \in Int /\ nb[1] \in Int /\ nb[2] \in Nat /\ ne[2] \in Nat /\ s.sel \in Selections
    BY SoundIs DEF Points
  <1>2. TLineLen(s, nb[2]) \in Int
    BY LineLenIs
  <1>3. Min({nb[1], TLineLen(s, nb[2])}) \in Int
    BY <1>1, <1>2, TwoInts
  <1>4. b \in Points /\ f \in Points
    BY <1>1, <1>3 DEF Points
  <1>5. WithCorners(s, nb, ne) = [s EXCEPT !.sel = e]
    BY DEF WithCorners
  <1> HIDE DEF b, f
  <1>6. e \in Selections /\ e.ob = s.sel.ob /\ e.oe = s.sel.oe
    BY <1>1, <1>4 DEF Selections
  <1> QED
    BY <1>5, <1>6

LEMMA NormalizeMarks ==
  ASSUME NEW s, Sound(s)
  PROVE  /\ \E e \in Selections : SelNormalize(s) = [s EXCEPT !.sel = e]
         /\ Marks(s, SelNormalize(s))
  <1> DEFINE o == s.sel.ob
             p == s.sel.oe
             lines == s.sel.type = "regular" /\ o[2] # p[2]
             down == o[2] < p[2]
             b == <<IF lines THEN (IF down THEN o[1] ELSE p[1]) ELSE Min({o[1], p[1]}),
                    Min({o[2], p[2]})>>
             f == <<IF lines THEN (IF down THEN p[1] ELSE o[1]) ELSE Max({o[1], p[1]}),
                    Max({o[2], p[2]})>>
  <1>1. o[1] \in Int /\ o[2] \in Nat /\ p[1] \in Int /\ p[2] \in Nat
    BY SoundIs DEF Selections, Points
  <1>2. SelNormalize(s) = WithCorners(s, SelSnap(s, b, -1), SelSnap(s, f, 1))
    BY DEF SelNormalize
  <1> HIDE DEF o, p
  <1>3. Min({o[1], p[1]}) \in Int /\ Max({o[1], p[1]}) \in Int
    BY <1>1, TwoInts
  <1>4. Min({o[2], p[2]}) \in Nat /\ Max({o[2], p[2]}) \in Nat
    <2>1. o[2] \in Int /\ p[2] \in Int
      BY <1>1
    <2> QED
      BY <1>1, <2>1, TwoInts
  <1>5. b \in Points /\ f \in Points
    BY <1>1, <1>3, <1>4 DEF Points
  <1> HIDE DEF b, f
  <1>6. SelSnap(s, b, -1) \in Points /\ SelSnap(s, f, 1) \in Points
    BY <1>5, SelSnapIs
  <1>7. PICK e \in Selections : SelNormalize(s) = [s EXCEPT !.sel = e]
    BY <1>2, <1>6, CornersMark
  <1> QED
    BY <1>7, SelSet DEF Marks

LEMMA SelDirtMarks ==
  ASSUME NEW s, Sound(s), NEW e \in Selections
  PROVE  Marks(s, SelDirt(s, e))
  <1> DEFINE a == Min({s.sel.nb[2], e.nb[2]})
             b == Max({s.sel.ne[2], e.ne[2]})
  <1>1. s.sel.nb[2] \in Int /\ e.nb[2] \in Int /\ s.sel.ne[2] \in Int /\ e.ne[2] \in Int
    BY SoundIs DEF Selections, Points
  <1>2. a \in Int /\ b \in Int
    BY <1>1, TwoInts
  <1> HIDE DEF a, b
  <1> QED
    BY <1>2, DirtMarks DEF SelDirt, a, b

LEMMA SelStartMarks ==
  ASSUME NEW s, Sound(s), NEW x \in ColsOf(s), NEW y \in RowsOf(s), NEW snap \in 0..2
  PROVE  Marks(s, SelStart(s, x, y, snap))
  <1> DEFINE e == [NoSel EXCEPT !.mode = "empty", !.alt = Alt(s), !.snap = snap,
                                !.ob = <<x, y>>, !.oe = <<x, y>>]
             z == SelClear(s)
             w == [z EXCEPT !.sel = e]
             v == SelNormalize(w)
             u == IF snap # 0 THEN [v EXCEPT !.sel.mode = "ready"] ELSE v
  <1>1. x \in Int /\ y \in Nat /\ Alt(s) \in BOOLEAN
    BY SoundIs DEF ColsOf, RowsOf, Alt
  <1>2. e \in Selections
    <2>1. <<x, y>> \in Points
      BY <1>1 DEF Points
    <2> QED
      BY <1>1, <2>1, NoSelIs DEF Selections
  <1>3. SelStart(s, x, y, snap) = SelDirt(u, v.sel)
    BY DEF SelStart, SelStarted
  <1> HIDE DEF e
  <1>4. Marks(s, z)
    BY SelClearMarks
  <1> HIDE DEF z
  <1>5. Marks(z, w)
    BY <1>2, <1>4, SelSet DEF Marks, Edits
  <1> HIDE DEF w
  <1>6. Marks(w, v)
    BY <1>5, NormalizeMarks DEF Marks, Edits
  <1> HIDE DEF v
  <1>7. Sound(v) /\ v.sel \in Selections
    BY <1>6, SoundIs DEF Marks, Edits
  <1>8. Marks(v, u)
    <2>1. [v.sel EXCEPT !.mode = "ready"] \in Selections
      BY <1>7 DEF Selections
    <2>2. u = v \/ u = [v EXCEPT !.sel = [v.sel EXCEPT !.mode = "ready"]]
      OBVIOUS
    <2> QED
      BY <1>7, <2>1, <2>2, SelSet, EditsNothing DEF Marks
  <1> HIDE DEF u
  <1>9. Marks(u, SelDirt(u, v.sel))
    BY <1>7, <1>8, SelDirtMarks DEF Marks, Edits
  <1> QED
    BY <1>3, <1>4, <1>5, <1>6, <1>8, <1>9, MarksTwice

LEMMA SelExtendMarks ==
  ASSUME NEW s, Sound(s), NEW x \in ColsOf(s), NEW y \in RowsOf(s),
         NEW type \in {"regular", "rectangular"}, NEW done \in BOOLEAN
  PROVE  Marks(s, SelExtend(s, x, y, type, done))
  <1>1. CASE s.sel.mode = "idle"
    BY <1>1, EditsNothing DEF SelExtend, Marks
  <1>2. CASE s.sel.mode # "idle" /\ done /\ s.sel.mode = "empty"
    BY <1>2, SelClearMarks DEF SelExtend
  <1>3. CASE s.sel.mode # "idle" /\ ~(done /\ s.sel.mode = "empty")
    <2> DEFINE w == [s EXCEPT !.sel.oe = <<x, y>>]
               v == SelNormalize(w)
               e == [v.sel EXCEPT !.type = type, !.mode = IF done THEN "idle" ELSE "ready"]
               u == [v EXCEPT !.sel = e]
    <2>1. SelExtend(s, x, y, type, done) = SelExtended(v, s.sel, type, done)
      BY <1>3 DEF SelExtend
    <2>2. SelExtended(v, s.sel, type, done) \in {SelDirt(u, s.sel), u}
      BY DEF SelExtended
    <2>3. <<x, y>> \in Points /\ s.sel \in Selections
      BY SoundIs DEF ColsOf, RowsOf, Points
    <2>4. [s.sel EXCEPT !.oe = <<x, y>>] \in Selections
      BY <2>3 DEF Selections
    <2>5. Marks(s, w)
      BY <2>4, SelSet DEF Marks
    <2> HIDE DEF w
    <2>6. Marks(w, v)
      BY <2>5, NormalizeMarks DEF Marks, Edits
    <2> HIDE DEF v
    <2>7. Sound(v) /\ v.sel \in Selections
      BY <2>6, SoundIs DEF Marks, Edits
    <2>8. e \in Selections
      BY <2>7 DEF Selections
    <2> HIDE DEF e
    <2>9. Marks(v, u)
      BY <2>7, <2>8, SelSet DEF Marks
    <2> HIDE DEF u
    <2>10. Marks(u, SelDirt(u, s.sel))
      BY <2>3, <2>9, SelDirtMarks DEF Marks, Edits
    <2> QED
      BY <2>1, <2>2, <2>5, <2>6, <2>9, <2>10, MarksTwice
  <1> QED
    BY <1>1, <1>2, <1>3

LEMMA SelScrollMarks ==
  ASSUME NEW s, Sound(s), NEW orig \in Int, NEW n \in Int
  PROVE  Marks(s, SelScroll(s, orig, n))
  <1> DEFINE ob == s.sel.ob[2] + n
             oe == s.sel.oe[2] + n
             e == [s.sel EXCEPT !.ob[2] = ob, !.oe[2] = oe]
             w == [s EXCEPT !.sel = e]
  <1>1. CASE s.sel.ob[1] = -1
    <2>1. SelScroll(s, orig, n) = s
      BY <1>1 DEF SelScroll
    <2> QED
      BY <2>1, EditsNothing DEF Marks
  <1>2. CASE s.sel.ob[1] # -1
    <2>1. s.sel \in Selections /\ s.top \in Nat /\ s.bot \in Nat
      BY SoundIs
    <2>2. /\ s.sel.ob \in Points /\ s.sel.oe \in Points
          /\ e.ob = <<s.sel.ob[1], ob>> /\ e.oe = <<s.sel.oe[1], oe>>
          /\ e.nb = s.sel.nb /\ e.ne = s.sel.ne
      BY <2>1 DEF Selections, Points
    <2>3. [s EXCEPT !.sel.ob[2] = ob, !.sel.oe[2] = oe] = w
      OBVIOUS
    <2>4. SelScroll(s, orig, n) \in
            {s, SelClear(s), IF {ob, oe} \subseteq s.top..s.bot THEN SelNormalize(w) ELSE SelClear(w)}
      BY <1>2, <2>3 DEF SelScroll
    <2>5. SelClear(w) = SelClear(s)
      <3>1. w.sel.ob[1] # -1 /\ w.sel.nb = s.sel.nb /\ w.sel.ne = s.sel.ne
        <4> HIDE DEF e
        <4>1. w.sel = e
          BY DEF Sound, Terminals
        <4> QED
          BY <1>2, <2>2, <4>1
      <3>2. w.row = s.row /\ w.dirty = s.dirty
        BY DEF Sound, Terminals
      <3> HIDE DEF e
      <3> DEFINE d == s.dirty \cup (Limit(s.sel.nb[2], 0, s.row - 1)..Limit(s.sel.ne[2], 0, s.row - 1))
      <3>3. SelClear(w) = [[w EXCEPT !.dirty = d] EXCEPT !.sel = NoSel]
        BY <3>1, <3>2 DEF SelClear, TSetDirt
      <3>4. SelClear(s) = [[s EXCEPT !.dirty = d] EXCEPT !.sel = NoSel]
        BY <1>2 DEF SelClear, TSetDirt
      <3> HIDE DEF d
      <3>5. [[w EXCEPT !.dirty = d] EXCEPT !.sel = NoSel] = [[s EXCEPT !.dirty = d] EXCEPT !.sel = NoSel]
        BY DEF Sound, Terminals
      <3> QED
        BY <3>3, <3>4, <3>5
    <2>6. CASE {ob, oe} \subseteq s.top..s.bot
      <3>1. <<s.sel.ob[1], ob>> \in Points /\ <<s.sel.oe[1], oe>> \in Points
        BY <2>1, <2>2, <2>6 DEF Points
      <3>2. e = [s.sel EXCEPT !.ob = <<s.sel.ob[1], ob>>, !.oe = <<s.sel.oe[1], oe>>]
        BY <2>1, <2>2 DEF Selections, Points
      <3>3. e \in Selections
        BY <2>1, <3>1, <3>2 DEF Selections
      <3> HIDE DEF e
      <3>4. Marks(s, w)
        BY <3>3, SelSet DEF Marks
      <3>5. Marks(w, SelNormalize(w))
        BY <3>4, NormalizeMarks DEF Marks, Edits
      <3> QED
        BY <2>4, <2>6, <3>4, <3>5, MarksTwice, SelClearMarks, EditsNothing DEF Marks
    <2>7. CASE ~({ob, oe} \subseteq s.top..s.bot)
      BY <2>4, <2>5, <2>7, SelClearMarks, EditsNothing DEF Marks
    <2> QED
      BY <2>6, <2>7
  <1> QED
    BY <1>1, <1>2

-----------------------------------------------------------------------------
(* The cursor.                                                              *)

\* tmoveto moves the cursor, into the region in origin mode.
LEMMA MoveEdits ==
  ASSUME NEW s, Sound(s), NEW x \in Int, NEW y \in Int
  PROVE  LET z == TMoveTo(s, x, y)
         IN /\ Edits(s, z) /\ SamePast(s, z) /\ z.line = s.line
            /\ OriginHolds(z)
            /\ z.c = [s.c EXCEPT !.wrapnext = FALSE, !.x = z.c.x, !.y = z.c.y]
            /\ x \in ColsOf(s) => z.c.x = x
            /\ y \in RowsOf(s) /\ ~s.c.origin => z.c.y = y
            /\ y \in s.top..s.bot => z.c.y = y
            /\ z = [s EXCEPT !.c = z.c]
  <1> DEFINE lo == IF s.c.origin THEN s.top ELSE 0
             hi == IF s.c.origin THEN s.bot ELSE s.row - 1
             i == Limit(x, 0, s.col - 1)
             j == Limit(y, lo, hi)
             c == [s.c EXCEPT !.wrapnext = FALSE, !.x = i, !.y = j]
  <1>1. TMoveTo(s, x, y) = [s EXCEPT !.c = c]
    BY DEF TMoveTo
  <1>2. /\ s.c \in Cursors /\ s.top \in 0..(s.row - 1) /\ s.bot \in 0..(s.row - 1)
        /\ s.row \in Nat /\ s.col \in Nat
    BY SoundIs
  <1>3. i \in 0..(s.col - 1) /\ (x \in 0..(s.col - 1) => i = x)
    BY LimitsIn
  <1>4. /\ j \in 0..(s.row - 1) /\ (s.c.origin => j \in s.top..s.bot)
        /\ (y \in 0..(s.row - 1) /\ ~s.c.origin => j = y)
        /\ (y \in s.top..s.bot => j = y)
    BY <1>2, LimitsIn
  <1> HIDE DEF i, j
  <1>5. c \in Cursors /\ c.x = i /\ c.y = j /\ c.origin = s.c.origin
    <2>1. i \in Int /\ j \in Int
      BY <1>2, <1>3, <1>4
    <2> QED
      BY <1>2, <2>1 DEF Cursors
  <1>6. c = [s.c EXCEPT !.wrapnext = FALSE, !.x = c.x, !.y = c.y]
    BY <1>5
  <1> HIDE DEF c
  <1> DEFINE z == [s EXCEPT !.c = c]
  <1>7. Sound(z) /\ SamePast(s, z) /\ z.c = c /\ Edits(s, z)
    BY <1>3, <1>4, <1>5, CursorSet
  <1>8. OriginHolds(z) /\ z.line = s.line
    BY <1>4, <1>5, <1>7 DEF OriginHolds, Edits, Sound, Terminals
  <1> QED
    BY <1>1, <1>3, <1>4, <1>5, <1>6, <1>7, <1>8 DEF ColsOf, RowsOf

LEMMA WrapNextEdits ==
  ASSUME NEW s, Sound(s), NEW b \in BOOLEAN
  PROVE  LET z == [s EXCEPT !.c.wrapnext = b]
         IN Edits(s, z) /\ SamePast(s, z) /\ z.line = s.line /\ z.c.y = s.c.y
  <1>1. s.c \in Cursors /\ s.c.x \in 0..(s.col - 1) /\ s.c.y \in 0..(s.row - 1)
    BY SoundIs
  <1> DEFINE c == [s.c EXCEPT !.wrapnext = b]
  <1>2. c \in Cursors /\ c.x = s.c.x /\ c.y = s.c.y /\ c.origin = s.c.origin
    BY <1>1 DEF Cursors
  <1>3. [s EXCEPT !.c.wrapnext = b] = [s EXCEPT !.c = c]
    OBVIOUS
  <1> HIDE DEF c
  <1>4. [s EXCEPT !.c = c].line = s.line /\ [s EXCEPT !.c = c].c = c
    BY DEF Sound, Terminals
  <1> QED
    BY <1>1, <1>2, <1>3, <1>4, CursorSet

\* Within the region a row is reached in every mode.
LEMMA MoveStays ==
  ASSUME NEW s, Sound(s), NEW x \in Int, NEW y \in Int
  PROVE  LET z == TMoveTo(s, x, y)
         IN /\ Edits(s, z) /\ SamePast(s, z) /\ z.line = s.line
            /\ y \in s.top..s.bot => z.c.y = y
  <1> DEFINE z == TMoveTo(s, x, y)
  <1>1. Edits(s, z) /\ SamePast(s, z)
    BY MoveEdits, Zenon
  <1>2. z.line = s.line
    BY DEF TMoveTo, Sound, Terminals
  <1>3. y \in s.top..s.bot => z.c.y = y
    BY MoveEdits, Zenon
  <1> QED
    BY <1>1, <1>2, <1>3

LEMMA MoveAToEdits ==
  ASSUME NEW s, Sound(s), NEW x \in Int, NEW y \in Int
  PROVE  LET z == TMoveATo(s, x, y)
         IN Edits(s, z) /\ SamePast(s, z) /\ OriginHolds(z)
  <1>1. y + (IF s.c.origin THEN s.top ELSE 0) \in Int
    BY SoundIs
  <1> QED
    BY <1>1, MoveEdits DEF TMoveATo

-----------------------------------------------------------------------------
(* Text.                                                                    *)

\* An operation on text only.
Writes(s, z) == Edits(s, z) /\ SamePast(s, z) /\ SameCursor(s, z)

LEMMA WritesTwice ==
  ASSUME NEW s, NEW z, NEW w, Writes(s, z), Writes(z, w)
  PROVE  Writes(s, w)
  BY EditsTwice DEF Writes, SamePast, SameCursor

LEMMA MarksWrite ==
  ASSUME NEW s, NEW z, Marks(s, z)
  PROVE  Writes(s, z)
  BY DEF Marks, Writes

LEMMA SpaceIs == Space \in Glyphs
  BY DEF Space, Glyphs, Characters

LEMMA GlyphIs ==
  ASSUME NEW u \in Characters
  PROVE  Glyph(u) \in Glyphs
  BY SpaceIs DEF Glyph, Glyphs

LEMMA BlankedWrites ==
  ASSUME NEW s, Sound(s), NEW xs, NEW ys \in SUBSET (0..(s.row - 1))
  PROVE  Writes(s, Blanked(s, xs, ys))
  <1> DEFINE l == [y \in DOMAIN s.line |-> IF y \in ys
                     THEN [x \in DOMAIN s.line[y] |-> IF x \in xs THEN Space ELSE s.line[y][x]]
                     ELSE s.line[y]]
             d == s.dirty \cup ys
  <1>1. s.line \in Screens(s.row, s.maxcol) /\ d \in SUBSET (0..(s.row - 1))
    BY SoundIs
  <1>2. l \in Screens(s.row, s.maxcol)
    BY <1>1, SpaceIs DEF Screens, LinesOf
  <1>3. Blanked(s, xs, ys) = [s EXCEPT !.line = l, !.dirty = d]
    BY DEF Blanked, Sound, Terminals
  <1> HIDE DEF l, d
  <1> QED
    <2> DEFINE z == [s EXCEPT !.line = l, !.dirty = d]
    <2>1. Edits(s, z) /\ SamePast(s, z) /\ SameCursor(s, z)
      BY <1>1, <1>2, LineSet
    <2> QED
      BY <1>3, <2>1 DEF Writes

LEMMA ClearRegionWrites ==
  ASSUME NEW s, Sound(s), NEW x1 \in Int, NEW y1 \in Int, NEW x2 \in Int, NEW y2 \in Int
  PROVE  Writes(s, TClearRegion(s, x1, y1, x2, y2))
  <1> DEFINE lo == Limit(Min({y1, y2}), 0, s.row - 1)
             hi == Limit(Max({y1, y2}), 0, s.row - 1)
             xs == Span(x1, x2, s.maxcol)
             ys == Span(y1, y2, s.row)
             z == SelClearAt(s, xs, ys)
  <1>1. Min({y1, y2}) \in Int /\ Max({y1, y2}) \in Int
    BY TwoInts
  <1>2. lo \in 0..(s.row - 1) /\ hi \in 0..(s.row - 1)
    BY <1>1, LimitsIn
  <1>3. ys \in SUBSET (0..(s.row - 1))
    <2>1. ys = lo..hi
      BY DEF Span
    <2> HIDE DEF lo, hi, ys
    <2> QED
      BY <1>2, <2>1, SoundIs
  <1>4. TClearRegion(s, x1, y1, x2, y2) = Blanked(z, xs, ys)
    BY Zenon DEF TClearRegion
  <1> HIDE DEF lo, hi, xs, ys
  <1>5. z = s \/ z = SelClear(s)
    BY DEF SelClearAt
  <1>6. Writes(s, z) /\ z.row = s.row
    BY <1>5, SelClearMarks, EditsNothing DEF Marks, Writes, Edits
  <1> HIDE DEF z
  <1>7. Writes(z, Blanked(z, xs, ys))
    BY <1>3, <1>6, BlankedWrites DEF Writes, Edits
  <1> QED
    BY <1>4, <1>6, <1>7, WritesTwice

\* Two screens show the same in the first rows and columns.
Agree(l, m, rows, cols) == \A y \in 0..(rows - 1), x \in 0..(cols - 1) : l[y][x] = m[y][x]

\* What tclearregion leaves alone above or to the left of its region.
LEMMA ClearedElsewhere ==
  ASSUME NEW s, Sound(s), NEW x1 \in Int, NEW y1 \in Int, NEW x2 \in Int, NEW y2 \in Int,
         x1 <= x2, y1 <= y2, NEW rows \in Nat, NEW cols \in Nat, rows <= s.row, cols <= s.maxcol,
         (cols <= x1 /\ cols < s.maxcol) \/ (rows <= y1 /\ rows < s.row)
  PROVE  Agree(TClearRegion(s, x1, y1, x2, y2).line, s.line, rows, cols)
  <1> DEFINE right == s.maxcol - 1
             below == s.row - 1
             x0 == Limit(x1, 0, right)
             y0 == Limit(y1, 0, below)
             xs == x0..Limit(x2, 0, right)
             ys == y0..Limit(y2, 0, below)
             z == SelClearAt(s, xs, ys)
  <1>1. Min({x1, x2}) = x1 /\ Max({x1, x2}) = x2 /\ Min({y1, y2}) = y1 /\ Max({y1, y2}) = y2
    BY TwoInts
  <1>2. TClearRegion(s, x1, y1, x2, y2) = Blanked(z, xs, ys)
    <2>1. Span(x1, x2, s.maxcol) = xs /\ Span(y1, y2, s.row) = ys
      BY <1>1, Zenon DEF Span
    <2> HIDE DEF xs, ys
    <2>2. TClearRegion(s, x1, y1, x2, y2)
            = Blanked(SelClearAt(s, Span(x1, x2, s.maxcol), Span(y1, y2, s.row)),
                      Span(x1, x2, s.maxcol), Span(y1, y2, s.row))
      BY Zenon DEF TClearRegion
    <2> QED
      BY <2>1, <2>2
  <1>3. s.maxcol \in Nat /\ s.row \in Nat /\ 1 <= s.maxcol /\ 1 <= s.row
    BY SoundIs
  <1>4. x0 \in Int /\ y0 \in Int /\ Limit(x2, 0, right) \in Int /\ Limit(y2, 0, below) \in Int
    BY <1>3 DEF Limit
  <1>5. (cols <= x1 /\ cols < s.maxcol => cols <= x0) /\ (rows <= y1 /\ rows < s.row => rows <= y0)
    BY <1>3 DEF Limit
  <1>6. \A y \in 0..(rows - 1), x \in 0..(cols - 1) : ~(x \in xs /\ y \in ys)
    <2> HIDE DEF x0, y0, right, below
    <2> QED
      BY <1>4, <1>5
  <1> HIDE DEF xs, ys
  <1>7. z = s \/ z = SelClear(s)
    BY DEF SelClearAt
  <1>8. z.line = s.line /\ Sound(z)
    BY <1>7, SelClearMarks DEF Marks, Edits
  <1> HIDE DEF z
  <1>9. Blanked(z, xs, ys).line =
          [y \in DOMAIN s.line |-> IF y \in ys
             THEN [x \in DOMAIN s.line[y] |-> IF x \in xs THEN Space ELSE s.line[y][x]]
             ELSE s.line[y]]
    BY <1>8 DEF Blanked, Sound, Terminals
  <1>10. \A y \in 0..(rows - 1), x \in 0..(cols - 1) :
           y \in DOMAIN s.line /\ x \in DOMAIN s.line[y]
    <2>1. s.line \in Screens(s.row, s.maxcol)
      BY SoundIs
    <2>2. \A y \in 0..(rows - 1), x \in 0..(cols - 1) :
            y \in 0..(s.row - 1) /\ x \in 0..(s.maxcol - 1)
      BY <1>3
    <2> QED
      BY <2>1, <2>2 DEF Screens, LinesOf
  <1> QED
    BY <1>2, <1>6, <1>9, <1>10 DEF Agree

\* tclearregion leaves the other rows alone.
LEMMA ClearedRows ==
  ASSUME NEW s, Sound(s), NEW x1 \in Int, NEW x2 \in Int,
         NEW y1 \in RowsOf(s), NEW y2 \in RowsOf(s), y1 <= y2
  PROVE  \A y \in RowsOf(s) : y \notin y1..y2 => TClearRegion(s, x1, y1, x2, y2).line[y] = s.line[y]
  <1> DEFINE xs == Span(x1, x2, s.maxcol)
             ys == Span(y1, y2, s.row)
             z == SelClearAt(s, xs, ys)
  <1>1. ys = y1..y2
    <2>1. y1 \in Int /\ y2 \in Int /\ y1 \in 0..(s.row - 1) /\ y2 \in 0..(s.row - 1)
      BY SoundIs DEF RowsOf
    <2>2. Min({y1, y2}) = y1 /\ Max({y1, y2}) = y2
      BY <2>1, TwoInts
    <2>3. Limit(y1, 0, s.row - 1) = y1 /\ Limit(y2, 0, s.row - 1) = y2
      BY <2>1, LimitsIn
    <2> QED
      BY <2>2, <2>3 DEF Span
  <1>2. TClearRegion(s, x1, y1, x2, y2) = Blanked(z, xs, ys)
    BY Zenon DEF TClearRegion
  <1> HIDE DEF xs, ys
  <1>3. z = s \/ z = SelClear(s)
    BY DEF SelClearAt
  <1>4. z.line = s.line /\ Sound(z)
    BY <1>3, SelClearMarks DEF Marks, Edits
  <1> HIDE DEF z
  <1>5. \A y \in RowsOf(s) : y \notin ys => Blanked(z, xs, ys).line[y] = s.line[y]
    <2>1. DOMAIN s.line = RowsOf(s)
      BY SoundIs DEF Screens, RowsOf
    <2> QED
      BY <1>4, <2>1 DEF Blanked, Sound, Terminals
  <1> QED
    BY <1>1, <1>2, <1>5

LEMMA ClearScreenWrites ==
  ASSUME NEW s, Sound(s)
  PROVE  Writes(s, TClearScreen(s))
  <1>1. s.col - 1 \in Int /\ s.row - 1 \in Int
    BY SoundIs
  <1> QED
    BY <1>1, ClearRegionWrites DEF TClearScreen

-----------------------------------------------------------------------------
(* Scrolling.                                                               *)

\* What the first k exchanges make of the lines.
ExchangedIn(after, lines, is, d) ==
  /\ after[0] = lines
  /\ \A k \in 1..Len(is) : after[k] = SwapLines(after[k - 1], is[k], is[k] + d)

\* Rows that exist change places, one pair after the other.
LEMMA ExchangeIs ==
  ASSUME NEW rows, NEW cols, NEW lines \in Screens(rows, cols), NEW is \in Seq(Int), NEW d \in Int,
         \A k \in 1..Len(is) : is[k] \in 0..(rows - 1) /\ is[k] + d \in 0..(rows - 1)
  PROVE  /\ Exchange(lines, is, d) \in Screens(rows, cols)
         /\ \E after : /\ ExchangedIn(after, lines, is, d)
                       /\ \A k \in 0..Len(is) : after[k] \in Screens(rows, cols)
                       /\ Exchange(lines, is, d) = after[Len(is)]
  <1> DEFINE V == Screens(rows, cols)
             n == Len(is)
             step == [v \in V \X Nat |->
                        IF v[2] \in 1..n THEN SwapLines(v[1], is[v[2]], is[v[2]] + d) ELSE v[1]]
             made(f) == f = [k \in 0..n |-> IF k = 0 THEN lines
                                            ELSE SwapLines(f[k - 1], is[k], is[k] + d)]
             after == CHOOSE f : made(f)
  <1>1. n \in Nat
    OBVIOUS
  <1>2. \A v \in V, k \in 1..n : SwapLines(v, is[k], is[k] + d) \in V
    BY DEF SwapLines, Screens
  <1> HIDE DEF V
  <1>3. IsStep(step, V)
    BY <1>2 DEF IsStep
  <1> HIDE DEF n
  <1>4. PICK f : Unfolds(f, n, lines, step, V)
    BY <1>1, <1>3, UnfoldsExists DEF V, IsStep
  <1>5. made(f)
    <2>1. \A k \in 1..n : k - 1 \in 0..n /\ k \in Nat
      BY <1>1
    <2>2. ASSUME NEW k \in 1..n
          PROVE  f[k] = SwapLines(f[k - 1], is[k], is[k] + d)
      <3>1. f[k - 1] \in V /\ f[k] = step[<<f[k - 1], k>>]
        BY <1>4, <2>1 DEF Unfolds
      <3> QED
        BY <2>1, <3>1
    <2> HIDE DEF step
    <2>3. f \in [0..n -> V] /\ f[0] = lines
      BY <1>4 DEF Unfolds
    <2>4. \A k \in 0..n : k = 0 \/ k \in 1..n
      BY <1>1
    <2> QED
      BY <2>2, <2>3, <2>4
  <1>6. made(after)
    BY <1>5
  <1> HIDE DEF after
  <1>7. after[0] = lines /\ after[0] \in V
    BY <1>1, <1>6 DEF V
  <1>8. ASSUME NEW k \in 1..n
        PROVE  after[k] = SwapLines(after[k - 1], is[k], is[k] + d)
    <2>1. k \in 0..n /\ k # 0
      BY <1>1
    <2> QED
      BY <1>6, <2>1
  <1>9. \A k \in 1..n : after[k - 1] \in V => after[k] \in V
    BY <1>2, <1>8
  <1>10. \A k \in 0..n : after[k] \in V
    BY <1>1, <1>7, <1>9, StaysIn
  <1>11. Exchange(lines, is, d) = after[n] /\ n \in 0..n
    BY <1>1 DEF Exchange, after, n
  <1>12. ExchangedIn(after, lines, is, d)
    BY <1>7, <1>8 DEF ExchangedIn, n
  <1> QED
    BY <1>10, <1>11, <1>12 DEF V, n

\* The rows from a on, in their order.
Ascends(is, a) == \A k \in 1..Len(is) : is[k] = a + k - 1

\* Exchanged with the next one from the first on, lines go up by one row.
LEMMA ExchangeShifts ==
  ASSUME NEW rows \in Nat, NEW cols, NEW lines \in Screens(rows, cols), NEW a \in Nat,
         NEW is \in Seq(Int), Ascends(is, a), a + Len(is) <= rows - 1,
         NEW one \in Int, one = 1
  PROVE  \A y \in a..(a + Len(is) - 1) : Exchange(lines, is, one)[y] = lines[y + 1]
  <1> DEFINE m == Len(is)
  <1>0. m \in Nat /\ Len(is) = m /\ a + m <= rows - 1 /\ \A k \in 1..m : is[k] = a + k - 1
    BY DEF Ascends
  <1> HIDE DEF m
  <1>1. \A k \in 1..Len(is) : is[k] \in 0..(rows - 1) /\ is[k] + one \in 0..(rows - 1)
    BY <1>0
  <1>2. PICK after : /\ ExchangedIn(after, lines, is, one)
                     /\ \A k \in 0..m : after[k] \in Screens(rows, cols)
                     /\ Exchange(lines, is, one) = after[m]
    <2>1. \E after : /\ ExchangedIn(after, lines, is, one)
                     /\ \A k \in 0..Len(is) : after[k] \in Screens(rows, cols)
                     /\ Exchange(lines, is, one) = after[Len(is)]
      BY <1>1, ExchangeIs
    <2> QED
      BY <1>0, <2>1
  <1> DEFINE up(k) == /\ \A y \in a..(a + k - 1) : after[k][y] = lines[y + 1]
                      /\ \A y \in (a + k + 1)..(rows - 1) : after[k][y] = lines[y]
             S == {k \in Nat : k <= m => up(k)}
  <1>3. 0 \in S
    BY <1>2 DEF ExchangedIn
  <1>4. ASSUME NEW k \in Nat, k \in S
        PROVE  k + 1 \in S
    <2> SUFFICES ASSUME k + 1 <= m
                 PROVE  up(k + 1)
      OBVIOUS
    <2>1. up(k) /\ k + 1 \in 1..m /\ k \in 0..m /\ (k + 1) - 1 = k
      BY <1>0, <1>4
    <2>2. is[k + 1] = a + k /\ a + k \in 0..(rows - 1) /\ a + k + 1 \in 0..(rows - 1)
      BY <1>0, <2>1
    <2>3. after[k + 1] = SwapLines(after[k], a + k, a + k + 1)
      <3>1. after[k + 1] = SwapLines(after[(k + 1) - 1], is[k + 1], is[k + 1] + one)
        BY <1>0, <1>2, <2>1 DEF ExchangedIn
      <3> QED
        BY <2>1, <2>2, <3>1
    <2>4. DOMAIN after[k] = 0..(rows - 1)
      BY <1>2, <2>1 DEF Screens
    <2>5. after[k + 1][a + k] = after[k][a + k + 1]
      BY <2>2, <2>3, <2>4 DEF SwapLines
    <2>6. \A y \in 0..(rows - 1) : y # a + k /\ y # a + k + 1 => after[k + 1][y] = after[k][y]
      BY <2>2, <2>3, <2>4 DEF SwapLines
    <2>7. ASSUME NEW y \in a..(a + (k + 1) - 1)
          PROVE  after[k + 1][y] = lines[y + 1]
      <3>1. CASE y = a + k
        <4>1. a + k + 1 \in (a + k + 1)..(rows - 1)
          BY <2>2
        <4> QED
          BY <2>1, <2>5, <3>1, <4>1
      <3>2. CASE y # a + k
        <4>1. y \in a..(a + k - 1) /\ y \in 0..(rows - 1) /\ y # a + k + 1
          BY <2>2, <3>2
        <4> QED
          BY <2>1, <2>6, <3>2, <4>1
      <3> QED
        BY <3>1, <3>2
    <2>8. ASSUME NEW y \in (a + (k + 1) + 1)..(rows - 1)
          PROVE  after[k + 1][y] = lines[y]
      <3>1. y \in (a + k + 1)..(rows - 1) /\ y \in 0..(rows - 1) /\ y # a + k /\ y # a + k + 1
        OBVIOUS
      <3> QED
        BY <2>1, <2>6, <3>1
    <2> QED
      BY <2>7, <2>8
  <1>5. Nat \subseteq S
    <2> HIDE DEF S
    <2> QED
      BY <1>3, <1>4, NatInductionOnSets
  <1>6. up(m)
    BY <1>0, <1>5
  <1> QED
    BY <1>0, <1>2, <1>6

LEMMA Wraps ==
  ASSUME NEW h \in 0..(HISTSIZE - 1), NEW k \in 0..HISTSIZE
  PROVE  /\ (h + k) % HISTSIZE = IF h + k < HISTSIZE THEN h + k ELSE h + k - HISTSIZE
         /\ (h + k) % HISTSIZE \in 0..(HISTSIZE - 1)
         /\ (h - 1 + HISTSIZE) % HISTSIZE = IF h = 0 THEN HISTSIZE - 1 ELSE h - 1
  BY HistoryAssumption

\* The lines of the history, oldest first.
Log(s) == [i \in 1..HISTSIZE |-> TextOf(s.hist[(s.histi + i) % HISTSIZE])]

SameLog(s, z) == z.hist = s.hist /\ z.histi = s.histi

\* The texts of the history and, after them, of the scrolling region: the lines that
\* leave the screen go along this tape.
Tape(s, i) ==
  IF i <= HISTSIZE THEN TextOf(s.hist[(s.histi + i) % HISTSIZE])
  ELSE TextOf(s.line[s.top + i - HISTSIZE - 1])

\* The rows of the region, and those above the cursor's.
Rows(s) == s.bot - s.top + 1
Above(s) == IF InRegion(s) THEN s.c.y - s.top ELSE 0

\* The tape has moved by k places, as far as it holds the history and n rows.
Slides(s, z, k, n) == \A i \in (1 + k)..(HISTSIZE + n) : Tape(z, i - k) = Tape(s, i)

\* The window keeps the older lines it shows where they are.
Follows(s, z, k) ==
  z.scr = IF s.scr \in 1..(HISTSIZE - 1)
          THEN (IF s.scr + k < HISTSIZE THEN s.scr + k ELSE HISTSIZE - 1) ELSE s.scr

\* k lines left the screen at its top, and n rows were not written.
Moves(s, z, k, n) == Slides(s, z, k, n) /\ Above(z) >= Above(s) - k /\ Follows(s, z, k)

\* At most m lines left; only the cursor's row was written.
Pushed(s, z, m) == \E k \in 0..m : Moves(s, z, k, Above(s))

\* The part of the tape that has become history.
Records(s, z, k, n) == \A i \in 1..HISTSIZE : i + k <= HISTSIZE + n => Log(z)[i] = Tape(s, i + k)

\* A line left at the bottom, at the cost of one in the history.
Pulled(s, z) ==
  /\ HISTSIZE > 1 => Log(z)[1] = Log(s)[HISTSIZE]
  /\ \A i \in 1..(HISTSIZE - 2) : Log(z)[i + 1] = Log(s)[i]
  /\ Log(z)[HISTSIZE] = TextOf(s.line[s.bot])
  /\ z.scr = s.scr

LEMMA LogIs ==
  ASSUME NEW s, NEW i \in 1..HISTSIZE
  PROVE  Log(s)[i] = TextOf(s.hist[(s.histi + i) % HISTSIZE])
  BY DEF Log

LEMMA TapeIs ==
  ASSUME NEW s
  PROVE  \A i \in 1..HISTSIZE : Tape(s, i) = Log(s)[i]
  BY HistoryAssumption DEF Tape, Log

LEMMA TapeRows ==
  ASSUME NEW s, Sound(s), NEW i \in Nat \ {0}
  PROVE  Tape(s, HISTSIZE + i) = TextOf(s.line[s.top + i - 1])
  <1>1. ~(HISTSIZE + i <= HISTSIZE)
    BY HistoryAssumption
  <1>2. s.top + (HISTSIZE + i) - HISTSIZE - 1 = s.top + i - 1
    BY HistoryAssumption, SoundIs
  <1> QED
    BY <1>1, <1>2 DEF Tape

LEMMA AboveIs ==
  ASSUME NEW s, Sound(s)
  PROVE  /\ Rows(s) \in Nat \ {0} /\ Above(s) \in Nat /\ Above(s) < Rows(s)
         /\ Above(s) > 0 => s.c.y = s.top + Above(s)
  BY SoundIs DEF Rows, Above, InRegion

\* What is known of more rows is known of fewer.
LEMMA MovesLess ==
  ASSUME NEW s, NEW z, NEW k \in Int, NEW n \in Int, NEW m \in Int, m <= n, Moves(s, z, k, n)
  PROVE  Moves(s, z, k, m)
  <1>1. \A i \in (1 + k)..(HISTSIZE + m) : i \in (1 + k)..(HISTSIZE + n)
    BY HistoryAssumption
  <1> QED
    BY <1>1 DEF Moves, Slides

LEMMA MovesTwice ==
  ASSUME NEW s, NEW z, NEW w, Sound(s), Sound(z), Sound(w), NEW k \in Nat, NEW j \in Nat,
         NEW n \in Int, NEW m \in Int, n - k <= m, Moves(s, z, k, n), Moves(z, w, j, m)
  PROVE  Moves(s, w, k + j, n)
  <1>1. HISTSIZE \in Nat /\ HISTSIZE > 0 /\ s.scr \in 0..HISTSIZE
    BY SoundIs, HistoryAssumption
  <1>2. ASSUME NEW i \in (1 + (k + j))..(HISTSIZE + n)
        PROVE  Tape(w, i - (k + j)) = Tape(s, i)
    <2>1. i \in (1 + k)..(HISTSIZE + n) /\ i - k \in (1 + j)..(HISTSIZE + m)
          /\ (i - k) - j = i - (k + j)
      BY <1>1
    <2>2. Tape(z, i - k) = Tape(s, i)
      BY <2>1 DEF Moves, Slides
    <2>3. Tape(w, (i - k) - j) = Tape(z, i - k)
      BY <2>1 DEF Moves, Slides
    <2> QED
      BY <2>1, <2>2, <2>3
  <1>3. Above(w) >= Above(s) - (k + j)
    BY AboveIs DEF Moves
  <1>4. Follows(s, w, k + j)
    BY <1>1 DEF Moves, Follows
  <1> QED
    BY <1>2, <1>3, <1>4 DEF Moves, Slides

LEMMA PushedTwice ==
  ASSUME NEW s, NEW z, NEW w, Sound(s), Sound(z), Sound(w), NEW m \in Nat, NEW n \in Nat,
         Pushed(s, z, m), Pushed(z, w, n)
  PROVE  Pushed(s, w, m + n)
  <1>1. PICK k \in 0..m : Moves(s, z, k, Above(s))
    BY DEF Pushed
  <1>2. PICK j \in 0..n : Moves(z, w, j, Above(z))
    BY DEF Pushed
  <1>3. /\ k \in Nat /\ j \in Nat /\ k + j \in 0..(m + n)
        /\ Above(s) \in Int /\ Above(z) \in Int /\ Above(s) - k <= Above(z)
    BY <1>1, AboveIs DEF Moves
  <1>4. Moves(s, w, k + j, Above(s))
    BY <1>1, <1>2, <1>3, MovesTwice
  <1> QED
    BY <1>3, <1>4 DEF Pushed

LEMMA MovesRecord ==
  ASSUME NEW s, NEW z, NEW k \in Nat, NEW n \in Int, Moves(s, z, k, n)
  PROVE  Records(s, z, k, n)
  <1> SUFFICES ASSUME NEW i \in 1..HISTSIZE, i + k <= HISTSIZE + n
               PROVE  Log(z)[i] = Tape(s, i + k)
    BY DEF Records
  <1>1. i + k \in (1 + k)..(HISTSIZE + n) /\ (i + k) - k = i
    BY HistoryAssumption
  <1>2. Tape(z, (i + k) - k) = Tape(s, i + k)
    BY <1>1 DEF Moves, Slides
  <1> QED
    BY <1>1, <1>2, TapeIs

\* The texts of the lines stay, and the cursor's row does not go up.
LEMMA StillMoves ==
  ASSUME NEW s, NEW z, Sound(s), Sound(z), SamePast(s, z), z.top = s.top, z.bot = s.bot,
         Above(z) >= Above(s), NEW n \in Int,
         \A y \in s.top..(s.top + n - 1) : TextOf(z.line[y]) = TextOf(s.line[y])
  PROVE  Moves(s, z, 0, n)
  <1>1. HISTSIZE \in Nat /\ HISTSIZE > 0 /\ s.scr \in 0..HISTSIZE /\ s.top \in Nat
    BY SoundIs, HistoryAssumption
  <1>2. Log(z) = Log(s)
    BY DEF SamePast, Log
  <1>3. ASSUME NEW i \in 1..(HISTSIZE + n)
        PROVE  Tape(z, i) = Tape(s, i)
    <2>1. CASE i <= HISTSIZE
      <3>1. i \in 1..HISTSIZE
        BY <2>1
      <3> QED
        BY <1>2, <3>1, TapeIs
    <2>2. CASE i > HISTSIZE
      <3>1. s.top + i - HISTSIZE - 1 \in s.top..(s.top + n - 1) /\ ~(i <= HISTSIZE)
        BY <1>1, <2>2
      <3> QED
        BY <3>1 DEF Tape
    <2> QED
      BY <1>1, <2>1, <2>2
  <1>4. \A i \in (1 + 0)..(HISTSIZE + n) : i \in 1..(HISTSIZE + n) /\ i - 0 = i
    BY <1>1
  <1>5. Slides(s, z, 0, n)
    BY <1>3, <1>4 DEF Slides
  <1>6. Follows(s, z, 0) /\ Above(z) >= Above(s) - 0
    BY <1>1, AboveIs DEF Follows, SamePast
  <1> QED
    BY <1>5, <1>6 DEF Moves

\* The lines of the region went up by one, the first of them into the history.
LEMMA UpMoves ==
  ASSUME NEW s, NEW z, Sound(s), Sound(z), z.top = s.top, z.bot = s.bot, z.c = s.c,
         Follows(s, z, 1), \A i \in 1..(HISTSIZE - 1) : Log(z)[i] = Log(s)[i + 1],
         Log(z)[HISTSIZE] = TextOf(s.line[s.top]),
         \A y \in s.top..(s.bot - 1) : z.line[y] = s.line[y + 1]
  PROVE  Moves(s, z, 1, Rows(s))
  <1>1. HISTSIZE \in Nat /\ HISTSIZE > 0 /\ s.top \in Nat /\ s.bot \in Nat
    BY SoundIs, HistoryAssumption
  <1>2. ASSUME NEW i \in 2..(HISTSIZE + Rows(s))
        PROVE  Tape(z, i - 1) = Tape(s, i)
    <2>1. CASE i <= HISTSIZE
      <3>1. i - 1 \in 1..(HISTSIZE - 1) /\ i - 1 \in 1..HISTSIZE /\ i \in 1..HISTSIZE
            /\ (i - 1) + 1 = i
        BY <1>1, <2>1
      <3> QED
        BY <3>1, TapeIs
    <2>2. CASE i = HISTSIZE + 1
      <3>1. HISTSIZE \in 1..HISTSIZE /\ i - 1 = HISTSIZE /\ 1 \in Nat \ {0} /\ s.top + 1 - 1 = s.top
        BY <1>1, <2>2
      <3>2. Tape(z, HISTSIZE) = Log(z)[HISTSIZE]
        BY <3>1, TapeIs
      <3>3. Tape(s, HISTSIZE + 1) = TextOf(s.line[s.top])
        BY <3>1, TapeRows
      <3> QED
        BY <2>2, <3>1, <3>2, <3>3
    <2>3. CASE i > HISTSIZE + 1
      <3> DEFINE j == i - HISTSIZE
      <3>1. j \in Nat \ {0} /\ j - 1 \in Nat \ {0} /\ i = HISTSIZE + j /\ i - 1 = HISTSIZE + (j - 1)
        BY <1>1, <2>3
      <3>2. s.top + (j - 1) - 1 \in s.top..(s.bot - 1) /\ (s.top + (j - 1) - 1) + 1 = s.top + j - 1
        BY <1>1, <2>3 DEF Rows
      <3> HIDE DEF j
      <3>3. Tape(z, HISTSIZE + (j - 1)) = TextOf(z.line[s.top + (j - 1) - 1])
        BY <3>1, TapeRows
      <3>4. Tape(s, HISTSIZE + j) = TextOf(s.line[s.top + j - 1])
        BY <3>1, TapeRows
      <3> QED
        BY <3>1, <3>2, <3>3, <3>4
    <2> QED
      BY <1>1, <2>1, <2>2, <2>3 DEF Rows
  <1>3. \A i \in (1 + 1)..(HISTSIZE + Rows(s)) : i \in 2..(HISTSIZE + Rows(s))
    OBVIOUS
  <1>4. Above(z) = Above(s) /\ Above(s) \in Nat
    BY AboveIs DEF Above, InRegion
  <1> QED
    BY <1>2, <1>3, <1>4 DEF Moves, Slides

LEMMA HistSet ==
  ASSUME NEW s, Sound(s), NEW h \in [0..(HISTSIZE - 1) -> LinesOf(s.maxcol)],
         NEW i \in 0..(HISTSIZE - 1), NEW l \in Screens(s.row, s.maxcol)
  PROVE  LET z == [s EXCEPT !.histi = i, !.hist = h, !.line = l]
         IN Edits(s, z) /\ SameCursor(s, z) /\ z.hist = h /\ z.histi = i /\ z.scr = s.scr
            /\ z.sel = s.sel
  BY DEF Sound, Terminals, Edits, SameCursor, OriginHolds, ColsOf, RowsOf

LEMMA SwapEdits ==
  ASSUME NEW s, Sound(s), NEW y \in 0..(s.row - 1), NEW i \in 0..(HISTSIZE - 1)
  PROVE  LET z == SwapWithHistory(s, y, i)
         IN /\ Edits(s, z) /\ SameCursor(s, z) /\ z.scr = s.scr /\ z.histi = i
            /\ \A k \in 0..(HISTSIZE - 1) : k # i => z.hist[k] = s.hist[k]
            /\ z.hist[i] = s.line[y]
            /\ \A k \in RowsOf(s) : k # y => z.line[k] = s.line[k]
  <1> DEFINE h == [s.hist EXCEPT ![i] = s.line[y]]
             l == [s.line EXCEPT ![y] = s.hist[i]]
  <1>1. s.hist \in [0..(HISTSIZE - 1) -> LinesOf(s.maxcol)] /\ s.line \in Screens(s.row, s.maxcol)
    BY SoundIs
  <1>2. s.line[y] \in LinesOf(s.maxcol) /\ s.hist[i] \in LinesOf(s.maxcol)
    BY <1>1 DEF Screens
  <1>3. h \in [0..(HISTSIZE - 1) -> LinesOf(s.maxcol)] /\ l \in Screens(s.row, s.maxcol)
    BY <1>1, <1>2 DEF Screens
  <1>4. /\ \A k \in 0..(HISTSIZE - 1) : k # i => h[k] = s.hist[k]
        /\ h[i] = s.line[y] /\ \A k \in RowsOf(s) : k # y => l[k] = s.line[k]
    BY <1>1 DEF Screens, RowsOf
  <1>5. SwapWithHistory(s, y, i) = [s EXCEPT !.histi = i, !.hist = h, !.line = l]
    BY DEF SwapWithHistory, Sound, Terminals
  <1> HIDE DEF h, l
  <1> DEFINE z == [s EXCEPT !.histi = i, !.hist = h, !.line = l]
  <1>6. /\ Edits(s, z) /\ SameCursor(s, z) /\ z.hist = h /\ z.histi = i /\ z.scr = s.scr
        /\ z.line = l
    <2>1. Edits(s, z) /\ SameCursor(s, z)
      BY <1>3, HistSet
    <2>2. z.hist = h /\ z.histi = i /\ z.scr = s.scr /\ z.line = l
      BY DEF Sound, Terminals
    <2> QED
      BY <2>1, <2>2
  <1> QED
    BY <1>4, <1>5, <1>6

\* What was put in the slot the ring has turned to is the newest line.
LEMMA NewestIs ==
  ASSUME NEW z, z.histi \in 0..(HISTSIZE - 1)
  PROVE  Log(z)[HISTSIZE] = TextOf(z.hist[z.histi])
  <1>1. HISTSIZE \in 1..HISTSIZE /\ HISTSIZE \in 0..HISTSIZE /\ HISTSIZE \in Nat
    BY HistoryAssumption
  <1>2. PICK h \in 0..(HISTSIZE - 1) : h = z.histi
    OBVIOUS
  <1>3. (h + HISTSIZE) % HISTSIZE = h
    BY <1>1, Wraps
  <1> QED
    BY <1>1, <1>2, <1>3, LogIs

\* The oldest line makes room for the one that leaves.
LEMMA SwapPushes ==
  ASSUME NEW s, NEW z, Sound(s), z.histi = (s.histi + 1) % HISTSIZE,
         \A k \in 0..(HISTSIZE - 1) : k # z.histi => z.hist[k] = s.hist[k]
  PROVE  \A i \in 1..(HISTSIZE - 1) : Log(z)[i] = Log(s)[i + 1]
  <1>1. s.histi \in 0..(HISTSIZE - 1) /\ HISTSIZE \in Nat /\ HISTSIZE > 0
    BY SoundIs, HistoryAssumption
  <1> SUFFICES ASSUME NEW i \in 1..(HISTSIZE - 1)
               PROVE  Log(z)[i] = Log(s)[i + 1]
    OBVIOUS
  <1> DEFINE h == s.histi
             g == z.histi
  <1>2. /\ 1 \in 0..HISTSIZE /\ i \in 0..HISTSIZE /\ i + 1 \in 0..HISTSIZE
        /\ i + 1 \in 1..HISTSIZE /\ i \in 1..HISTSIZE
    BY <1>1
  <1>3. g = (h + 1) % HISTSIZE /\ h \in 0..(HISTSIZE - 1)
    BY <1>1
  <1> HIDE DEF h, g
  <1>4. g \in 0..(HISTSIZE - 1) /\ g = IF h + 1 < HISTSIZE THEN h + 1 ELSE h + 1 - HISTSIZE
    BY <1>2, <1>3, Wraps
  <1>5. /\ (g + i) % HISTSIZE = IF g + i < HISTSIZE THEN g + i ELSE g + i - HISTSIZE
        /\ (g + i) % HISTSIZE \in 0..(HISTSIZE - 1)
    BY <1>2, <1>4, Wraps
  <1>6. (h + (i + 1)) % HISTSIZE = IF h + (i + 1) < HISTSIZE THEN h + (i + 1) ELSE h + (i + 1) - HISTSIZE
    BY <1>2, <1>3, Wraps
  <1>7. (g + i) % HISTSIZE = (h + (i + 1)) % HISTSIZE /\ (g + i) % HISTSIZE # g
    BY <1>1, <1>3, <1>4, <1>5, <1>6
  <1>8. z.hist[(g + i) % HISTSIZE] = s.hist[(h + (i + 1)) % HISTSIZE]
    BY <1>5, <1>7 DEF g
  <1>9. Log(z)[i] = TextOf(z.hist[(g + i) % HISTSIZE])
    BY <1>2, LogIs DEF g
  <1>10. Log(s)[i + 1] = TextOf(s.hist[(h + (i + 1)) % HISTSIZE])
    BY <1>2, LogIs DEF h
  <1> QED
    BY <1>8, <1>9, <1>10

LEMMA SwapPulls ==
  ASSUME NEW s, NEW z, Sound(s), z.histi = (s.histi - 1 + HISTSIZE) % HISTSIZE,
         \A k \in 0..(HISTSIZE - 1) : k # z.histi => z.hist[k] = s.hist[k], z.scr = s.scr,
         z.hist[z.histi] = s.line[s.bot]
  PROVE  Pulled(s, z)
  <1>1. s.histi \in 0..(HISTSIZE - 1) /\ HISTSIZE \in Nat /\ HISTSIZE > 0
    BY SoundIs, HistoryAssumption
  <1> DEFINE h == s.histi
             g == z.histi
  <1>2. g = (h - 1 + HISTSIZE) % HISTSIZE /\ h \in 0..(HISTSIZE - 1) /\ 0 \in 0..HISTSIZE
    BY <1>1
  <1>3. \A k \in 0..(HISTSIZE - 1) : k # g => z.hist[k] = s.hist[k]
    OBVIOUS
  <1>4. \A i \in 1..HISTSIZE : /\ Log(z)[i] = TextOf(z.hist[(g + i) % HISTSIZE])
                               /\ Log(s)[i] = TextOf(s.hist[(h + i) % HISTSIZE])
    BY LogIs
  <1> HIDE DEF h, g
  <1>5. g = IF h = 0 THEN HISTSIZE - 1 ELSE h - 1
    BY <1>2, Wraps
  <1>6. g \in 0..(HISTSIZE - 1)
    BY <1>1, <1>2, <1>5
  <1>7. ASSUME HISTSIZE > 1
        PROVE  Log(z)[1] = Log(s)[HISTSIZE]
    <2>1. 1 \in 0..HISTSIZE /\ HISTSIZE \in 0..HISTSIZE /\ 1 \in 1..HISTSIZE /\ HISTSIZE \in 1..HISTSIZE
      BY <1>1
    <2>2. (g + 1) % HISTSIZE = h
      BY <1>1, <1>2, <1>5, <1>6, <1>7, <2>1, Wraps
    <2>3. (h + HISTSIZE) % HISTSIZE = h
      BY <1>1, <1>2, <2>1, Wraps
    <2>4. z.hist[h] = s.hist[h]
      BY <1>1, <1>2, <1>3, <1>5, <1>7
    <2> QED
      BY <1>4, <2>1, <2>2, <2>3, <2>4
  <1>8. ASSUME NEW i \in 1..(HISTSIZE - 2)
        PROVE  Log(z)[i + 1] = Log(s)[i]
    <2>1. i + 1 \in 0..HISTSIZE /\ i \in 0..HISTSIZE /\ i + 1 \in 1..HISTSIZE /\ i \in 1..HISTSIZE
      BY <1>1
    <2>2. (g + (i + 1)) % HISTSIZE = IF g + (i + 1) < HISTSIZE THEN g + (i + 1) ELSE g + (i + 1) - HISTSIZE
      BY <1>6, <2>1, Wraps
    <2>3. /\ (h + i) % HISTSIZE = IF h + i < HISTSIZE THEN h + i ELSE h + i - HISTSIZE
          /\ (h + i) % HISTSIZE \in 0..(HISTSIZE - 1)
      BY <1>2, <2>1, Wraps
    <2>4. (g + (i + 1)) % HISTSIZE = (h + i) % HISTSIZE /\ (h + i) % HISTSIZE # g
      BY <1>1, <1>2, <1>5, <1>6, <2>2, <2>3
    <2>5. z.hist[(h + i) % HISTSIZE] = s.hist[(h + i) % HISTSIZE]
      BY <1>3, <2>3, <2>4
    <2> QED
      BY <1>4, <2>1, <2>4, <2>5
  <1>9. Log(z)[HISTSIZE] = TextOf(s.line[s.bot])
    BY <1>6, NewestIs DEF g
  <1> QED
    BY <1>7, <1>8, <1>9 DEF Pulled

\* Scrolled: the lines that stay change places, the selection goes with them.
LEMMA ScrolledWrites ==
  ASSUME NEW s, Sound(s), NEW orig \in Int, NEW n \in Int, NEW is \in Seq(Int),
         \A k \in 1..Len(is) : is[k] \in 0..(s.row - 1) /\ is[k] - n \in 0..(s.row - 1)
  PROVE  /\ Writes(s, Scrolled(s, orig, n, is))
         /\ Scrolled(s, orig, n, is).line = Exchange(s.line, is, -n)
  <1> DEFINE l == Exchange(s.line, is, -n)
             z == [s EXCEPT !.line = l]
  <1>1. s.line \in Screens(s.row, s.maxcol) /\ s.dirty \in SUBSET (0..(s.row - 1))
    BY SoundIs
  <1>2. -n \in Int /\ \A k \in 1..Len(is) : is[k] \in 0..(s.row - 1) /\ is[k] + (-n) \in 0..(s.row - 1)
    <2>1. ASSUME NEW k \in 1..Len(is)
          PROVE  is[k] + (-n) = is[k] - n
      <3>1. is[k] \in Int
        OBVIOUS
      <3> QED
        BY <3>1
    <2> QED
      BY <2>1
  <1>3. l \in Screens(s.row, s.maxcol)
    BY <1>1, <1>2, ExchangeIs
  <1>4. Scrolled(s, orig, n, is) = IF s.scr = 0 THEN SelScroll(z, orig, n) ELSE z
    BY DEF Scrolled
  <1> HIDE DEF l
  <1>5. z = [s EXCEPT !.line = l, !.dirty = s.dirty]
    BY DEF Sound, Terminals
  <1>6. Writes(s, z)
    <2> DEFINE w == [s EXCEPT !.line = l, !.dirty = s.dirty]
    <2>1. Edits(s, w) /\ SamePast(s, w) /\ SameCursor(s, w)
      BY <1>1, <1>3, LineSet
    <2> QED
      BY <1>5, <2>1 DEF Writes
  <1>7. z.line = l
    BY DEF Sound, Terminals
  <1> HIDE DEF z
  <1>8. Marks(z, SelScroll(z, orig, n))
    BY <1>6, SelScrollMarks DEF Writes, Edits
  <1> QED
    BY <1>4, <1>6, <1>7, <1>8, MarksWrite, WritesTwice DEF Marks, l

LEMMA SeqIs ==
  ASSUME NEW m \in Nat, NEW f \in [1..m -> Int]
  PROVE  f \in Seq(Int) /\ Len(f) = m
  OBVIOUS

\* tscrolldown within the region, and with the newest line of the history.
LEMMA ScrollDownEdits ==
  ASSUME NEW s, Sound(s), NEW orig \in s.top..s.bot, NEW num \in Int, NEW copyhist \in BOOLEAN
  PROVE  LET z == TScrollDown(s, orig, num, copyhist)
         IN /\ Edits(s, z) /\ SameCursor(s, z)
            /\ ~copyhist => SamePast(s, z)
            /\ copyhist => Pulled(s, z)
  <1> DEFINE n == Limit(num, 0, s.bot - orig + 1)
             i == (s.histi - 1 + HISTSIZE) % HISTSIZE
             s1 == IF copyhist THEN SwapWithHistory(s, s.bot, i) ELSE s
             is == [k \in 1..(s.bot - orig - n + 1) |-> s.bot - k + 1]
             s2 == TSetDirt(s1, orig, s.bot - n)
             s3 == TClearRegion(s2, 0, s.bot - n + 1, s.col - 1, s.bot)
             z == Scrolled(s3, orig, n, is)
  <1>1. /\ s.top \in Nat /\ s.bot \in 0..(s.row - 1) /\ s.row \in Nat /\ s.col \in Nat
        /\ orig \in 0..s.bot /\ s.histi \in 0..(HISTSIZE - 1)
    BY SoundIs
  <1>2. n \in 0..(s.bot - orig + 1)
    <2>1. PICK hi \in Int : hi = s.bot - orig + 1
      BY <1>1
    <2>2. 0 \in Int /\ 0 <= hi
      BY <1>1, <2>1
    <2>3. Limit(num, 0, hi) \in 0..hi
      BY <2>2, LimitIs
    <2> QED
      BY <2>1, <2>3
  <1>3. i \in 0..(HISTSIZE - 1)
    BY <1>1, HistoryAssumption
  <1>4. /\ Edits(s, s1) /\ SameCursor(s, s1)
        /\ ~copyhist => SamePast(s, s1)
        /\ copyhist => Pulled(s, s1)
    <2>1. CASE copyhist
      <3> DEFINE w == SwapWithHistory(s, s.bot, i)
      <3>1. /\ Edits(s, w) /\ SameCursor(s, w) /\ w.scr = s.scr /\ w.histi = i
            /\ \A k \in 0..(HISTSIZE - 1) : k # i => w.hist[k] = s.hist[k]
            /\ w.hist[i] = s.line[s.bot]
            /\ \A k \in RowsOf(s) : k # s.bot => w.line[k] = s.line[k]
        BY <1>1, <1>3, SwapEdits, Zenon
      <3>2. s1 = w
        BY <2>1
      <3> HIDE DEF w
      <3>3. Pulled(s, w)
        BY <3>1, SwapPulls
      <3> QED
        BY <2>1, <3>1, <3>2, <3>3
    <2>2. CASE ~copyhist
      BY <2>2, EditsNothing
    <2> QED
      BY <2>1, <2>2
  <1>5. TScrollDown(s, orig, num, copyhist) = Scrolled(s3, orig, n, is)
    <2>1. s.bot - orig - n + 1 \in Int
      BY <1>1, <1>2
    <2> QED
      BY DEF TScrollDown
  <1> HIDE DEF s1, n, i
  <1>6. /\ s.bot - n \in Int /\ orig \in Int /\ 0 \in Int
        /\ s.bot - n + 1 \in Int /\ s.col - 1 \in Int /\ s.bot \in Int
    BY <1>1, <1>2
  <1>7. Sound(s1)
    BY <1>4 DEF Edits
  <1>8. Writes(s1, s2)
    BY <1>6, <1>7, DirtMarks, MarksWrite
  <1> HIDE DEF s2
  <1>9. Writes(s2, s3)
    BY <1>6, <1>8, ClearRegionWrites DEF Writes, Edits
  <1> HIDE DEF s3
  <1>10. Sound(s3) /\ s3.row = s.row
    BY <1>4, <1>8, <1>9 DEF Writes, Edits
  <1>11. is \in Seq(Int) /\ \A k \in 1..Len(is) : is[k] \in 0..(s3.row - 1) /\ is[k] - n \in 0..(s3.row - 1)
    <2> DEFINE m == s.bot - orig - n + 1
    <2>1. m \in Nat
      BY <1>1, <1>2
    <2>2. is \in [1..m -> Int] /\ \A k \in 1..m : is[k] = s.bot - k + 1
      BY <1>1, <1>2
    <2> HIDE DEF is, m
    <2>3. is \in Seq(Int) /\ Len(is) = m
      BY <2>1, <2>2, SeqIs
    <2>4. ASSUME NEW k \in 1..m
          PROVE  is[k] \in 0..(s.row - 1) /\ is[k] - n \in 0..(s.row - 1)
      <3> DEFINE j == s.bot - k + 1
      <3>1. j \in 0..(s.row - 1) /\ j - n \in 0..(s.row - 1)
        BY <1>1, <1>2 DEF m
      <3>2. is[k] = j
        BY <2>2
      <3> HIDE DEF j
      <3> QED
        BY <3>1, <3>2
    <2> QED
      BY <1>10, <2>3, <2>4
  <1> HIDE DEF is
  <1>12. Writes(s3, z)
    <2>1. n \in Int
      BY <1>1, <1>2
    <2> QED
      BY <1>6, <1>10, <1>11, <2>1, ScrolledWrites
  <1> HIDE DEF z
  <1>13. Writes(s1, z)
    BY <1>8, <1>9, <1>12, WritesTwice
  <1>14. Edits(s, z) /\ SameCursor(s, z) /\ SamePast(s1, z)
    BY <1>4, <1>13, EditsTwice DEF Writes, SameCursor
  <1>15. (~copyhist => SamePast(s, z)) /\ (copyhist => Pulled(s, z))
    BY <1>4, <1>14 DEF SamePast, Pulled, Log
  <1> QED
    BY <1>5, <1>14, <1>15 DEF z

LEMMA ScrSet ==
  ASSUME NEW s, Sound(s), NEW v \in 0..HISTSIZE
  PROVE  LET z == [s EXCEPT !.scr = v]
         IN Edits(s, z) /\ SameCursor(s, z) /\ SameLog(s, z) /\ z.scr = v
            /\ z.sel = s.sel /\ z.line = s.line
  BY DEF Sound, Terminals, Edits, SameCursor, SameLog, OriginHolds, ColsOf, RowsOf

LEMMA KeepViewEdits ==
  ASSUME NEW s, Sound(s), NEW n \in Nat
  PROVE  LET z == KeepView(s, n)
         IN /\ Edits(s, z) /\ SameCursor(s, z) /\ SameLog(s, z) /\ z.line = s.line
            /\ Follows(s, z, n)
  <1>1. s.scr \in 0..HISTSIZE /\ HISTSIZE \in Nat /\ HISTSIZE > 0
    BY SoundIs, HistoryAssumption
  <1>2. CASE s.scr \in 1..(HISTSIZE - 1)
    <2> DEFINE v == Min({s.scr + n, HISTSIZE - 1})
    <2>1. v = IF s.scr + n < HISTSIZE THEN s.scr + n ELSE HISTSIZE - 1
      <3>1. PICK a \in Int : a = s.scr + n
        BY <1>1
      <3>2. HISTSIZE - 1 \in Int
        BY <1>1
      <3>3. Min({a, HISTSIZE - 1}) = IF a <= HISTSIZE - 1 THEN a ELSE HISTSIZE - 1
        BY <3>2, TwoInts
      <3> QED
        BY <1>1, <3>1, <3>3
    <2>2. KeepView(s, n) = [s EXCEPT !.scr = v]
      BY <1>1, <1>2 DEF KeepView
    <2>3. v \in 0..HISTSIZE
      BY <1>1, <1>2, <2>1
    <2> HIDE DEF v
    <2> DEFINE w == [s EXCEPT !.scr = v]
    <2>4. Edits(s, w) /\ SameCursor(s, w) /\ SameLog(s, w)
      BY <2>3, ScrSet
    <2>5. w.scr = v /\ w.line = s.line
      BY DEF Sound, Terminals
    <2> QED
      BY <1>2, <2>1, <2>2, <2>4, <2>5 DEF Follows
  <1>3. CASE s.scr \notin 1..(HISTSIZE - 1)
    <2>1. KeepView(s, n) = s
      BY <1>1, <1>3 DEF KeepView
    <2> QED
      BY <1>3, <2>1, EditsNothing DEF SameLog, Follows
  <1> QED
    BY <1>2, <1>3

\* tscrollup within the region; with the history, from its top and by one line.
LEMMA ScrollUpEdits ==
  ASSUME NEW s, Sound(s), NEW orig \in s.top..s.bot, NEW num \in Int, NEW copyhist \in BOOLEAN
  PROVE  LET z == TScrollUp(s, orig, num, copyhist)
         IN /\ Edits(s, z) /\ SameCursor(s, z)
            /\ ~copyhist => SameLog(s, z)
            /\ copyhist /\ num = 1 /\ orig = s.top => Moves(s, z, 1, Rows(s))
  <1> DEFINE n == Limit(num, 0, s.bot - orig + 1)
             i == (s.histi + 1) % HISTSIZE
             s1 == IF copyhist THEN SwapWithHistory(s, orig, i) ELSE s
             is == [k \in 1..(s.bot - orig - n + 1) |-> orig + k - 1]
             s2 == KeepView(s1, n)
             s3 == TClearRegion(s2, 0, orig, s.col - 1, orig + n - 1)
             s4 == TSetDirt(s3, orig + n, s.bot)
             z == Scrolled(s4, orig, -n, is)
  <1>1. /\ s.top \in Nat /\ s.bot \in 0..(s.row - 1) /\ s.row \in Nat /\ s.col \in Nat
        /\ orig \in 0..s.bot /\ s.histi \in 0..(HISTSIZE - 1)
    BY SoundIs
  <1>2. n \in 0..(s.bot - orig + 1) /\ (num = 1 => n = 1)
    <2>1. PICK hi \in Int : hi = s.bot - orig + 1
      BY <1>1
    <2>2. 0 \in Int /\ 0 <= hi /\ 1 \in 0..hi
      BY <1>1, <2>1
    <2>3. Limit(num, 0, hi) \in 0..hi /\ (num \in 0..hi => Limit(num, 0, hi) = num)
      BY <2>2, LimitIs
    <2> QED
      BY <2>1, <2>2, <2>3
  <1>3. i \in 0..(HISTSIZE - 1)
    BY <1>1, HistoryAssumption
  <1>4. /\ Edits(s, s1) /\ SameCursor(s, s1) /\ s1.scr = s.scr
        /\ ~copyhist => SameLog(s, s1)
        /\ copyhist => /\ \A k \in 1..(HISTSIZE - 1) : Log(s1)[k] = Log(s)[k + 1]
                       /\ Log(s1)[HISTSIZE] = TextOf(s.line[orig])
        /\ \A y \in RowsOf(s) : y # orig => s1.line[y] = s.line[y]
    <2>1. CASE copyhist
      <3> DEFINE w == SwapWithHistory(s, orig, i)
      <3>1. /\ Edits(s, w) /\ SameCursor(s, w) /\ w.scr = s.scr /\ w.histi = i
            /\ \A k \in 0..(HISTSIZE - 1) : k # i => w.hist[k] = s.hist[k]
            /\ w.hist[i] = s.line[orig]
            /\ \A y \in RowsOf(s) : y # orig => w.line[y] = s.line[y]
        <4>1. orig \in 0..(s.row - 1)
          BY <1>1
        <4> QED
          BY <4>1, <1>3, SwapEdits, Zenon
      <3>2. s1 = w
        BY <2>1
      <3> HIDE DEF w
      <3>3. \A k \in 1..(HISTSIZE - 1) : Log(w)[k] = Log(s)[k + 1]
        BY <3>1, SwapPushes
      <3>4. Log(w)[HISTSIZE] = TextOf(s.line[orig])
        BY <1>3, <3>1, NewestIs
      <3> QED
        BY <2>1, <3>1, <3>2, <3>3, <3>4
    <2>2. CASE ~copyhist
      BY <2>2, EditsNothing DEF SameLog
    <2> QED
      BY <2>1, <2>2
  <1>5. TScrollUp(s, orig, num, copyhist) = Scrolled(s4, orig, -n, is)
    BY DEF TScrollUp
  <1> HIDE DEF s1, n, i
  <1>6. /\ n \in Nat /\ n \in Int /\ -n \in Int /\ orig \in Int /\ 0 \in Int /\ s.bot \in Int
        /\ orig + n - 1 \in Int /\ s.col - 1 \in Int /\ orig + n \in Int
    BY <1>1, <1>2
  <1>7. Sound(s1)
    BY <1>4 DEF Edits
  <1>8. /\ Edits(s1, s2) /\ SameCursor(s1, s2) /\ SameLog(s1, s2) /\ s2.line = s1.line
        /\ Follows(s1, s2, n)
    BY <1>6, <1>7, KeepViewEdits, Zenon
  <1> HIDE DEF s2
  <1>9. Writes(s2, s3) /\ (n = 1 => \A y \in RowsOf(s) : y # orig => s3.line[y] = s2.line[y])
    <2>1. Writes(s2, s3)
      BY <1>6, <1>8, ClearRegionWrites DEF Edits
    <2>2. ASSUME n = 1
          PROVE  \A y \in RowsOf(s) : y # orig => s3.line[y] = s2.line[y]
      <3> DEFINE e == TClearRegion(s2, 0, orig, s.col - 1, orig)
      <3>1. s3 = e
        <4>1. orig + n - 1 = orig
          BY <1>6, <2>2
        <4> QED
          BY <4>1
      <3>2. Sound(s2) /\ s2.row = s.row /\ orig \in RowsOf(s2) /\ RowsOf(s2) = RowsOf(s) /\ orig <= orig
        BY <1>1, <1>4, <1>8 DEF Edits, RowsOf
      <3>3. \A y \in RowsOf(s2) : y \notin orig..orig => e.line[y] = s2.line[y]
        <4>1. 0 \in Int /\ s.col - 1 \in Int
          BY <1>6
        <4> QED
          BY <3>2, <4>1, ClearedRows, Zenon
      <3> HIDE DEF e, s3
      <3>4. \A y \in RowsOf(s) : y # orig => y \notin orig..orig
        BY <1>6 DEF RowsOf
      <3> QED
        BY <3>1, <3>2, <3>3, <3>4
    <2> QED
      BY <2>1, <2>2
  <1> HIDE DEF s3
  <1>10. Writes(s3, s4) /\ s4.line = s3.line
    BY <1>6, <1>9, DirtMarks, MarksWrite DEF Writes, Edits, Marks
  <1> HIDE DEF s4
  <1>11. Sound(s4) /\ s4.row = s.row
    BY <1>4, <1>8, <1>9, <1>10 DEF Writes, Edits
  <1>12. /\ is \in Seq(Int) /\ Len(is) = s.bot - orig - n + 1
         /\ \A k \in 1..Len(is) : is[k] = orig + k - 1
         /\ \A k \in 1..Len(is) : is[k] \in 0..(s4.row - 1) /\ is[k] - (-n) \in 0..(s4.row - 1)
    <2> DEFINE m == s.bot - orig - n + 1
    <2>1. m \in Nat
      BY <1>1, <1>2
    <2>2. is \in [1..m -> Int] /\ \A k \in 1..m : is[k] = orig + k - 1
      BY <1>1, <1>2
    <2> HIDE DEF is, m
    <2>3. is \in Seq(Int) /\ Len(is) = m
      BY <2>1, <2>2, SeqIs
    <2>4. ASSUME NEW k \in 1..m
          PROVE  is[k] \in 0..(s.row - 1) /\ is[k] - (-n) \in 0..(s.row - 1)
      <3> DEFINE j == orig + k - 1
      <3>1. j \in 0..(s.row - 1) /\ j - (-n) \in 0..(s.row - 1)
        BY <1>1, <1>2 DEF m
      <3>2. is[k] = j
        BY <2>2
      <3> HIDE DEF j
      <3> QED
        BY <3>1, <3>2
    <2> QED
      BY <1>11, <2>2, <2>3, <2>4 DEF m
  <1> HIDE DEF is
  <1>13. Writes(s4, z) /\ z.line = Exchange(s4.line, is, -(-n))
    BY <1>6, <1>11, <1>12, ScrolledWrites
  <1> HIDE DEF z
  <1>14. Writes(s2, z)
    BY <1>9, <1>10, <1>13, WritesTwice
  <1>15. Edits(s, z) /\ SameCursor(s, z) /\ SamePast(s2, z)
    BY <1>4, <1>8, <1>14, EditsTwice DEF Writes, SameCursor
  <1>16. ~copyhist => SameLog(s, z)
    BY <1>4, <1>8, <1>15 DEF SamePast, SameLog
  <1>17. ASSUME copyhist, num = 1, orig = s.top
         PROVE  Moves(s, z, 1, Rows(s))
    <2>1. Log(z) = Log(s1)
      BY <1>8, <1>15 DEF Log, SamePast, SameLog
    <2>2. Follows(s, z, 1)
      BY <1>2, <1>4, <1>8, <1>15, <1>17 DEF Follows, SamePast
    <2>3. \A y \in RowsOf(s) : y # orig => s4.line[y] = s.line[y]
      BY <1>2, <1>4, <1>8, <1>9, <1>10, <1>17
    <2>4. \A y \in orig..(s.bot - 1) : z.line[y] = s4.line[y + 1]
      <3> DEFINE m == s.bot - orig
      <3>1. m \in Nat /\ Len(is) = m /\ orig \in Nat /\ orig + m <= s.row - 1 /\ orig + m - 1 = s.bot - 1
        BY <1>1, <1>2, <1>12, <1>17
      <3> HIDE DEF m
      <3>2. s4.line \in Screens(s.row, s4.maxcol)
        BY <1>11, SoundIs
      <3>3. z.line = Exchange(s4.line, is, 1)
        BY <1>2, <1>13, <1>17
      <3>4. \A y \in orig..(orig + m - 1) : Exchange(s4.line, is, 1)[y] = s4.line[y + 1]
        <4>1. is \in Seq(Int) /\ Ascends(is, orig)
          BY <1>12 DEF Ascends
        <4> DEFINE lines == s4.line
                   rows == s.row
                   cols == s4.maxcol
        <4>2. /\ lines \in Screens(rows, cols) /\ rows \in Nat /\ orig + m <= rows - 1
              /\ orig \in Nat /\ Len(is) = m
          BY <1>1, <3>1, <3>2
        <4>3. PICK d \in Int : d = 1
          OBVIOUS
        <4> HIDE DEF lines, rows, cols, is
        <4>4. \A y \in orig..(orig + Len(is) - 1) : Exchange(lines, is, d)[y] = lines[y + 1]
          BY <4>1, <4>2, <4>3, ExchangeShifts
        <4> QED
          BY <4>2, <4>3, <4>4 DEF lines
      <3> QED
        BY <3>1, <3>3, <3>4
    <2>5. \A y \in s.top..(s.bot - 1) : z.line[y] = s.line[y + 1]
      <3>1. \A y \in s.top..(s.bot - 1) : y + 1 \in RowsOf(s) /\ y + 1 # orig
        BY <1>1, <1>17 DEF RowsOf
      <3> QED
        BY <1>17, <2>3, <2>4, <3>1
    <2>6. Sound(z) /\ z.top = s.top /\ z.bot = s.bot /\ z.c = s.c
      BY <1>15 DEF Edits, SameCursor
    <2> QED
      BY <1>4, <1>17, <2>1, <2>2, <2>5, <2>6, UpMoves
  <1> QED
    BY <1>5, <1>15, <1>16, <1>17 DEF z

\* At most one line left, before any was written.
Fed(s, z) == \E k \in 0..1 : Moves(s, z, k, Rows(s))

\* tnewline.
LEMMA NewlineEdits ==
  ASSUME NEW s, Sound(s), NEW firstcol \in BOOLEAN
  PROVE  LET z == TNewline(s, firstcol)
         IN Edits(s, z) /\ Fed(s, z)
  <1> DEFINE x == IF firstcol THEN 0 ELSE s.c.x
             u == TScrollUp(s, s.top, 1, TRUE)
  <1>1. /\ x \in Int /\ s.c.y \in Int /\ s.c.y + 1 \in Int /\ s.top \in s.top..s.bot
        /\ s.top \in Nat /\ s.bot \in Nat
    BY SoundIs
  <1>2. Rows(s) \in Int /\ Above(s) \in Nat
    BY AboveIs
  <1> HIDE DEF x
  <1>3. CASE s.c.y = s.bot
    <2>1. Edits(s, u) /\ SameCursor(s, u) /\ Moves(s, u, 1, Rows(s))
      <3>1. 1 \in Int /\ TRUE \in BOOLEAN
        OBVIOUS
      <3>2. /\ Edits(s, u) /\ SameCursor(s, u)
            /\ ~TRUE => SameLog(s, u)
            /\ TRUE /\ 1 = 1 /\ s.top = s.top => Moves(s, u, 1, Rows(s))
        BY <1>1, <3>1, ScrollUpEdits, Zenon
      <3> QED
        BY <3>2
    <2>2. TNewline(s, firstcol) = TMoveTo(u, x, s.c.y)
      BY <1>3 DEF TNewline, x
    <2> HIDE DEF u
    <2> DEFINE z == TMoveTo(u, x, s.c.y)
    <2>3. Sound(u) /\ u.top = s.top /\ u.bot = s.bot /\ u.c = s.c
      BY <2>1 DEF Edits, SameCursor
    <2>4. /\ Edits(u, z) /\ SamePast(u, z) /\ z.line = u.line
          /\ (s.c.y \in u.top..u.bot => z.c.y = s.c.y)
      BY <1>1, <2>3, MoveStays, Zenon
    <2> HIDE DEF z
    <2>5. Sound(z) /\ z.top = u.top /\ z.bot = u.bot /\ Edits(s, z)
      BY <2>1, <2>4, EditsTwice DEF Edits
    <2>6. Above(z) >= Above(u)
      <3>1. s.c.y \in u.top..u.bot
        BY <1>1, <1>3, <2>3
      <3> QED
        BY <2>3, <2>4, <2>5, <3>1, AboveIs DEF Above, InRegion
    <2>7. Moves(u, z, 0, Rows(s))
      BY <1>2, <2>3, <2>4, <2>5, <2>6, StillMoves
    <2>8. Moves(s, z, 1 + 0, Rows(s))
      <3>1. 1 \in Nat /\ 0 \in Nat /\ Rows(s) - 1 <= Rows(s)
        BY <1>2
      <3> QED
        BY <1>2, <2>1, <2>3, <2>5, <2>7, <3>1, MovesTwice
    <2> QED
      BY <2>2, <2>5, <2>8 DEF Fed, z
  <1>4. CASE s.c.y # s.bot
    <2> DEFINE z == TMoveTo(s, x, s.c.y + 1)
    <2>1. TNewline(s, firstcol) = z
      BY <1>4 DEF TNewline, x
    <2>2. /\ Edits(s, z) /\ SamePast(s, z) /\ z.line = s.line
          /\ (s.c.y + 1 \in s.top..s.bot => z.c.y = s.c.y + 1)
      BY <1>1, MoveStays, Zenon
    <2> HIDE DEF z
    <2>3. Sound(z) /\ z.top = s.top /\ z.bot = s.bot
      BY <2>2 DEF Edits
    <2>4. Above(z) >= Above(s)
      <3>1. CASE InRegion(s)
        <4>1. s.c.y + 1 \in s.top..s.bot
          BY <1>1, <1>4, <3>1 DEF InRegion
        <4> QED
          BY <1>1, <2>2, <2>3, <3>1, <4>1 DEF Above, InRegion
      <3>2. CASE ~InRegion(s)
        <4>1. Above(s) = 0 /\ Above(z) \in Nat
          BY <2>3, <3>2, AboveIs DEF Above
        <4> QED
          BY <4>1
      <3> QED
        BY <3>1, <3>2
    <2>5. Moves(s, z, 0, Rows(s))
      BY <1>2, <2>2, <2>3, <2>4, StillMoves
    <2> QED
      BY <2>1, <2>2, <2>5 DEF Fed
  <1> QED
    BY <1>3, <1>4

LEMMA FedPushes ==
  ASSUME NEW s, NEW z, Sound(s), Fed(s, z)
  PROVE  Pushed(s, z, 1)
  <1>1. PICK k \in 0..1 : Moves(s, z, k, Rows(s))
    BY DEF Fed
  <1>2. Above(s) \in Int /\ Rows(s) \in Int /\ Above(s) <= Rows(s) /\ k \in Int
    BY AboveIs
  <1>3. Moves(s, z, k, Above(s))
    BY <1>1, <1>2, MovesLess
  <1> QED
    BY <1>3 DEF Pushed

-----------------------------------------------------------------------------
(* Printing.                                                                *)

\* An operation that prints, after which at most m lines have left.
Prints(s, z, m) == Edits(s, z) /\ Pushed(s, z, m)

LEMMA PrintsTwice ==
  ASSUME NEW s, NEW z, NEW w, Sound(s), NEW m \in Nat, NEW n \in Nat,
         Prints(s, z, m), Prints(z, w, n)
  PROVE  Prints(s, w, m + n)
  BY EditsTwice, PushedTwice DEF Prints, Edits

LEMMA PrintsFewer ==
  ASSUME NEW s, NEW z, NEW m \in Nat, NEW n \in Nat, m <= n, Prints(s, z, m)
  PROVE  Prints(s, z, n)
  <1>1. \A k \in 0..m : k \in 0..n
    OBVIOUS
  <1> QED
    BY <1>1 DEF Prints, Pushed

\* Only the row of the cursor was written.
OwnRow(s, z) == \A y \in RowsOf(s) : y # s.c.y => z.line[y] = s.line[y]

LEMMA PrintsNoLine ==
  ASSUME NEW s, NEW z, Sound(s), Edits(s, z), SamePast(s, z), OwnRow(s, z), Above(z) >= Above(s)
  PROVE  Prints(s, z, 0)
  <1>1. Above(s) \in Nat /\ (Above(s) > 0 => s.c.y = s.top + Above(s)) /\ Sound(z)
        /\ z.top = s.top /\ z.bot = s.bot
    BY AboveIs DEF Edits
  <1>2. s.top \in Nat /\ s.c.y \in 0..(s.row - 1) /\ s.row \in Nat
    BY SoundIs
  <1>3. \A y \in s.top..(s.top + Above(s) - 1) : y \in RowsOf(s) /\ y # s.c.y
    BY <1>1, <1>2 DEF RowsOf
  <1>4. \A y \in s.top..(s.top + Above(s) - 1) : TextOf(z.line[y]) = TextOf(s.line[y])
    BY <1>3 DEF OwnRow
  <1>5. Moves(s, z, 0, Above(s))
    BY <1>1, <1>4, StillMoves
  <1> QED
    BY <1>5 DEF Prints, Pushed

LEMMA WritesPrint ==
  ASSUME NEW s, NEW z, Sound(s), Writes(s, z), OwnRow(s, z)
  PROVE  Prints(s, z, 0)
  <1>1. Above(z) = Above(s) /\ Above(s) \in Nat
    BY AboveIs DEF Writes, Edits, SameCursor, Above, InRegion
  <1> QED
    BY <1>1, PrintsNoLine DEF Writes

LEMMA PrintsNothing ==
  ASSUME NEW s, Sound(s)
  PROVE  Prints(s, s, 0)
  BY EditsNothing, WritesPrint DEF Writes, OwnRow

LEMMA FedPrints ==
  ASSUME NEW s, NEW z, Sound(s), Edits(s, z), Fed(s, z)
  PROVE  Prints(s, z, 1)
  BY FedPushes DEF Prints

LEMMA RowSet ==
  ASSUME NEW s, Sound(s), NEW y \in RowsOf(s), NEW l \in LinesOf(s.maxcol),
         NEW d \in SUBSET (0..(s.row - 1))
  PROVE  LET z == [s EXCEPT !.line[y] = l, !.dirty = d]
         IN Writes(s, z) /\ \A r \in RowsOf(s) : r # y => z.line[r] = s.line[r]
  <1> DEFINE ls == [s.line EXCEPT ![y] = l]
  <1>1. /\ ls \in Screens(s.row, s.maxcol)
        /\ \A r \in RowsOf(s) : r # y => ls[r] = s.line[r]
    BY SoundIs DEF Screens, RowsOf
  <1>2. [s EXCEPT !.line[y] = l, !.dirty = d] = [s EXCEPT !.line = ls, !.dirty = d]
    OBVIOUS
  <1> HIDE DEF ls
  <1> DEFINE w == [s EXCEPT !.line = ls, !.dirty = d]
  <1>3. Edits(s, w) /\ SamePast(s, w) /\ SameCursor(s, w)
    BY <1>1, LineSet
  <1>4. w.line = ls
    BY DEF Sound, Terminals
  <1> QED
    BY <1>1, <1>2, <1>3, <1>4 DEF Writes

LEMMA RowOnly ==
  ASSUME NEW s, Sound(s), NEW y \in RowsOf(s), NEW l \in LinesOf(s.maxcol)
  PROVE  LET z == [s EXCEPT !.line[y] = l]
         IN /\ Writes(s, z) /\ z.line[y] = l
            /\ \A r \in RowsOf(s) : r # y => z.line[r] = s.line[r]
  <1> DEFINE ls == [s.line EXCEPT ![y] = l]
  <1>1. /\ ls \in Screens(s.row, s.maxcol) /\ s.dirty \in SUBSET (0..(s.row - 1))
        /\ \A r \in RowsOf(s) : r # y => ls[r] = s.line[r]
        /\ ls[y] = l
    BY SoundIs DEF Screens, RowsOf
  <1>2. [s EXCEPT !.line[y] = l] = [s EXCEPT !.line = ls, !.dirty = s.dirty]
    BY DEF Sound, Terminals
  <1> HIDE DEF ls
  <1> DEFINE w == [s EXCEPT !.line = ls, !.dirty = s.dirty]
  <1>3. Edits(s, w) /\ SamePast(s, w) /\ SameCursor(s, w)
    BY <1>1, LineSet
  <1>4. w.line = ls
    BY DEF Sound, Terminals
  <1> QED
    BY <1>1, <1>2, <1>3, <1>4 DEF Writes

LEMMA LineIs ==
  ASSUME NEW s, Sound(s), NEW y \in RowsOf(s)
  PROVE  s.line[y] \in LinesOf(s.maxcol)
  BY SoundIs DEF Screens, RowsOf

LEMMA SetCharWrites ==
  ASSUME NEW s, Sound(s), NEW u \in Characters, NEW x, NEW y \in RowsOf(s)
  PROVE  /\ Writes(s, TSetChar(s, u, x, y))
         /\ \A r \in RowsOf(s) : r # y => TSetChar(s, u, x, y).line[r] = s.line[r]
  <1> DEFINE l == s.line[y]
             old == l[x].part
             other == IF old = "wide" THEN x + 1 ELSE IF old = "dummy" THEN x - 1 ELSE -1
             lost == IF old = "wide" THEN "dummy" ELSE "wide"
             whole(g) == [g EXCEPT !.u = " ", !.part = IF @ = lost THEN "one" ELSE @]
             row == [i \in DOMAIN l |-> IF i = x THEN Glyph(u)
                                        ELSE IF i = other /\ i < s.col THEN whole(l[i])
                                        ELSE l[i]]
             d == s.dirty \cup {y}
  <1>1. TSetChar(s, u, x, y) = [s EXCEPT !.line[y] = row, !.dirty = d]
    BY DEF TSetChar
  <1>2. l \in LinesOf(s.maxcol) /\ d \in SUBSET (0..(s.row - 1))
    BY LineIs, SoundIs DEF RowsOf
  <1>3. \A g \in Glyphs : whole(g) \in Glyphs
    <2>1. " " \in Characters
      BY DEF Characters
    <2> QED
      BY <2>1 DEF Glyphs
  <1>4. Glyph(u) \in Glyphs
    BY GlyphIs
  <1> HIDE DEF l, other, whole, d
  <1>5. row \in LinesOf(s.maxcol)
    BY <1>2, <1>3, <1>4 DEF LinesOf
  <1> HIDE DEF row
  <1> DEFINE z == [s EXCEPT !.line[y] = row, !.dirty = d]
  <1>6. Writes(s, z)
    BY <1>2, <1>5, RowSet, Zenon
  <1>7. \A r \in RowsOf(s) : r # y => z.line[r] = s.line[r]
    BY DEF Sound, Terminals, Screens, RowsOf
  <1> HIDE DEF z
  <1> QED
    BY <1>1, <1>6, <1>7 DEF z

\* memmove within the line.
LEMMA ShiftIs ==
  ASSUME NEW m \in Nat, NEW l \in LinesOf(m), NEW dst \in Nat, NEW src \in Nat, NEW num \in Nat,
         src + num <= m
  PROVE  Shift(l, dst, src, num) \in LinesOf(m)
  <1>1. \A x \in 0..(m - 1) : x \in dst..(dst + num - 1) => src + x - dst \in 0..(m - 1)
    OBVIOUS
  <1> QED
    BY <1>1 DEF Shift, LinesOf

\* Lines with the same characters have the same text.
LEMMA SameText ==
  ASSUME NEW n \in Nat, NEW l \in LinesOf(n), NEW m \in LinesOf(n),
         \A x \in 0..(n - 1) : m[x].u = l[x].u
  PROVE  TextOf(m) = TextOf(l)
  <1> DEFINE S == {0} \cup {x + 1 : x \in {i \in 0..(n - 1) : l[i].u # " "}}
             e == Max(S)
  <1>1. DOMAIN l = 0..(n - 1) /\ DOMAIN m = 0..(n - 1)
    BY DEF LinesOf
  <1>2. {0} \cup {x + 1 : x \in {i \in 0..(n - 1) : m[i].u # " "}} = S
    OBVIOUS
  <1>3. TextOf(l) = [i \in 1..e |-> l[i - 1].u] /\ TextOf(m) = [i \in 1..e |-> m[i - 1].u]
    <2> HIDE DEF S
    <2> QED
      BY <1>1, <1>2 DEF TextOf, S
  <1>4. e \in 0..n
    <2>1. \A x \in S : x \in 0..n
      <3>1. 0 \in 0..n /\ \A x \in 0..(n - 1) : x + 1 \in 0..n
        OBVIOUS
      <3> QED
        BY <3>1, Zenon
    <2>2. 0 \in S
      OBVIOUS
    <2> HIDE DEF S
    <2>3. n \in Int /\ S \in SUBSET Int /\ S # {} /\ \A x \in S : x <= n
      BY <2>1, <2>2
    <2>4. Max(S) \in S
      BY <2>3, MaxIs, Zenon
    <2> QED
      BY <2>1, <2>4
  <1> HIDE DEF e
  <1>5. \A i \in 1..e : i - 1 \in 0..(n - 1)
    BY <1>4
  <1> QED
    BY <1>3, <1>5

LEMMA PutWrapFeeds ==
  ASSUME NEW s, Sound(s)
  PROVE  Edits(s, PutWrap(s)) /\ Fed(s, PutWrap(s))
  <1> DEFINE y == s.c.y
             x == s.c.x
             l == s.line[y]
             row == [l EXCEPT ![x] = [@ EXCEPT !.wrap = TRUE]]
             z == [s EXCEPT !.line[y] = row]
             w == TNewline(z, TRUE)
  <1>1. /\ y \in RowsOf(s) /\ x \in 0..(s.maxcol - 1) /\ s.maxcol \in Nat
        /\ s.top \in Nat /\ s.bot \in 0..(s.row - 1) /\ s.row \in Nat
    BY SoundIs DEF RowsOf
  <1>2. l \in LinesOf(s.maxcol)
    BY <1>1, LineIs
  <1>3. \A g \in Glyphs : [g EXCEPT !.wrap = TRUE] \in Glyphs /\ [g EXCEPT !.wrap = TRUE].u = g.u
    BY DEF Glyphs
  <1>4. row \in LinesOf(s.maxcol) /\ \A i \in 0..(s.maxcol - 1) : row[i].u = l[i].u
    BY <1>1, <1>2, <1>3 DEF LinesOf
  <1>5. [s EXCEPT !.line[s.c.y][s.c.x].wrap = TRUE] = z
    OBVIOUS
  <1>6. PutWrap(s) \in {s, w}
    BY <1>5 DEF PutWrap
  <1>7. TextOf(row) = TextOf(l)
    <2> HIDE DEF row, l
    <2> QED
      BY <1>1, <1>2, <1>4, SameText
  <1>8. /\ Writes(s, z) /\ z.line[y] = row
        /\ \A r \in RowsOf(s) : r # y => z.line[r] = s.line[r]
    <2> HIDE DEF row
    <2> QED
      BY <1>1, <1>4, RowOnly, Zenon
  <1> HIDE DEF z
  <1>9. /\ Sound(z) /\ Edits(s, z) /\ SamePast(s, z) /\ z.top = s.top /\ z.bot = s.bot
        /\ Rows(z) = Rows(s) /\ Above(z) = Above(s) /\ Above(s) \in Nat /\ Rows(s) \in Int
    BY <1>8, AboveIs DEF Writes, Edits, SameCursor, Above, InRegion, Rows
  <1>10. Moves(s, z, 0, Rows(s))
    <2>1. \A r \in s.top..(s.top + Rows(s) - 1) : r \in RowsOf(s)
      BY <1>1 DEF Rows, RowsOf
    <2>2. \A r \in RowsOf(s) : TextOf(z.line[r]) = TextOf(s.line[r])
      BY <1>7, <1>8 DEF l
    <2> QED
      BY <1>9, <2>1, <2>2, StillMoves
  <1>11. Edits(z, w) /\ Fed(z, w)
    <2>1. TRUE \in BOOLEAN
      OBVIOUS
    <2> QED
      BY <1>9, <2>1, NewlineEdits, Zenon
  <1> HIDE DEF w
  <1>12. Edits(s, w) /\ Fed(s, w)
    <2>1. PICK k \in 0..1 : Moves(z, w, k, Rows(z))
      BY <1>11 DEF Fed
    <2>2. k \in Nat /\ 0 \in Nat /\ 0 + k = k /\ Rows(s) - 0 <= Rows(z) /\ Rows(z) \in Int
      BY <1>9
    <2>3. Sound(w)
      BY <1>11 DEF Edits
    <2>4. Moves(s, w, 0 + k, Rows(s))
      BY <1>9, <1>10, <2>1, <2>2, <2>3, MovesTwice
    <2> QED
      BY <1>9, <1>11, <2>2, <2>4, EditsTwice DEF Fed
  <1>13. Edits(s, s) /\ Fed(s, s)
    <2>1. Edits(s, s) /\ SamePast(s, s) /\ Above(s) >= Above(s)
      BY <1>9, EditsNothing
    <2>2. Moves(s, s, 0, Rows(s))
      BY <1>9, <2>1, StillMoves
    <2> QED
      BY <2>1, <2>2 DEF Fed
  <1> QED
    BY <1>6, <1>12, <1>13

LEMMA PutInsertWrites ==
  ASSUME NEW s, Sound(s), NEW w \in {1, 2}
  PROVE  Writes(s, PutInsert(s, w)) /\ OwnRow(s, PutInsert(s, w))
  <1> DEFINE y == s.c.y
             x == s.c.x
             num == s.col - x - w
             row == Shift(s.line[y], x + w, x, num)
  <1>1. /\ y \in RowsOf(s) /\ x \in 0..(s.col - 1) /\ s.col \in Nat /\ s.maxcol \in Nat
        /\ s.col <= s.maxcol /\ s.dirty \in SUBSET (0..(s.row - 1))
    BY SoundIs DEF RowsOf
  <1>2. s.line[y] \in LinesOf(s.maxcol)
    BY <1>1, LineIs
  <1>3. CASE "insert" \in s.mode /\ x + w < s.col
    <2>1. PutInsert(s, w) = [s EXCEPT !.line[y] = row]
      BY <1>3 DEF PutInsert
    <2>2. num \in Nat /\ x \in Nat /\ x + w \in Nat /\ x + num <= s.maxcol
      BY <1>1, <1>3
    <2> HIDE DEF num, x
    <2>3. row \in LinesOf(s.maxcol)
      BY <1>1, <1>2, <2>2, ShiftIs
    <2> HIDE DEF row
    <2> DEFINE z == [s EXCEPT !.line[y] = row]
    <2>4. /\ Writes(s, z) /\ z.line[y] = row
          /\ \A r \in RowsOf(s) : r # y => z.line[r] = s.line[r]
      BY <1>1, <2>3, RowOnly, Zenon
    <2> HIDE DEF z
    <2> QED
      BY <2>1, <2>4 DEF OwnRow, z
  <1>4. CASE ~("insert" \in s.mode /\ x + w < s.col)
    BY <1>4, EditsNothing DEF PutInsert, Writes, OwnRow
  <1> QED
    BY <1>3, <1>4

LEMMA PutFirstWrites ==
  ASSUME NEW s, Sound(s), NEW u \in Characters
  PROVE  Writes(s, PutFirst(s, u)) /\ OwnRow(s, PutFirst(s, u))
  <1> DEFINE a == TSetChar(s, u, s.c.x, s.c.y)
             z == [a EXCEPT !.lastc = u]
  <1>1. s.c.y \in RowsOf(s)
    BY SoundIs DEF RowsOf
  <1>2. Writes(s, a) /\ OwnRow(s, a)
    BY <1>1, SetCharWrites DEF OwnRow
  <1>3. PutFirst(s, u) = z
    BY DEF PutFirst
  <1> HIDE DEF a
  <1>4. Sound(a)
    BY <1>2 DEF Writes, Edits
  <1>5. Edits(a, z) /\ SamePast(a, z) /\ SameCursor(a, z) /\ z.line = a.line
    BY <1>4, LastSet, Zenon
  <1>6. Writes(a, z)
    BY <1>5 DEF Writes
  <1> QED
    BY <1>2, <1>3, <1>5, <1>6, WritesTwice DEF OwnRow

LEMMA PutSecondWrites ==
  ASSUME NEW s, Sound(s), NEW w
  PROVE  Writes(s, PutSecond(s, w)) /\ OwnRow(s, PutSecond(s, w))
  <1> DEFINE y == s.c.y
             row == Widened(s.line[y], s.c.x, s.col)
  <1>1. y \in RowsOf(s) /\ s.dirty \in SUBSET (0..(s.row - 1))
    BY SoundIs DEF RowsOf
  <1>2. s.line[y] \in LinesOf(s.maxcol)
    BY <1>1, LineIs
  <1>3. \A g \in Glyphs : [g EXCEPT !.part = "wide"] \in Glyphs
    BY DEF Glyphs
  <1>4. [u |-> "", wrap |-> FALSE, part |-> "dummy"] \in Glyphs
    BY DEF Glyphs, Characters
  <1>5. row \in LinesOf(s.maxcol)
    BY <1>2, <1>3, <1>4 DEF LinesOf, Widened
  <1>6. PutSecond(s, w) \in {s, [s EXCEPT !.line[y] = row]}
    BY DEF PutSecond
  <1> HIDE DEF row
  <1> DEFINE z == [s EXCEPT !.line[y] = row]
  <1>7. /\ Writes(s, z) /\ z.line[y] = row
        /\ \A r \in RowsOf(s) : r # y => z.line[r] = s.line[r]
    BY <1>1, <1>5, RowOnly, Zenon
  <1> HIDE DEF z
  <1>8. Writes(s, s)
    BY EditsNothing DEF Writes
  <1> QED
    BY <1>6, <1>7, <1>8 DEF OwnRow, z

LEMMA PutAdvancePrints ==
  ASSUME NEW s, Sound(s), NEW w \in {1, 2}
  PROVE  Prints(s, PutAdvance(s, w), 0) /\ SamePast(s, PutAdvance(s, w))
  <1> DEFINE e == TMoveTo(s, s.c.x + w, s.c.y)
             f == [s EXCEPT !.c.wrapnext = TRUE]
  <1>1. s.c.x + w \in Int /\ s.c.y \in Int /\ TRUE \in BOOLEAN
    BY SoundIs
  <1>2. Edits(s, e) /\ SamePast(s, e) /\ e.line = s.line /\ (s.c.y \in s.top..s.bot => e.c.y = s.c.y)
    BY <1>1, MoveStays, Zenon
  <1>3. Edits(s, f) /\ SamePast(s, f) /\ f.line = s.line /\ f.c.y = s.c.y
    BY <1>1, WrapNextEdits, Zenon
  <1>4. PutAdvance(s, w) \in {e, f}
    BY DEF PutAdvance
  <1> HIDE DEF e, f
  <1>5. ASSUME NEW z \in {e, f}
        PROVE  Above(z) >= Above(s)
    <2>1. Sound(z) /\ z.top = s.top /\ z.bot = s.bot /\ (InRegion(s) => z.c.y = s.c.y)
      BY <1>2, <1>3, <1>5 DEF Edits, InRegion
    <2>2. Above(z) \in Nat /\ Above(s) \in Nat
      BY <2>1, AboveIs
    <2>3. ~InRegion(s) => Above(s) = 0
      BY DEF Above
    <2>4. InRegion(s) => Above(z) = Above(s)
      BY <2>1 DEF Above, InRegion
    <2> QED
      BY <2>2, <2>3, <2>4
  <1>6. Prints(s, e, 0)
    BY <1>2, <1>5, PrintsNoLine DEF OwnRow
  <1>7. Prints(s, f, 0)
    BY <1>3, <1>5, PrintsNoLine DEF OwnRow
  <1> QED
    BY <1>2, <1>3, <1>4, <1>6, <1>7

LEMMA PutPlacePrints ==
  ASSUME NEW s, Sound(s), NEW u \in Characters, NEW w \in {1, 2}
  PROVE  Prints(s, PutPlace(s, u, w), 0) /\ SamePast(s, PutPlace(s, u, w))
  <1> DEFINE a == PutFirst(s, u)
             b == PutSecond(a, w)
             z == PutAdvance(b, w)
  <1>1. Prints(s, a, 0) /\ SamePast(s, a)
    BY PutFirstWrites, WritesPrint DEF Writes
  <1>2. Sound(a)
    BY <1>1 DEF Prints, Edits
  <1>3. Prints(a, b, 0) /\ SamePast(a, b)
    BY <1>2, PutSecondWrites, WritesPrint DEF Writes
  <1>4. Sound(b)
    BY <1>3 DEF Prints, Edits
  <1>5. Prints(b, z, 0) /\ SamePast(b, z)
    BY <1>4, PutAdvancePrints
  <1>6. PutPlace(s, u, w) = z
    BY DEF PutPlace
  <1> HIDE DEF a, b, z
  <1>7. Prints(s, b, 0 + 0)
    BY <1>1, <1>3, PrintsTwice
  <1>8. Prints(s, z, 0 + 0)
    BY <1>5, <1>7, PrintsTwice
  <1> QED
    BY <1>1, <1>3, <1>5, <1>6, <1>8 DEF SamePast

LEMMA PutFitFeeds ==
  ASSUME NEW s, Sound(s), NEW w
  PROVE  Edits(s, PutFit(s, w)) /\ Fed(s, PutFit(s, w))
  <1>1. TRUE \in BOOLEAN
    OBVIOUS
  <1>2. Edits(s, TNewline(s, TRUE)) /\ Fed(s, TNewline(s, TRUE))
    BY <1>1, NewlineEdits, Zenon
  <1>3. PutFit(s, w) \in {s, TNewline(s, TRUE)}
    BY DEF PutFit
  <1>4. Edits(s, s) /\ Fed(s, s)
    <2>1. Rows(s) \in Int /\ Above(s) \in Nat
      BY AboveIs
    <2>2. Edits(s, s) /\ SamePast(s, s) /\ Above(s) >= Above(s)
      BY <2>1, EditsNothing
    <2>3. Moves(s, s, 0, Rows(s))
      BY <2>1, <2>2, StillMoves
    <2> QED
      BY <2>2, <2>3 DEF Fed
  <1> QED
    BY <1>2, <1>3, <1>4

\* At most m lines left, each with the text it had in s.
Recorded(s, z, m, n) == \E k \in 0..m : Records(s, z, k, n) /\ Follows(s, z, k)

LEMMA RecordedThen ==
  ASSUME NEW s, NEW z, NEW w, NEW m, NEW n, Recorded(s, z, m, n), SamePast(z, w)
  PROVE  Recorded(s, w, m, n)
  BY DEF Recorded, Records, Follows, SamePast, Log

\* tputc: the lines leave before the character is written.  A line that insert mode
\* has shifted stays.
LEMMA PutCPrints ==
  ASSUME NEW s, Sound(s), NEW u \in Characters
  PROVE  LET z == TPutC(s, u)
         IN Prints(s, z, 2) /\ Recorded(s, z, 2, Rows(s))
  <1> DEFINE w == Width(u)
             s1 == PutUnselected(s)
             s2 == PutWrap(s1)
             s3 == PutInsert(s2, w)
             s4 == PutFit(s3, w)
             z == PutPlace(s4, u, w)
  <1>1. w \in {1, 2}
    BY DEF Width
  <1>2. Marks(s, s1)
    <2>1. s1 \in {s, SelClear(s)}
      BY DEF PutUnselected
    <2> QED
      BY <2>1, SelClearMarks, EditsNothing DEF Marks
  <1>3. TPutC(s, u) = z
    BY DEF TPutC
  <1>4. s3 = s2 \/ s4 = s3
    <2>1. CASE ~("insert" \in s2.mode /\ s2.c.x + w < s2.col)
      BY <2>1 DEF PutInsert
    <2>2. CASE "insert" \in s2.mode /\ s2.c.x + w < s2.col
      <3>1. Sound(s1)
        BY <1>2 DEF Marks, Edits
      <3> HIDE DEF s1
      <3>2. Sound(s2)
        BY <3>1, PutWrapFeeds DEF Edits
      <3> HIDE DEF s2
      <3>3. s3.c = s2.c /\ s3.col = s2.col
        BY <1>1, <3>2, PutInsertWrites DEF Writes, Edits, SameCursor
      <3>4. s2.c.x \in Int /\ s2.col \in Int /\ w \in Int
        BY <1>1, <3>2, SoundIs
      <3> HIDE DEF s3, w
      <3>5. ~(s3.c.x + w > s3.col)
        BY <2>2, <3>3, <3>4
      <3> QED
        BY <3>5 DEF PutFit
    <2> QED
      BY <2>1, <2>2
  <1> HIDE DEF s1, w
  <1>5. /\ Sound(s1) /\ Edits(s, s1) /\ Prints(s, s1, 0)
        /\ Rows(s1) = Rows(s) /\ Rows(s) \in Nat /\ Above(s1) = Above(s) /\ Above(s) \in Nat
        /\ SamePast(s, s1) /\ s1.line = s.line /\ s1.top = s.top /\ s1.bot = s.bot
    BY <1>2, AboveIs, MarksWrite, WritesPrint
       DEF Marks, Edits, SameCursor, Rows, Above, InRegion, OwnRow
  <1>6. Edits(s1, s2) /\ Fed(s1, s2)
    BY <1>5, PutWrapFeeds
  <1> HIDE DEF s2
  <1>7. Sound(s2) /\ Prints(s1, s2, 1) /\ Rows(s2) = Rows(s)
    BY <1>5, <1>6, FedPrints DEF Edits, Rows
  <1>8. Writes(s2, s3) /\ OwnRow(s2, s3)
    BY <1>1, <1>7, PutInsertWrites
  <1> HIDE DEF s3
  <1>9. Sound(s3) /\ Prints(s2, s3, 0)
    BY <1>7, <1>8, WritesPrint DEF Writes, Edits
  <1>10. Edits(s3, s4) /\ Fed(s3, s4)
    BY <1>9, PutFitFeeds
  <1> HIDE DEF s4
  <1>11. Sound(s4) /\ Prints(s3, s4, 1)
    BY <1>9, <1>10, FedPrints DEF Edits
  <1>12. Prints(s4, z, 0) /\ SamePast(s4, z)
    BY <1>1, <1>11, PutPlacePrints
  <1> HIDE DEF z
  <1>13. Prints(s, z, 2)
    <2>1. 0 \in Nat /\ 1 \in Nat /\ 2 \in Nat /\ 0 + 1 = 1 /\ 1 + 0 = 1 /\ 1 + 1 = 2 /\ 2 + 0 = 2
      OBVIOUS
    <2>2. Prints(s, s2, 1)
      BY <1>5, <1>7, <2>1, PrintsTwice
    <2>3. Prints(s, s3, 1)
      BY <1>9, <2>1, <2>2, PrintsTwice
    <2>4. Prints(s, s4, 2)
      BY <1>11, <2>1, <2>3, PrintsTwice
    <2> QED
      BY <1>12, <2>1, <2>4, PrintsTwice
  <1>14. PICK k \in 0..1 : Moves(s, s2, k, Rows(s))
    <2>1. Moves(s, s1, 0, Rows(s))
      BY <1>5, StillMoves
    <2>2. PICK k \in 0..1 : Moves(s1, s2, k, Rows(s1))
      BY <1>6 DEF Fed
    <2>3. k \in Nat /\ 0 + k = k /\ 0 \in Nat /\ Rows(s) \in Int /\ Rows(s) - 0 <= Rows(s)
      BY <1>5
    <2>4. Moves(s, s2, 0 + k, Rows(s))
      BY <1>5, <1>7, <2>1, <2>2, <2>3, MovesTwice
    <2> QED
      BY <2>3, <2>4
  <1>15. CASE s3 = s2
    <2>1. PICK j \in 0..1 : Moves(s2, s4, j, Rows(s2))
      BY <1>10, <1>15 DEF Fed
    <2>2. /\ k \in Nat /\ j \in Nat /\ k + j \in 0..2 /\ k + j \in Nat
          /\ Rows(s) \in Int /\ Rows(s) - k <= Rows(s)
      BY <1>5
    <2>3. Moves(s, s4, k + j, Rows(s))
      BY <1>7, <1>11, <1>14, <2>1, <2>2, MovesTwice
    <2>4. Records(s, s4, k + j, Rows(s)) /\ Follows(s, s4, k + j)
      BY <2>2, <2>3, MovesRecord DEF Moves
    <2>5. Recorded(s, s4, 2, Rows(s))
      BY <2>2, <2>4 DEF Recorded
    <2> QED
      BY <1>3, <1>12, <1>13, <2>5, RecordedThen
  <1>16. CASE s4 = s3
    <2>1. SamePast(s2, z)
      BY <1>8, <1>12, <1>16 DEF Writes, SamePast
    <2>2. k \in Nat /\ k \in 0..2 /\ Rows(s) \in Int
      BY <1>5
    <2>3. Records(s, s2, k, Rows(s)) /\ Follows(s, s2, k)
      BY <1>14, <2>2, MovesRecord DEF Moves
    <2>4. Recorded(s, s2, 2, Rows(s))
      BY <2>2, <2>3 DEF Recorded
    <2> QED
      BY <1>3, <1>13, <2>1, <2>4, RecordedThen
  <1> QED
    BY <1>4, <1>15, <1>16

LEMMA FedRecords ==
  ASSUME NEW s, NEW z, Sound(s), Fed(s, z), NEW m \in Nat, 1 <= m
  PROVE  Recorded(s, z, m, Rows(s))
  <1>1. PICK k \in 0..1 : Moves(s, z, k, Rows(s))
    BY DEF Fed
  <1>2. k \in Nat /\ k \in 0..m /\ Rows(s) \in Int
    BY AboveIs
  <1>3. Records(s, z, k, Rows(s)) /\ Follows(s, z, k)
    BY <1>1, <1>2, MovesRecord DEF Moves
  <1> QED
    BY <1>2, <1>3 DEF Recorded

\* A text, character by character, each of which moves two lines at most.  What a
\* single one moves is known of all rows.
LEMMA PrintedPrints ==
  ASSUME NEW s, Sound(s), NEW text \in Seq(Characters)
  PROVE  /\ Prints(s, Printed(s, text), 2 * Len(text))
         /\ Len(text) = 1 => Recorded(s, Printed(s, text), 2, Rows(s))
  <1> DEFINE V == {z \in Terminals(s.row, s.col, s.maxcol) : Edits(s, z)}
             n == Len(text)
             step == [v \in V \X Nat |->
                        IF v[2] \in 1..n THEN PutOrBreak(v[1], text[v[2]]) ELSE v[1]]
             made(f) == f = [k \in 0..n |-> IF k = 0 THEN s ELSE PutOrBreak(f[k - 1], text[k])]
             after == CHOOSE f : made(f)
  <1>1. n \in Nat /\ \A k \in 1..n : text[k] \in Characters
    OBVIOUS
  <1>2. \A z : z \in V <=> Edits(s, z)
    BY DEF Edits, Sound
  <1> HIDE DEF V
  <1>3. s \in V
    BY <1>2, EditsNothing
  <1>4. ASSUME NEW v, Sound(v), NEW u \in Characters
        PROVE  Prints(v, PutOrBreak(v, u), 2) /\ Recorded(v, PutOrBreak(v, u), 2, Rows(v))
    <2>1. TRUE \in BOOLEAN /\ 1 \in Nat /\ 2 \in Nat /\ 1 <= 2
      OBVIOUS
    <2>2. Edits(v, TNewline(v, TRUE)) /\ Fed(v, TNewline(v, TRUE))
      BY <1>4, <2>1, NewlineEdits, Zenon
    <2>3. Prints(v, TNewline(v, TRUE), 2)
      BY <1>4, <2>1, <2>2, FedPrints, PrintsFewer
    <2>4. Prints(v, TPutC(v, u), 2) /\ Recorded(v, TPutC(v, u), 2, Rows(v))
      BY <1>4, PutCPrints, Zenon
    <2>5. PutOrBreak(v, u) \in {TNewline(v, TRUE), TPutC(v, u)}
      BY DEF PutOrBreak
    <2>6. Recorded(v, TNewline(v, TRUE), 2, Rows(v))
      BY <1>4, <2>1, <2>2, FedRecords
    <2> QED
      BY <2>3, <2>4, <2>5, <2>6
  <1>5. \A v \in V, k \in 1..n : PutOrBreak(v, text[k]) \in V
    <2> SUFFICES ASSUME NEW v \in V, NEW k \in 1..n
                 PROVE  PutOrBreak(v, text[k]) \in V
      OBVIOUS
    <2>1. Edits(s, v) /\ Sound(v)
      BY <1>2 DEF Edits
    <2>2. Edits(v, PutOrBreak(v, text[k]))
      BY <1>1, <1>4, <2>1 DEF Prints
    <2> QED
      BY <1>2, <2>1, <2>2, EditsTwice
  <1>6. IsStep(step, V)
    BY <1>5 DEF IsStep
  <1> HIDE DEF n
  <1>7. PICK f : Unfolds(f, n, s, step, V)
    BY <1>1, <1>3, <1>6, UnfoldsExists DEF IsStep
  <1>8. made(f)
    <2>1. \A k \in 1..n : k - 1 \in 0..n /\ k \in Nat
      BY <1>1
    <2>2. ASSUME NEW k \in 1..n
          PROVE  f[k] = PutOrBreak(f[k - 1], text[k])
      <3>1. f[k - 1] \in V /\ f[k] = step[<<f[k - 1], k>>]
        BY <1>7, <2>1 DEF Unfolds
      <3> QED
        BY <2>1, <3>1
    <2> HIDE DEF step
    <2>3. f \in [0..n -> V] /\ f[0] = s
      BY <1>7 DEF Unfolds
    <2>4. \A k \in 0..n : k = 0 \/ k \in 1..n
      BY <1>1
    <2> QED
      BY <2>2, <2>3, <2>4
  <1>9. made(after)
    BY <1>8
  <1> HIDE DEF after
  <1> DEFINE S == {k \in Nat : k <= n => Prints(s, after[k], 2 * k)}
  <1>10. 0 \in S
    <2>1. after[0] = s
      BY <1>1, <1>9
    <2> QED
      BY <2>1, PrintsNothing
  <1>11. ASSUME NEW k \in Nat, k \in S
         PROVE  k + 1 \in S
    <2> SUFFICES ASSUME k + 1 <= n
                 PROVE  Prints(s, after[k + 1], 2 * (k + 1))
      OBVIOUS
    <2>1. k + 1 \in 1..n /\ k + 1 \in 0..n /\ k + 1 # 0 /\ (k + 1) - 1 = k
      BY <1>1
    <2>2. Prints(s, after[k], 2 * k)
      BY <1>1, <1>11
    <2>3. after[k + 1] = PutOrBreak(after[k], text[k + 1])
      BY <1>9, <2>1
    <2>4. Sound(after[k])
      BY <2>2 DEF Prints, Edits
    <2>5. Prints(after[k], after[k + 1], 2)
      BY <1>1, <1>4, <2>1, <2>3, <2>4
    <2>6. 2 * k \in Nat /\ 2 \in Nat /\ 2 * k + 2 = 2 * (k + 1)
      OBVIOUS
    <2>7. Prints(s, after[k + 1], 2 * k + 2)
      BY <2>2, <2>5, <2>6, PrintsTwice
    <2> QED
      BY <2>6, <2>7
  <1>12. Prints(s, after[n], 2 * n)
    <2> HIDE DEF S
    <2>1. Nat \subseteq S
      BY <1>10, <1>11, NatInductionOnSets
    <2> QED
      BY <1>1, <2>1 DEF S
  <1>13. Printed(s, text) = after[n]
    BY DEF Printed, after, n
  <1>14. n = 1 => Recorded(s, after[n], 2, Rows(s))
    <2> SUFFICES ASSUME n = 1
                 PROVE  Recorded(s, after[1], 2, Rows(s))
      OBVIOUS
    <2>1. after[0] = s /\ after[1] = PutOrBreak(after[0], text[1]) /\ 1 \in 1..n
      BY <1>9
    <2>2. text[1] \in Characters
      BY <1>1, <2>1
    <2>3. Recorded(s, PutOrBreak(s, text[1]), 2, Rows(s))
      BY <1>4, <2>2
    <2> QED
      BY <2>1, <2>3
  <1> QED
    BY <1>12, <1>13, <1>14 DEF n

-----------------------------------------------------------------------------
(* Insertion and deletion.                                                  *)

LEMMA ShiftRowWrites ==
  ASSUME NEW s, Sound(s), NEW dst \in Nat, NEW src \in Nat, NEW num \in Nat,
         src + num <= s.maxcol
  PROVE  Writes(s, [s EXCEPT !.line[s.c.y] = Shift(@, dst, src, num)])
  <1> DEFINE y == s.c.y
             row == Shift(s.line[y], dst, src, num)
  <1>1. y \in RowsOf(s) /\ s.dirty \in SUBSET (0..(s.row - 1)) /\ s.maxcol \in Nat
    BY SoundIs DEF RowsOf
  <1>2. s.line[y] \in LinesOf(s.maxcol)
    BY <1>1, LineIs
  <1>3. row \in LinesOf(s.maxcol)
    BY <1>1, <1>2, ShiftIs
  <1> HIDE DEF row
  <1>4. Writes(s, [s EXCEPT !.line[y] = row])
    BY <1>1, <1>3, RowOnly, Zenon
  <1> QED
    BY <1>4 DEF row

LEMMA InsertBlankWrites ==
  ASSUME NEW s, Sound(s), NEW num \in Int
  PROVE  Writes(s, TInsertBlank(s, num))
  <1> DEFINE hi == s.col - s.c.x
             n == Limit(num, 0, hi)
             dst == s.c.x + n
             k == s.col - dst
             z == [s EXCEPT !.line[s.c.y] = Shift(@, dst, s.c.x, k)]
  <1>1. hi \in Int /\ 0 <= hi /\ 0 \in Int /\ s.c.x \in Nat /\ s.col \in Nat /\ s.maxcol \in Nat
        /\ s.col <= s.maxcol /\ s.c.y \in Int
    BY SoundIs
  <1>2. n \in 0..hi
    <2> HIDE DEF hi
    <2> QED
      BY <1>1, LimitIs
  <1>3. TInsertBlank(s, num) = TClearRegion(z, s.c.x, s.c.y, dst - 1, s.c.y)
    BY DEF TInsertBlank
  <1> HIDE DEF n
  <1>4. dst \in Nat /\ k \in Nat /\ s.c.x + k <= s.maxcol /\ dst - 1 \in Int
    BY <1>1, <1>2
  <1> HIDE DEF dst, k
  <1>5. Writes(s, z)
    BY <1>1, <1>4, ShiftRowWrites
  <1> HIDE DEF z
  <1>6. Writes(z, TClearRegion(z, s.c.x, s.c.y, dst - 1, s.c.y))
    <2>1. Sound(z) /\ s.c.x \in Int
      BY <1>1, <1>5 DEF Writes, Edits
    <2> QED
      BY <1>1, <1>4, <2>1, ClearRegionWrites
  <1> QED
    BY <1>3, <1>5, <1>6, WritesTwice

LEMMA DeleteCharWrites ==
  ASSUME NEW s, Sound(s), NEW num \in Int
  PROVE  Writes(s, TDeleteChar(s, num))
  <1> DEFINE hi == s.col - s.c.x
             n == Limit(num, 0, hi)
             src == s.c.x + n
             k == s.col - src
             z == [s EXCEPT !.line[s.c.y] = Shift(@, s.c.x, src, k)]
  <1>1. hi \in Int /\ 0 <= hi /\ 0 \in Int /\ s.c.x \in Nat /\ s.col \in Nat /\ s.maxcol \in Nat
        /\ s.col <= s.maxcol /\ s.c.y \in Int
    BY SoundIs
  <1>2. n \in 0..hi
    <2> HIDE DEF hi
    <2> QED
      BY <1>1, LimitIs
  <1>3. TDeleteChar(s, num) = TClearRegion(z, s.col - n, s.c.y, s.col - 1, s.c.y)
    BY DEF TDeleteChar
  <1> HIDE DEF n
  <1>4. src \in Nat /\ k \in Nat /\ src + k <= s.maxcol /\ s.col - n \in Int /\ s.col - 1 \in Int
    BY <1>1, <1>2
  <1> HIDE DEF src, k
  <1>5. Writes(s, z)
    BY <1>1, <1>4, ShiftRowWrites
  <1> HIDE DEF z
  <1>6. Writes(z, TClearRegion(z, s.col - n, s.c.y, s.col - 1, s.c.y))
    <2>1. Sound(z)
      BY <1>5 DEF Writes, Edits
    <2> QED
      BY <1>1, <1>4, <2>1, ClearRegionWrites
  <1> QED
    BY <1>3, <1>5, <1>6, WritesTwice

\* DECALN.
LEMMA AlignWrites ==
  ASSUME NEW s, Sound(s)
  PROVE  Writes(s, Aligned(s))
  <1> DEFINE V == {z \in Terminals(s.row, s.col, s.maxcol) : Writes(s, z)}
             n == s.col * s.row
             next(z, k) == TSetChar(z, "E", (k - 1) \div s.row, (k - 1) % s.row)
             step == [v \in V \X Nat |-> IF v[2] \in 1..n THEN next(v[1], v[2]) ELSE v[1]]
             made(f) == f = [k \in 0..n |-> IF k = 0 THEN s ELSE next(f[k - 1], k)]
             after == CHOOSE f : made(f)
  <1>1. n \in Nat /\ s.row \in Nat /\ s.row > 0
    BY SoundIs
  <1>2. \A z : z \in V <=> Writes(s, z)
    BY DEF Writes, Edits, Sound
  <1> HIDE DEF V
  <1>3. s \in V
    BY <1>2, EditsNothing DEF Writes
  <1> HIDE DEF n
  <1>4. \A v \in V, k \in 1..n : next(v, k) \in V
    <2> SUFFICES ASSUME NEW v \in V, NEW k \in 1..n
                 PROVE  next(v, k) \in V
      BY DEF next
    <2>1. Writes(s, v) /\ Sound(v) /\ v.row = s.row
      BY <1>2 DEF Writes, Edits
    <2>2. PICK m \in Nat : m = k - 1
      BY <1>1
    <2>3. (k - 1) % s.row \in RowsOf(v)
      BY <1>1, <2>1, <2>2 DEF RowsOf
    <2>4. "E" \in Characters
      BY DEF Characters
    <2>5. Writes(v, next(v, k))
      BY <2>1, <2>3, <2>4, SetCharWrites
    <2> QED
      BY <1>2, <2>1, <2>5, WritesTwice
  <1>5. Aligned(s) = after[n]
    BY DEF Aligned, n
  <1> HIDE DEF next
  <1>6. IsStep(step, V)
    BY <1>4 DEF IsStep
  <1>7. PICK f : Unfolds(f, n, s, step, V)
    BY <1>1, <1>3, <1>6, UnfoldsExists DEF IsStep
  <1>8. made(f)
    <2>1. \A k \in 1..n : k - 1 \in 0..n /\ k \in Nat
      BY <1>1
    <2>2. ASSUME NEW k \in 1..n
          PROVE  f[k] = next(f[k - 1], k)
      <3>1. f[k - 1] \in V /\ f[k] = step[<<f[k - 1], k>>]
        BY <1>7, <2>1 DEF Unfolds
      <3> QED
        BY <2>1, <3>1
    <2> HIDE DEF step
    <2>3. f \in [0..n -> V] /\ f[0] = s
      BY <1>7 DEF Unfolds
    <2>4. \A k \in 0..n : k = 0 \/ k \in 1..n
      BY <1>1
    <2> QED
      BY <2>2, <2>3, <2>4
  <1>9. made(after)
    BY <1>8
  <1> HIDE DEF after
  <1>10. after[0] \in V
    BY <1>1, <1>3, <1>9
  <1>11. \A k \in 1..n : after[k - 1] \in V => after[k] \in V
    <2>1. ASSUME NEW k \in 1..n
          PROVE  after[k] = next(after[k - 1], k)
      <3>1. k \in 0..n /\ k # 0
        BY <1>1
      <3> QED
        BY <1>9, <3>1
    <2> QED
      BY <1>4, <2>1
  <1>12. after[n] \in V
    <2>1. \A k \in 0..n : after[k] \in V
      BY <1>1, <1>10, <1>11, StaysIn
    <2> QED
      BY <1>1, <2>1
  <1> QED
    BY <1>2, <1>12, <1>5

LEMMA LineOperations ==
  ASSUME NEW s, Sound(s), NEW num \in Int
  PROVE  /\ Edits(s, TInsertBlankLine(s, num)) /\ SamePast(s, TInsertBlankLine(s, num))
         /\ Edits(s, TDeleteLine(s, num)) /\ SameLog(s, TDeleteLine(s, num))
  <1>1. FALSE \in BOOLEAN
    OBVIOUS
  <1>2. CASE InRegion(s)
    <2>1. s.c.y \in s.top..s.bot
      BY <1>2 DEF InRegion
    <2>2. Edits(s, TScrollDown(s, s.c.y, num, FALSE)) /\ SamePast(s, TScrollDown(s, s.c.y, num, FALSE))
      BY <1>1, <2>1, ScrollDownEdits, Zenon
    <2>3. Edits(s, TScrollUp(s, s.c.y, num, FALSE)) /\ SameLog(s, TScrollUp(s, s.c.y, num, FALSE))
      BY <1>1, <2>1, ScrollUpEdits, Zenon
    <2> QED
      BY <1>2, <2>2, <2>3 DEF TInsertBlankLine, TDeleteLine
  <1>3. CASE ~InRegion(s)
    BY <1>3, EditsNothing DEF TInsertBlankLine, TDeleteLine, SamePast, SameLog
  <1> QED
    BY <1>2, <1>3

-----------------------------------------------------------------------------
(* Tab stops.                                                               *)

LEMMA StopsIn ==
  ASSUME NEW s, Sound(s), NEW x \in 0..s.maxcol
  PROVE  NextStop(s, x) \in 0..s.maxcol /\ PreviousStop(s, x) \in 0..s.maxcol
  <1> DEFINE A == {s.col} \cup {y \in s.tabs : x < y /\ y < s.col}
             B == {0} \cup {y \in s.tabs : y < x}
  <1>1. PICK m \in Nat : m = s.maxcol
    BY SoundIs
  <1>2. s.col \in 0..m /\ s.tabs \in SUBSET (0..m)
    BY <1>1, SoundIs
  <1>3. A \in SUBSET (0..m) /\ B \in SUBSET (0..m) /\ A # {} /\ B # {}
    BY <1>1, <1>2
  <1>4. NextStop(s, x) = Min(A) /\ PreviousStop(s, x) = Max(B)
    BY DEF NextStop, PreviousStop
  <1> HIDE DEF A, B
  <1>5. Min(A) \in A
    <2>1. A \in SUBSET Int /\ 0 \in Int /\ \A y \in A : 0 <= y
      BY <1>3
    <2> QED
      BY <1>3, <2>1, MinIs
  <1>6. Max(B) \in B
    <2>1. B \in SUBSET Int /\ m \in Int /\ \A y \in B : y <= m
      BY <1>3
    <2> QED
      BY <1>3, <2>1, MaxIs
  <1> QED
    BY <1>1, <1>3, <1>4, <1>5, <1>6

LEMMA PutTabEdits ==
  ASSUME NEW s, Sound(s), NEW n \in Int
  PROVE  Edits(s, TPutTab(s, n)) /\ SamePast(s, TPutTab(s, n))
  <1> DEFINE V == 0..s.maxcol
             next(x) == IF n > 0 THEN NextStop(s, x) ELSE PreviousStop(s, x)
             step == [v \in V \X Nat |-> next(v[1])]
             made(f) == f = [k \in Nat |-> IF k = 0 THEN s.c.x ELSE next(f[k - 1])]
             at == CHOOSE f : made(f)
             i == IF n > 0 THEN n ELSE -n
             x == Limit(at[i], 0, s.col - 1)
             c == [s.c EXCEPT !.x = x]
  <1>1. s.c.x \in V
    BY SoundIs
  <1>2. \A v \in V : next(v) \in V
    BY StopsIn
  <1>3. TPutTab(s, n) = [s EXCEPT !.c.x = x]
    BY DEF TPutTab
  <1> HIDE DEF V, next
  <1>4. IsStep(step, V)
    BY <1>2 DEF IsStep
  <1>5. PICK f \in [Nat -> V] : f[0] = s.c.x /\ \A k \in Nat : f[k + 1] = step[<<f[k], k + 1>>]
    <2> HIDE DEF step
    <2> QED
      BY <1>1, <1>4, NatRecursion
  <1>6. made(f)
    <2>1. ASSUME NEW k \in Nat, k # 0
          PROVE  f[k] = next(f[k - 1])
      <3>1. k - 1 \in Nat /\ (k - 1) + 1 = k
        BY <2>1
      <3>2. f[k] = step[<<f[k - 1], k>>] /\ f[k - 1] \in V
        BY <1>5, <3>1
      <3> QED
        BY <3>2
    <2> QED
      BY <1>5, <2>1
  <1>7. made(at)
    BY <1>6
  <1> HIDE DEF at
  <1> DEFINE I == {k \in Nat : at[k] \in V}
  <1>8. 0 \in I
    BY <1>1, <1>7
  <1>9. ASSUME NEW k \in Nat, k \in I
        PROVE  k + 1 \in I
    <2>1. k + 1 \in Nat /\ k + 1 # 0 /\ (k + 1) - 1 = k
      OBVIOUS
    <2>2. at[k + 1] = next(at[k])
      BY <1>7, <2>1
    <2> QED
      BY <1>2, <1>9, <2>2
  <1>10. Nat \subseteq I
    <2> HIDE DEF I
    <2> QED
      BY <1>8, <1>9, NatInductionOnSets
  <1>11. at[i] \in Int
    <2>1. i \in Nat
      OBVIOUS
    <2> HIDE DEF i
    <2> QED
      BY <1>10, <2>1 DEF V
  <1>12. x \in 0..(s.col - 1)
    BY <1>11, LimitsIn
  <1> HIDE DEF x
  <1>13. /\ c \in Cursors /\ c.x = x /\ c.y = s.c.y /\ c.origin = s.c.origin
         /\ c.y \in 0..(s.row - 1)
    <2>1. s.c \in Cursors /\ s.c.y \in 0..(s.row - 1) /\ x \in Int
      BY <1>12, SoundIs
    <2> QED
      BY <2>1 DEF Cursors
  <1>14. [s EXCEPT !.c.x = x] = [s EXCEPT !.c = c]
    OBVIOUS
  <1> HIDE DEF c
  <1>15. Edits(s, [s EXCEPT !.c = c]) /\ SamePast(s, [s EXCEPT !.c = c])
    BY <1>12, <1>13, CursorSet, Zenon
  <1> QED
    BY <1>3, <1>14, <1>15

-----------------------------------------------------------------------------
(* The view.                                                                *)

\* The page keys show earlier lines of the same history, or later ones.
LEMMA LookIs ==
  ASSUME NEW s, Sound(s), NEW v \in 0..HISTSIZE, NEW n \in Int
  PROVE  LET z == TFullDirt(SelScroll([s EXCEPT !.scr = v], 0, n))
         IN Edits(s, z) /\ SameLog(s, z) /\ z.scr = v /\ z.line = s.line
  <1> DEFINE a == [s EXCEPT !.scr = v]
             b == SelScroll(a, 0, n)
             z == TFullDirt(b)
  <1>1. Edits(s, a) /\ SameLog(s, a) /\ a.scr = v /\ a.line = s.line
    <2>1. Edits(s, a) /\ SameLog(s, a)
      BY ScrSet, Zenon
    <2>2. a.scr = v /\ a.line = s.line
      BY DEF Sound, Terminals
    <2> QED
      BY <2>1, <2>2
  <1> HIDE DEF a
  <1>2. Sound(a) /\ 0 \in Int
    BY <1>1 DEF Edits
  <1>3. Marks(a, b)
    BY <1>2, SelScrollMarks
  <1> HIDE DEF b
  <1>4. Sound(b)
    BY <1>3 DEF Marks, Edits
  <1>5. Marks(b, z)
    BY <1>4, FullDirtMarks
  <1>6. Marks(a, z)
    BY <1>3, <1>5, MarksTwice
  <1> HIDE DEF z
  <1>7. Edits(a, z) /\ SamePast(a, z) /\ z.line = a.line
    BY <1>6 DEF Marks
  <1>8. Edits(s, z) /\ SameLog(s, z) /\ z.scr = v /\ z.line = s.line
    BY <1>1, <1>7, EditsTwice DEF SamePast, SameLog
  <1> QED
    BY <1>8 DEF z, b, a

LEMMA LookForwardIs ==
  ASSUME NEW s, Sound(s), NEW arg \in Int, arg >= -1
  PROVE  LET z == KScrollDown(s, arg)
         IN /\ Edits(s, z) /\ SameLog(s, z) /\ z.line = s.line
            /\ arg = s.scr => z.scr = 0
  <1> DEFINE n == Min({Lines(s, arg), s.scr})
             v == s.scr - n
             m == 0 - n
             z == TFullDirt(SelScroll([s EXCEPT !.scr = v], 0, m))
  <1>1. Lines(s, arg) \in Nat /\ (arg >= 0 => Lines(s, arg) = arg)
    BY SoundIs DEF Lines
  <1>2. s.scr \in 0..HISTSIZE /\ HISTSIZE \in Nat
    BY SoundIs, HistoryAssumption
  <1>3. n = IF Lines(s, arg) <= s.scr THEN Lines(s, arg) ELSE s.scr
    <2>1. PICK k \in Int : k = Lines(s, arg)
      BY <1>1
    <2>2. PICK h \in Int : h = s.scr
      BY <1>2
    <2> QED
      BY <2>1, <2>2, TwoInts
  <1>4. KScrollDown(s, arg) =
          IF s.scr = 0 THEN s ELSE TFullDirt(SelScroll([s EXCEPT !.scr = s.scr - n], 0, -n))
    BY DEF KScrollDown
  <1> HIDE DEF n
  <1>5. v \in 0..HISTSIZE /\ m \in Int /\ -n = m /\ (arg = s.scr => v = 0)
    BY <1>1, <1>2, <1>3
  <1>6. KScrollDown(s, arg) = IF s.scr = 0 THEN s ELSE z
    BY <1>4, <1>5
  <1> HIDE DEF v, m
  <1>7. Edits(s, z) /\ SameLog(s, z) /\ z.scr = v /\ z.line = s.line
    BY <1>5, LookIs, Zenon
  <1> HIDE DEF z
  <1>8. Edits(s, s) /\ SameLog(s, s)
    BY EditsNothing DEF SameLog
  <1> QED
    BY <1>5, <1>6, <1>7, <1>8

LEMMA LookBackIs ==
  ASSUME NEW s, Sound(s), NEW arg \in Int, arg >= -1
  PROVE  Edits(s, KScrollUp(s, arg)) /\ SameLog(s, KScrollUp(s, arg))
  <1> DEFINE n == Lines(s, arg)
             v == s.scr + n
             z == TFullDirt(SelScroll([s EXCEPT !.scr = v], 0, n))
  <1>1. n \in Nat
    BY SoundIs DEF Lines
  <1>2. KScrollUp(s, arg) = IF s.scr > HISTSIZE - n THEN s ELSE z
    BY DEF KScrollUp
  <1> HIDE DEF n
  <1>3. Edits(s, s) /\ SameLog(s, s)
    BY EditsNothing DEF SameLog
  <1>4. CASE ~(s.scr > HISTSIZE - n)
    <2>1. v \in 0..HISTSIZE /\ n \in Int
      BY <1>1, <1>4, SoundIs, HistoryAssumption
    <2> HIDE DEF v
    <2>2. Edits(s, z) /\ SameLog(s, z)
      BY <2>1, LookIs, Zenon
    <2> HIDE DEF z
    <2> QED
      BY <1>2, <1>4, <2>2
  <1> HIDE DEF z
  <1>5. CASE s.scr > HISTSIZE - n
    BY <1>2, <1>3, <1>5
  <1> QED
    BY <1>4, <1>5

-----------------------------------------------------------------------------
(* The two screens and the saved cursors.                                   *)

\* What leaves the size, the history and the region as they are.
Keeps(s, z) ==
  /\ Sound(z)
  /\ z.row = s.row /\ z.col = s.col /\ z.maxcol = s.maxcol /\ z.top = s.top /\ z.bot = s.bot
  /\ SamePast(s, z)
  /\ OriginHolds(s) => OriginHolds(z)

LEMMA KeepsTwice ==
  ASSUME NEW s, NEW z, NEW w, Keeps(s, z), Keeps(z, w)
  PROVE  Keeps(s, w)
  BY DEF Keeps, SamePast

LEMMA EditsKeep ==
  ASSUME NEW s, NEW z, Edits(s, z), SamePast(s, z)
  PROVE  Keeps(s, z)
  BY DEF Edits, Keeps

LEMMA ModeSet ==
  ASSUME NEW s, Sound(s), NEW m \in SUBSET Modes
  PROVE  LET z == [s EXCEPT !.mode = m]
         IN /\ Keeps(s, z) /\ z.mode = m
            /\ z.line = s.line /\ z.alt = s.alt /\ z.saved = s.saved /\ z.c = s.c
  BY DEF Sound, Terminals, Keeps, SamePast, OriginHolds, ColsOf, RowsOf

LEMMA TabsSet ==
  ASSUME NEW s, Sound(s), NEW d \in SUBSET (0..(s.maxcol - 1))
  PROVE  LET z == [s EXCEPT !.tabs = d]
         IN Edits(s, z) /\ SamePast(s, z)
  BY DEF Sound, Terminals, Edits, SamePast, OriginHolds, ColsOf, RowsOf

LEMMA SavedSet ==
  ASSUME NEW s, Sound(s), NEW d \in [BOOLEAN -> Cursors]
  PROVE  LET z == [s EXCEPT !.saved = d]
         IN /\ Keeps(s, z) /\ z.saved = d
            /\ z.line = s.line /\ z.alt = s.alt /\ z.mode = s.mode /\ z.c = s.c
  BY DEF Sound, Terminals, Keeps, SamePast, OriginHolds, ColsOf, RowsOf

LEMMA ScreenSet ==
  ASSUME NEW s, Sound(s), NEW l \in Screens(s.row, s.maxcol)
  PROVE  LET z == [s EXCEPT !.line = l]
         IN /\ Keeps(s, z) /\ z.line = l
            /\ z.alt = s.alt /\ z.mode = s.mode /\ z.saved = s.saved /\ z.c = s.c
  BY DEF Sound, Terminals, Keeps, SamePast, OriginHolds, ColsOf, RowsOf

LEMMA OtherScreenSet ==
  ASSUME NEW s, Sound(s), NEW l \in Screens(s.row, s.maxcol)
  PROVE  LET z == [s EXCEPT !.alt = l]
         IN /\ Keeps(s, z) /\ z.alt = l
            /\ z.line = s.line /\ z.mode = s.mode /\ z.saved = s.saved /\ z.c = s.c
  BY DEF Sound, Terminals, Keeps, SamePast, OriginHolds, ColsOf, RowsOf

\* tswapscreen.
LEMMA SwapIs ==
  ASSUME NEW s, Sound(s)
  PROVE  LET z == TSwapScreen(s)
         IN /\ Keeps(s, z) /\ z.line = s.alt /\ z.alt = s.line
            /\ z.saved = s.saved /\ z.c = s.c /\ (Alt(z) <=> ~Alt(s))
  <1> DEFINE m == IF Alt(s) THEN s.mode \ {"altscreen"} ELSE s.mode \cup {"altscreen"}
             l == s.alt
             a == s.line
             v == [s EXCEPT !.line = l]
             u == [v EXCEPT !.alt = a]
             w == [u EXCEPT !.mode = m]
             z == TFullDirt(w)
  <1>1. m \in SUBSET Modes /\ ("altscreen" \in m <=> ~Alt(s))
    BY SoundIs DEF Modes, Alt
  <1>2. TSwapScreen(s) = z
    BY DEF TSwapScreen
  <1> HIDE DEF m
  <1>3. l \in Screens(s.row, s.maxcol) /\ a \in Screens(s.row, s.maxcol)
    BY SoundIs
  <1>4. /\ Keeps(s, w) /\ w.line = s.alt /\ w.alt = s.line /\ w.mode = m
        /\ w.saved = s.saved /\ w.c = s.c
    <2> HIDE DEF l, a
    <2>1. /\ Keeps(s, v) /\ v.line = l
          /\ v.alt = s.alt /\ v.mode = s.mode /\ v.saved = s.saved /\ v.c = s.c
      BY <1>3, ScreenSet, Zenon
    <2> HIDE DEF v
    <2>2. Sound(v) /\ a \in Screens(v.row, v.maxcol)
      BY <1>3, <2>1 DEF Keeps
    <2>3. /\ Keeps(v, u) /\ u.alt = a
          /\ u.line = v.line /\ u.mode = v.mode /\ u.saved = v.saved /\ u.c = v.c
      BY <2>2, OtherScreenSet, Zenon
    <2> HIDE DEF u
    <2>4. Sound(u) /\ m \in SUBSET Modes
      BY <1>1, <2>3 DEF Keeps
    <2>5. /\ Keeps(u, w) /\ w.mode = m
          /\ w.line = u.line /\ w.alt = u.alt /\ w.saved = u.saved /\ w.c = u.c
      BY <2>4, ModeSet, Zenon
    <2> HIDE DEF w
    <2> QED
      BY <2>5, <2>1, <2>3, KeepsTwice DEF l, a
  <1> HIDE DEF w
  <1>5. Marks(w, z)
    BY <1>4, FullDirtMarks DEF Keeps
  <1> HIDE DEF z
  <1>6. Keeps(w, z) /\ z.line = w.line /\ z.alt = w.alt /\ z.saved = w.saved /\ z.c = w.c
        /\ z.mode = w.mode
    BY <1>5, EditsKeep DEF Marks, Edits, SameCursor
  <1>7. Keeps(s, z)
    BY <1>4, <1>6, KeepsTwice
  <1> QED
    BY <1>1, <1>2, <1>4, <1>6, <1>7 DEF Alt

LEMMA AltIs ==
  ASSUME NEW s
  PROVE  Alt(s) \in BOOLEAN
  BY DEF Alt

\* tcursor keeps one cursor per screen.
LEMMA SaveIs ==
  ASSUME NEW s, Sound(s)
  PROVE  LET z == TCursorSave(s)
         IN /\ Keeps(s, z) /\ z.line = s.line /\ z.alt = s.alt /\ z.mode = s.mode /\ z.c = s.c
            /\ z.saved[Alt(s)] = s.c
            /\ Alt(s) => z.saved[FALSE] = s.saved[FALSE]
  <1> DEFINE d == [s.saved EXCEPT ![Alt(s)] = s.c]
             z == [s EXCEPT !.saved = d]
  <1>1. s.saved \in [BOOLEAN -> Cursors] /\ s.c \in Cursors
    BY SoundIs
  <1>2. d \in [BOOLEAN -> Cursors]
    BY <1>1
  <1>3. d[Alt(s)] = s.c /\ (Alt(s) => d[FALSE] = s.saved[FALSE])
    BY <1>1, AltIs
  <1>4. TCursorSave(s) = z
    BY DEF TCursorSave
  <1> HIDE DEF d
  <1>5. /\ Keeps(s, z) /\ z.saved = d
        /\ z.line = s.line /\ z.alt = s.alt /\ z.mode = s.mode /\ z.c = s.c
    BY <1>2, SavedSet, Zenon
  <1> HIDE DEF z
  <1> QED
    BY <1>3, <1>4, <1>5

\* Wherever it was saved, the cursor comes back onto the screen and, in origin
\* mode, into the region.
LEMMA LoadIs ==
  ASSUME NEW s, Sound(s)
  PROVE  LET z == TCursorLoad(s)
             d == s.saved[Alt(s)]
         IN /\ Keeps(s, z) /\ OriginHolds(z)
            /\ z.line = s.line /\ z.alt = s.alt /\ z.mode = s.mode /\ z.saved = s.saved
            /\ d.x \in ColsOf(s) /\ d.y \in RowsOf(s) /\ ~d.origin
                 => z.c = [d EXCEPT !.wrapnext = FALSE]
  <1> DEFINE d == s.saved[Alt(s)]
             lo == IF d.origin THEN s.top ELSE 0
             hi == IF d.origin THEN s.bot ELSE s.row - 1
             i == Limit(d.x, 0, s.col - 1)
             j == Limit(d.y, lo, hi)
             e == [d EXCEPT !.wrapnext = FALSE, !.x = i, !.y = j]
             z == [s EXCEPT !.c = e]
  <1>1. d \in Cursors
    <2>1. s.saved \in [BOOLEAN -> Cursors]
      BY SoundIs
    <2> QED
      BY <2>1, AltIs
  <1>2. TCursorLoad(s) = z
    <2> HIDE DEF d
    <2> DEFINE w == [s EXCEPT !.c = d]
    <2>1. w.c = d /\ w.row = s.row /\ w.col = s.col /\ w.top = s.top /\ w.bot = s.bot
      BY DEF Sound, Terminals
    <2>2. [w EXCEPT !.c = e] = z
      <3> HIDE DEF e
      <3> QED
        OBVIOUS
    <2>3. TCursorLoad(s) = TMoveTo(w, d.x, d.y)
      BY DEF TCursorLoad, d
    <2> HIDE DEF w
    <2>4. TMoveTo(w, d.x, d.y) = [w EXCEPT !.c = e]
      BY <2>1 DEF TMoveTo
    <2> QED
      BY <2>2, <2>3, <2>4
  <1> HIDE DEF d
  <1>3. /\ s.top \in 0..(s.row - 1) /\ s.bot \in 0..(s.row - 1)
        /\ s.row \in Nat /\ s.col \in Nat /\ d.x \in Int /\ d.y \in Int
    BY <1>1, SoundIs DEF Cursors
  <1>4. i \in 0..(s.col - 1) /\ (d.x \in 0..(s.col - 1) => i = d.x)
    BY <1>3, LimitsIn
  <1>5. /\ j \in 0..(s.row - 1) /\ (d.origin => j \in s.top..s.bot)
        /\ (d.y \in 0..(s.row - 1) /\ ~d.origin => j = d.y)
    BY <1>3, LimitsIn
  <1> HIDE DEF i, j
  <1>6. e \in Cursors /\ e.x = i /\ e.y = j /\ e.origin = d.origin
    <2>1. i \in Int /\ j \in Int
      BY <1>3, <1>4, <1>5
    <2> QED
      BY <1>1, <2>1 DEF Cursors
  <1>7. d.x = i /\ d.y = j => e = [d EXCEPT !.wrapnext = FALSE]
    BY <1>1 DEF Cursors
  <1> HIDE DEF e
  <1>8. Sound(z) /\ SamePast(s, z) /\ z.c = e
    BY <1>4, <1>5, <1>6, CursorSet, Zenon
  <1>9. /\ z.row = s.row /\ z.col = s.col /\ z.maxcol = s.maxcol /\ z.top = s.top /\ z.bot = s.bot
        /\ z.line = s.line /\ z.alt = s.alt /\ z.mode = s.mode /\ z.saved = s.saved
    BY DEF Sound, Terminals
  <1> HIDE DEF z
  <1>10. OriginHolds(z) /\ Keeps(s, z)
    BY <1>5, <1>6, <1>8, <1>9 DEF OriginHolds, Keeps
  <1>11. d.x \in ColsOf(s) /\ d.y \in RowsOf(s) /\ ~d.origin => z.c = [d EXCEPT !.wrapnext = FALSE]
    BY <1>4, <1>5, <1>7, <1>8 DEF ColsOf, RowsOf
  <1> QED
    BY <1>2, <1>9, <1>10, <1>11 DEF d

\* 47 and 1047: the alternate screen is cleared before it goes.
LEMMA ToScreenIs ==
  ASSUME NEW s, Sound(s), NEW set \in BOOLEAN
  PROVE  LET z == ToScreen(s, set)
         IN /\ Keeps(s, z) /\ z.saved = s.saved /\ z.c = s.c /\ Alt(z) = set
            /\ Alt(s) = set => z.alt = s.alt
            /\ ~Alt(s) /\ set => z.alt = s.line
            /\ Alt(s) /\ ~set => z.line = s.alt
  <1> DEFINE w == IF Alt(s) THEN TClearScreen(s) ELSE s
             v == TSwapScreen(w)
  <1>1. ToScreen(s, set) = IF set # Alt(s) THEN v ELSE w
    BY DEF ToScreen
  <1>2. Writes(s, w)
    BY ClearScreenWrites, EditsNothing DEF Writes
  <1>3. ~Alt(s) => w.line = s.line
    OBVIOUS
  <1> HIDE DEF w
  <1>4. /\ Keeps(s, w) /\ w.alt = s.alt /\ w.saved = s.saved /\ w.c = s.c /\ w.mode = s.mode
    BY <1>2, EditsKeep DEF Writes, Edits, SameCursor
  <1>5. Sound(w) /\ (Alt(w) <=> Alt(s))
    BY <1>4 DEF Keeps, Alt
  <1>6. /\ Keeps(w, v) /\ v.line = w.alt /\ v.alt = w.line
        /\ v.saved = w.saved /\ v.c = w.c /\ (Alt(v) <=> ~Alt(w))
    BY <1>5, SwapIs, Zenon
  <1> HIDE DEF v
  <1>7. Keeps(s, v)
    BY <1>4, <1>6, KeepsTwice
  <1>8. CASE set # Alt(s)
    <2>1. ToScreen(s, set) = v /\ (set <=> ~Alt(s))
      BY <1>1, <1>8, AltIs
    <2>2. Alt(v) = set
      BY <1>5, <1>6, <2>1, AltIs
    <2> QED
      BY <1>3, <1>4, <1>6, <1>7, <1>8, <2>1, <2>2
  <1>9. CASE set = Alt(s)
    <2>1. ToScreen(s, set) = w /\ Alt(w) = set
      BY <1>1, <1>5, <1>9, AltIs
    <2> QED
      BY <1>4, <1>9, <2>1
  <1> QED
    BY <1>8, <1>9

\* 1049 keeps the cursor of the screen that goes and finds that of the one that
\* comes.
LEMMA CursorModeIs ==
  ASSUME NEW s, Sound(s), NEW set \in BOOLEAN
  PROVE  LET z == CursorMode(s, set)
         IN /\ Keeps(s, z)
            /\ z.line = s.line /\ z.alt = s.alt /\ z.mode = s.mode
            /\ Alt(s) \/ ~set => z.saved[FALSE] = s.saved[FALSE]
            /\ set => z.saved[Alt(s)] = s.c /\ z.c = s.c
  <1>1. set => CursorMode(s, set) = TCursorSave(s)
    BY DEF CursorMode
  <1>2. ~set => CursorMode(s, set) = TCursorLoad(s)
    BY DEF CursorMode
  <1> DEFINE z == TCursorSave(s)
             w == TCursorLoad(s)
  <1>3. /\ Keeps(s, z) /\ z.line = s.line /\ z.alt = s.alt /\ z.mode = s.mode /\ z.c = s.c
        /\ z.saved[Alt(s)] = s.c
        /\ Alt(s) => z.saved[FALSE] = s.saved[FALSE]
    BY SaveIs, Zenon
  <1>4. /\ Keeps(s, w)
        /\ w.line = s.line /\ w.alt = s.alt /\ w.mode = s.mode /\ w.saved = s.saved
    BY LoadIs, Zenon
  <1> HIDE DEF z, w
  <1>5. CASE set
    BY <1>1, <1>3, <1>5 DEF z
  <1>6. CASE ~set
    BY <1>2, <1>4, <1>6 DEF w
  <1> QED
    BY <1>5, <1>6

-----------------------------------------------------------------------------
(* The region, the modes of the cursor, and a reset.                        *)

\* What concerns the cursor and the region only.
Settles(s, z) ==
  /\ Sound(z) /\ OriginHolds(z) /\ SamePast(s, z)
  /\ z.row = s.row /\ z.col = s.col /\ z.maxcol = s.maxcol
  /\ z.alt = s.alt /\ z.saved = s.saved /\ z.mode = s.mode

LEMMA TopSet ==
  ASSUME NEW s, Sound(s), NEW a \in 0..s.bot
  PROVE  LET z == [s EXCEPT !.top = a]
         IN /\ Sound(z) /\ SamePast(s, z) /\ z.top = a /\ z.bot = s.bot
            /\ z.row = s.row /\ z.col = s.col /\ z.maxcol = s.maxcol
            /\ z.alt = s.alt /\ z.saved = s.saved /\ z.mode = s.mode
  <1> DEFINE z == [s EXCEPT !.top = a]
  <1>1. a \in 0..(s.row - 1) /\ a <= s.bot
    BY SoundIs
  <1>2. z \in Terminals(s.row, s.col, s.maxcol)
    BY <1>1 DEF Sound, Terminals
  <1>3. /\ z.row = s.row /\ z.col = s.col /\ z.maxcol = s.maxcol /\ z.top = a /\ z.bot = s.bot
        /\ z.c = s.c /\ z.alt = s.alt /\ z.saved = s.saved /\ z.mode = s.mode
        /\ SamePast(s, z)
    BY DEF Sound, Terminals, SamePast
  <1> HIDE DEF z
  <1>4. Sound(z)
    BY <1>1, <1>2, <1>3 DEF Sound, ColsOf, RowsOf
  <1> QED
    BY <1>3, <1>4 DEF z

LEMMA BotSet ==
  ASSUME NEW s, Sound(s), NEW b \in s.top..(s.row - 1)
  PROVE  LET z == [s EXCEPT !.bot = b]
         IN /\ Sound(z) /\ SamePast(s, z) /\ z.top = s.top /\ z.bot = b
            /\ z.row = s.row /\ z.col = s.col /\ z.maxcol = s.maxcol
            /\ z.alt = s.alt /\ z.saved = s.saved /\ z.mode = s.mode
  <1> DEFINE z == [s EXCEPT !.bot = b]
  <1>1. b \in 0..(s.row - 1) /\ s.top <= b
    BY SoundIs
  <1>2. z \in Terminals(s.row, s.col, s.maxcol)
    BY <1>1 DEF Sound, Terminals
  <1>3. /\ z.row = s.row /\ z.col = s.col /\ z.maxcol = s.maxcol /\ z.top = s.top /\ z.bot = b
        /\ z.c = s.c /\ z.alt = s.alt /\ z.saved = s.saved /\ z.mode = s.mode
        /\ SamePast(s, z)
    BY DEF Sound, Terminals, SamePast
  <1> HIDE DEF z
  <1>4. Sound(z)
    BY <1>1, <1>2, <1>3 DEF Sound, ColsOf, RowsOf
  <1> QED
    BY <1>3, <1>4 DEF z

\* The region is set by its top and its bottom; between the two, it is not one.
LEMMA RegionSet ==
  ASSUME NEW s, Sound(s), NEW a \in 0..(s.row - 1), NEW b \in a..(s.row - 1)
  PROVE  LET z == [s EXCEPT !.top = a, !.bot = b]
         IN /\ Sound(z) /\ SamePast(s, z) /\ z.top = a /\ z.bot = b
            /\ z.row = s.row /\ z.col = s.col /\ z.maxcol = s.maxcol
            /\ z.alt = s.alt /\ z.saved = s.saved /\ z.mode = s.mode
  <1> DEFINE u == [s EXCEPT !.top = 0]
             v == [u EXCEPT !.bot = b]
             z == [v EXCEPT !.top = a]
  <1>1. 0 \in 0..s.bot /\ b \in 0..(s.row - 1) /\ a \in 0..b
    BY SoundIs
  <1>2. /\ Sound(u) /\ SamePast(s, u) /\ u.top = 0
        /\ u.row = s.row /\ u.col = s.col /\ u.maxcol = s.maxcol
        /\ u.alt = s.alt /\ u.saved = s.saved /\ u.mode = s.mode
    BY <1>1, TopSet
  <1>3. [s EXCEPT !.top = a, !.bot = b] = z
    BY DEF Sound, Terminals
  <1> HIDE DEF u
  <1>4. b \in u.top..(u.row - 1)
    BY <1>1, <1>2
  <1>5. /\ Sound(v) /\ SamePast(u, v) /\ v.bot = b
        /\ v.row = u.row /\ v.col = u.col /\ v.maxcol = u.maxcol
        /\ v.alt = u.alt /\ v.saved = u.saved /\ v.mode = u.mode
    BY <1>2, <1>4, BotSet
  <1> HIDE DEF v
  <1>6. a \in 0..v.bot
    BY <1>1, <1>5
  <1>7. /\ Sound(z) /\ SamePast(v, z) /\ z.top = a /\ z.bot = v.bot
        /\ z.row = v.row /\ z.col = v.col /\ z.maxcol = v.maxcol
        /\ z.alt = v.alt /\ z.saved = v.saved /\ z.mode = v.mode
    BY <1>5, <1>6, TopSet
  <1> HIDE DEF z
  <1>8. SamePast(s, z)
    BY <1>2, <1>5, <1>7 DEF SamePast
  <1> QED
    BY <1>2, <1>3, <1>5, <1>7, <1>8

LEMMA MoveAToSettles ==
  ASSUME NEW s, NEW z, Sound(z), SamePast(s, z),
         z.row = s.row /\ z.col = s.col /\ z.maxcol = s.maxcol,
         z.alt = s.alt /\ z.saved = s.saved /\ z.mode = s.mode
  PROVE  Settles(s, TMoveATo(z, 0, 0))
  <1> DEFINE w == TMoveATo(z, 0, 0)
  <1>1. 0 \in Int
    OBVIOUS
  <1>2. Edits(z, w) /\ SamePast(z, w) /\ OriginHolds(w)
    BY <1>1, MoveAToEdits, Zenon
  <1> HIDE DEF w
  <1>3. Settles(s, w)
    BY <1>2 DEF Settles, Edits, SamePast
  <1> QED
    BY <1>3 DEF w

\* DECSTBM.
LEMMA RegionSettles ==
  ASSUME NEW s, Sound(s), NEW a \in Int, NEW b \in Int
  PROVE  Settles(s, TMoveATo(TSetScroll(s, a, b), 0, 0))
  <1> DEFINE i == Limit(a, 0, s.row - 1)
             j == Limit(b, 0, s.row - 1)
             lo == Min({i, j})
             hi == Max({i, j})
             z == [s EXCEPT !.top = lo, !.bot = hi]
  <1>1. TSetScroll(s, a, b) = z
    BY DEF TSetScroll
  <1>2. i \in 0..(s.row - 1) /\ j \in 0..(s.row - 1)
    BY LimitsIn
  <1> HIDE DEF i, j
  <1>3. i \in Int /\ j \in Int
    BY <1>2
  <1>4. lo = (IF i <= j THEN i ELSE j) /\ hi = (IF i <= j THEN j ELSE i)
    BY <1>3, TwoInts
  <1> HIDE DEF lo, hi
  <1>5. lo \in 0..(s.row - 1) /\ hi \in lo..(s.row - 1)
    BY <1>2, <1>4
  <1>6. /\ Sound(z) /\ SamePast(s, z)
        /\ z.row = s.row /\ z.col = s.col /\ z.maxcol = s.maxcol
        /\ z.alt = s.alt /\ z.saved = s.saved /\ z.mode = s.mode
    <2>1. Sound(z) /\ SamePast(s, z)
      BY <1>5, RegionSet
    <2> HIDE DEF lo, hi
    <2>2. /\ z.row = s.row /\ z.col = s.col /\ z.maxcol = s.maxcol
          /\ z.alt = s.alt /\ z.saved = s.saved /\ z.mode = s.mode
      BY DEF Sound, Terminals
    <2> QED
      BY <2>1, <2>2
  <1> HIDE DEF z
  <1> QED
    BY <1>1, <1>6, MoveAToSettles

\* DECOM.
LEMMA OriginSettles ==
  ASSUME NEW s, Sound(s), NEW set \in BOOLEAN
  PROVE  Settles(s, TMoveATo([s EXCEPT !.c.origin = set], 0, 0))
  <1> DEFINE c == [s.c EXCEPT !.origin = set]
             z == [s EXCEPT !.c = c]
  <1>1. s.c \in Cursors /\ s.c.x \in 0..(s.col - 1) /\ s.c.y \in 0..(s.row - 1)
    BY SoundIs
  <1>2. c \in Cursors /\ c.x = s.c.x /\ c.y = s.c.y
    BY <1>1 DEF Cursors
  <1>3. [s EXCEPT !.c.origin = set] = z
    OBVIOUS
  <1> HIDE DEF c
  <1>4. Sound(z) /\ SamePast(s, z)
    BY <1>1, <1>2, CursorSet
  <1>5. /\ z.row = s.row /\ z.col = s.col /\ z.maxcol = s.maxcol
        /\ z.alt = s.alt /\ z.saved = s.saved /\ z.mode = s.mode
    BY DEF Sound, Terminals
  <1> HIDE DEF z
  <1> QED
    BY <1>3, <1>4, <1>5, MoveAToSettles

Home == [x |-> 0, y |-> 0, wrapnext |-> FALSE, origin |-> FALSE]

LEMMA HomeIs == Home \in Cursors
  BY DEF Home, Cursors

LEMMA TabStopsIn ==
  ASSUME NEW n \in Nat
  PROVE  TabStops(n) \in SUBSET (0..(n - 1))
  BY DEF TabStops

\* One turn of treset.
LEMMA TurnKeeps ==
  ASSUME NEW s, Sound(s)
  PROVE  Keeps(s, TSwapScreen(TClearScreen(TCursorSave(TMoveTo(s, 0, 0)))))
  <1> DEFINE a == TMoveTo(s, 0, 0)
             b == TCursorSave(a)
             c == TClearScreen(b)
             d == TSwapScreen(c)
  <1>1. 0 \in Int
    OBVIOUS
  <1>2. Edits(s, a) /\ SamePast(s, a)
    BY <1>1, MoveEdits, Zenon
  <1> HIDE DEF a
  <1>3. Keeps(s, a) /\ Sound(a)
    BY <1>2, EditsKeep DEF Edits
  <1>4. Keeps(a, b)
    BY <1>3, SaveIs, Zenon
  <1> HIDE DEF b
  <1>5. Sound(b)
    BY <1>4 DEF Keeps
  <1>6. Keeps(b, c)
    BY <1>5, ClearScreenWrites, EditsKeep DEF Writes
  <1> HIDE DEF c
  <1>7. Sound(c)
    BY <1>6 DEF Keeps
  <1>8. Keeps(c, d)
    BY <1>7, SwapIs, Zenon
  <1> HIDE DEF d
  <1>9. Keeps(s, d)
    BY <1>3, <1>4, <1>6, <1>8, KeepsTwice
  <1> QED
    BY <1>9 DEF d, c, b, a

\* treset.
LEMMA ResetIs ==
  ASSUME NEW s, Sound(s)
  PROVE  LET z == TReset(s)
         IN Sound(z) /\ OriginHolds(z) /\ SamePast(s, z)
  <1> DEFINE tabs == {x \in s.tabs : x >= s.col} \cup TabStops(s.col)
             hi == s.row - 1
             m == {"wrap"}
             a == [s EXCEPT !.c = Home]
             b == [a EXCEPT !.tabs = tabs]
             c == [b EXCEPT !.top = 0, !.bot = hi]
             d == [c EXCEPT !.mode = m]
             turn(w) == TSwapScreen(TClearScreen(TCursorSave(TMoveTo(w, 0, 0))))
             e == turn(d)
             z == turn(e)
  <1>1. TReset(s) = z
    BY DEF TReset, Home
  <1>2. tabs \in SUBSET (0..(s.maxcol - 1))
    <2>1. s.col \in Nat /\ s.maxcol \in Nat /\ s.col <= s.maxcol
      BY SoundIs
    <2>2. TabStops(s.col) \in SUBSET (0..(s.col - 1)) /\ s.tabs \in SUBSET (0..(s.maxcol - 1))
      BY <2>1, TabStopsIn, SoundIs
    <2> QED
      BY <2>1, <2>2
  <1>3. 0 \in 0..(s.row - 1) /\ hi \in 0..(s.row - 1) /\ 0 \in 0..(s.col - 1)
    BY SoundIs
  <1> HIDE DEF tabs, hi
  <1>4. Sound(a) /\ SamePast(s, a) /\ a.c = Home
    <2>1. Home \in Cursors /\ Home.x \in 0..(s.col - 1) /\ Home.y \in 0..(s.row - 1)
      BY <1>3, HomeIs DEF Home
    <2> QED
      BY <2>1, CursorSet
  <1>5. a.row = s.row /\ a.maxcol = s.maxcol
    BY DEF Sound, Terminals
  <1> HIDE DEF a
  <1>6. Edits(a, b) /\ SamePast(a, b)
    BY <1>2, <1>4, <1>5, TabsSet
  <1>7. b.c = Home
    BY <1>4 DEF Sound, Terminals
  <1> HIDE DEF b
  <1>8. Sound(b) /\ b.row = s.row /\ SamePast(s, b)
    BY <1>4, <1>5, <1>6 DEF Edits, SamePast
  <1>9. Sound(c) /\ SamePast(b, c)
    <2>1. 0 \in 0..(b.row - 1) /\ hi \in 0..(b.row - 1)
      BY <1>3, <1>8
    <2> QED
      BY <1>8, <2>1, RegionSet
  <1>10. c.c = Home
    BY <1>7, <1>8 DEF Sound, Terminals
  <1> HIDE DEF c
  <1>11. m \in SUBSET Modes
    BY DEF Modes
  <1> HIDE DEF m
  <1>12. Keeps(c, d) /\ d.c = c.c
    BY <1>9, <1>11, ModeSet, Zenon
  <1> HIDE DEF d
  <1>13. Sound(d) /\ OriginHolds(d) /\ SamePast(s, d)
    BY <1>8, <1>9, <1>10, <1>12 DEF Keeps, SamePast, OriginHolds, Home
  <1>14. Keeps(d, e)
    BY <1>13, TurnKeeps
  <1> HIDE DEF e
  <1>15. Sound(e)
    BY <1>14 DEF Keeps
  <1>16. Keeps(e, z)
    BY <1>15, TurnKeeps
  <1> HIDE DEF z
  <1>17. Keeps(d, z)
    BY <1>14, <1>16, KeepsTwice
  <1>18. Sound(z) /\ OriginHolds(z) /\ SamePast(s, z)
    BY <1>13, <1>17 DEF Keeps, SamePast
  <1> QED
    BY <1>1, <1>18

\* tnew.
LEMMA NewIs ==
  ASSUME NEW cols \in Nat \ {0}, NEW rows \in Nat \ {0}
  PROVE  Sound(TNew(cols, rows)) /\ OriginHolds(TNew(cols, rows)) /\ TNew(cols, rows).scr = 0
  <1> DEFINE row == BlankLine(cols)
             blank == [y \in 0..(rows - 1) |-> row]
             hist == [i \in 0..(HISTSIZE - 1) |-> row]
             saved == [s \in BOOLEAN |-> Home]
             tabs == TabStops(cols)
             z == [row |-> rows, col |-> cols, maxcol |-> cols, line |-> blank, alt |-> blank,
                   hist |-> hist, histi |-> 0, scr |-> 0,
                   dirty |-> 0..(rows - 1), c |-> Home, saved |-> saved,
                   top |-> 0, bot |-> rows - 1, mode |-> {"wrap"}, tabs |-> tabs,
                   lastc |-> "", sel |-> NoSel]
  <1>1. TNew(cols, rows) = z
    BY DEF TNew, Home
  <1>2. row \in LinesOf(cols)
    BY SpaceIs DEF LinesOf, BlankLine
  <1>3. blank \in Screens(rows, cols) /\ hist \in [0..(HISTSIZE - 1) -> LinesOf(cols)]
    <2> HIDE DEF row
    <2> QED
      BY <1>2 DEF Screens
  <1>4. saved \in [BOOLEAN -> Cursors] /\ tabs \in SUBSET (0..(cols - 1))
        /\ "" \in Characters /\ {"wrap"} \in SUBSET Modes /\ NoSel \in Selections
    BY HomeIs, TabStopsIn, NoSelIs DEF Characters, Modes
  <1>5. 0 \in 0..(HISTSIZE - 1) /\ 0 \in 0..HISTSIZE /\ 0 \in 0..(rows - 1) /\ 0 \in 0..(cols - 1)
        /\ rows - 1 \in 0..(rows - 1) /\ 0 <= rows - 1
    BY HistoryAssumption
  <1> HIDE DEF blank, hist, saved, tabs
  <1>6. z \in Terminals(rows, cols, cols)
    BY <1>3, <1>4, <1>5, HomeIs DEF Terminals
  <1>7. z.row = rows /\ z.col = cols /\ z.maxcol = cols /\ z.top = 0 /\ z.bot = rows - 1
        /\ z.c = Home /\ z.scr = 0
    OBVIOUS
  <1> HIDE DEF z
  <1>8. Sound(z) /\ OriginHolds(z)
    BY <1>5, <1>6, <1>7 DEF Sound, OriginHolds, ColsOf, RowsOf, Home
  <1> QED
    BY <1>1, <1>7, <1>8

-----------------------------------------------------------------------------
(* The size.                                                                *)

\* Blanks at the end do not belong to the text of a line.
LEMMA WiderText ==
  ASSUME NEW m \in Nat, NEW n \in Nat, m <= n, NEW l \in LinesOf(m), NEW w \in LinesOf(n),
         \A x \in 0..(n - 1) : w[x] = IF x < m THEN l[x] ELSE Space
  PROVE  TextOf(w) = TextOf(l)
  <1> DEFINE A == {i \in 0..(m - 1) : l[i].u # " "}
             B == {i \in 0..(n - 1) : w[i].u # " "}
             S == {0} \cup {x + 1 : x \in A}
  <1>1. A = B
    <2>1. \A i \in 0..(n - 1) : ~(i < m) => w[i].u = " "
      <3>1. Space.u = " "
        BY DEF Space
      <3> QED
        BY <3>1
    <2>2. \A i \in 0..(n - 1) : i < m => i \in 0..(m - 1)
      OBVIOUS
    <2>3. \A i \in 0..(m - 1) : i \in 0..(n - 1) /\ i < m /\ w[i] = l[i]
      OBVIOUS
    <2>4. \A i : i \in A => i \in B
      BY <2>3
    <2>5. \A i : i \in B => i \in A
      <3> SUFFICES ASSUME NEW i \in B
                   PROVE  i \in A
        OBVIOUS
      <3>1. i \in 0..(n - 1) /\ i < m
        BY <2>1
      <3>2. i \in 0..(m - 1)
        BY <2>2, <3>1
      <3> QED
        BY <2>3, <3>2
    <2> HIDE DEF A, B
    <2> QED
      BY <2>4, <2>5
  <1>2. DOMAIN l = 0..(m - 1) /\ DOMAIN w = 0..(n - 1)
    BY DEF LinesOf
  <1>3. TextOf(l) = [i \in 1..Max(S) |-> l[i - 1].u]
    BY <1>2 DEF TextOf
  <1>4. TextOf(w) = [i \in 1..Max(S) |-> w[i - 1].u]
    <2>1. TextOf(w) = [i \in 1..Max({0} \cup {x + 1 : x \in B}) |-> w[i - 1].u]
      BY <1>2 DEF TextOf
    <2> HIDE DEF A, B
    <2> QED
      BY <1>1, <2>1
  <1>5. Max(S) \in 0..m
    <2>1. \A x \in 0..(m - 1) : x + 1 \in 0..m
      OBVIOUS
    <2>2. A \subseteq 0..(m - 1)
      BY Zenon
    <2>3. 0 \in 0..m
      OBVIOUS
    <2>4. S \in SUBSET (0..m) /\ S # {}
      <3> HIDE DEF A
      <3> QED
        BY <2>1, <2>2
    <2> HIDE DEF S
    <2>5. S \in SUBSET Int /\ m \in Int /\ \A x \in S : x <= m
      BY <2>4
    <2>6. Max(S) \in S
      BY <2>4, <2>5, MaxIs
    <2> QED
      BY <2>4, <2>6
  <1> DEFINE k == Max(S)
  <1> HIDE DEF k
  <1>6. k \in 0..m
    BY <1>5 DEF k
  <1>7. \A i \in 1..k : i - 1 \in 0..(n - 1) /\ i - 1 < m
    BY <1>6
  <1>8. \A i \in 1..k : w[i - 1].u = l[i - 1].u
    BY <1>7
  <1>9. TextOf(l) = [i \in 1..k |-> l[i - 1].u] /\ TextOf(w) = [i \in 1..k |-> w[i - 1].u]
    BY <1>3, <1>4 DEF k
  <1> QED
    BY <1>8, <1>9

LEMMA SlideIn ==
  ASSUME NEW s, Sound(s), NEW newrow \in Nat \ {0}, NEW y \in 0..(newrow - 1), y < s.row
  PROVE  y + Slide(s, newrow) \in 0..(s.row - 1)
  <1> DEFINE d == s.c.y - newrow + 1
  <1>1. s.c.y \in 0..(s.row - 1) /\ s.row \in Nat
    BY SoundIs
  <1>2. d \in Int /\ 0 \in Int
    BY <1>1
  <1>3. Slide(s, newrow) = Max({0, d})
    BY DEF Slide
  <1> HIDE DEF d
  <1>4. Slide(s, newrow) = IF 0 <= d THEN d ELSE 0
    BY <1>2, <1>3, TwoInts
  <1> QED
    BY <1>1, <1>2, <1>4 DEF d

\* The scrolling region is the screen.
WholeRegion(s) == s.top = 0 /\ s.bot = s.row - 1

AtRow(s, y) == s.c.y = Limit(y, 0, s.row - 1)

\* tmoveto brings a cursor onto the screen that a change of size put beside it.
LEMMA MoveFrom ==
  ASSUME NEW s, NEW w, Sound(w), w = [s EXCEPT !.c = Home], s.c \in Cursors,
         NEW x \in Int, NEW y \in Int
  PROVE  /\ Keeps(w, TMoveTo(s, x, y)) /\ OriginHolds(TMoveTo(s, x, y))
         /\ TMoveTo(s, x, y).line = w.line
         /\ WholeRegion(w) => AtRow(TMoveTo(s, x, y), y)
  <1> DEFINE d == s.c
             lo == IF d.origin THEN w.top ELSE 0
             hi == IF d.origin THEN w.bot ELSE w.row - 1
             i == Limit(x, 0, w.col - 1)
             j == Limit(y, lo, hi)
             e == [d EXCEPT !.wrapnext = FALSE, !.x = i, !.y = j]
             z == [w EXCEPT !.c = e]
  <1>1. /\ w.row = s.row /\ w.col = s.col /\ w.top = s.top /\ w.bot = s.bot
    BY DEF Sound, Terminals
  <1>2. TMoveTo(s, x, y) = z
    <2>1. [s EXCEPT !.c = e] = z
      <3> HIDE DEF e
      <3> QED
        OBVIOUS
    <2>2. TMoveTo(s, x, y) = [s EXCEPT !.c = e]
      BY <1>1 DEF TMoveTo
    <2> QED
      BY <2>1, <2>2
  <1>3. d \in Cursors
    OBVIOUS
  <1> HIDE DEF d
  <1>4. /\ w.top \in 0..(w.row - 1) /\ w.bot \in 0..(w.row - 1) /\ w.row \in Nat /\ w.col \in Nat
    BY SoundIs
  <1>5. i \in 0..(w.col - 1)
    BY LimitsIn
  <1>6. j \in 0..(w.row - 1) /\ (d.origin => j \in w.top..w.bot)
    <2>1. Limit(y, w.top, w.bot) \in w.top..w.bot /\ Limit(y, 0, w.row - 1) \in 0..(w.row - 1)
      BY LimitsIn
    <2>2. CASE d.origin
      BY <1>4, <2>1, <2>2
    <2>3. CASE ~d.origin
      BY <2>1, <2>3
    <2> QED
      BY <2>2, <2>3
  <1> HIDE DEF i, j
  <1>7. e \in Cursors /\ e.x = i /\ e.y = j /\ e.origin = d.origin
    <2>1. i \in Int /\ j \in Int
      BY <1>4, <1>5, <1>6
    <2> QED
      BY <1>3, <2>1 DEF Cursors
  <1> HIDE DEF e
  <1>8. Sound(z) /\ SamePast(w, z) /\ z.c = e
    BY <1>5, <1>6, <1>7, CursorSet, Zenon
  <1>9. /\ z.row = w.row /\ z.col = w.col /\ z.maxcol = w.maxcol /\ z.top = w.top /\ z.bot = w.bot
        /\ z.line = w.line
    BY DEF Sound, Terminals
  <1> HIDE DEF z
  <1>10. OriginHolds(z)
    BY <1>6, <1>7, <1>8, <1>9 DEF OriginHolds
  <1>11. Keeps(w, z)
    BY <1>8, <1>9, <1>10 DEF Keeps
  <1>12. WholeRegion(w) => AtRow(z, y)
    <2>1. WholeRegion(w) => lo = 0 /\ hi = w.row - 1
      BY DEF WholeRegion
    <2> HIDE DEF lo, hi
    <2> QED
      BY <1>7, <1>8, <1>9, <2>1 DEF j, AtRow
  <1> QED
    BY <1>2, <1>9, <1>10, <1>11, <1>12

LEMMA WiderIs ==
  ASSUME NEW m \in Nat, NEW n \in Nat, m <= n, NEW l \in LinesOf(m)
  PROVE  [x \in 0..(n - 1) |-> IF x < m THEN l[x] ELSE Space] \in LinesOf(n)
  <1>1. \A x \in 0..(n - 1) : x < m => x \in 0..(m - 1)
    OBVIOUS
  <1> QED
    BY <1>1, SpaceIs DEF LinesOf

LEMMA MadeOf ==
  ASSUME NEW row \in Nat \ {0}, NEW col, NEW max,
         NEW line \in Screens(row, max), NEW alt \in Screens(row, max),
         NEW hist \in [0..(HISTSIZE - 1) -> LinesOf(max)], NEW histi \in 0..(HISTSIZE - 1),
         NEW scr \in 0..HISTSIZE, NEW c \in Cursors, NEW saved \in [BOOLEAN -> Cursors],
         NEW mode \in SUBSET Modes, NEW tabs \in SUBSET (0..(max - 1)),
         NEW lastc \in Characters, NEW sel \in Selections
  PROVE  [row |-> row, col |-> col, maxcol |-> max, line |-> line, alt |-> alt,
          hist |-> hist, histi |-> histi, scr |-> scr, dirty |-> {}, c |-> c,
          saved |-> saved, top |-> 0, bot |-> row - 1, mode |-> mode, tabs |-> tabs,
          lastc |-> lastc, sel |-> sel] \in Terminals(row, col, max)
  <1>1. 0 \in 0..(row - 1) /\ row - 1 \in 0..(row - 1) /\ {} \in SUBSET (0..(row - 1))
    OBVIOUS
  <1> QED
    BY <1>1 DEF Terminals

\* A terminal given a new size, with the cursor at home and the whole screen as region.
LEMMA SizeSet ==
  ASSUME NEW s, Sound(s), NEW row \in Nat \ {0}, NEW col \in Nat \ {0}, NEW max \in Nat, col <= max,
         NEW line \in Screens(row, max), NEW alt \in Screens(row, max),
         NEW hist \in [0..(HISTSIZE - 1) -> LinesOf(max)], NEW tabs \in SUBSET (0..(max - 1)),
         NEW w,
         w = [row |-> row, col |-> col, maxcol |-> max, line |-> line, alt |-> alt,
              hist |-> hist, histi |-> s.histi, scr |-> s.scr, dirty |-> {}, c |-> Home,
              saved |-> s.saved, top |-> 0, bot |-> row - 1, mode |-> s.mode, tabs |-> tabs,
              lastc |-> s.lastc, sel |-> s.sel]
  PROVE  Sound(w) /\ w.hist = hist /\ w.histi = s.histi /\ w.scr = s.scr
  <1>1. /\ s.histi \in 0..(HISTSIZE - 1) /\ s.scr \in 0..HISTSIZE
        /\ s.saved \in [BOOLEAN -> Cursors] /\ s.mode \in SUBSET Modes
        /\ s.lastc \in Characters /\ s.sel \in Selections
    BY SoundIs
  <1>2. 0 \in 0..(row - 1) /\ row - 1 \in 0..(row - 1) /\ 0 <= row - 1 /\ 0 \in 0..(col - 1)
        /\ {} \in SUBSET (0..(row - 1))
    OBVIOUS
  <1>3. w \in Terminals(row, col, max)
    <2>1. [row |-> row, col |-> col, maxcol |-> max, line |-> line, alt |-> alt,
           hist |-> hist, histi |-> s.histi, scr |-> s.scr, dirty |-> {}, c |-> Home,
           saved |-> s.saved, top |-> 0, bot |-> row - 1, mode |-> s.mode, tabs |-> tabs,
           lastc |-> s.lastc, sel |-> s.sel] \in Terminals(row, col, max)
      BY <1>1, HomeIs, MadeOf, Zenon
    <2> QED
      BY <2>1, Zenon
  <1>4. w.row = row /\ w.col = col /\ w.maxcol = max /\ w.top = 0 /\ w.bot = row - 1
        /\ w.c = Home /\ w.hist = hist /\ w.histi = s.histi /\ w.scr = s.scr
    OBVIOUS
  <1> QED
    BY <1>2, <1>3, <1>4 DEF Sound, ColsOf, RowsOf, Home

\* The cursor keeps its row or comes to the last one, with the cells of its line and
\* of those above it under it.
FollowsCursor(s, z, newrow) ==
  /\ z.c.y = IF s.c.y < newrow THEN s.c.y ELSE newrow - 1
  /\ \A y \in 0..z.c.y, x \in 0..(s.maxcol - 1) :
       z.line[y][x] = s.line[y + (s.c.y - z.c.y)][x]

\* tresize.
LEMMA ResizeIs ==
  ASSUME NEW s, Sound(s), NEW newcol \in Nat \ {0}, NEW newrow \in Nat \ {0}
  PROVE  LET z == TResize(s, newcol, newrow)
         IN /\ Sound(z) /\ OriginHolds(z) /\ Log(z) = Log(s) /\ z.scr = s.scr
            /\ FollowsCursor(s, z, newrow)
  <1> DEFINE cols == Max({newcol, s.maxcol})
             minrow == Min({newrow, s.row})
             slide == Slide(s, newrow)
             wider(l) == [x \in 0..(cols - 1) |-> IF x < s.maxcol THEN l[x] ELSE Space]
             rows(ls) == [y \in 0..(newrow - 1) |->
                            IF y < minrow THEN wider(ls[y + slide]) ELSE BlankLine(cols)]
             line == rows(s.line)
             alt == rows(s.alt)
             hist == [i \in DOMAIN s.hist |-> wider(s.hist[i])]
             lastStop == IF s.tabs = {} THEN 0 ELSE Max(s.tabs)
             tabs == IF cols = s.maxcol THEN s.tabs
                     ELSE s.tabs \cup {x \in (lastStop + 1)..(cols - 1) :
                                         (x - lastStop) % TabSpaces = 0}
             t1 == [s EXCEPT !.line = line, !.alt = alt, !.dirty = {}, !.hist = hist,
                             !.tabs = tabs, !.col = newcol, !.maxcol = cols, !.row = newrow]
             t2 == TSetScroll(t1, 0, newrow - 1)
             t3 == TMoveTo(t2, s.c.x, s.c.y)
             old(v) == IF s.maxcol < cols
                       THEN TClearRegion(v, s.maxcol, 0, cols - 1, minrow - 1) ELSE v
             fresh(v) == IF minrow < newrow
                         THEN TClearRegion(old(v), 0, minrow, cols - 1, newrow - 1) ELSE old(v)
             turn(v) == TCursorLoad(TSwapScreen(fresh(v)))
             t4 == turn(turn(t3))
             z == [t4 EXCEPT !.c = t3.c]
             w == [s EXCEPT !.line = line, !.alt = alt, !.dirty = {}, !.hist = hist, !.tabs = tabs,
                            !.col = newcol, !.maxcol = cols, !.row = newrow,
                            !.top = 0, !.bot = newrow - 1, !.c = Home]
  <1>1. TResize(s, newcol, newrow) = z
    BY DEF TResize
  <1>2. /\ s.row \in Nat /\ 1 <= s.row /\ s.maxcol \in Nat
        /\ s.c \in Cursors /\ s.c.x \in Int /\ s.c.y \in Int
        /\ s.line \in Screens(s.row, s.maxcol) /\ s.alt \in Screens(s.row, s.maxcol)
        /\ s.hist \in [0..(HISTSIZE - 1) -> LinesOf(s.maxcol)]
        /\ s.tabs \in SUBSET (0..(s.maxcol - 1))
    BY SoundIs
  <1>3. cols \in Nat /\ s.maxcol <= cols /\ newcol <= cols
    <2>1. PICK m \in Int : m = s.maxcol
      BY <1>2
    <2>2. cols = IF newcol <= m THEN m ELSE newcol
      BY <2>1, TwoInts
    <2> QED
      BY <1>2, <2>1, <2>2
  <1>4. /\ minrow \in Int /\ minrow <= s.row /\ minrow <= newrow /\ 1 <= minrow
         /\ (minrow = s.row \/ minrow = newrow)
    <2>1. PICK m \in Int : m = s.row
      BY <1>2
    <2>2. minrow = IF newrow <= m THEN newrow ELSE m
      BY <2>1, TwoInts
    <2> QED
      BY <1>2, <2>1, <2>2
  <1> HIDE DEF cols, minrow
  <1>5. \A l \in LinesOf(s.maxcol) : wider(l) \in LinesOf(cols) /\ TextOf(wider(l)) = TextOf(l)
    <2> SUFFICES ASSUME NEW l \in LinesOf(s.maxcol)
                 PROVE  wider(l) \in LinesOf(cols) /\ TextOf(wider(l)) = TextOf(l)
      OBVIOUS
    <2>1. wider(l) \in LinesOf(cols)
      BY <1>2, <1>3, WiderIs
    <2>2. \A x \in 0..(cols - 1) : wider(l)[x] = IF x < s.maxcol THEN l[x] ELSE Space
      OBVIOUS
    <2> HIDE DEF wider
    <2>3. TextOf(wider(l)) = TextOf(l)
      BY <1>2, <1>3, <2>1, <2>2, WiderText
    <2> QED
      BY <2>1, <2>3
  <1>6. BlankLine(cols) \in LinesOf(cols)
    BY SpaceIs DEF BlankLine, LinesOf
  <1> HIDE DEF wider
  <1>7. \A ls \in Screens(s.row, s.maxcol) : rows(ls) \in Screens(newrow, cols)
    <2>1. \A y \in 0..(newrow - 1) : y < minrow => y + slide \in 0..(s.row - 1)
      <3> SUFFICES ASSUME NEW y \in 0..(newrow - 1), y < minrow
                   PROVE  y + slide \in 0..(s.row - 1)
        OBVIOUS
      <3>1. y < s.row
        BY <1>2, <1>4
      <3> QED
        BY <3>1, SlideIn
    <2> HIDE DEF slide
    <2> QED
      BY <1>5, <1>6, <2>1 DEF Screens
  <1>8. line \in Screens(newrow, cols) /\ alt \in Screens(newrow, cols)
    <2> HIDE DEF rows
    <2> QED
      BY <1>2, <1>7
  <1>9. hist \in [0..(HISTSIZE - 1) -> LinesOf(cols)]
    BY <1>2, <1>5
  <1>10. \A i \in 0..(HISTSIZE - 1) : TextOf(hist[i]) = TextOf(s.hist[i])
    BY <1>2, <1>5
  <1>11. tabs \in SUBSET (0..(cols - 1))
    <2>1. lastStop \in Nat
      <3>1. PICK m \in Int : m = s.maxcol - 1
        BY <1>2
      <3>2. s.tabs \in SUBSET Int /\ \A x \in s.tabs : x <= m
        BY <1>2, <3>1
      <3>3. s.tabs # {} => Max(s.tabs) \in s.tabs
        BY <3>1, <3>2, MaxIs
      <3> QED
        BY <1>2, <3>3
    <2> HIDE DEF lastStop
    <2>2. s.tabs \in SUBSET (0..(cols - 1))
      BY <1>2, <1>3
    <2>3. \A x \in (lastStop + 1)..(cols - 1) : x \in 0..(cols - 1)
      BY <1>3, <2>1
    <2> QED
      BY <2>2, <2>3
  <1> HIDE DEF line, alt, hist, tabs
  <1>12. /\ Sound(w) /\ w.hist = hist /\ w.histi = s.histi /\ w.scr = s.scr
         /\ w.row = newrow /\ w.maxcol = cols /\ w.line = line /\ w.top = 0 /\ w.bot = newrow - 1
    <2>1. s = [row |-> s.row, col |-> s.col, maxcol |-> s.maxcol, line |-> s.line, alt |-> s.alt,
               hist |-> s.hist, histi |-> s.histi, scr |-> s.scr, dirty |-> s.dirty, c |-> s.c,
               saved |-> s.saved, top |-> s.top, bot |-> s.bot, mode |-> s.mode, tabs |-> s.tabs,
               lastc |-> s.lastc, sel |-> s.sel]
      BY DEF Sound, Terminals
    <2>2. w = [row |-> newrow, col |-> newcol, maxcol |-> cols, line |-> line, alt |-> alt,
               hist |-> hist, histi |-> s.histi, scr |-> s.scr, dirty |-> {}, c |-> Home,
               saved |-> s.saved, top |-> 0, bot |-> newrow - 1, mode |-> s.mode, tabs |-> tabs,
               lastc |-> s.lastc, sel |-> s.sel]
      <3>1. w = [s EXCEPT !.line = line, !.alt = alt, !.dirty = {}, !.hist = hist,
                          !.tabs = tabs, !.col = newcol, !.maxcol = cols, !.row = newrow,
                          !.top = 0, !.bot = newrow - 1, !.c = Home]
        OBVIOUS
      <3> HIDE DEF w
      <3> QED
        BY <2>1, <3>1
    <2> HIDE DEF w
    <2>3. Sound(w) /\ w.hist = hist /\ w.histi = s.histi /\ w.scr = s.scr
      BY <1>3, <1>8, <1>9, <1>11, <2>2, SizeSet
    <2>4. w.row = newrow /\ w.maxcol = cols /\ w.line = line /\ w.top = 0 /\ w.bot = newrow - 1
      BY <2>2
    <2> QED
      BY <2>3, <2>4
  <1>13. w = [t2 EXCEPT !.c = Home] /\ t2.c = s.c
    <2>1. t1.row = newrow /\ [t1 EXCEPT !.top = 0, !.bot = newrow - 1].c = s.c
      BY DEF Sound, Terminals
    <2>2. [t1 EXCEPT !.top = 0, !.bot = newrow - 1, !.c = Home] = w
      OBVIOUS
    <2> HIDE DEF t1
    <2>3. t2 = [t1 EXCEPT !.top = 0, !.bot = newrow - 1]
      <3> DEFINE hi == newrow - 1
                 i == Limit(0, 0, hi)
                 j == Limit(hi, 0, hi)
      <3>1. hi \in Int /\ 0 <= hi /\ 0 \in Int
        OBVIOUS
      <3> HIDE DEF hi
      <3>2. i = 0 /\ j = hi
        BY <3>1 DEF Limit
      <3>3. TSetScroll(t1, 0, hi) = [t1 EXCEPT !.top = Min({i, j}), !.bot = Max({i, j})]
        BY <2>1 DEF TSetScroll, hi
      <3>4. Min({i, j}) = 0 /\ Max({i, j}) = hi
        BY <3>1, <3>2, TwoInts
      <3> QED
        BY <3>3, <3>4 DEF hi
    <2> HIDE DEF t2
    <2> QED
      BY <2>1, <2>2, <2>3
  <1> HIDE DEF w, t2
  <1>14. /\ Keeps(w, t3) /\ OriginHolds(t3) /\ t3.line = line
         /\ t3.c.y = Limit(s.c.y, 0, newrow - 1)
    <2>1. /\ Keeps(w, t3) /\ OriginHolds(t3)
          /\ t3.line = w.line
          /\ WholeRegion(w) => AtRow(t3, s.c.y)
      <3> DEFINE x == s.c.x
                 y == s.c.y
      <3>1. Sound(w)
        BY <1>12
      <3>2. w = [t2 EXCEPT !.c = Home]
        BY <1>13
      <3>3. t2.c \in Cursors
        BY <1>2, <1>13
      <3>4. x \in Int /\ y \in Int
        BY <1>2
      <3> HIDE DEF x, y
      <3>5. /\ Keeps(w, TMoveTo(t2, x, y)) /\ OriginHolds(TMoveTo(t2, x, y))
            /\ TMoveTo(t2, x, y).line = w.line
            /\ WholeRegion(w) => AtRow(TMoveTo(t2, x, y), y)
        BY <3>1, <3>2, <3>3, <3>4, MoveFrom
      <3> QED
        BY <3>5 DEF x, y
    <2> HIDE DEF t3
    <2>2. WholeRegion(w) /\ t3.row = newrow
      BY <1>12, <2>1 DEF WholeRegion, Keeps
    <2> QED
      BY <1>12, <2>1, <2>2 DEF AtRow
  <1> HIDE DEF t3
  <1>15. ASSUME NEW v, Sound(v), v.row = newrow, v.maxcol = cols
         PROVE  /\ Keeps(v, turn(v)) /\ turn(v).line = v.alt
                /\ Agree(turn(v).alt, v.line, minrow, s.maxcol)
    <2>1. /\ s.maxcol \in Int /\ cols - 1 \in Int /\ minrow \in Int /\ minrow - 1 \in Int
          /\ newrow - 1 \in Int /\ 0 \in Int
      BY <1>2, <1>3, <1>4
    <2>2. Writes(v, TClearRegion(v, s.maxcol, 0, cols - 1, minrow - 1))
      BY <1>15, <2>1, ClearRegionWrites
    <2>3. Keeps(v, old(v)) /\ old(v).alt = v.alt
      <3>1. Keeps(v, v)
        BY <1>15, EditsNothing, EditsKeep
      <3> QED
        BY <2>2, <3>1, EditsKeep DEF Writes, Edits
    <2>4. Agree(old(v).line, v.line, minrow, s.maxcol)
      <3>1. CASE s.maxcol < cols
        <4>1. s.maxcol <= cols - 1 /\ 0 <= minrow - 1 /\ minrow <= v.row /\ s.maxcol <= v.maxcol
              /\ s.maxcol <= s.maxcol /\ s.maxcol < v.maxcol /\ minrow \in Nat /\ s.maxcol \in Nat
          BY <1>2, <1>3, <1>4, <1>15, <3>1
        <4>2. Agree(TClearRegion(v, s.maxcol, 0, cols - 1, minrow - 1).line, v.line, minrow, s.maxcol)
          BY <1>15, <2>1, <4>1, ClearedElsewhere
        <4> QED
          BY <3>1, <4>2
      <3>2. CASE ~(s.maxcol < cols)
        BY <3>2 DEF Agree
      <3> QED
        BY <3>1, <3>2
    <2> HIDE DEF old
    <2>5. Sound(old(v))
      BY <2>3 DEF Keeps
    <2>6. Writes(old(v), TClearRegion(old(v), 0, minrow, cols - 1, newrow - 1))
      BY <2>1, <2>5, ClearRegionWrites
    <2>7. Keeps(v, fresh(v)) /\ fresh(v).alt = v.alt
      <3>1. Keeps(old(v), TClearRegion(old(v), 0, minrow, cols - 1, newrow - 1))
        BY <2>6, EditsKeep DEF Writes
      <3> QED
        BY <2>3, <2>6, <3>1, KeepsTwice DEF Writes, Edits
    <2>8. Agree(fresh(v).line, v.line, minrow, s.maxcol)
      <3>1. CASE minrow < newrow
        <4> DEFINE o == old(v)
        <4>1. o.row = newrow /\ o.maxcol = cols
          BY <1>15, <2>3 DEF Keeps
        <4> HIDE DEF o
        <4>2. minrow <= newrow - 1 /\ 0 <= cols - 1 /\ minrow <= o.row /\ s.maxcol <= o.maxcol
              /\ minrow <= minrow /\ minrow < o.row /\ minrow \in Nat /\ s.maxcol \in Nat
          BY <1>2, <1>3, <1>4, <3>1, <4>1
        <4>3. Agree(TClearRegion(o, 0, minrow, cols - 1, newrow - 1).line, o.line, minrow, s.maxcol)
          BY <2>1, <2>5, <4>2, ClearedElsewhere DEF o
        <4> QED
          BY <2>4, <3>1, <4>3 DEF Agree, o
      <3>2. CASE ~(minrow < newrow)
        BY <2>4, <3>2
      <3> QED
        BY <3>1, <3>2
    <2> HIDE DEF fresh
    <2>9. Sound(fresh(v))
      BY <2>7 DEF Keeps
    <2> DEFINE u == TSwapScreen(fresh(v))
    <2>10. Keeps(fresh(v), u) /\ u.line = fresh(v).alt /\ u.alt = fresh(v).line
      BY <2>9, SwapIs
    <2> HIDE DEF u
    <2>11. Sound(u)
      BY <2>10 DEF Keeps
    <2> DEFINE e == TCursorLoad(u)
    <2>12. Keeps(u, e) /\ e.line = u.line /\ e.alt = u.alt
      BY <2>11, LoadIs
    <2>13. turn(v) = e
      BY DEF u
    <2> HIDE DEF turn, e
    <2> QED
      BY <2>7, <2>10, <2>12, <2>8, <2>13, KeepsTwice
  <1> HIDE DEF turn
  <1>16. Keeps(t3, t4) /\ Agree(t4.line, line, minrow, s.maxcol)
    <2>1. Sound(t3) /\ t3.row = newrow /\ t3.maxcol = cols
      BY <1>12, <1>14 DEF Keeps
    <2>2. Keeps(t3, turn(t3)) /\ Agree(turn(t3).alt, line, minrow, s.maxcol)
      BY <1>14, <1>15, <2>1
    <2>3. Sound(turn(t3)) /\ turn(t3).row = newrow /\ turn(t3).maxcol = cols
      BY <2>1, <2>2 DEF Keeps
    <2>4. Keeps(turn(t3), t4) /\ t4.line = turn(t3).alt
      BY <1>15, <2>3
    <2> QED
      BY <2>2, <2>4, KeepsTwice
  <1> HIDE DEF t4
  <1>17. Sound(z) /\ SamePast(t4, z) /\ z.c = t3.c
    <2>1. Sound(t4) /\ t4.col = t3.col /\ t4.row = t3.row
      BY <1>16 DEF Keeps
    <2>2. t3.c \in Cursors /\ t3.c.x \in 0..(t4.col - 1) /\ t3.c.y \in 0..(t4.row - 1)
      <3>1. Sound(t3)
        BY <1>14 DEF Keeps
      <3> QED
        BY <2>1, <3>1, SoundIs
    <2> DEFINE c == t3.c
    <2> HIDE DEF c
    <2>3. Sound([t4 EXCEPT !.c = c]) /\ SamePast(t4, [t4 EXCEPT !.c = c]) /\ [t4 EXCEPT !.c = c].c = c
      BY <2>1, <2>2, CursorSet, Zenon DEF c
    <2> QED
      BY <2>3 DEF c
  <1>18. z.top = t3.top /\ z.bot = t3.bot /\ z.line = t4.line
    <2>1. z.top = t4.top /\ z.bot = t4.bot /\ z.line = t4.line
      BY <1>16 DEF Keeps, Sound, Terminals
    <2> QED
      BY <1>16, <2>1 DEF Keeps
  <1> HIDE DEF z
  <1>19. OriginHolds(z)
    BY <1>14, <1>17, <1>18 DEF OriginHolds
  <1>20. z.hist = hist /\ z.histi = s.histi /\ z.scr = s.scr
    BY <1>12, <1>14, <1>16, <1>17 DEF Keeps, SamePast
  <1>21. Log(z) = Log(s)
    <2>1. \A i \in 1..HISTSIZE : (s.histi + i) % HISTSIZE \in 0..(HISTSIZE - 1)
      <3> SUFFICES ASSUME NEW i \in 1..HISTSIZE
                   PROVE  (s.histi + i) % HISTSIZE \in 0..(HISTSIZE - 1)
        OBVIOUS
      <3>1. s.histi \in 0..(HISTSIZE - 1) /\ i \in 0..HISTSIZE
        BY SoundIs, HistoryAssumption
      <3> QED
        BY <3>1, Wraps
    <2> QED
      BY <1>10, <1>20, <2>1 DEF Log
  <1>22. z.c.y = IF s.c.y < newrow THEN s.c.y ELSE newrow - 1
    <2>1. s.c.y \in Nat
      BY SoundIs
    <2> QED
      BY <1>14, <1>17, <2>1 DEF Limit
  <1>23. ASSUME NEW y \in 0..z.c.y, NEW x \in 0..(s.maxcol - 1)
         PROVE  z.line[y][x] = s.line[y + (s.c.y - z.c.y)][x]
    <2>1. s.c.y \in 0..(s.row - 1)
      BY SoundIs
    <2>2. y \in 0..(minrow - 1) /\ y \in 0..(newrow - 1) /\ y < minrow
      BY <1>2, <1>4, <1>22, <2>1
    <2>3. slide = s.c.y - z.c.y
      <3> DEFINE d == s.c.y - newrow + 1
      <3>1. d \in Int /\ 0 \in Int
        BY <2>1
      <3>2. slide = Max({0, d})
        BY DEF Slide
      <3> HIDE DEF d, slide
      <3>3. slide = IF 0 <= d THEN d ELSE 0
        BY <3>1, <3>2, TwoInts
      <3> QED
        BY <1>22, <2>1, <3>3 DEF d
    <2>4. line[y] = wider(s.line[y + slide])
      BY <2>2 DEF line
    <2>5. wider(s.line[y + slide])[x] = s.line[y + slide][x]
      <3>1. x \in 0..(cols - 1) /\ x < s.maxcol
        BY <1>2, <1>3
      <3> HIDE DEF slide
      <3> QED
        BY <3>1 DEF wider
    <2>6. z.line[y][x] = line[y][x]
      BY <1>16, <1>18, <2>2 DEF Agree
    <2> QED
      BY <2>3, <2>4, <2>5, <2>6
  <1> QED
    BY <1>1, <1>17, <1>19, <1>20, <1>21, <1>22, <1>23 DEF FollowsCursor

-----------------------------------------------------------------------------
(* What the steps do to the history.                                        *)

\* A step that prints nothing.
Scrolls(s, z) ==
  \/ Log(z) = Log(s)
  \/ Recorded(s, z, 1, Rows(s))
  \/ Pulled(s, z)

\* A step that prints what.
Outputs(s, z, what) ==
  \E k \in 0..(2 * what.chars) :
    /\ Records(s, z, k, IF what.chars = 1 THEN Rows(s) ELSE Above(s))
    /\ IF what.key THEN z.scr = 0 ELSE Follows(s, z, k)

PastStep ==
  \/ input' = NoInput /\ Scrolls(t, t')
  \/ input'.chars \in Nat /\ input'.key \in BOOLEAN /\ Outputs(t, t', input')

LEMMA SameLogIs ==
  ASSUME NEW s, NEW z, SameLog(s, z)
  PROVE  Log(z) = Log(s)
  BY DEF SameLog, Log

LEMMA SamePastIs ==
  ASSUME NEW s, NEW z, SamePast(s, z)
  PROVE  SameLog(s, z) /\ Log(z) = Log(s) /\ z.scr = s.scr
  BY DEF SamePast, SameLog, Log

LEMMA ScrollsThen ==
  ASSUME NEW s, NEW z, NEW w, Scrolls(s, z), SamePast(z, w)
  PROVE  Scrolls(s, w)
  <1>1. Log(w) = Log(z) /\ w.scr = z.scr
    BY SamePastIs
  <1>2. CASE Log(z) = Log(s)
    BY <1>1, <1>2 DEF Scrolls
  <1>3. CASE Recorded(s, z, 1, Rows(s))
    BY <1>3, RecordedThen DEF Scrolls
  <1>4. CASE Pulled(s, z)
    BY <1>1, <1>4 DEF Scrolls, Pulled
  <1> QED
    BY <1>2, <1>3, <1>4 DEF Scrolls

\* A step on text, cursor and history.
Works(s, z) == Edits(s, z) /\ Scrolls(s, z)

LEMMA QuietWorks ==
  ASSUME NEW s, NEW z, Edits(s, z), SamePast(s, z)
  PROVE  Works(s, z)
  BY SamePastIs DEF Works, Scrolls

LEMMA LookWorks ==
  ASSUME NEW s, NEW z, Edits(s, z), SameLog(s, z)
  PROVE  Works(s, z)
  BY SameLogIs DEF Works, Scrolls

LEMMA WritesWork ==
  ASSUME NEW s, NEW z, Writes(s, z)
  PROVE  Works(s, z)
  BY QuietWorks DEF Writes

LEMMA MoveWorks ==
  ASSUME NEW s, Sound(s), NEW x \in Int, NEW y \in Int
  PROVE  Works(s, TMoveTo(s, x, y)) /\ Works(s, TMoveATo(s, x, y))
  <1>1. Edits(s, TMoveTo(s, x, y)) /\ SamePast(s, TMoveTo(s, x, y))
    BY MoveEdits, Zenon
  <1>2. Edits(s, TMoveATo(s, x, y)) /\ SamePast(s, TMoveATo(s, x, y))
    BY MoveAToEdits, Zenon
  <1> QED
    BY <1>1, <1>2, QuietWorks

\* A control code makes st forget the last character.
LEMMA ControlWorks ==
  ASSUME NEW s, NEW z, Works(s, z)
  PROVE  Works(s, [z EXCEPT !.lastc = ""])
  <1> DEFINE w == [z EXCEPT !.lastc = ""]
  <1>1. Sound(z) /\ "" \in Characters
    BY DEF Works, Edits, Characters
  <1>2. Edits(z, w) /\ SamePast(z, w)
    BY <1>1, LastSet, Zenon
  <1> HIDE DEF w
  <1>3. Works(s, w)
    BY <1>2, EditsTwice, ScrollsThen DEF Works
  <1> QED
    BY <1>3 DEF w

LEMMA NewlineWorks ==
  ASSUME NEW s, Sound(s), NEW firstcol \in BOOLEAN
  PROVE  Works(s, TNewline(s, firstcol))
  <1> DEFINE z == TNewline(s, firstcol)
  <1>1. Edits(s, z) /\ Fed(s, z)
    BY NewlineEdits, Zenon
  <1> HIDE DEF z
  <1>2. Recorded(s, z, 1, Rows(s))
    BY <1>1, FedRecords
  <1> QED
    BY <1>1, <1>2 DEF Works, Scrolls, z

LEMMA IndexWorks ==
  ASSUME NEW s, Sound(s)
  PROVE  /\ s.c.y = s.bot => Works(s, TScrollUp(s, s.top, 1, TRUE))
         /\ s.c.y = s.top => Works(s, TScrollDown(s, s.top, 1, TRUE))
  <1>1. s.top \in s.top..s.bot /\ 1 \in Int /\ TRUE \in BOOLEAN
    BY SoundIs
  <1> DEFINE u == TScrollUp(s, s.top, 1, TRUE)
             d == TScrollDown(s, s.top, 1, TRUE)
  <1>2. Edits(s, u) /\ Recorded(s, u, 1, Rows(s))
    <2>1. /\ Edits(s, u) /\ SameCursor(s, u)
          /\ ~TRUE => SameLog(s, u)
          /\ TRUE /\ 1 = 1 /\ s.top = s.top => Moves(s, u, 1, Rows(s))
      BY <1>1, ScrollUpEdits, Zenon
    <2> HIDE DEF u
    <2>2. Fed(s, u)
      BY <2>1 DEF Fed
    <2> QED
      BY <2>1, <2>2, FedRecords
  <1>3. Edits(s, d) /\ Pulled(s, d)
    <2>1. /\ Edits(s, d) /\ SameCursor(s, d)
          /\ ~TRUE => SamePast(s, d)
          /\ TRUE => Pulled(s, d)
      BY <1>1, ScrollDownEdits, Zenon
    <2> QED
      BY <2>1
  <1> HIDE DEF u, d
  <1> QED
    BY <1>2, <1>3 DEF Works, Scrolls, u, d

LEMMA ScrollWorks ==
  ASSUME NEW s, Sound(s), NEW n \in Int
  PROVE  Works(s, TScrollUp(s, s.top, n, FALSE)) /\ Works(s, TScrollDown(s, s.top, n, FALSE))
  <1>1. s.top \in s.top..s.bot /\ FALSE \in BOOLEAN
    BY SoundIs
  <1> DEFINE u == TScrollUp(s, s.top, n, FALSE)
             d == TScrollDown(s, s.top, n, FALSE)
  <1>2. Edits(s, u) /\ SameLog(s, u)
    BY <1>1, ScrollUpEdits, Zenon
  <1>3. Edits(s, d) /\ SamePast(s, d)
    BY <1>1, ScrollDownEdits, Zenon
  <1> HIDE DEF u, d
  <1> QED
    BY <1>2, <1>3, LookWorks, QuietWorks DEF u, d

\* A key returns to the bottom and is shown there.
LEMMA KeyWorks ==
  ASSUME NEW s, Sound(s), NEW u \in Characters
  PROVE  LET z == KScrollDown(s, s.scr)
             w == TPutC(z, u)
         IN Works(s, z) /\ Edits(s, w) /\ Outputs(s, w, [chars |-> 1, key |-> TRUE])
  <1> DEFINE z == KScrollDown(s, s.scr)
             w == TPutC(z, u)
  <1>1. s.scr \in Int /\ s.scr >= -1 /\ s.scr = s.scr
    BY SoundIs, HistoryAssumption
  <1>2. Edits(s, z) /\ SameLog(s, z) /\ z.line = s.line /\ z.scr = 0
    <2>1. /\ Edits(s, z) /\ SameLog(s, z) /\ z.line = s.line
          /\ s.scr = s.scr => z.scr = 0
      BY <1>1, LookForwardIs, Zenon
    <2> QED
      BY <2>1
  <1> HIDE DEF z
  <1>3. Sound(z) /\ z.top = s.top /\ z.bot = s.bot
    BY <1>2 DEF Edits
  <1>4. Edits(z, w) /\ Recorded(z, w, 2, Rows(z))
    BY <1>3, PutCPrints, Zenon DEF Prints
  <1> HIDE DEF w
  <1>5. PICK k \in 0..2 : Records(z, w, k, Rows(z)) /\ Follows(z, w, k)
    BY <1>4 DEF Recorded
  <1>6. w.scr = 0
    BY <1>2, <1>5, HistoryAssumption DEF Follows
  <1>7. \A i : Tape(z, i) = Tape(s, i)
    BY <1>2, <1>3 DEF Tape, SameLog
  <1>8. Rows(z) = Rows(s)
    BY <1>3 DEF Rows
  <1>9. Records(s, w, k, Rows(s))
    BY <1>5, <1>7, <1>8 DEF Records
  <1>10. Outputs(s, w, [chars |-> 1, key |-> TRUE])
    BY <1>6, <1>9 DEF Outputs
  <1>11. Edits(s, w) /\ Works(s, z)
    BY <1>2, <1>4, EditsTwice, LookWorks
  <1> QED
    BY <1>10, <1>11 DEF z, w

\* Printing one character, and any other number of them.
LEMMA RecordedOutput ==
  ASSUME NEW s, NEW z, Recorded(s, z, 2, Rows(s))
  PROVE  Outputs(s, z, [chars |-> 1, key |-> FALSE])
  BY DEF Recorded, Outputs

LEMMA PushedOutput ==
  ASSUME NEW s, NEW z, Sound(s), NEW n \in Nat, n # 1, Pushed(s, z, 2 * n)
  PROVE  Outputs(s, z, [chars |-> n, key |-> FALSE])
  <1>1. PICK k \in 0..(2 * n) : Moves(s, z, k, Above(s))
    BY DEF Pushed
  <1>2. k \in Nat /\ Above(s) \in Int
    BY AboveIs
  <1>3. Records(s, z, k, Above(s)) /\ Follows(s, z, k)
    BY <1>1, <1>2, MovesRecord DEF Moves
  <1> QED
    BY <1>3 DEF Outputs

-----------------------------------------------------------------------------
(* The steps of the terminal.                                               *)

\* While 1049 is in force the other screen and cursor are the ones it left.
EpisodeHolds ==
  kept.on => /\ Alt(t) /\ t.alt = kept.line /\ t.saved[FALSE] = kept.c
             /\ kept.c \in Cursors /\ kept.c.x \in ColsOf(t) /\ kept.c.y \in RowsOf(t)

TermInv ==
  /\ session \in Sessions /\ ops \in 0..session.ops
  /\ Sound(t) /\ OriginHolds(t)
  /\ EpisodeHolds

Ticks == ops < session.ops /\ ops' = ops + 1 /\ session' = session
Quiet == Ticks /\ input' = NoInput

\* A step that leaves the other screen and its cursor alone.
Aside ==
  /\ t'.row = t.row /\ t'.col = t.col /\ t'.alt = t.alt
  /\ Alt(t)' = Alt(t)
  /\ Alt(t) => t'.saved[FALSE] = t.saved[FALSE]

PlainStep ==
  /\ Ticks /\ kept' = kept
  /\ Sound(t') /\ OriginHolds(t') /\ Aside
  /\ PastStep

\* A step after which no episode is left.
EndStep ==
  /\ Ticks /\ kept' = NoEpisode
  /\ Sound(t') /\ OriginHolds(t')
  /\ PastStep

LEMMA SessionCharacters ==
  ASSUME NEW s \in Sessions
  PROVE  s.chars \subseteq Characters /\ {s.text[i] : i \in DOMAIN s.text} \subseteq Characters
  <1> DEFINE all == UNION {CharactersOf(r) : r \in Sessions}
  <1>1. all \subseteq Characters
    BY DEF Characters
  <1>2. CharactersOf(s) \subseteq all
    OBVIOUS
  <1> HIDE DEF all
  <1> QED
    BY <1>1, <1>2 DEF CharactersOf

LEMMA SessionIs ==
  ASSUME TermInv
  PROVE  /\ Chars \subseteq Characters /\ Counts \subseteq Nat /\ Snaps \subseteq 0..2
         /\ Sizes \subseteq (Nat \ {0}) \X (Nat \ {0})
         /\ session.ops \in Nat
  BY SessionsAssumption, SessionCharacters DEF TermInv, Chars, Counts, Snaps, Sizes

LEMMA EditSteps ==
  ASSUME TermInv, Ticks, kept' = kept, Edits(t, t'), PastStep
  PROVE  PlainStep
  <1>1. Edits(t, t') /\ OriginHolds(t)
    BY DEF TermInv
  <1>2. Sound(t') /\ OriginHolds(t')
    BY <1>1 DEF Edits
  <1>3. Aside
    BY <1>1 DEF Edits, Aside, Alt
  <1> QED
    BY <1>1, <1>2, <1>3 DEF PlainStep

LEMMA WorkSteps ==
  ASSUME TermInv, Quiet, kept' = kept, Works(t, t')
  PROVE  PlainStep
  BY EditSteps DEF Works, Quiet, PastStep

LEMMA OutputSteps ==
  ASSUME TermInv, Ticks, kept' = kept, input'.chars \in Nat, input'.key \in BOOLEAN,
         Edits(t, t'), Outputs(t, t', input')
  PROVE  PlainStep
  BY EditSteps DEF PastStep

LEMMA PrintingSteps ==
  ASSUME TermInv,
         \/ \E u \in Chars : PutChar(u) \/ Key(u)
         \/ \E n \in Counts : Repeat(n)
  PROVE  PlainStep
  <1>1. Sound(t) /\ t.lastc \in Characters
    BY SoundIs DEF TermInv
  <1>2. ASSUME NEW u \in Chars, PutChar(u)
        PROVE  PlainStep
    <2> DEFINE z == TPutC(t, u)
    <2>1. u \in Characters
      BY SessionIs
    <2>2. Prints(t, z, 2) /\ Recorded(t, z, 2, Rows(t))
      BY <1>1, <2>1, PutCPrints, Zenon
    <2>3. /\ Ticks /\ kept' = kept /\ t' = z
          /\ input' = [chars |-> 1, key |-> FALSE]
      BY <1>2 DEF PutChar, DoesPrint, Doing, Ticks, Becomes
    <2> HIDE DEF z
    <2> QED
      BY <2>2, <2>3, RecordedOutput, OutputSteps DEF Prints
  <1>3. ASSUME NEW n \in Counts, Repeat(n)
        PROVE  PlainStep
    <2> DEFINE text == [i \in 1..n |-> t.lastc]
               z == Printed(t, text)
    <2>1. n \in Nat /\ text \in Seq(Characters) /\ Len(text) = n
      BY <1>1, SessionIs
    <2>2. /\ Ticks /\ kept' = kept /\ t' = z
          /\ input' = [chars |-> n, key |-> FALSE]
      BY <1>3 DEF Repeat, DoesPrint, Doing, Ticks, Becomes
    <2> HIDE DEF text
    <2>3. Prints(t, z, 2 * n) /\ (n = 1 => Recorded(t, z, 2, Rows(t)))
      BY <1>1, <2>1, PrintedPrints
    <2> HIDE DEF z
    <2>4. Outputs(t, z, [chars |-> n, key |-> FALSE])
      BY <1>1, <2>1, <2>3, RecordedOutput, PushedOutput DEF Prints
    <2> QED
      BY <2>1, <2>2, <2>3, <2>4, OutputSteps DEF Prints
  <1>4. ASSUME NEW u \in Chars, Key(u)
        PROVE  PlainStep
    <2> DEFINE z == KScrollDown(t, t.scr)
               w == TPutC(z, u)
    <2>1. u \in Characters
      BY SessionIs
    <2>2. Works(t, z) /\ Edits(t, w) /\ Outputs(t, w, [chars |-> 1, key |-> TRUE])
      BY <1>1, <2>1, KeyWorks, Zenon
    <2>3. /\ Ticks /\ kept' = kept
          /\ \/ input' = [chars |-> 1, key |-> TRUE] /\ t' = w
             \/ input' = NoInput /\ t' = z
      BY <1>4 DEF Key, Doing, Ticks, Becomes
    <2> HIDE DEF z, w
    <2>4. CASE input' = [chars |-> 1, key |-> TRUE] /\ t' = w
      BY <2>2, <2>3, <2>4, OutputSteps
    <2>5. CASE input' = NoInput /\ t' = z
      BY <2>2, <2>3, <2>5, WorkSteps DEF Quiet
    <2> QED
      BY <2>3, <2>4, <2>5
  <1> QED
    BY <1>2, <1>3, <1>4

LEMMA LineSteps ==
  ASSUME TermInv, LineFeed \/ NextLine \/ Substitute \/ Index \/ ReverseIndex \/ Align
  PROVE  PlainStep
  <1>1. Sound(t) /\ t.c.x \in Int /\ t.c.y \in Int /\ t.c.y \in RowsOf(t) /\ 0 \in Int
    BY SoundIs DEF TermInv, RowsOf
  <1>2. CASE LineFeed
    <2> DEFINE b == "crlf" \in t.mode
    <2>1. b \in BOOLEAN
      OBVIOUS
    <2>2. Control(TNewline(t, b)) /\ Quiet
      BY <1>2 DEF LineFeed, Does, Doing, Quiet, Ticks
    <2> HIDE DEF b
    <2>3. Works(t, [TNewline(t, b) EXCEPT !.lastc = ""])
      BY <1>1, <2>1, NewlineWorks, ControlWorks
    <2> QED
      BY <2>2, <2>3, WorkSteps DEF Control, Becomes
  <1>3. CASE NextLine
    <2>1. Control(TNewline(t, TRUE)) /\ Quiet
      BY <1>3 DEF NextLine, Does, Doing, Quiet, Ticks
    <2>2. Works(t, [TNewline(t, TRUE) EXCEPT !.lastc = ""])
      BY <1>1, NewlineWorks, ControlWorks
    <2> QED
      BY <2>1, <2>2, WorkSteps DEF Control, Becomes
  <1>4. CASE Substitute
    <2>1. Control(TSetChar(t, "?", t.c.x, t.c.y)) /\ Quiet
      BY <1>4 DEF Substitute, Does, Doing, Quiet, Ticks, X, Y
    <2>2. Works(t, [TSetChar(t, "?", t.c.x, t.c.y) EXCEPT !.lastc = ""])
      <3>1. "?" \in Characters
        BY DEF Characters
      <3> QED
        BY <1>1, <3>1, SetCharWrites, WritesWork, ControlWorks
    <2> QED
      BY <2>1, <2>2, WorkSteps DEF Control, Becomes
  <1>5. CASE Index
    <2>1. Works(t, TMoveTo(t, t.c.x, t.c.y + 1))
      <3>1. t.c.y + 1 \in Int
        BY <1>1
      <3> QED
        BY <1>1, <3>1, MoveWorks
    <2>2. t.c.y = t.bot => Works(t, TScrollUp(t, t.top, 1, TRUE))
      BY <1>1, IndexWorks
    <2>3. Works(t, t')
      BY <1>5, <2>1, <2>2 DEF Index, Becomes, X, Y
    <2> QED
      BY <1>5, <2>3, WorkSteps DEF Index, Does, Doing, Quiet, Ticks, Becomes
  <1>6. CASE ReverseIndex
    <2>1. Works(t, TMoveTo(t, t.c.x, t.c.y - 1))
      <3>1. t.c.y - 1 \in Int
        BY <1>1
      <3> QED
        BY <1>1, <3>1, MoveWorks
    <2>2. t.c.y = t.top => Works(t, TScrollDown(t, t.top, 1, TRUE))
      BY <1>1, IndexWorks
    <2>3. Works(t, t')
      BY <1>6, <2>1, <2>2 DEF ReverseIndex, Becomes, X, Y
    <2> QED
      BY <1>6, <2>3, WorkSteps DEF ReverseIndex, Does, Doing, Quiet, Ticks, Becomes
  <1>7. CASE Align
    <2>1. Works(t, Aligned(t))
      BY <1>1, AlignWrites, WritesWork
    <2> QED
      BY <1>7, <2>1, WorkSteps DEF Align, Does, Doing, Quiet, Ticks, Becomes
  <1> QED
    BY <1>2, <1>3, <1>4, <1>5, <1>6, <1>7

\* The actions that only move the cursor.
LEMMA MotionSteps ==
  ASSUME TermInv,
         \/ CarriageReturn \/ Backspace \/ HorizontalTab
         \/ \E n \in Counts : \/ CursorUp(n) \/ CursorDown(n) \/ CursorForward(n)
                              \/ CursorBackward(n) \/ CursorNextLine(n) \/ CursorPreviousLine(n)
                              \/ CursorColumn(n) \/ CursorRow(n)
         \/ \E n, m \in Counts : CursorPosition(n, m)
  PROVE  PlainStep
  <1>1. Sound(t) /\ t.c.x \in Int /\ t.c.y \in Int /\ 0 \in Int
    BY SoundIs DEF TermInv
  <1>2. CASE CarriageReturn
    <2>1. Works(t, [TMoveTo(t, 0, t.c.y) EXCEPT !.lastc = ""])
      BY <1>1, MoveWorks, ControlWorks
    <2> QED
      BY <1>2, <2>1, WorkSteps DEF CarriageReturn, Does, Doing, Quiet, Ticks, Control, Becomes, X, Y
  <1>3. CASE Backspace
    <2>1. Works(t, [TMoveTo(t, t.c.x - 1, t.c.y) EXCEPT !.lastc = ""])
      <3>1. t.c.x - 1 \in Int
        BY <1>1
      <3> QED
        BY <1>1, <3>1, MoveWorks, ControlWorks
    <2> QED
      BY <1>3, <2>1, WorkSteps DEF Backspace, Does, Doing, Quiet, Ticks, Control, Becomes, X, Y
  <1>4. ASSUME NEW x \in Int, NEW y \in Int, Quiet,
               Becomes(TMoveTo(t, x, y)) \/ Becomes(TMoveATo(t, x, y))
        PROVE  PlainStep
    <2>1. Works(t, TMoveTo(t, x, y)) /\ Works(t, TMoveATo(t, x, y))
      BY <1>1, MoveWorks
    <2> QED
      BY <1>4, <2>1, WorkSteps DEF Becomes
  <1>5. ASSUME NEW n \in Counts,
               \/ CursorUp(n) \/ CursorDown(n) \/ CursorForward(n)
               \/ CursorBackward(n) \/ CursorNextLine(n) \/ CursorPreviousLine(n)
               \/ CursorColumn(n) \/ CursorRow(n)
        PROVE  PlainStep
    <2>1. /\ n \in Int /\ t.c.x + n \in Int /\ t.c.x - n \in Int /\ t.c.y + n \in Int
          /\ t.c.y - n \in Int /\ n - 1 \in Int
      BY <1>1, SessionIs
    <2>2. Quiet
      BY <1>5 DEF CursorUp, CursorDown, CursorForward, CursorBackward, CursorNextLine,
                  CursorPreviousLine, CursorColumn, CursorRow, Does, Doing, Quiet, Ticks
    <2>3. \/ Becomes(TMoveTo(t, t.c.x, t.c.y - n)) \/ Becomes(TMoveTo(t, t.c.x, t.c.y + n))
          \/ Becomes(TMoveTo(t, t.c.x + n, t.c.y)) \/ Becomes(TMoveTo(t, t.c.x - n, t.c.y))
          \/ Becomes(TMoveTo(t, 0, t.c.y + n)) \/ Becomes(TMoveTo(t, 0, t.c.y - n))
          \/ Becomes(TMoveTo(t, n - 1, t.c.y)) \/ Becomes(TMoveATo(t, t.c.x, n - 1))
      BY <1>5 DEF CursorUp, CursorDown, CursorForward, CursorBackward, CursorNextLine,
                  CursorPreviousLine, CursorColumn, CursorRow, X, Y
    <2> QED
      BY <1>1, <1>4, <2>1, <2>2, <2>3
  <1>6. ASSUME NEW n \in Counts, NEW m \in Counts, CursorPosition(n, m)
        PROVE  PlainStep
    <2>1. m - 1 \in Int /\ n - 1 \in Int
      BY SessionIs
    <2> QED
      BY <1>4, <1>6, <2>1 DEF CursorPosition, Does, Doing, Quiet, Ticks
  <1>7. CASE HorizontalTab
    <2> DEFINE z == TPutTab(t, 1)
    <2>1. Works(t, z)
      BY <1>1, PutTabEdits, QuietWorks
    <2>2. Control(z) /\ Quiet
      BY <1>7 DEF HorizontalTab, Does, Doing, Quiet, Ticks
    <2> HIDE DEF z
    <2> QED
      BY <2>1, <2>2, ControlWorks, WorkSteps DEF Control, Becomes
  <1> QED
    BY <1>2, <1>3, <1>5, <1>6, <1>7

LEMMA ErasingSteps ==
  ASSUME TermInv,
         EraseBelow \/ EraseAbove \/ EraseAll \/ (\E a \in 0..2 : EraseLine(a))
           \/ \E n \in Counts : \/ EraseChars(n) \/ InsertChars(n) \/ DeleteChars(n)
  PROVE  PlainStep
  <1>1. /\ Sound(t) /\ t.c.x \in Int /\ t.c.y \in Int /\ 0 \in Int
        /\ t.col - 1 \in Int /\ t.row - 1 \in Int /\ t.c.y + 1 \in Int /\ t.c.y - 1 \in Int
    BY SoundIs DEF TermInv
  <1>2. ASSUME NEW z, Writes(t, z), Quiet, Becomes(z)
        PROVE  PlainStep
    BY <1>2, WritesWork, WorkSteps DEF Becomes
  <1>3. CASE EraseBelow
    <2> DEFINE a == TClearRegion(t, t.c.x, t.c.y, t.col - 1, t.c.y)
               b == TClearRegion(a, 0, t.c.y + 1, t.col - 1, t.row - 1)
    <2>1. (Becomes(a) \/ Becomes(b)) /\ Quiet
      BY <1>3 DEF EraseBelow, Does, Doing, Quiet, Ticks, X, Y
    <2>2. Writes(t, a)
      BY <1>1, ClearRegionWrites
    <2> HIDE DEF a
    <2>3. Writes(a, b)
      BY <1>1, <2>2, ClearRegionWrites DEF Writes, Edits
    <2> HIDE DEF b
    <2>4. Writes(t, b)
      BY <2>2, <2>3, WritesTwice
    <2> QED
      BY <1>2, <2>1, <2>2, <2>4
  <1>4. CASE EraseAbove
    <2> DEFINE a == IF t.c.y > 1 THEN TClearRegion(t, 0, 0, t.col - 1, t.c.y - 1) ELSE t
               b == TClearRegion(a, 0, t.c.y, t.c.x, t.c.y)
    <2>1. Becomes(b) /\ Quiet
      BY <1>4 DEF EraseAbove, Does, Doing, Quiet, Ticks, X, Y
    <2>2. Writes(t, a)
      <3>1. Writes(t, t)
        BY <1>1, EditsNothing DEF Writes
      <3>2. Writes(t, TClearRegion(t, 0, 0, t.col - 1, t.c.y - 1))
        BY <1>1, ClearRegionWrites
      <3> QED
        BY <3>1, <3>2
    <2> HIDE DEF a
    <2>3. Writes(a, b)
      BY <1>1, <2>2, ClearRegionWrites DEF Writes, Edits
    <2> HIDE DEF b
    <2>4. Writes(t, b)
      BY <2>2, <2>3, WritesTwice
    <2> QED
      BY <1>2, <2>1, <2>4
  <1>5. CASE EraseAll
    <2>1. Writes(t, TClearScreen(t))
      BY <1>1, ClearScreenWrites
    <2> QED
      BY <1>2, <1>5, <2>1 DEF EraseAll, Does, Doing, Quiet, Ticks
  <1>6. CASE \E a \in 0..2 : EraseLine(a)
    <2>1. PICK a \in 0..2 : EraseLine(a)
      BY <1>6
    <2> DEFINE x1 == IF a = 0 THEN t.c.x ELSE 0
               x2 == IF a = 1 THEN t.c.x ELSE t.col - 1
    <2>2. x1 \in Int /\ x2 \in Int
      BY <1>1
    <2>3. Becomes(TClearRegion(t, x1, t.c.y, x2, t.c.y)) /\ Quiet
      BY <2>1 DEF EraseLine, Does, Doing, Quiet, Ticks, X, Y
    <2> HIDE DEF x1, x2
    <2>4. Writes(t, TClearRegion(t, x1, t.c.y, x2, t.c.y))
      BY <1>1, <2>2, ClearRegionWrites
    <2> QED
      BY <1>2, <2>3, <2>4
  <1>7. ASSUME NEW n \in Counts, EraseChars(n) \/ InsertChars(n) \/ DeleteChars(n)
        PROVE  PlainStep
    <2>1. n \in Int /\ t.c.x + n - 1 \in Int
      BY <1>1, SessionIs
    <2>2. Writes(t, TClearRegion(t, t.c.x, t.c.y, t.c.x + n - 1, t.c.y))
      BY <1>1, <2>1, ClearRegionWrites
    <2>3. Writes(t, TInsertBlank(t, n)) /\ Writes(t, TDeleteChar(t, n))
      BY <1>1, <2>1, InsertBlankWrites, DeleteCharWrites
    <2>4. /\ Quiet
          /\ \/ Becomes(TClearRegion(t, t.c.x, t.c.y, t.c.x + n - 1, t.c.y))
             \/ Becomes(TInsertBlank(t, n)) \/ Becomes(TDeleteChar(t, n))
      BY <1>7 DEF EraseChars, InsertChars, DeleteChars, Does, Doing, Quiet, Ticks, X, Y
    <2> QED
      BY <1>2, <2>2, <2>3, <2>4
  <1> QED
    BY <1>3, <1>4, <1>5, <1>6, <1>7

LEMMA LinesSteps ==
  ASSUME TermInv,
         \E n \in Counts : \/ ScrollUp(n) \/ ScrollDown(n) \/ InsertLines(n) \/ DeleteLines(n)
                           \/ Tab(n) \/ Tab(-n)
  PROVE  PlainStep
  <1>1. Sound(t)
    BY DEF TermInv
  <1>2. PICK n \in Counts : \/ ScrollUp(n) \/ ScrollDown(n) \/ InsertLines(n) \/ DeleteLines(n)
                            \/ Tab(n) \/ Tab(-n)
    OBVIOUS
  <1>3. n \in Int /\ -n \in Int
    BY SessionIs
  <1>4. Works(t, TScrollUp(t, t.top, n, FALSE)) /\ Works(t, TScrollDown(t, t.top, n, FALSE))
    BY <1>1, <1>3, ScrollWorks
  <1>5. Works(t, TInsertBlankLine(t, n)) /\ Works(t, TDeleteLine(t, n))
    BY <1>1, <1>3, LineOperations, QuietWorks, LookWorks
  <1>6. Works(t, TPutTab(t, n))
    BY <1>1, <1>3, PutTabEdits, QuietWorks
  <1>7. Works(t, TPutTab(t, -n))
    BY <1>1, <1>3, PutTabEdits, QuietWorks
  <1>8. Quiet
    BY <1>2 DEF ScrollUp, ScrollDown, InsertLines, DeleteLines, Tab, Does, Doing, Quiet, Ticks
  <1>9. \/ Becomes(TScrollUp(t, t.top, n, FALSE)) \/ Becomes(TScrollDown(t, t.top, n, FALSE))
        \/ Becomes(TInsertBlankLine(t, n)) \/ Becomes(TDeleteLine(t, n))
        \/ Becomes(TPutTab(t, n)) \/ Becomes(TPutTab(t, -n))
    BY <1>2 DEF ScrollUp, ScrollDown, InsertLines, DeleteLines, Tab
  <1>10. Works(t, t') /\ kept' = kept
    BY <1>4, <1>5, <1>6, <1>7, <1>9 DEF Becomes
  <1> QED
    BY <1>8, <1>10, WorkSteps

LEMMA TabStopSteps ==
  ASSUME TermInv, SetTab \/ ClearTab \/ ClearTabs
  PROVE  PlainStep
  <1>1. Sound(t) /\ t.c.x \in 0..(t.maxcol - 1) /\ t.tabs \in SUBSET (0..(t.maxcol - 1))
    BY SoundIs DEF TermInv
  <1>2. ASSUME NEW d \in SUBSET (0..(t.maxcol - 1)), Quiet, Becomes([t EXCEPT !.tabs = d])
        PROVE  PlainStep
    <2> DEFINE z == [t EXCEPT !.tabs = d]
    <2>1. Edits(t, z) /\ SamePast(t, z)
      BY <1>1, TabsSet, Zenon
    <2>2. Becomes(z)
      BY <1>2
    <2> HIDE DEF z
    <2> QED
      BY <1>2, <2>1, <2>2, QuietWorks, WorkSteps DEF Becomes
  <1>3. CASE SetTab
    BY <1>1, <1>2, <1>3 DEF SetTab, Does, Doing, Quiet, Ticks, X
  <1>4. CASE ClearTab
    BY <1>1, <1>2, <1>4 DEF ClearTab, Does, Doing, Quiet, Ticks, X
  <1>5. CASE ClearTabs
    BY <1>1, <1>2, <1>5 DEF ClearTabs, Does, Doing, Quiet, Ticks
  <1> QED
    BY <1>3, <1>4, <1>5

\* Modes, region and saved cursor.
LEMMA SettingSteps ==
  ASSUME TermInv,
         \/ SaveCursor \/ LoadCursor
         \/ \E a, b \in 1..t.row : SetRegion(a, b)
         \/ \E m \in {"wrap", "insert", "echo", "crlf"}, set \in BOOLEAN : SetMode(m, set)
         \/ \E set \in BOOLEAN : Origin(set)
  PROVE  PlainStep
  <1>1. Sound(t) /\ OriginHolds(t)
    BY DEF TermInv
  <1>2. ASSUME Quiet, kept' = kept, Keeps(t, t'), t'.alt = t.alt, Alt(t') = Alt(t),
               Alt(t) => t'.saved[FALSE] = t.saved[FALSE]
        PROVE  PlainStep
    BY <1>1, <1>2, SamePastIs DEF PlainStep, PastStep, Quiet, Keeps, Aside, Scrolls, Alt
  <1>3. ASSUME Quiet, kept' = kept, Settles(t, t')
        PROVE  PlainStep
    BY <1>3, SamePastIs DEF PlainStep, PastStep, Quiet, Settles, Aside, Scrolls, Alt
  <1>4. CASE SaveCursor
    <2> DEFINE z == TCursorSave(t)
    <2>1. /\ Keeps(t, z) /\ z.alt = t.alt /\ z.mode = t.mode
          /\ Alt(t) => z.saved[FALSE] = t.saved[FALSE]
      BY <1>1, SaveIs, Zenon
    <2>2. t' = z /\ kept' = kept /\ Quiet
      BY <1>4 DEF SaveCursor, Does, Doing, Quiet, Ticks, Becomes
    <2> HIDE DEF z
    <2> QED
      BY <1>2, <2>1, <2>2 DEF Alt
  <1>5. CASE LoadCursor
    <2> DEFINE z == TCursorLoad(t)
    <2>1. /\ Keeps(t, z) /\ z.alt = t.alt /\ z.mode = t.mode /\ z.saved = t.saved
      BY <1>1, LoadIs, Zenon
    <2>2. t' = z /\ kept' = kept /\ Quiet
      BY <1>5 DEF LoadCursor, Does, Doing, Quiet, Ticks, Becomes
    <2> HIDE DEF z
    <2> QED
      BY <1>2, <2>1, <2>2 DEF Alt
  <1>6. CASE \E a, b \in 1..t.row : SetRegion(a, b)
    <2>1. PICK a \in 1..t.row, b \in 1..t.row : SetRegion(a, b)
      BY <1>6
    <2>2. a - 1 \in Int /\ b - 1 \in Int
      OBVIOUS
    <2>3. Settles(t, TMoveATo(TSetScroll(t, a - 1, b - 1), 0, 0))
      BY <1>1, <2>2, RegionSettles
    <2> QED
      BY <1>3, <2>1, <2>3 DEF SetRegion, Does, Doing, Quiet, Ticks, Becomes
  <1>7. CASE \E m \in {"wrap", "insert", "echo", "crlf"}, set \in BOOLEAN : SetMode(m, set)
    <2>1. PICK m \in {"wrap", "insert", "echo", "crlf"}, set \in BOOLEAN : SetMode(m, set)
      BY <1>7
    <2> DEFINE d == IF set THEN t.mode \cup {m} ELSE t.mode \ {m}
               z == [t EXCEPT !.mode = d]
    <2>2. d \in SUBSET Modes /\ ("altscreen" \in d <=> "altscreen" \in t.mode)
      BY <1>1, SoundIs DEF Modes
    <2>3. t' = z /\ kept' = kept /\ Quiet
      BY <2>1 DEF SetMode, Does, Doing, Quiet, Ticks, Becomes
    <2> HIDE DEF d
    <2>4. /\ Keeps(t, z) /\ z.mode = d /\ z.alt = t.alt /\ z.saved = t.saved
      BY <1>1, <2>2, ModeSet, Zenon
    <2> HIDE DEF z
    <2>5. Alt(z) = Alt(t)
      BY <2>2, <2>4 DEF Alt
    <2> QED
      BY <1>2, <2>3, <2>4, <2>5
  <1>8. CASE \E set \in BOOLEAN : Origin(set)
    <2>1. PICK set \in BOOLEAN : Origin(set)
      BY <1>8
    <2>2. Settles(t, TMoveATo([t EXCEPT !.c.origin = set], 0, 0))
      BY <1>1, OriginSettles
    <2> QED
      BY <1>3, <2>1, <2>2 DEF Origin, Does, Doing, Quiet, Ticks, Becomes
  <1> QED
    BY <1>4, <1>5, <1>6, <1>7, <1>8

LEMMA WindowSteps ==
  ASSUME TermInv,
         \/ \E x \in ColsOf(t), y \in RowsOf(t), snap \in Snaps : Press(x, y, snap)
         \/ \E x \in ColsOf(t), y \in RowsOf(t), type \in {"regular", "rectangular"},
               done \in BOOLEAN : Drag(x, y, type, done)
         \/ Deselect
         \/ \E n \in {1, -1} : LookBack(n) \/ LookForward(n)
         \/ Draw
  PROVE  PlainStep
  <1>1. Sound(t)
    BY DEF TermInv
  <1>2. ASSUME NEW z, Marks(t, z), Quiet, Becomes(z)
        PROVE  PlainStep
    BY <1>2, MarksWrite, WritesWork, WorkSteps DEF Becomes
  <1>3. ASSUME NEW x \in ColsOf(t), NEW y \in RowsOf(t), NEW snap \in Snaps, Press(x, y, snap)
        PROVE  PlainStep
    <2>1. snap \in 0..2
      BY SessionIs
    <2>2. Marks(t, SelStart(t, x, y, snap))
      BY <1>1, <2>1, SelStartMarks
    <2> QED
      BY <1>2, <1>3, <2>2 DEF Press, Does, Doing, Quiet, Ticks
  <1>4. ASSUME NEW x \in ColsOf(t), NEW y \in RowsOf(t), NEW type \in {"regular", "rectangular"},
               NEW done \in BOOLEAN, Drag(x, y, type, done)
        PROVE  PlainStep
    <2>1. Marks(t, SelExtend(t, x, y, type, done))
      BY <1>1, SelExtendMarks
    <2> QED
      BY <1>2, <1>4, <2>1 DEF Drag, Does, Doing, Quiet, Ticks
  <1>5. CASE Deselect
    <2>1. Marks(t, SelClear(t))
      BY <1>1, SelClearMarks
    <2> QED
      BY <1>2, <1>5, <2>1 DEF Deselect, Does, Doing, Quiet, Ticks
  <1>6. ASSUME NEW n \in {1, -1}, LookBack(n) \/ LookForward(n)
        PROVE  PlainStep
    <2>1. n \in Int /\ n >= -1
      OBVIOUS
    <2>2. Works(t, KScrollUp(t, n))
      BY <1>1, <2>1, LookBackIs, LookWorks
    <2>3. Edits(t, KScrollDown(t, n)) /\ SameLog(t, KScrollDown(t, n))
      BY <1>1, <2>1, LookForwardIs, Zenon
    <2>4. Works(t, KScrollDown(t, n))
      BY <2>3, LookWorks
    <2>5. Quiet /\ (Becomes(KScrollUp(t, n)) \/ Becomes(KScrollDown(t, n)))
      BY <1>6 DEF LookBack, LookForward, Does, Doing, Quiet, Ticks
    <2> QED
      BY <2>2, <2>4, <2>5, WorkSteps DEF Becomes
  <1>7. CASE Draw
    <2> DEFINE z == [t EXCEPT !.dirty = {}]
    <2>1. {} \in SUBSET (0..(t.row - 1))
      OBVIOUS
    <2>2. Edits(t, z) /\ SamePast(t, z) /\ SameCursor(t, z) /\ z.sel = t.sel /\ z.line = t.line
      BY <1>1, <2>1, DirtySet, Zenon
    <2>3. Becomes(z) /\ Quiet
      BY <1>7 DEF Draw, Does, Doing, Quiet, Ticks
    <2> HIDE DEF z
    <2> QED
      BY <1>2, <2>2, <2>3 DEF Marks
  <1> QED
    BY <1>3, <1>4, <1>5, <1>6, <1>7

LEMMA EndingSteps ==
  ASSUME TermInv,
         Reset \/ (\E set \in BOOLEAN : SwapOnly(set)) \/ \E size \in Sizes : Resize(size)
  PROVE  EndStep
  <1>1. Sound(t) /\ OriginHolds(t)
    BY DEF TermInv
  <1>2. CASE Reset
    <2>1. Sound(TReset(t)) /\ OriginHolds(TReset(t)) /\ SamePast(t, TReset(t))
      BY <1>1, ResetIs, Zenon
    <2> QED
      BY <1>2, <2>1, SamePastIs
         DEF Reset, Does, Doing, Quiet, Ticks, EndStep, PastStep, Scrolls
  <1>3. CASE \E set \in BOOLEAN : SwapOnly(set)
    <2>1. PICK set \in BOOLEAN : SwapOnly(set)
      BY <1>3
    <2>2. Keeps(t, ToScreen(t, set))
      BY <1>1, ToScreenIs
    <2> QED
      BY <1>1, <2>1, <2>2, SamePastIs
         DEF SwapOnly, Does, Doing, Quiet, Ticks, EndStep, PastStep, Scrolls, Keeps
  <1>4. CASE \E size \in Sizes : Resize(size)
    <2>1. PICK size \in Sizes : Resize(size)
      BY <1>4
    <2>2. size[1] \in Nat \ {0} /\ size[2] \in Nat \ {0}
      BY SessionIs
    <2> DEFINE z == TResize(t, size[1], size[2])
    <2>3. Sound(z) /\ OriginHolds(z) /\ Log(z) = Log(t)
      BY <1>1, <2>2, ResizeIs
    <2>4. t' = z /\ kept' = NoEpisode /\ Quiet
      BY <2>1 DEF Resize, Does, Doing, Quiet, Ticks
    <2> HIDE DEF z
    <2> QED
      BY <2>3, <2>4 DEF EndStep, PastStep, Quiet, Scrolls
  <1> QED
    BY <1>2, <1>3, <1>4

\* 1049: the cursor before, the screen and the cursor after.
LEMMA AlternateIs ==
  ASSUME NEW s, Sound(s), NEW set \in BOOLEAN
  PROVE  LET z == CursorMode(ToScreen(CursorMode(s, set), set), set)
         IN /\ Keeps(s, z)
            /\ set /\ Alt(s) => z.alt = s.alt /\ z.saved[FALSE] = s.saved[FALSE]
            /\ set /\ ~Alt(s) => z.alt = s.line /\ z.saved[FALSE] = s.c
            /\ set => Alt(z)
            /\ ~set /\ Alt(s) =>
                 LET d == s.saved[FALSE]
                 IN /\ z.line = s.alt
                    /\ d.x \in ColsOf(s) /\ d.y \in RowsOf(s) /\ ~d.origin
                         => z.c = [d EXCEPT !.wrapnext = FALSE]
  <1> DEFINE a == CursorMode(s, set)
             b == ToScreen(a, set)
             z == CursorMode(b, set)
             d == s.saved[FALSE]
  <1>1. /\ Keeps(s, a)
        /\ a.line = s.line /\ a.alt = s.alt /\ a.mode = s.mode
        /\ Alt(s) \/ ~set => a.saved[FALSE] = s.saved[FALSE]
        /\ set => a.saved[Alt(s)] = s.c /\ a.c = s.c
    BY CursorModeIs, Zenon
  <1> HIDE DEF a
  <1>2. Sound(a)
    BY <1>1 DEF Keeps
  <1>3. /\ Keeps(a, b) /\ b.saved = a.saved /\ b.c = a.c /\ Alt(b) = set
        /\ Alt(a) = set => b.alt = a.alt
        /\ ~Alt(a) /\ set => b.alt = a.line
        /\ Alt(a) /\ ~set => b.line = a.alt
    BY <1>2, ToScreenIs, Zenon
  <1> HIDE DEF b
  <1>4. Sound(b)
    BY <1>3 DEF Keeps
  <1>5. /\ Keeps(b, z)
        /\ z.line = b.line /\ z.alt = b.alt /\ z.mode = b.mode
        /\ Alt(b) \/ ~set => z.saved[FALSE] = b.saved[FALSE]
        /\ set => z.saved[Alt(b)] = b.c /\ z.c = b.c
    BY <1>4, CursorModeIs, Zenon
  <1>6. ASSUME ~set
        PROVE  LET e == b.saved[Alt(b)]
               IN e.x \in ColsOf(b) /\ e.y \in RowsOf(b) /\ ~e.origin
                    => z.c = [e EXCEPT !.wrapnext = FALSE]
    <2>1. z = TCursorLoad(b)
      BY <1>6 DEF CursorMode
    <2> DEFINE y == TCursorLoad(b)
               e == b.saved[Alt(b)]
    <2>2. /\ Keeps(b, y) /\ OriginHolds(y)
          /\ y.line = b.line /\ y.alt = b.alt /\ y.mode = b.mode /\ y.saved = b.saved
          /\ e.x \in ColsOf(b) /\ e.y \in RowsOf(b) /\ ~e.origin
               => y.c = [e EXCEPT !.wrapnext = FALSE]
      BY <1>4, LoadIs, Zenon
    <2> QED
      BY <2>1, <2>2
  <1> HIDE DEF z
  <1>7. Keeps(s, z)
    BY <1>1, <1>3, <1>5, KeepsTwice
  <1>8. Alt(a) = Alt(s) /\ Alt(z) = set
    BY <1>1, <1>3, <1>5 DEF Alt
  <1>9. ASSUME set, Alt(s)
        PROVE  z.alt = s.alt /\ z.saved[FALSE] = s.saved[FALSE]
    <2>1. Alt(a) = set /\ Alt(b)
      BY <1>3, <1>8, <1>9, AltIs
    <2> QED
      BY <1>1, <1>3, <1>5, <1>9, <2>1
  <1>10. ASSUME set, ~Alt(s)
         PROVE  z.alt = s.line /\ z.saved[FALSE] = s.c
    <2>1. Alt(s) = FALSE /\ ~Alt(a) /\ Alt(b)
      BY <1>3, <1>8, <1>10, AltIs
    <2> QED
      BY <1>1, <1>3, <1>5, <1>10, <2>1
  <1>11. ASSUME ~set, Alt(s)
         PROVE  /\ z.line = s.alt
                /\ d.x \in ColsOf(s) /\ d.y \in RowsOf(s) /\ ~d.origin
                     => z.c = [d EXCEPT !.wrapnext = FALSE]
    <2>1. Alt(a) /\ Alt(b) = FALSE
      BY <1>3, <1>8, <1>11, AltIs
    <2>2. b.saved[Alt(b)] = d
      BY <1>1, <1>3, <1>11, <2>1
    <2>3. ColsOf(b) = ColsOf(s) /\ RowsOf(b) = RowsOf(s)
      BY <1>1, <1>3 DEF Keeps, ColsOf, RowsOf
    <2> HIDE DEF d
    <2>4. d.x \in ColsOf(s) /\ d.y \in RowsOf(s) /\ ~d.origin
            => z.c = [d EXCEPT !.wrapnext = FALSE]
      BY <1>6, <1>11, <2>2, <2>3
    <2> QED
      BY <1>1, <1>3, <1>5, <1>11, <2>1, <2>4
  <1> QED
    BY <1>7, <1>8, <1>9, <1>10, <1>11 DEF z, b, a

\* A step that enters or leaves an episode.
SwitchStep ==
  /\ Ticks /\ Sound(t') /\ OriginHolds(t') /\ PastStep
  /\ EpisodeHolds'

LEMMA AlternateSteps ==
  ASSUME TermInv, NEW set \in BOOLEAN, Alternate(set)
  PROVE  SwitchStep
  <1>1. Sound(t) /\ OriginHolds(t) /\ EpisodeHolds
    BY DEF TermInv
  <1> DEFINE z == CursorMode(ToScreen(CursorMode(t, set), set), set)
             old == [on |-> TRUE, line |-> t.line, c |-> t.c]
  <1>2. /\ Quiet /\ t' = z
        /\ kept' = IF set /\ ~Alt(t) THEN old ELSE IF set THEN kept ELSE NoEpisode
    BY DEF Alternate, Does, Doing, Quiet, Ticks
  <1>3. /\ Keeps(t, z)
        /\ set /\ Alt(t) => z.alt = t.alt /\ z.saved[FALSE] = t.saved[FALSE]
        /\ set /\ ~Alt(t) => z.alt = t.line /\ z.saved[FALSE] = t.c
        /\ set => Alt(z)
    BY <1>1, AlternateIs, Zenon
  <1> HIDE DEF z
  <1>4. Ticks /\ Sound(t') /\ OriginHolds(t') /\ PastStep
    BY <1>1, <1>2, <1>3, SamePastIs DEF Keeps, Scrolls, PastStep, Quiet
  <1>5. ColsOf(t') = ColsOf(t) /\ RowsOf(t') = RowsOf(t)
    BY <1>2, <1>3 DEF Keeps, ColsOf, RowsOf
  <1>6. CASE ~set
    <2>1. ~kept'.on
      BY <1>2, <1>6 DEF NoEpisode
    <2> QED
      BY <1>2, <1>4, <2>1 DEF SwitchStep, EpisodeHolds
  <1>7. CASE set /\ ~Alt(t)
    <2>1. kept'.line = t.line /\ kept'.c = t.c
      BY <1>2, <1>7
    <2>2. t.c \in Cursors /\ t.c.x \in ColsOf(t) /\ t.c.y \in RowsOf(t)
      BY <1>1, SoundIs DEF Sound
    <2> QED
      BY <1>2, <1>3, <1>4, <1>5, <1>7, <2>1, <2>2 DEF SwitchStep, EpisodeHolds
  <1>8. CASE set /\ Alt(t)
    <2>1. kept' = kept
      BY <1>2, <1>8
    <2> QED
      BY <1>1, <1>2, <1>3, <1>4, <1>5, <1>8, <2>1 DEF SwitchStep, EpisodeHolds
  <1> QED
    BY <1>6, <1>7, <1>8

-----------------------------------------------------------------------------
(* The invariant.                                                           *)

LEMMA InitInv == Init => TermInv /\ t.scr = 0
  <1> SUFFICES ASSUME Init
               PROVE  TermInv /\ t.scr = 0
    OBVIOUS
  <1>1. /\ session \in Sessions /\ session.cols \in Nat \ {0} /\ session.rows \in Nat \ {0}
        /\ session.ops \in Nat /\ ops = 0 /\ kept = NoEpisode
    BY SessionsAssumption DEF Init
  <1> DEFINE a == TNew(session.cols, session.rows)
             text == session.text
             b == Printed(a, text)
             w == [b EXCEPT !.dirty = {}]
  <1>2. Sound(a) /\ OriginHolds(a) /\ a.scr = 0
    BY <1>1, NewIs
  <1>3. t = w
    BY DEF Init
  <1>4. text \in Seq(Characters)
    <2> DEFINE used == {text[i] : i \in DOMAIN text}
    <2>1. text \in Seq(used)
      BY <1>1, SessionsAssumption
    <2>2. used \subseteq Characters
      BY <1>1, SessionCharacters
    <2> HIDE DEF used, text
    <2> QED
      BY <2>1, <2>2
  <1> HIDE DEF a, text
  <1>5. Prints(a, b, 2 * Len(text))
    BY <1>2, <1>4, PrintedPrints
  <1> HIDE DEF b
  <1>6. Sound(b) /\ OriginHolds(b) /\ b.scr = 0
    <2>1. PICK k \in 0..(2 * Len(text)) : Moves(a, b, k, Above(a))
      BY <1>5 DEF Prints, Pushed
    <2>2. b.scr = 0
      BY <1>2, <2>1, HistoryAssumption DEF Moves, Follows
    <2> QED
      BY <1>2, <1>5, <2>2 DEF Prints, Edits
  <1>7. {} \in SUBSET (0..(b.row - 1))
    OBVIOUS
  <1>8. Edits(b, w) /\ SamePast(b, w) /\ SameCursor(b, w) /\ w.sel = b.sel /\ w.line = b.line
    BY <1>6, <1>7, DirtySet, Zenon
  <1> HIDE DEF w
  <1>9. Sound(w) /\ OriginHolds(w) /\ w.scr = 0
    BY <1>6, <1>8 DEF Edits, SamePast
  <1> QED
    BY <1>1, <1>3, <1>9 DEF TermInv, EpisodeHolds, NoEpisode

LEMMA StepKinds ==
  ASSUME TermInv, Next
  PROVE  PlainStep \/ EndStep \/ SwitchStep
  <1>1. CASE Output
    <2>1. CASE (\E u \in Chars : PutChar(u)) \/ \E n \in Counts : Repeat(n)
      BY <2>1, PrintingSteps
    <2>2. CASE LineFeed \/ NextLine \/ Substitute \/ Index \/ ReverseIndex \/ Align
      BY <2>2, LineSteps
    <2>3. CASE \/ CarriageReturn \/ Backspace \/ HorizontalTab
               \/ \E n \in Counts : \/ CursorUp(n) \/ CursorDown(n) \/ CursorForward(n)
                                    \/ CursorBackward(n) \/ CursorNextLine(n)
                                    \/ CursorPreviousLine(n) \/ CursorColumn(n) \/ CursorRow(n)
               \/ \E n, m \in Counts : CursorPosition(n, m)
      BY <2>3, MotionSteps
    <2>4. CASE \/ EraseBelow \/ EraseAbove \/ EraseAll \/ (\E a \in 0..2 : EraseLine(a))
               \/ \E n \in Counts : EraseChars(n) \/ InsertChars(n) \/ DeleteChars(n)
      BY <2>4, ErasingSteps
    <2>5. CASE \E n \in Counts : \/ ScrollUp(n) \/ ScrollDown(n) \/ InsertLines(n)
                                 \/ DeleteLines(n) \/ Tab(n) \/ Tab(-n)
      BY <2>5, LinesSteps
    <2>6. CASE SetTab \/ ClearTab \/ ClearTabs
      BY <2>6, TabStopSteps
    <2>7. CASE \/ SaveCursor \/ LoadCursor
               \/ \E a, b \in 1..t.row : SetRegion(a, b)
               \/ \E m \in {"wrap", "insert", "echo", "crlf"}, set \in BOOLEAN : SetMode(m, set)
               \/ \E set \in BOOLEAN : Origin(set)
      BY <2>7, SettingSteps
    <2>8. CASE Reset \/ \E set \in BOOLEAN : SwapOnly(set)
      BY <2>8, EndingSteps
    <2>9. CASE \E set \in BOOLEAN : Alternate(set)
      BY <2>9, AlternateSteps
    <2> QED
      BY <1>1, <2>1, <2>2, <2>3, <2>4, <2>5, <2>6, <2>7, <2>8, <2>9 DEF Output
  <1>2. CASE Events
    <2>1. CASE \E size \in Sizes : Resize(size)
      BY <2>1, EndingSteps
    <2>2. CASE \E u \in Chars : Key(u)
      BY <2>2, PrintingSteps
    <2>3. CASE /\ ~\E size \in Sizes : Resize(size)
               /\ ~\E u \in Chars : Key(u)
      BY <1>2, <2>3, WindowSteps DEF Events
    <2> QED
      BY <2>1, <2>2, <2>3
  <1> QED
    BY <1>1, <1>2 DEF Next

LEMMA StepInv ==
  ASSUME TermInv, [Next]_vars
  PROVE  TermInv' /\ (PastStep \/ UNCHANGED vars)
  <1>1. session.ops \in Nat
    BY SessionIs
  <1>2. CASE PlainStep
    <2>1. EpisodeHolds'
      BY <1>2 DEF PlainStep, Aside, TermInv, EpisodeHolds, ColsOf, RowsOf
    <2> QED
      BY <1>1, <1>2, <2>1 DEF PlainStep, Ticks, TermInv
  <1>3. CASE EndStep
    <2>1. EpisodeHolds'
      BY <1>3 DEF EndStep, EpisodeHolds, NoEpisode
    <2> QED
      BY <1>1, <1>3, <2>1 DEF EndStep, Ticks, TermInv
  <1>4. CASE SwitchStep
    BY <1>1, <1>4 DEF SwitchStep, Ticks, TermInv
  <1>5. CASE UNCHANGED vars
    BY <1>5 DEF vars, TermInv, EpisodeHolds, Alt, ColsOf, RowsOf
  <1> QED
    BY <1>2, <1>3, <1>4, <1>5, StepKinds

\* The invariant the results below rest on.
LEMMA TermInvariant == Spec => []TermInv
  BY InitInv, StepInv, PTL DEF Spec

-----------------------------------------------------------------------------
(* What holds of every behaviour.                                           *)

\* Whatever is printed, typed, selected or resized: the cursor is on the screen, the
\* region in it, every line as long as memory was given for, the history's ring and
\* the view of it in bounds (tresize, tmoveto, tsetscroll, kscrollup).
THEOREM TypeCorrect == Spec => []TypeOK
  <1>1. TermInv => TypeOK
    <2> SUFFICES ASSUME TermInv
                 PROVE  TypeOK
      OBVIOUS
    <2>1. Sound(t) /\ ops \in 0..session.ops
      BY DEF TermInv
    <2>2. /\ t.col <= t.maxcol /\ t.histi \in 0..(HISTSIZE - 1) /\ t.scr \in 0..HISTSIZE
          /\ t.dirty \subseteq RowsOf(t)
          /\ t.top \in RowsOf(t) /\ t.bot \in t.top..(t.row - 1)
          /\ t.c.x \in ColsOf(t) /\ t.c.y \in RowsOf(t)
          /\ t.mode \subseteq {"wrap", "insert", "echo", "crlf", "altscreen"}
      BY <2>1, SoundIs DEF ColsOf, RowsOf, Modes
    <2>3. t.line \in Screens(t.row, t.maxcol) /\ t.alt \in Screens(t.row, t.maxcol)
      BY <2>1, SoundIs
    <2>4. /\ DOMAIN t.line = RowsOf(t) /\ DOMAIN t.alt = RowsOf(t)
          /\ \A y \in RowsOf(t) : /\ DOMAIN t.line[y] = 0..(t.maxcol - 1)
                                  /\ DOMAIN t.alt[y] = 0..(t.maxcol - 1)
      BY <2>3 DEF Screens, LinesOf, RowsOf
    <2>5. \A y \in RowsOf(t) : {DOMAIN t.line[y], DOMAIN t.alt[y]} = {0..(t.maxcol - 1)}
      BY <2>4
    <2> QED
      BY <2>1, <2>2, <2>4, <2>5 DEF TypeOK
  <1> QED
    BY <1>1, TermInvariant, PTL

\* However region, cursor, saved cursor, screen and size change, a cursor in origin
\* mode is inside the scrolling region (tmoveto, tsetscroll, tcursor, tresize).
THEOREM OriginAlwaysHolds == Spec => []OriginHoldsCursor
  <1>1. TermInv => OriginHoldsCursor
    BY DEF TermInv, OriginHolds, OriginHoldsCursor
  <1> QED
    BY <1>1, TermInvariant, PTL

\* A program that leaves the alternate screen with 1049 finds the main screen as it
\* was and the cursor as it was, for any sequences between (tsetmode, tcursor).
THEOREM EpisodeAlwaysRestores == Spec => EpisodeRestoresScreen
  <1> DEFINE Restores == /\ t'.line = kept.line
                         /\ ~kept.c.origin => t'.c = [kept.c EXCEPT !.wrapnext = FALSE]
  <1>1. TermInv /\ [Next]_vars => [kept.on /\ Alternate(FALSE) => Restores]_vars
    <2> SUFFICES ASSUME TermInv, kept.on, Alternate(FALSE)
                 PROVE  Restores
      OBVIOUS
    <2>1. /\ Sound(t) /\ Alt(t) /\ t.alt = kept.line /\ t.saved[FALSE] = kept.c
          /\ kept.c.x \in ColsOf(t) /\ kept.c.y \in RowsOf(t)
      BY DEF TermInv, EpisodeHolds
    <2> DEFINE set == FALSE
               z == CursorMode(ToScreen(CursorMode(t, set), set), set)
               d == t.saved[FALSE]
    <2>2. t' = z
      BY DEF Alternate
    <2>3. Sound(t)
      BY <2>1
    <2>4. set \in BOOLEAN
      OBVIOUS
    <2>5. ~set
      OBVIOUS
    <2> HIDE DEF set
    <2>6. /\ Keeps(t, z)
          /\ set /\ Alt(t) => z.alt = t.alt /\ z.saved[FALSE] = t.saved[FALSE]
          /\ set /\ ~Alt(t) => z.alt = t.line /\ z.saved[FALSE] = t.c
          /\ set => Alt(z)
          /\ ~set /\ Alt(t) =>
               /\ z.line = t.alt
               /\ d.x \in ColsOf(t) /\ d.y \in RowsOf(t) /\ ~d.origin
                    => z.c = [d EXCEPT !.wrapnext = FALSE]
      BY <2>3, <2>4, AlternateIs, Zenon
    <2> HIDE DEF z
    <2> QED
      BY <2>1, <2>2, <2>5, <2>6
  <1> QED
    BY <1>1, TermInvariant, PTL DEF EpisodeRestoresScreen, Spec

\* A change of the window's size leaves the line of the cursor under it and the
\* lines above it that still fit (tresize).
THEOREM ResizeAlwaysKeeps == Spec => ResizeKeepsCursorLine
  <1> DEFINE Same(size) == \A k \in 0..t'.c.y, x \in 0..(Min({t.col, t'.col}) - 1) :
                             t'.line[t'.c.y - k][x] = t.line[t.c.y - k][x]
  <1>1. TermInv /\ [Next]_vars => [\A size \in Sizes : Resize(size) => Same(size)]_vars
    <2> SUFFICES ASSUME TermInv, NEW size \in Sizes, Resize(size),
                        NEW k \in 0..t'.c.y, NEW x \in 0..(Min({t.col, t'.col}) - 1)
                 PROVE  t'.line[t'.c.y - k][x] = t.line[t.c.y - k][x]
      OBVIOUS
    <2>1. size[1] \in Nat \ {0} /\ size[2] \in Nat \ {0} /\ Sound(t)
      BY SessionIs DEF TermInv
    <2> DEFINE cols == size[1]
               rows == size[2]
               z == TResize(t, cols, rows)
    <2>2. t' = z
      BY DEF Resize
    <2>3. cols \in Nat \ {0} /\ rows \in Nat \ {0}
      BY <2>1
    <2> HIDE DEF cols, rows
    <2>4. /\ Sound(z) /\ OriginHolds(z) /\ Log(z) = Log(t) /\ z.scr = t.scr
          /\ FollowsCursor(t, z, rows)
      BY <2>1, <2>3, ResizeIs
    <2> HIDE DEF z
    <2>5. /\ t.col \in Int /\ z.col \in Int /\ t.col <= t.maxcol /\ t.maxcol \in Int
          /\ z.c.y \in Int /\ t.c.y \in Int
      BY <2>1, <2>4, SoundIs
    <2>6. Min({t.col, z.col}) = IF t.col <= z.col THEN t.col ELSE z.col
      BY <2>5, TwoInts
    <2> DEFINE least == Min({t.col, z.col})
    <2> HIDE DEF least
    <2>7. x \in 0..(t.maxcol - 1)
      <3>1. x \in 0..(least - 1) /\ least = IF t.col <= z.col THEN t.col ELSE z.col
        BY <2>2, <2>6 DEF least
      <3> QED
        BY <2>5, <3>1
    <2>8. z.c.y - k \in 0..z.c.y /\ (z.c.y - k) + (t.c.y - z.c.y) = t.c.y - k
      BY <2>2, <2>5
    <2> QED
      BY <2>2, <2>7, <2>8, <2>4 DEF FollowsCursor
  <1> QED
    BY <1>1, TermInvariant, PTL DEF ResizeKeepsCursorLine, Spec

-----------------------------------------------------------------------------
(* The history is the scrollback of Scrollback.                             *)

\* The lines of the scrolling region, and a part of the tape as a sequence.
Region(s) == [i \in 1..(s.bot - s.top + 1) |-> TextOf(s.line[s.top + i - 1])]

LEMMA LogLength ==
  ASSUME NEW s
  PROVE  Len(Log(s)) = HISTSIZE /\ Log(s) \in Seq({Log(s)[i] : i \in 1..HISTSIZE})
  BY HistoryAssumption DEF Log

LEMMA RegionIs ==
  ASSUME NEW s, Sound(s)
  PROVE  /\ Len(Region(s)) = Rows(s) /\ Region(s) \in Seq({Region(s)[i] : i \in 1..Rows(s)})
         /\ \A i \in 1..Rows(s) : Region(s)[i] = Tape(s, HISTSIZE + i)
         /\ Region(s)[Len(Region(s))] = TextOf(s.line[s.bot])
  <1>1. Rows(s) \in Nat \ {0} /\ Rows(s) = s.bot - s.top + 1
    BY AboveIs DEF Rows
  <1>2. /\ Len(Region(s)) = Rows(s) /\ Region(s) \in Seq({Region(s)[i] : i \in 1..Rows(s)})
        /\ \A i \in 1..Rows(s) : Region(s)[i] = TextOf(s.line[s.top + i - 1])
    BY <1>1 DEF Region
  <1>3. \A i \in 1..Rows(s) : Tape(s, HISTSIZE + i) = TextOf(s.line[s.top + i - 1])
    BY TapeRows
  <1>4. s.top + Rows(s) - 1 = s.bot
    BY <1>1, SoundIs
  <1> QED
    BY <1>1, <1>2, <1>3, <1>4

\* The log and the first n lines after it.
LEMMA TapeSequence ==
  ASSUME NEW s, NEW n \in Nat, NEW l, NEW S, l \in Seq(S), Len(l) = n,
         \A i \in 1..n : l[i] = Tape(s, HISTSIZE + i)
  PROVE  /\ Len(Log(s) \o l) = HISTSIZE + n
         /\ \A i \in 1..(HISTSIZE + n) : (Log(s) \o l)[i] = Tape(s, i)
  <1> DEFINE T == {Log(s)[i] : i \in 1..HISTSIZE}
             U == S \cup T
             g == Log(s)
  <1>1. HISTSIZE \in Nat /\ HISTSIZE > 0
    BY HistoryAssumption
  <1>2. Len(g) = HISTSIZE /\ g \in Seq(T) /\ \A i \in 1..HISTSIZE : Tape(s, i) = g[i]
    BY LogLength, TapeIs
  <1> HIDE DEF T, g
  <1>3. g \in Seq(U) /\ l \in Seq(U)
    BY <1>2
  <1> HIDE DEF U
  <1>4. /\ Len(g \o l) = HISTSIZE + n
        /\ \A i \in 1..(HISTSIZE + n) :
             (g \o l)[i] = IF i <= HISTSIZE THEN g[i] ELSE l[i - HISTSIZE]
    BY <1>2, <1>3, ConcatProperties
  <1>5. ASSUME NEW i \in 1..(HISTSIZE + n)
        PROVE  (g \o l)[i] = Tape(s, i)
    <2>1. CASE i <= HISTSIZE
      BY <1>2, <1>4, <2>1
    <2>2. CASE i > HISTSIZE
      <3>1. i - HISTSIZE \in 1..n /\ HISTSIZE + (i - HISTSIZE) = i /\ ~(i <= HISTSIZE)
        BY <1>1, <2>2
      <3>2. l[i - HISTSIZE] = Tape(s, HISTSIZE + (i - HISTSIZE))
        BY <3>1
      <3> QED
        BY <1>4, <3>1, <3>2
    <2> DEFINE c == g \o l
    <2>3. i <= HISTSIZE \/ i > HISTSIZE
      BY <1>1
    <2> HIDE DEF c
    <2> QED
      BY <2>1, <2>2, <2>3 DEF c
  <1> QED
    BY <1>4, <1>5 DEF g

LEMMA RecordsNone ==
  ASSUME NEW s, NEW z, NEW n, n \in Nat, Records(s, z, 0, n)
  PROVE  Log(z) = Log(s)
  <1>1. \A i \in 1..HISTSIZE : i + 0 = i /\ i <= HISTSIZE + n
    BY HistoryAssumption
  <1>2. \A i \in 1..HISTSIZE : Log(z)[i] = Log(s)[i]
    BY <1>1, TapeIs DEF Records
  <1> QED
    BY <1>2 DEF Log

\* A step of the terminal is one of its scrollback.
LEMMA StepScrolls ==
  ASSUME TermInv, TermInv', PastStep
  PROVE  History!Next
  <1> DEFINE l == Log(t)
             m == Log(t')
             r == Region(t)
             n == HISTSIZE
  <1>1. /\ n \in Nat /\ n > 0 /\ t.scr \in 0..n /\ t'.scr \in 0..n /\ Sound(t)
        /\ Rows(t) \in Nat \ {0} /\ Above(t) \in Nat /\ Above(t) < Rows(t)
    BY HistoryAssumption, SoundIs, AboveIs DEF TermInv
  <1>2. Len(m) = n
    BY LogLength
  <1>3. /\ Len(r) = Rows(t) /\ r \in Seq({r[i] : i \in 1..Rows(t)})
        /\ \A i \in 1..Rows(t) : r[i] = Tape(t, n + i)
        /\ r[Len(r)] = TextOf(t.line[t.bot])
    BY <1>1, RegionIs
  <1>4. CASE m = l
    <2>1. History!Look
      BY <1>1, <1>4 DEF History!Look, Log
    <2> QED
      BY <2>1 DEF History!Next
  <1>5. ASSUME NEW k \in 1..(IF input'.chars = 0 THEN 1 ELSE 2 * input'.chars),
               Records(t, t', k, IF input'.chars <= 1 THEN Rows(t) ELSE Above(t)),
               IF input'.key THEN t'.scr = 0 ELSE Follows(t, t', k)
        PROVE  History!Next
    <2> DEFINE leaving == IF input'.chars <= 1 THEN r ELSE SubSeq(r, 1, Above(t))
               h == IF input'.chars <= 1 THEN Rows(t) ELSE Above(t)
               R == {r[i] : i \in 1..Rows(t)}
    <2> HIDE DEF R
    <2>1. /\ leaving \in Seq(R) /\ Len(leaving) = h /\ h \in Nat
          /\ \A i \in 1..h : leaving[i] = Tape(t, n + i)
      <3> DEFINE q == SubSeq(r, 1, Above(t))
      <3>1. /\ SubSeq(r, 1, Above(t)) \in Seq(R)
            /\ Len(SubSeq(r, 1, Above(t))) = Above(t)
            /\ \A i \in 1..Above(t) : SubSeq(r, 1, Above(t))[i] = r[i]
        <4>1. \A i \in 1..Above(t) : r[i] \in R
          BY <1>1 DEF R
        <4> HIDE DEF r
        <4>2. /\ SubSeq(r, 1, Above(t)) \in Seq(R)
              /\ Len(SubSeq(r, 1, Above(t))) = IF 1 <= Above(t) THEN Above(t) - 1 + 1 ELSE 0
              /\ \A i \in 1..(Above(t) - 1 + 1) : SubSeq(r, 1, Above(t))[i] = r[1 + i - 1]
          BY <1>1, <4>1, SubSeqProperties
        <4> QED
          BY <1>1, <4>2
      <3>2. r \in Seq(R)
        BY <1>3 DEF R
      <3> HIDE DEF r, q
      <3>3. q \in Seq(R) /\ Len(q) = Above(t) /\ \A i \in 1..Above(t) : q[i] = Tape(t, n + i)
        BY <1>1, <1>3, <3>1 DEF q
      <3>4. CASE input'.chars <= 1
        <4>1. leaving = r /\ h = Rows(t)
          BY <3>4
        <4> QED
          BY <1>1, <1>3, <3>2, <4>1
      <3>5. CASE ~(input'.chars <= 1)
        <4>1. leaving = q /\ h = Above(t)
          BY <3>5 DEF q
        <4> QED
          BY <1>1, <3>3, <4>1
      <3> QED
        BY <3>4, <3>5
    <2> HIDE DEF leaving
    <2>2. /\ Len(l \o leaving) = n + h
          /\ \A i \in 1..(n + h) : (l \o leaving)[i] = Tape(t, i)
      BY <2>1, TapeSequence
    <2>3. \A i \in 1..n : i + k <= Len(l \o leaving) => m[i] = (l \o leaving)[i + k]
      <3>1. \A i \in 1..n : i + k <= n + h => i + k \in 1..(n + h)
        BY <1>1, <2>1
      <3> QED
        BY <1>5, <2>2, <3>1 DEF Records
    <2>4. t'.scr = IF input'.key THEN 0
                   ELSE IF t.scr \in 1..(n - 1) THEN History!Least(t.scr + k, n - 1) ELSE t.scr
      <3>1. k \in Int /\ t.scr + k \in Int
        BY <1>1
      <3> QED
        BY <1>1, <1>5, <3>1 DEF Follows, History!Least
    <2>5. leaving = History!Leaving
      BY DEF leaving, History!Leaving, Region, Above, Y
    <2>6. History!Push(k)
      BY <1>2, <2>3, <2>4, <2>5 DEF History!Push, Log
    <2> QED
      BY <1>5, <2>6 DEF History!Next, History!Most
  <1>6. CASE input' = NoInput /\ Recorded(t, t', 1, Rows(t))
    <2>1. PICK k \in 0..1 : Records(t, t', k, Rows(t)) /\ Follows(t, t', k)
      BY <1>6 DEF Recorded
    <2>2. CASE k = 0
      BY <1>1, <1>4, <2>1, <2>2, RecordsNone
    <2>3. CASE k = 1
      BY <1>5, <1>6, <2>1, <2>3 DEF NoInput
    <2> QED
      BY <2>2, <2>3
  <1>7. CASE Pulled(t, t')
    <2>1. \A i \in 1..n : m[i] = IF i = n THEN r[Len(r)] ELSE IF i = 1 THEN l[n] ELSE l[i - 1]
      <3>1. m[n] = r[Len(r)] /\ (n > 1 => m[1] = l[n])
        BY <1>3, <1>7 DEF Pulled
      <3>2. ASSUME NEW i \in 1..n, i # n, i # 1
            PROVE  m[i] = l[i - 1]
        <4>1. i - 1 \in 1..(n - 2) /\ (i - 1) + 1 = i
          BY <1>1, <3>2
        <4>2. m[(i - 1) + 1] = l[i - 1]
          BY <1>7, <4>1 DEF Pulled
        <4> QED
          BY <4>1, <4>2
      <3> HIDE DEF m, l, r
      <3> QED
        BY <1>1, <3>1, <3>2
    <2>2. t'.scr = t.scr
      BY <1>7 DEF Pulled
    <2>3. History!Pull
      BY <1>2, <2>1, <2>2 DEF History!Pull, Log, Region
    <2> QED
      BY <2>3 DEF History!Next
  <1>8. CASE input'.chars \in Nat /\ input'.key \in BOOLEAN /\ Outputs(t, t', input')
    <2>1. PICK k \in 0..(2 * input'.chars) :
            /\ Records(t, t', k, IF input'.chars = 1 THEN Rows(t) ELSE Above(t))
            /\ IF input'.key THEN t'.scr = 0 ELSE Follows(t, t', k)
      BY <1>8 DEF Outputs
    <2>2. CASE k = 0
      BY <1>1, <1>4, <2>1, <2>2, RecordsNone
    <2>3. CASE k # 0
      <3>1. /\ k \in 1..(IF input'.chars = 0 THEN 1 ELSE 2 * input'.chars)
            /\ input'.chars <= 1 <=> input'.chars = 1
        BY <1>8, <2>3
      <3> QED
        BY <1>5, <2>1, <3>1
    <2> QED
      BY <2>2, <2>3
  <1> QED
    BY <1>4, <1>6, <1>7, <1>8 DEF PastStep, Scrolls

\* The ring of history lines, read from its oldest line, is the log of the lines that
\* left the screen, each with the text it had, whatever scrolled, and the view of it
\* moves as Scrollback says (tscrollup, tscrolldown, kscrollup, kscrolldown, ttywrite,
\* tresize).
THEOREM HistoryIsScrollback == Spec => ImplementsScrollback
  <1>1. Init => History!Init
    <2> SUFFICES ASSUME Init
                 PROVE  History!Init
      OBVIOUS
    <2>1. t.scr = 0 /\ Len(Log(t)) = HISTSIZE
      BY InitInv, LogLength
    <2> QED
      BY <2>1 DEF History!Init, Log
  <1>2. TermInv /\ TermInv' /\ [Next]_vars => [History!Next]_(History!vars)
    <2> SUFFICES ASSUME TermInv, TermInv', [Next]_vars
                 PROVE  History!Next \/ UNCHANGED History!vars
      OBVIOUS
    <2>1. CASE PastStep
      BY <2>1, StepScrolls
    <2>2. CASE UNCHANGED vars
      BY <2>2 DEF vars, History!vars, Y
    <2> QED
      BY <2>1, <2>2, StepInv
  <1> QED
    BY <1>1, <1>2, TermInvariant, PTL DEF ImplementsScrollback, History!Spec, Spec
=============================================================================
