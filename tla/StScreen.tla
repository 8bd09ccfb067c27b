------------------------------ MODULE StScreen ------------------------------
(***************************************************************************)
(* The memory of st's terminal (st.c: Term, TCursor, Selection) and the    *)
(* routines every control sequence is made of, as operators from one       *)
(* memory "t" to the next.  A glyph keeps its character, the mark that its *)
(* line goes on in the next one (ATTR_WRAP) and which part of a wide       *)
(* character it is; colours and the other attributes are left out.  Lines  *)
(* have maxcol cells, of which the first col are on the screen.            *)
(***************************************************************************)
EXTENDS Integers, Sequences, FiniteSets, FiniteSetsExt

CONSTANTS HISTSIZE,     \* lines kept once they left the screen
          TabSpaces,    \* columns between tab stops
          WideChars     \* the characters that take two columns

ASSUME HistoryAssumption == HISTSIZE \in Nat \ {0}
ASSUME TabAssumption == TabSpaces \in Nat \ {0}

\* LIMIT of st.h.
Limit(v, lo, hi) == IF v < lo THEN lo ELSE IF v > hi THEN hi ELSE v

Space == [u |-> " ", wrap |-> FALSE, part |-> "one"]
Glyph(u) == [Space EXCEPT !.u = u]

NoSel == [mode |-> "idle", type |-> "regular", snap |-> 0, alt |-> FALSE,
          ob |-> <<-1, 0>>, oe |-> <<0, 0>>, nb |-> <<0, 0>>, ne |-> <<0, 0>>]

RowsOf(t) == 0..(t.row - 1)
ColsOf(t) == 0..(t.col - 1)
Alt(t) == "altscreen" \in t.mode

\* TLINE: what row y of the window shows, scr lines back in the history.  A row
\* past the last one is memory the screen does not own; it reads as blank here.
TLINE(t, y) ==
  IF y < t.scr THEN t.hist[(y + t.histi - t.scr + HISTSIZE + 1) % HISTSIZE]
  ELSE IF y - t.scr < t.row THEN t.line[y - t.scr]
  ELSE [x \in 0..(t.maxcol - 1) |-> Space]

TSetDirt(t, top, bot) ==
  [t EXCEPT !.dirty = @ \cup (Limit(top, 0, t.row - 1)..Limit(bot, 0, t.row - 1))]
TFullDirt(t) == TSetDirt(t, 0, t.row - 1)

-----------------------------------------------------------------------------
(* The selection.  Its rows are rows of the window, not of the screen.      *)

TLineLen(t, y) ==
  IF TLINE(t, y)[t.col - 1].wrap THEN t.col
  ELSE Max({0} \cup {x + 1 : x \in {c \in ColsOf(t) : TLINE(t, y)[c].u # " "}})

\* Mutant: the highlight is not drawn away.
SelClearUndrawn(t) == [t EXCEPT !.sel = NoSel]

SelClear(t) ==
  IF t.sel.ob[1] = -1 THEN t
  ELSE [TSetDirt(t, t.sel.nb[2], t.sel.ne[2]) EXCEPT !.sel = NoSel]

Selected(t, x, y) ==
  LET s == t.sel IN
  /\ s.mode # "empty" /\ s.ob[1] # -1 /\ s.alt = Alt(t)
  /\ y \in s.nb[2]..s.ne[2]
  /\ IF s.type = "rectangular" THEN x \in s.nb[1]..s.ne[1]
     ELSE (y # s.nb[2] \/ x >= s.nb[1]) /\ (y # s.ne[2] \/ x <= s.ne[1])

Delimiter(g) == g.u = " "

GlyphAt(t, p) == TLINE(t, p[2])[p[1]]

\* A glyph and the one after it are of one word, or of one run of a delimiter.
SameWord(here, next) ==
  \/ next.part = "dummy"
  \/ Delimiter(here) = Delimiter(next) /\ (Delimiter(next) => next.u = here.u)

\* q is next to p in direction d, in the same row or, where the line goes on, in
\* the next one.
WordGoesOn(t, p, q, d) ==
  /\ \/ p[2] = q[2]
     \/ q[2] \in RowsOf(t) /\ GlyphAt(t, IF d > 0 THEN p ELSE q).wrap
  /\ q[1] < TLineLen(t, q[2])
  /\ SameWord(GlyphAt(t, p), GlyphAt(t, q))

Beside(t, p, d) ==
  IF p[1] + d \in ColsOf(t) THEN <<p[1] + d, p[2]>>
  ELSE <<(p[1] + d + t.col) % t.col, p[2] + d>>

WordStep(t, p, d) == IF WordGoesOn(t, p, Beside(t, p, d), d) THEN Beside(t, p, d) ELSE p

\* SNAP_WORD: the end of the word in direction d, within the row of p and the screen.
SnapWord(t, p, d) ==
  LET walk[k \in Nat] == IF k = 0 THEN p ELSE WordStep(t, walk[k - 1], d)
  IN walk[t.col * (t.row + 1)]

\* Runs of joined rows, upwards from y and downwards from y.
FirstRow(t, y) ==
  Min({r \in 0..y : \A s \in (r + 1)..y : TLINE(t, s - 1)[t.col - 1].wrap})
LastRow(t, y) ==
  Max({r \in y..Max({y, t.row - 1}) : \A s \in y..(r - 1) : TLINE(t, s)[t.col - 1].wrap})

SelSnap(t, p, d) ==
  CASE t.sel.snap = 1 -> SnapWord(t, p, d)
    [] t.sel.snap = 2 -> IF d < 0 THEN <<0, FirstRow(t, p[2])>>
                         ELSE <<t.col - 1, LastRow(t, p[2])>>
    [] OTHER -> p

\* Line breaks belong to the selection, unless it is rectangular.
WithCorners(t, nb, ne) ==
  LET breaks == t.sel.type # "rectangular" IN
  [t EXCEPT
    !.sel.nb = IF breaks THEN <<Min({nb[1], TLineLen(t, nb[2])}), nb[2]>> ELSE nb,
    !.sel.ne = IF breaks /\ TLineLen(t, ne[2]) <= ne[1] THEN <<t.col - 1, ne[2]>> ELSE ne]

SelNormalize(t) ==
  LET s == t.sel
      lines == s.type = "regular" /\ s.ob[2] # s.oe[2]
      down == s.ob[2] < s.oe[2]
      b == <<IF lines THEN (IF down THEN s.ob[1] ELSE s.oe[1]) ELSE Min({s.ob[1], s.oe[1]}),
             Min({s.ob[2], s.oe[2]})>>
      e == <<IF lines THEN (IF down THEN s.oe[1] ELSE s.ob[1]) ELSE Max({s.ob[1], s.oe[1]}),
             Max({s.ob[2], s.oe[2]})>>
  IN WithCorners(t, SelSnap(t, b, -1), SelSnap(t, e, 1))

\* The rows of the selection, and those of s, are drawn.
SelDirt(t, s) == TSetDirt(t, Min({t.sel.nb[2], s.nb[2]}), Max({t.sel.ne[2], s.ne[2]}))

SelStarted(t, snap) ==
  SelDirt(IF snap # 0 THEN [t EXCEPT !.sel.mode = "ready"] ELSE t, t.sel)

SelStart(t, x, y, snap) ==
  SelStarted(SelNormalize([SelClear(t) EXCEPT
               !.sel = [NoSel EXCEPT !.mode = "empty", !.alt = Alt(t), !.snap = snap,
                                     !.ob = <<x, y>>, !.oe = <<x, y>>]]), snap)

\* s is the selection before.
SelExtended(t, s, type, done) ==
  LET moved == s.oe # t.sel.oe \/ s.type # type \/ s.mode = "empty"
      t1 == [t EXCEPT !.sel.type = type, !.sel.mode = IF done THEN "idle" ELSE "ready"]
  IN IF moved THEN SelDirt(t1, s) ELSE t1

\* The old type still holds while selnormalize runs.
SelExtend(t, x, y, type, done) ==
  CASE t.sel.mode = "idle" -> t
    [] done /\ t.sel.mode = "empty" -> SelClear(t)
    [] OTHER -> SelExtended(SelNormalize([t EXCEPT !.sel.oe = <<x, y>>]), t.sel, type, done)

\* The text of a selection, row by row: the cells getsel copies and whether a
\* line break follows them.
GetSelRow(t, y) ==
  LET s == t.sel
      rect == s.type = "rectangular"
      len == TLineLen(t, y)
      first == IF rect \/ y = s.nb[2] THEN s.nb[1] ELSE 0
      lastx == IF rect \/ y = s.ne[2] THEN s.ne[1] ELSE t.col - 1
      cells == first..Min({lastx, len - 1})
      text == {x \in cells : \E c \in cells : c >= x /\ TLINE(t, y)[c].u # " "}
      end == IF text = {} THEN first - 1 ELSE Max(text)
      joined == end >= 0 /\ TLINE(t, y)[end].wrap
  IN [text |-> [i \in 1..Cardinality(text) |-> TLINE(t, y)[first + i - 1].u],
      break |-> len = 0 \/ ((y < s.ne[2] \/ lastx >= len) /\ (~joined \/ rect))]

GetSel(t) == [i \in 1..(t.sel.ne[2] - t.sel.nb[2] + 1) |-> GetSelRow(t, t.sel.nb[2] + i - 1)]

SelScroll(t, orig, n) ==
  LET s == t.sel
      within(y) == y \in orig..t.bot
      ob == s.ob[2] + n
      oe == s.oe[2] + n
  IN IF s.ob[1] = -1 THEN t
     ELSE IF within(s.nb[2]) # within(s.ne[2]) THEN SelClear(t)
     ELSE IF within(s.nb[2])
          THEN LET t1 == [t EXCEPT !.sel.ob[2] = ob, !.sel.oe[2] = oe]
               IN IF {ob, oe} \subseteq t.top..t.bot THEN SelNormalize(t1) ELSE SelClear(t1)
     ELSE t

-----------------------------------------------------------------------------
(* The cursor, the screen and the history.                                  *)

\* Mutant: the row after the last one.
TMoveToPastEnd(t, x, y) ==
  [t EXCEPT !.c.wrapnext = FALSE, !.c.x = Limit(x, 0, t.col - 1), !.c.y = Limit(y, 0, t.row)]

TMoveTo(t, x, y) ==
  LET miny == IF t.c.origin THEN t.top ELSE 0
      maxy == IF t.c.origin THEN t.bot ELSE t.row - 1
  IN [t EXCEPT !.c.wrapnext = FALSE, !.c.x = Limit(x, 0, t.col - 1),
               !.c.y = Limit(y, miny, maxy)]

TMoveATo(t, x, y) == TMoveTo(t, x, y + (IF t.c.origin THEN t.top ELSE 0))

Blanked(t, xs, ys) ==
  [t EXCEPT !.dirty = @ \cup ys,
            !.line = [y \in DOMAIN @ |-> IF y \in ys
                        THEN [x \in DOMAIN @[y] |-> IF x \in xs THEN Space ELSE @[y][x]]
                        ELSE @[y]]]

\* Mutant: a selection outlives its text.
TClearRegionKeepsSel(t, x1, y1, x2, y2) == Blanked(t, x1..x2, y1..y2)

\* tclearregion clears a selection as soon as it meets one of its cells.
SelClearAt(t, xs, ys) == IF \E x \in xs, y \in ys : Selected(t, x, y) THEN SelClear(t) ELSE t

\* A region given back to front is turned round, and cut at the edges of the screen.
Span(a, b, n) == Limit(Min({a, b}), 0, n - 1)..Limit(Max({a, b}), 0, n - 1)

TClearRegion(t, x1, y1, x2, y2) ==
  LET xs == Span(x1, x2, t.maxcol)
      ys == Span(y1, y2, t.row)
  IN Blanked(SelClearAt(t, xs, ys), xs, ys)

TClearScreen(t) == TClearRegion(t, 0, 0, t.col - 1, t.row - 1)

SwapLines(l, i, j) == [l EXCEPT ![i] = l[j], ![j] = l[i]]

\* The loops that exchange lines i and i + d, in the order of the sequence is.
Exchange(lines, is, d) ==
  LET after[k \in 0..Len(is)] ==
        IF k = 0 THEN lines ELSE SwapLines(after[k - 1], is[k], is[k] + d)
  IN after[Len(is)]

\* Mutant: the ring does not turn.
SwapWithHistoryInPlace(t, y, i) == [t EXCEPT !.hist[i] = t.line[y], !.line[y] = t.hist[i]]

\* A line changes places with slot i of the history.
SwapWithHistory(t, y, i) ==
  [t EXCEPT !.histi = i, !.hist[i] = t.line[y], !.line[y] = t.hist[i]]

\* The lines changed places as the screen scrolled by n; the selection follows,
\* unless the window shows the history.
Scrolled(t, orig, n, is) ==
  IF t.scr = 0 THEN SelScroll([t EXCEPT !.line = Exchange(@, is, -n)], orig, n)
  ELSE [t EXCEPT !.line = Exchange(@, is, -n)]

TScrollDown(t, orig, num, copyhist) ==
  LET n == Limit(num, 0, t.bot - orig + 1)
      t1 == IF copyhist
            THEN SwapWithHistory(t, t.bot, (t.histi - 1 + HISTSIZE) % HISTSIZE) ELSE t
      is == [i \in 1..(t.bot - orig - n + 1) |-> t.bot - i + 1]
  IN Scrolled(TClearRegion(TSetDirt(t1, orig, t.bot - n), 0, t.bot - n + 1, t.col - 1, t.bot),
              orig, n, is)

\* The lines shown of the history grow with it.
KeepView(t, n) ==
  IF t.scr > 0 /\ t.scr < HISTSIZE THEN [t EXCEPT !.scr = Min({@ + n, HISTSIZE - 1})] ELSE t

TScrollUp(t, orig, num, copyhist) ==
  LET n == Limit(num, 0, t.bot - orig + 1)
      t1 == IF copyhist THEN SwapWithHistory(t, orig, (t.histi + 1) % HISTSIZE) ELSE t
      is == [i \in 1..(t.bot - orig - n + 1) |-> orig + i - 1]
  IN Scrolled(TSetDirt(TClearRegion(KeepView(t1, n), 0, orig, t.col - 1, orig + n - 1),
                       orig + n, t.bot),
              orig, -n, is)

TNewline(t, firstcol) ==
  LET x == IF firstcol THEN 0 ELSE t.c.x IN
  IF t.c.y = t.bot THEN TMoveTo(TScrollUp(t, t.top, 1, TRUE), x, t.c.y)
  ELSE TMoveTo(t, x, t.c.y + 1)

\* The page keys give -1: one row less than the screen has.
Lines(t, n) == IF n < 0 THEN t.row + n ELSE n

\* Mutant: the selection does not move with the lines.
KScrollDownSelStays(t, arg) == TFullDirt([t EXCEPT !.scr = @ - Min({Lines(t, arg), @})])

KScrollDown(t, arg) ==
  LET n == Min({Lines(t, arg), t.scr}) IN
  IF t.scr = 0 THEN t ELSE TFullDirt(SelScroll([t EXCEPT !.scr = @ - n], 0, -n))

KScrollUp(t, arg) ==
  LET n == Lines(t, arg) IN
  IF t.scr > HISTSIZE - n THEN t ELSE TFullDirt(SelScroll([t EXCEPT !.scr = @ + n], 0, n))

TSwapScreen(t) ==
  TFullDirt([t EXCEPT !.line = t.alt, !.alt = t.line,
                      !.mode = IF Alt(t) THEN @ \ {"altscreen"} ELSE @ \cup {"altscreen"}])

\* Mutant: one saved cursor for both screens.
TCursorSaveShared(t) == [t EXCEPT !.saved = [s \in BOOLEAN |-> t.c]]

\* tcursor keeps one cursor per screen.
TCursorSave(t) == [t EXCEPT !.saved[Alt(t)] = t.c]
TCursorLoad(t) ==
  LET c == t.saved[Alt(t)] IN TMoveTo([t EXCEPT !.c = c], c.x, c.y)

TabStops(cols) == {x \in 1..(cols - 1) : x % TabSpaces = 0}

TReset(t) ==
  LET home == [x |-> 0, y |-> 0, wrapnext |-> FALSE, origin |-> FALSE]
      t1 == [t EXCEPT !.c = home, !.tabs = {x \in @ : x >= t.col} \cup TabStops(t.col),
                      !.top = 0, !.bot = t.row - 1, !.mode = {"wrap"}]
      turn(s) == TSwapScreen(TClearScreen(TCursorSave(TMoveTo(s, 0, 0))))
  IN turn(turn(t1))

TSetScroll(t, a, b) ==
  LET r == Limit(a, 0, t.row - 1)
      s == Limit(b, 0, t.row - 1)
  IN [t EXCEPT !.top = Min({r, s}), !.bot = Max({r, s})]

NextStop(t, x) == Min({t.col} \cup {y \in t.tabs : x < y /\ y < t.col})
PreviousStop(t, x) == Max({0} \cup {y \in t.tabs : y < x})

TPutTab(t, n) ==
  LET at[k \in Nat] == IF k = 0 THEN t.c.x
                       ELSE IF n > 0 THEN NextStop(t, at[k - 1]) ELSE PreviousStop(t, at[k - 1])
  IN [t EXCEPT !.c.x = Limit(at[IF n > 0 THEN n ELSE -n], 0, t.col - 1)]

-----------------------------------------------------------------------------
(* Printing.                                                                *)

Width(u) == IF u \in WideChars THEN 2 ELSE 1

\* tsetchar makes a space of the other half of a wide character it overwrites.
\* A second half alone in column 0 has no first half: the code then writes to
\* the cell before the line, which is none of the screen's.
TSetChar(t, u, x, y) ==
  LET old == t.line[y][x].part
      other == IF old = "wide" THEN x + 1 ELSE IF old = "dummy" THEN x - 1 ELSE -1
      whole(g, lost) == [g EXCEPT !.u = " ", !.part = IF @ = lost THEN "one" ELSE @]
      row == [i \in DOMAIN t.line[y] |->
                IF i = x THEN Glyph(u)
                ELSE IF i = other /\ i < t.col
                     THEN whole(t.line[y][i], IF old = "wide" THEN "dummy" ELSE "wide")
                     ELSE t.line[y][i]]
  IN [t EXCEPT !.line[y] = row, !.dirty = @ \cup {y}]

\* memmove within a line: the num cells from src go to dst.
Shift(line, dst, src, num) ==
  [x \in DOMAIN line |-> IF x \in dst..(dst + num - 1) THEN line[src + x - dst] ELSE line[x]]

\* The parts of tputc for a character of w columns, in their order.
PutUnselected(t) == IF Selected(t, t.c.x, t.c.y) THEN SelClear(t) ELSE t

PutWrap(t) ==
  IF "wrap" \in t.mode /\ t.c.wrapnext
  THEN TNewline([t EXCEPT !.line[t.c.y][t.c.x].wrap = TRUE], TRUE) ELSE t

PutInsert(t, w) ==
  IF "insert" \in t.mode /\ t.c.x + w < t.col
  THEN [t EXCEPT !.line[t.c.y] = Shift(@, t.c.x + w, t.c.x, t.col - t.c.x - w)] ELSE t

PutFit(t, w) == IF t.c.x + w > t.col THEN TNewline(t, TRUE) ELSE t

PutFirst(t, u) == [TSetChar(t, u, t.c.x, t.c.y) EXCEPT !.lastc = u]

\* The cell of the cursor and the next one are the parts of one wide character.
Widened(l, x, col) ==
  [i \in DOMAIN l |->
     IF i = x THEN [l[i] EXCEPT !.part = "wide"]
     ELSE IF i = x + 1 /\ i < col THEN [u |-> "", wrap |-> FALSE, part |-> "dummy"]
     ELSE l[i]]
PutSecond(t, w) ==
  IF w = 2 THEN [t EXCEPT !.line[t.c.y] = Widened(@, t.c.x, t.col)] ELSE t

PutAdvance(t, w) ==
  IF t.c.x + w < t.col THEN TMoveTo(t, t.c.x + w, t.c.y) ELSE [t EXCEPT !.c.wrapnext = TRUE]

PutPlace(t, u, w) == PutAdvance(PutSecond(PutFirst(t, u), w), w)

TPutC(t, u) ==
  LET w == Width(u)
  IN PutPlace(PutFit(PutInsert(PutWrap(PutUnselected(t)), w), w), u, w)

\* A text; "\n" begins a line.
PutOrBreak(t, u) == IF u = "\n" THEN TNewline(t, TRUE) ELSE TPutC(t, u)

Printed(t, text) ==
  LET after[k \in 0..Len(text)] == IF k = 0 THEN t ELSE PutOrBreak(after[k - 1], text[k])
  IN after[Len(text)]

TInsertBlank(t, num) ==
  LET n == Limit(num, 0, t.col - t.c.x)
      dst == t.c.x + n
  IN TClearRegion([t EXCEPT !.line[t.c.y] = Shift(@, dst, t.c.x, t.col - dst)],
                  t.c.x, t.c.y, dst - 1, t.c.y)

TDeleteChar(t, num) ==
  LET n == Limit(num, 0, t.col - t.c.x)
      src == t.c.x + n
  IN TClearRegion([t EXCEPT !.line[t.c.y] = Shift(@, t.c.x, src, t.col - src)],
                  t.col - n, t.c.y, t.col - 1, t.c.y)

InRegion(t) == t.c.y \in t.top..t.bot
TInsertBlankLine(t, n) == IF InRegion(t) THEN TScrollDown(t, t.c.y, n, FALSE) ELSE t
TDeleteLine(t, n) == IF InRegion(t) THEN TScrollUp(t, t.c.y, n, FALSE) ELSE t

-----------------------------------------------------------------------------
(* The size.  tnew makes a blank terminal.                                  *)

BlankLine(cols) == [x \in 0..(cols - 1) |-> Space]

TNew(cols, rows) ==
  LET home == [x |-> 0, y |-> 0, wrapnext |-> FALSE, origin |-> FALSE]
      blank == [y \in 0..(rows - 1) |-> BlankLine(cols)]
  IN [row |-> rows, col |-> cols, maxcol |-> cols, line |-> blank, alt |-> blank,
      hist |-> [i \in 0..(HISTSIZE - 1) |-> BlankLine(cols)], histi |-> 0, scr |-> 0,
      dirty |-> 0..(rows - 1), c |-> home, saved |-> [s \in BOOLEAN |-> home],
      top |-> 0, bot |-> rows - 1, mode |-> {"wrap"}, tabs |-> TabStops(cols),
      lastc |-> "", sel |-> NoSel]

\* Mutant: one row too few.
SlideShort(t, newrow) == Max({0, t.c.y - newrow})

\* How many rows leave at the top for the cursor's row to fit.
Slide(t, newrow) == Max({0, t.c.y - newrow + 1})

\* Rows above the cursor go when it would not fit; columns once had are kept
\* beyond the right edge.  Both screens slide by the present cursor.
TResize(t, newcol, newrow) ==
  LET cols == Max({newcol, t.maxcol})
      minrow == Min({newrow, t.row})
      slide == Slide(t, newrow)
      wider(l) == [x \in 0..(cols - 1) |-> IF x < t.maxcol THEN l[x] ELSE Space]
      rows(ls) == [y \in 0..(newrow - 1) |->
                     IF y < minrow THEN wider(ls[y + slide]) ELSE BlankLine(cols)]
      lastStop == IF t.tabs = {} THEN 0 ELSE Max(t.tabs)
      t1 == [t EXCEPT !.line = rows(@), !.alt = rows(@), !.dirty = {},
               !.hist = [i \in DOMAIN @ |-> wider(@[i])],
               !.tabs = IF cols = t.maxcol THEN @
                        ELSE @ \cup {x \in (lastStop + 1)..(cols - 1) :
                                         (x - lastStop) % TabSpaces = 0},
               !.col = newcol, !.maxcol = cols, !.row = newrow]
      t2 == TSetScroll(t1, 0, newrow - 1)
      t3 == TMoveTo(t2, t.c.x, t.c.y)
      fresh(s) == LET s1 == IF t.maxcol < cols
                            THEN TClearRegion(s, t.maxcol, 0, cols - 1, minrow - 1) ELSE s
                  IN IF minrow < newrow THEN TClearRegion(s1, 0, minrow, cols - 1, newrow - 1)
                     ELSE s1
      turn(s) == TCursorLoad(TSwapScreen(fresh(s)))
  IN [turn(turn(t3)) EXCEPT !.c = t3.c]
=============================================================================
