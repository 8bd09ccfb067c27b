----------------------------- MODULE DwmLayout -----------------------------
(***************************************************************************)
(* Where dwm's windows are on one monitor: the layouts of vanitygaps.c and  *)
(* monocle, the limits of applysizehints, and the keys, requests and mouse  *)
(* motions that change geometry.  Positions and sizes are pairs, across     *)
(* first, so that what the code writes once for x and w and once for y and  *)
(* h is said once.  An operator takes the memory g to the next.             *)
(***************************************************************************)
EXTENDS Integers, Sequences

CONSTANTS Window,       \* the windows
          NoWindow,
          Hints,        \* what each asks for: [min, max, inc, base, dialog, scratch]
          MonPos,       \* where the monitor is
          MonSize,      \* its size
          BarHeight,    \* bh
          Border,       \* borderpx
          Snap,         \* snap
          DefaultGaps   \* gappoh, gappov, gappih, gappiv

Positive == Nat \ {0}
AllGaps == [oh : Nat, ov : Nat, ih : Nat, iv : Nat]

ASSUME SizesAssumption ==
  /\ MonPos \in Nat \X Nat /\ MonSize \in Positive \X Positive
  /\ BarHeight \in Positive /\ Border \in Nat /\ Snap \in Nat /\ DefaultGaps \in AllGaps

ASSUME WindowAssumption ==
  /\ NoWindow \notin Window
  /\ Hints \in [Window -> [min : Nat \X Nat, max : Nat \X Nat, inc : Nat \X Nat,
                          base : Nat \X Nat, dialog : BOOLEAN, scratch : BOOLEAN]]

Dims == 1..2
Larger(a, b) == IF a > b THEN a ELSE b
Smaller(a, b) == IF a < b THEN a ELSE b
Pair(F(_)) == <<F(1), F(2)>>

\* The part of a length that mfact, in twentieths, gives; floats are truncated.  The
\* last bit of a float is left out: a whole product is taken to stay whole.
Part(len, k) == IF len >= 0 THEN (len * k) \div 20 ELSE -((-len * k) \div 20)

\* updatebarpos: the window area; the bar is on top.
Area(g) ==
  LET bar == IF g.showbar THEN BarHeight ELSE 0
  IN [pos |-> <<MonPos[1], MonPos[2] + bar>>, size |-> <<MonSize[1], MonSize[2] - bar>>]

\* WIDTH and HEIGHT.
Outer(c) == Pair(LAMBDA d : c.size[d] + 2 * c.bw)

\* The members of S on a list, in its order.
Kept(list, S) ==
  LET upto[k \in 0..Len(list)] ==
        IF k = 0 THEN <<>>
        ELSE IF list[k] \in S THEN Append(upto[k - 1], list[k]) ELSE upto[k - 1]
  IN upto[Len(list)]

Members(list) == {list[k] : k \in 1..Len(list)}
OnList(m) == Members(m.order)
Shown(m) == {i \in OnList(m) : m.visible[i]}
Tiled(g) == Kept(g.order, {i \in Shown(g) : ~g.c[i].floating})
Arranging(g) == g.lt # "floating"

-----------------------------------------------------------------------------
(* One window (applysizehints, resize, resizeclient).                       *)

\* C's remainder.
Rem(a, b) == IF a >= 0 THEN a % b ELSE -((-a) % b)

\* What the hints of a floating window make of a size.
Hinted(h, size) ==
  LET Rest(d) == size[d] - h.base[d]
      Stepped(d) == IF h.inc[d] > 0 THEN Rest(d) - Rem(Rest(d), h.inc[d]) ELSE Rest(d)
      Bounded(d) == LET s == Larger(Stepped(d) + h.base[d], h.min[d])
                    IN IF h.max[d] > 0 THEN Smaller(s, h.max[d]) ELSE s
  IN Pair(Bounded)

\* A user's drag may take a window to the edges of the display; anything else keeps
\* a part of it in the window area a.
Placed(a, c, pos, size, interact) ==
  LET Inside(p, outer, lo) == IF interact THEN IF p + outer < 0 THEN 0 ELSE p
                              ELSE IF p + outer <= lo THEN lo ELSE p
      Ahead(d) == IF interact
                  THEN IF pos[d] > MonPos[d] + MonSize[d]
                       THEN MonPos[d] + MonSize[d] - Outer(c)[d] ELSE pos[d]
                  ELSE IF pos[d] >= a.pos[d] + a.size[d]
                       THEN a.pos[d] + a.size[d] - Outer(c)[d] ELSE pos[d]
  IN Pair(LAMBDA d : Inside(Ahead(d), size[d] + 2 * c.bw, a.pos[d]))

Resized(c, pos, size) ==
  [c EXCEPT !.oldpos = c.pos, !.oldsize = c.size, !.pos = pos, !.size = size]
ResizeClient(g, i, pos, size) == [g EXCEPT !.c[i] = Resized(@, pos, size)]

ResizeTo(g, i, pos, size) ==
  IF <<pos, size>> = <<g.c[i].pos, g.c[i].size>> THEN g ELSE ResizeClient(g, i, pos, size)

Resize(g, i, pos, size, interact) ==
  LET c == g.c[i]
      hinted == c.floating \/ ~Arranging(g)
      s == Pair(LAMBDA d : Larger(Larger(1, size[d]), BarHeight))
  IN ResizeTo(g, i, Placed(Area(g), c, pos, Pair(LAMBDA d : Larger(1, size[d])), interact),
              IF hinted THEN Hinted(Hints[i], s) ELSE s)

-----------------------------------------------------------------------------
(* Layouts.  Windows are laid one after the other in dimension d from       *)
(* position pos on; each takes length lens[k], and the next one begins after *)
(* what it really took and the gap.                                         *)

FlowStep(s, i, d, len, cross, gap) ==
  LET border == 2 * s.g.c[i].bw
      Along == Pair(LAMBDA e : (IF e = d THEN len ELSE cross) - border)
      m == Resize(s.g, i, s.pos, Along, FALSE)
  IN [g |-> m, pos |-> [s.pos EXCEPT ![d] = @ + Outer(m.c[i])[d] + gap]]

Flow(g, ws, d, pos, cross, lens, gap) ==
  LET after[k \in 0..Len(ws)] ==
        IF k = 0 THEN [g |-> g, pos |-> pos]
        ELSE FlowStep(after[k - 1], ws[k], d, lens[k], cross, gap)
  IN after[Len(ws)].g

\* Mutant: any window may get a pixel of the rest.
ShareToAll(total, n, k) == (total \div n) + (IF total > n * (total \div n) THEN 1 ELSE 0)

\* getfacts: n equal shares of a size; the first ones get a pixel of the rest.
Share(total, n, k) == (total \div n) + (IF k - 1 < total - n * (total \div n) THEN 1 ELSE 0)

\* getgaps.
Gaps(g) ==
  LET on == IF g.enablegaps THEN 1 ELSE 0
      outer == IF g.smartgaps /\ Len(Tiled(g)) = 1 THEN 0 ELSE on
  IN [oh |-> g.gaps.oh * outer, ov |-> g.gaps.ov * outer,
      ih |-> g.gaps.ih * on, iv |-> g.gaps.iv * on]

\* The window area without its outer gaps.
Inner(a, o) == [pos |-> <<a.pos[1] + o.ov, a.pos[2] + o.oh>>,
                size |-> <<a.size[1] - 2 * o.ov, a.size[2] - 2 * o.oh>>]

Masters(g, ws) == SubSeq(ws, 1, Smaller(Len(ws), g.nmaster))

\* What a layout works with: the area, the gaps, the masters and the others.
Facts(g, ws, ms, a, o) ==
  [area |-> a, in |-> Inner(a, o), gap |-> o,
   all |-> ws, ms |-> ms, ss |-> SubSeq(ws, Len(ms) + 1, Len(ws)),
   split |-> g.nmaster > 0 /\ Len(ws) > g.nmaster]

\* The length n windows share beside the gaps between them, and their shares.
Shared(len, n, gap) == len - gap * (n - 1)
Shares(len, n, gap) == [k \in 1..n |-> Share(Shared(len, n, gap), n, k)]

\* The masters' and the others' sizes where the two groups are side by side.
MasterPart(g, f, room, whole) == IF f.split THEN Part(room, g.mfact) ELSE whole
StackPart(g, f, room, whole) == IF f.split THEN Part(room, 20 - g.mfact) ELSE whole

\* tile puts the masters beside the others, bstack above them: along dimension d
\* within each of the two groups, which are side by side in dimension e.
TwoGroups(g, f, d, e, along, across) ==
  LET len == f.in.size[d]
      room == f.in.size[e] - across
      m == MasterPart(g, f, room, f.in.size[e])
      start == IF f.split THEN [f.in.pos EXCEPT ![e] = @ + m + across] ELSE f.in.pos
  IN Flow(Flow(g, f.ms, d, f.in.pos, m, Shares(len, Len(f.ms), along), along),
          f.ss, d, start, StackPart(g, f, room, f.in.size[e]),
          Shares(len, Len(f.ss), along), along)

Tile(g, f) == TwoGroups(g, f, 2, 1, f.gap.ih, f.gap.iv)
Bstack(g, f) == TwoGroups(g, f, 1, 2, f.gap.iv, f.gap.ih)

\* Windows that lie on one another.
PileStep(m, i, pos, size) ==
  Resize(m, i, pos, Pair(LAMBDA d : size[d] - 2 * m.c[i].bw), FALSE)

Pile(g, ws, pos, size) ==
  LET after[k \in 0..Len(ws)] ==
        IF k = 0 THEN g ELSE PileStep(after[k - 1], ws[k], pos, size)
  IN after[Len(ws)]

\* The stack's windows lie on one another.  Without a split their height is that of
\* the masters' shares.
Deck(g, f) ==
  LET room == f.in.size[1] - f.gap.iv
      m == MasterPart(g, f, room, f.in.size[1])
      x == IF f.split THEN f.in.pos[1] + m + f.gap.iv ELSE f.in.pos[1]
      h == IF f.split THEN f.in.size[2] ELSE Shared(f.in.size[2], Len(f.ms), f.gap.ih)
  IN Pile(Flow(g, f.ms, 2, f.in.pos, m, Shares(f.in.size[2], Len(f.ms), f.gap.ih), f.gap.ih),
          f.ss, <<x, f.in.pos[2]>>, <<StackPart(g, f, room, f.in.size[1]), h>>)

Monocle(g, f) == Pile(g, f.all, f.in.pos, f.in.size)

\* The masters in the middle, the others on the right and the left by turns, w and
\* side wide.  The pixels of the rest go by an unsigned difference, so not to the
\* first of many.
ThreeColumns(g, f, ms, ss, w, side) ==
  LET rs == [k \in 1..((Len(ss) + 1) \div 2) |-> ss[2 * k - 1]]
      ls == [k \in 1..(Len(ss) \div 2) |-> ss[2 * k]]
      mx == IF Len(ss) > 1 THEN f.in.pos[1] + side + f.gap.iv ELSE f.in.pos[1]
      Height(total, n, late) ==
        (total \div n) + (IF late >= 0 /\ late < 2 * (total % n) THEN 1 ELSE 0)
      Heights(n, first) ==
        [k \in 1..n |-> Height(Shared(f.in.size[2], n, f.gap.ih), n,
                               2 * (k - 1) + first - g.nmaster)]
      middle == Flow(g, ms, 2, <<mx, f.in.pos[2]>>, w,
                     Shares(f.in.size[2], Len(ms), f.gap.ih), f.gap.ih)
  IN Flow(Flow(middle, ls, 2, f.in.pos, side, Heights(Len(ls), 1), f.gap.ih),
          rs, 2, <<mx + w + f.gap.iv, f.in.pos[2]>>, side, Heights(Len(rs), 0), f.gap.ih)

CenteredMaster(g, f) ==
  LET ms == IF g.nmaster = 0 THEN f.all ELSE f.ms
      ss == IF g.nmaster = 0 THEN <<>> ELSE f.ss
      columns == Smaller(Len(ss), 2)
      w == IF columns = 0 THEN f.in.size[1]
           ELSE Part(f.in.size[1] - columns * f.gap.iv, g.mfact)
      rest == f.in.size[1] - w - columns * f.gap.iv
  IN ThreeColumns(g, f, ms, ss, w, IF columns = 2 THEN rest \div 2 ELSE rest)

\* The masters float, in a row, over a row of the others.
CenteredFloatingMaster(g, f) ==
  LET a == f.area
      wide == a.size[1] > a.size[2]
      between == 16 * f.gap.iv * (Len(f.ms) - 1)
      size == IF ~f.split THEN <<Shared(f.in.size[1], Len(f.all), f.gap.iv), f.in.size[2]>>
              ELSE <<(a.size[1] * (IF wide THEN g.mfact ELSE 18) - between) \div 20,
                     IF wide THEN (a.size[2] * 18 - 40 * f.gap.oh) \div 20
                     ELSE Part(a.size[2], g.mfact)>>
      pos == IF f.split THEN Pair(LAMBDA d : a.pos[d] + (a.size[d] - size[d]) \div 2) ELSE f.in.pos
      Row(m, ws, at, height, lens, gap) == Flow(m, ws, 1, at, height, lens, gap)
  IN Row(Row(g, f.ms, pos, size[2], Shares(size[1], Len(f.ms), 0),
             IF f.split THEN (16 * f.gap.iv) \div 20 ELSE f.gap.iv),
         f.ss, f.in.pos, f.in.size[2], Shares(f.in.size[1], Len(f.ss), f.gap.iv), f.gap.iv)

\* fibonacci: each window takes half of what is left, turning right (dwindle) or
\* round (spiral), until a half is no wider than borders.  "i" counts the turns.
Halved(s, f, dwindles) ==
  LET After(h) == CASE s.i % 4 = 2 /\ ~dwindles -> [h EXCEPT !.pos[1] = @ + h.size[1] + f.gap.iv]
                    [] s.i % 4 = 3 /\ ~dwindles -> [h EXCEPT !.pos[2] = @ + h.size[2] + f.gap.ih]
                    [] OTHER -> h
  IN IF s.i >= Len(f.all) - 1 THEN s
     ELSE After(IF s.i % 2 = 1 THEN [s EXCEPT !.size[2] = (@ - f.gap.ih) \div 2]
                ELSE [s EXCEPT !.size[1] = (@ - f.gap.iv) \div 2])

Turned(s, f, dwindles) ==
  LET right == s.size[1] + f.gap.iv
      down == s.size[2] + f.gap.ih
  IN CASE s.i % 4 = 0 -> [s EXCEPT !.pos[2] = @ + (IF dwindles THEN down ELSE -down)]
       [] s.i % 4 = 1 -> [s EXCEPT !.pos[1] = @ + right]
       [] s.i % 4 = 2 -> [s EXCEPT !.pos[2] = @ + down]
       [] OTHER -> [s EXCEPT !.pos[1] = @ + (IF dwindles THEN right ELSE -right)]

\* The first two windows share the width by mfact.
FirstTwo(s, g, f) ==
  CASE s.i = 0 -> [s EXCEPT !.pos[2] = f.in.pos[2],
                            !.size[1] = IF Len(f.all) = 1 THEN @
                                        ELSE Part(f.in.size[1] - f.gap.iv, g.mfact)]
    [] s.i = 1 -> [s EXCEPT !.size[1] = f.in.size[1] - @ - f.gap.iv]
    [] OTHER -> s

FibonacciStep(s, w, g, f, dwindles) ==
  LET b == 2 * s.g.c[w].bw
      turned == [FirstTwo(Turned(Halved(s, f, dwindles), f, dwindles), g, f) EXCEPT !.i = @ + 1]
      t == IF s.size[IF s.i % 2 = 1 THEN 2 ELSE 1] \div 2 > b THEN turned ELSE s
  IN [t EXCEPT !.g = Resize(@, w, t.pos, Pair(LAMBDA d : t.size[d] - b), FALSE)]

Fibonacci(g, f, dwindles) ==
  LET after[k \in 0..Len(f.all)] ==
        IF k = 0
        THEN [g |-> g, i |-> 0, pos |-> <<f.in.pos[1], f.gap.oh>>, size |-> f.in.size]
        ELSE FibonacciStep(after[k - 1], f.all[k], g, f, dwindles)
  IN after[Len(f.all)].g

LaidOut(g, f) ==
  IF f.all = <<>> THEN g
  ELSE CASE g.lt = "tile" -> Tile(g, f)
         [] g.lt = "bstack" -> Bstack(g, f)
         [] g.lt \in {"spiral", "dwindle"} -> Fibonacci(g, f, g.lt = "dwindle")
         [] g.lt = "deck" -> Deck(g, f)
         [] g.lt = "monocle" -> Monocle(g, f)
         [] g.lt = "centeredmaster" -> CenteredMaster(g, f)
         [] g.lt = "centeredfloatingmaster" -> CenteredFloatingMaster(g, f)
         [] OTHER -> g

ArrangeMon(g) ==
  LaidOut(g, Facts(g, Tiled(g), Masters(g, Tiled(g)), Area(g), Gaps(g)))

\* showhide: floating windows are taken back to the window area, scratchpads to its
\* middle.
Show(g, i) ==
  LET c == g.c[i]
      Middle(a) == Pair(LAMBDA d : a.pos[d] + (a.size[d] \div 2) - (Outer(c)[d] \div 2))
      Back(m) == IF (~Arranging(g) \/ c.floating) /\ ~c.full
                 THEN Resize(m, i, m.c[i].pos, m.c[i].size, FALSE) ELSE m
  IN IF ~g.visible[i] THEN g
     ELSE Back(IF Hints[i].scratch /\ c.floating
               THEN [g EXCEPT !.c[i].pos = Middle(Area(g))] ELSE g)

ShowAll(g) ==
  LET after[k \in 0..Len(g.order)] ==
        IF k = 0 THEN g ELSE Show(after[k - 1], g.order[k])
  IN after[Len(g.order)]

Arrange(g) == ArrangeMon(ShowAll(g))

EnterFullscreen(g, i) ==
  LET Filling(c) == [c EXCEPT !.full = TRUE, !.oldstate = c.floating, !.oldbw = c.bw,
                              !.bw = 0, !.floating = TRUE]
  IN [g EXCEPT !.c[i] = Resized(Filling(@), MonPos, MonSize)]

LeaveFullscreen(g, i) ==
  LET Back(c) == [c EXCEPT !.full = FALSE, !.floating = c.oldstate, !.bw = c.oldbw,
                           !.pos = c.oldpos, !.size = c.oldsize]
  IN Arrange([g EXCEPT !.c[i] = Resized(Back(@), @.oldpos, @.oldsize)])

\* Mutant: a window that is fullscreen already is made so again.
SetFullscreenAgain(g, i, on) ==
  IF on THEN EnterFullscreen(g, i)
  ELSE IF g.c[i].full THEN LeaveFullscreen(g, i) ELSE g

SetFullscreen(g, i, on) ==
  IF on /\ ~g.c[i].full THEN EnterFullscreen(g, i)
  ELSE IF ~on /\ g.c[i].full THEN LeaveFullscreen(g, i) ELSE g

IsFixed(h) == h.max = h.min /\ h.max[1] > 0 /\ h.max[2] > 0

\* manage puts a window in the middle of the monitor; one that is tiled ends the
\* selected window's fullscreen.
Managed(g, i, size) ==
  LET float == Hints[i].dialog \/ IsFixed(Hints[i])
      pos == Pair(LAMBDA d : MonPos[d] + ((MonSize[d] - size[d] - 2 * Border) \div 2))
      c == [pos |-> pos, size |-> size, oldpos |-> pos, oldsize |-> size, bw |-> Border,
            oldbw |-> Border, floating |-> float, oldstate |-> float, full |-> FALSE]
      g1 == [g EXCEPT !.order = <<i>> \o @, !.c[i] = c, !.visible[i] = TRUE]
  IN Arrange([(IF g.sel # NoWindow /\ ~float THEN SetFullscreen(g1, g.sel, FALSE) ELSE g1)
                EXCEPT !.sel = i])

ToggleFloating(g, i) ==
  LET c == g.c[i]
      floats == ~c.floating \/ IsFixed(Hints[i])
      g1 == [g EXCEPT !.c[i].floating = floats]
  IN IF c.full THEN g
     ELSE Arrange(IF floats THEN Resize(g1, i, c.pos, c.size, FALSE) ELSE g1)

-----------------------------------------------------------------------------
(* The state machine.                                                       *)

CONSTANTS Starts,       \* layouts, masters and windows to begin with, and the steps left
          Sizes,        \* sizes windows ask for
          Places,       \* positions windows ask for or are dragged to
          Borders,      \* border widths windows ask for
          MaxOps        \* bound: keys, requests and motions

Layouts == {"tile", "bstack", "spiral", "dwindle", "deck", "monocle", "centeredmaster",
            "centeredfloatingmaster", "floating"}

NoRepeats(s) == \A k, l \in 1..Len(s) : s[k] = s[l] => k = l

ASSUME StartsAssumption ==
  /\ MaxOps \in Nat
  /\ \A s \in Starts : /\ s.lt \in Layouts /\ s.nmaster \in Nat /\ s.left \in 0..MaxOps
                       /\ s.size \in Positive \X Positive
                       /\ s.windows \in Seq(Window) /\ NoRepeats(s.windows)

ASSUME RequestsAssumption ==
  Sizes \subseteq Positive \X Positive /\ Places \subseteq Int \X Int /\ Borders \subseteq Nat

VARIABLES g,            \* dwm's memory
          before,       \* each fullscreen window's geometry before, if it can return
          ops

vars == <<g, before, ops>>

NoClient == [pos |-> <<0, 0>>, size |-> <<1, 1>>, oldpos |-> <<0, 0>>, oldsize |-> <<1, 1>>,
             bw |-> 0, oldbw |-> 0, floating |-> FALSE, oldstate |-> FALSE, full |-> FALSE]

\* createmon.
NoWindows(s) ==
  [order |-> <<>>, c |-> [i \in Window |-> NoClient], visible |-> [i \in Window |-> FALSE],
   sel |-> NoWindow, lt |-> s.lt, mfact |-> 11, nmaster |-> s.nmaster, gaps |-> DefaultGaps,
   enablegaps |-> TRUE, smartgaps |-> FALSE, showbar |-> TRUE]

\* The windows of a start come one after the other.
AllManaged(s) ==
  LET after[k \in 0..Len(s.windows)] ==
        IF k = 0 THEN NoWindows(s) ELSE Managed(after[k - 1], s.windows[k], s.size)
  IN after[Len(s.windows)]

Init ==
  /\ \E s \in Starts : g = AllManaged(s) /\ ops = MaxOps - s.left
  /\ before = [i \in Window |-> <<>>]

\* A handler ends with memory m.  What a window was before its fullscreen is kept
\* until it leaves it or, one of "asked", its program asks for another geometry.
Ends(m, asked) ==
  /\ ops < MaxOps /\ ops' = ops + 1
  /\ g' = m
  /\ before' = [i \in Window |->
       IF ~m.c[i].full \/ i \in asked THEN <<>>
       ELSE IF g.c[i].full THEN before[i]
       ELSE <<g.c[i].pos, g.c[i].size, g.c[i].floating>>]

Becomes(m) == Ends(m, {})

\* Which of the windows shown is selected then, focus(NULL), is for DwmClients to say.
SelectAny(m) ==
  \E s \in IF Shown(m) = {} THEN {NoWindow} ELSE Shown(m) : Becomes(Arrange([m EXCEPT !.sel = s]))

\* A window comes; a scratchpad or one on another tag is shown or hidden.
MapWindow(i, size) == i \notin OnList(g) /\ Becomes(Managed(g, i, size))
UnmapWindow(i) ==
  /\ i \in OnList(g)
  /\ SelectAny([g EXCEPT !.order = Kept(@, Window \ {i}), !.c[i] = NoClient,
                         !.visible[i] = FALSE])
ShowOrHide(i) ==
  /\ i \in OnList(g)
  /\ SelectAny([g EXCEPT !.visible[i] = ~@])

KeySetLayout(l) ==
  LET m == [g EXCEPT !.lt = l] IN Becomes(IF g.sel # NoWindow THEN Arrange(m) ELSE m)

KeySetMfact(by) ==
  /\ Arranging(g) /\ g.mfact + by \in 1..19
  /\ Becomes(Arrange([g EXCEPT !.mfact = @ + by]))

\* Mutant: no limit at zero.
KeyIncNmasterBelow(by) == Becomes(Arrange([g EXCEPT !.nmaster = @ + by]))

KeyIncNmaster(by) == Becomes(Arrange([g EXCEPT !.nmaster = Larger(@ + by, 0)]))

NoLess(gaps) == [oh |-> Larger(gaps.oh, 0), ov |-> Larger(gaps.ov, 0),
                 ih |-> Larger(gaps.ih, 0), iv |-> Larger(gaps.iv, 0)]

\* Mutant: the windows stay.
SetGapsQuietly(m, gaps) == [m EXCEPT !.gaps = NoLess(gaps)]

SetGaps(m, gaps) == Arrange([m EXCEPT !.gaps = NoLess(gaps)])
KeyIncrGaps(by) ==
  Becomes(SetGaps(g, [oh |-> g.gaps.oh + by, ov |-> g.gaps.ov + by,
                      ih |-> g.gaps.ih + by, iv |-> g.gaps.iv + by]))
KeyDefaultGaps == Becomes(SetGaps(g, DefaultGaps))
KeyToggleGaps == Becomes(Arrange([g EXCEPT !.enablegaps = ~@]))
KeyToggleSmartGaps == Becomes(Arrange([g EXCEPT !.smartgaps = ~@]))
KeyToggleBar == Becomes(Arrange([g EXCEPT !.showbar = ~@]))

KeyToggleFloating == g.sel # NoWindow /\ Becomes(ToggleFloating(g, g.sel))
KeyToggleFullscreen ==
  g.sel # NoWindow /\ Becomes(SetFullscreen(g, g.sel, ~g.c[g.sel].full))

\* clientmessage: _NET_WM_STATE.
RequestFullscreen(i, on) == i \in OnList(g) /\ Becomes(SetFullscreen(g, i, on))

\* propertynotify: a window says whom it belongs to, or its type and state are read again.
TransientFor(i) ==
  /\ i \in OnList(g) /\ ~g.c[i].floating /\ OnList(g) \ {i} # {}
  /\ Becomes(Arrange([g EXCEPT !.c[i].floating = TRUE]))

UpdatedType(i, full, dialog) ==
  LET m == IF full THEN SetFullscreen(g, i, TRUE) ELSE g
  IN IF dialog THEN [m EXCEPT !.c[i].floating = TRUE] ELSE m
UpdateWindowType(i, full, dialog) ==
  i \in OnList(g) /\ Becomes(UpdatedType(i, full, dialog))

\* configurerequest: a border is taken at once, a geometry if the window floats.
RequestBorder(i, bw) == i \in OnList(g) /\ Becomes([g EXCEPT !.c[i].bw = bw])

Requested(c, pos, size) ==
  LET Centered(d) == IF pos[d] + size[d] > MonPos[d] + MonSize[d] /\ c.floating
                     THEN MonPos[d] + (MonSize[d] \div 2 - (size[d] + 2 * c.bw) \div 2)
                     ELSE pos[d]
  IN [c EXCEPT !.pos = Pair(Centered), !.size = size, !.oldpos = c.pos, !.oldsize = c.size]

RequestGeometry(i, place, size) ==
  /\ i \in OnList(g)
  /\ g.c[i].floating \/ ~Arranging(g)
  /\ Ends([g EXCEPT !.c[i] = Requested(@, Pair(LAMBDA d : MonPos[d] + place[d]), size)], {i})

Far(a, b) == \E d \in Dims : a[d] - b[d] > Snap \/ b[d] - a[d] > Snap
Near(a, b) == a - b < Snap /\ b - a < Snap

\* The window floats once the mouse has taken it far enough.
Loosened(i, far) == IF ~g.c[i].floating /\ Arranging(g) /\ far THEN ToggleFloating(g, i) ELSE g

MovedTo(m, i, to) ==
  IF ~Arranging(m) \/ m.c[i].floating THEN Resize(m, i, to, m.c[i].size, TRUE) ELSE m
SizedTo(m, i, size) ==
  IF ~Arranging(m) \/ m.c[i].floating THEN Resize(m, i, m.c[i].pos, size, TRUE) ELSE m

MoveMouse(place) ==
  /\ g.sel # NoWindow /\ ~g.c[g.sel].full
  /\ LET i == g.sel
         a == Area(g)
         outer == Outer(g.c[i])
         Snapped(d) == IF Near(a.pos[d], place[d]) THEN a.pos[d]
                       ELSE IF Near(a.pos[d] + a.size[d], place[d] + outer[d])
                       THEN a.pos[d] + a.size[d] - outer[d] ELSE place[d]
         to == Pair(Snapped)
     IN Becomes(MovedTo(Loosened(i, Far(to, g.c[i].pos)), i, to))

ResizeMouse(size) ==
  /\ g.sel # NoWindow /\ ~g.c[g.sel].full
  /\ LET i == g.sel
         inside == \A d \in Dims : size[d] <= Area(g).size[d]
     IN Becomes(SizedTo(Loosened(i, inside /\ Far(size, g.c[i].size)), i, size))

Keys ==
  \/ \E l \in Layouts : KeySetLayout(l)
  \/ \E by \in {-1, 1} : KeySetMfact(by) \/ KeyIncNmaster(by)
  \/ \E by \in {-3, 3} : KeyIncrGaps(by)
  \/ KeyDefaultGaps \/ KeyToggleGaps \/ KeyToggleSmartGaps \/ KeyToggleBar
  \/ KeyToggleFloating \/ KeyToggleFullscreen

Requests ==
  \/ \E i \in Window, size \in Sizes : MapWindow(i, size)
  \/ \E i \in Window : UnmapWindow(i) \/ ShowOrHide(i) \/ TransientFor(i)
  \/ \E i \in Window, bw \in Borders : RequestBorder(i, bw)
  \/ \E i \in Window, full, dialog \in BOOLEAN : UpdateWindowType(i, full, dialog)
  \/ \E i \in Window, on \in BOOLEAN : RequestFullscreen(i, on)
  \/ \E i \in Window, place \in Places, size \in Sizes : RequestGeometry(i, place, size)

Mouse == \/ \E place \in Places : MoveMouse(place)
         \/ \E size \in Sizes : ResizeMouse(size)

Next == Keys \/ Requests \/ Mouse

Spec == Init /\ [][Next]_vars

-----------------------------------------------------------------------------
\* The sizes window i may have.  None is negative, and none is nothing unless the
\* program asks for steps larger than the bar and for no base and no least size.
SizesOf(i) ==
  {s \in Nat \X Nat : \A d \in Dims :
     s[d] > 0 \/ (/\ Hints[i].inc[d] > BarHeight
                  /\ Hints[i].base[d] = 0 /\ Hints[i].min[d] = 0)}

\* What the monitor and its windows may hold.
TypeOK ==
  /\ g.lt \in Layouts /\ g.nmaster \in Nat /\ g.mfact \in 1..19
  /\ g.sel \in Shown(g) \cup {NoWindow}
  /\ \A i \in Window : /\ g.c[i].pos \in Int \X Int /\ g.c[i].size \in SizesOf(i)
                        /\ g.c[i].full => g.c[i].floating
  /\ ops \in 0..MaxOps

\* Whatever changes the layout, its numbers, the gaps, the bar or the windows on the
\* screen leaves the tiled windows where the layout puts them: arranging again gives
\* each the size it has and the place it has.  But a window that would begin beyond the
\* window area is put at its edge as far as it was wide before, so one arrange may
\* leave it elsewhere than the next (applysizehints comes before the new size).  Three
\* steps leave all that to the next arrange: a window that changes its own border
\* (configurerequest), one that leaves the tiled ones to cover the monitor
\* (setfullscreen), and one that turns into a dialog (updatewindowtype).
AtEdge(a, outer, p, q) ==
  \A d \in Dims : q[d] \in {p[d], a.pos[d], a.pos[d] + a.size[d] - outer[d]}
Stays(a, c, e) == e.size = c.size /\ AtEdge(a, Outer(e), c.pos, e.pos)
Settled(m) ==
  LET n == Arrange(m)
  IN Arranging(m) => \A i \in Members(Tiled(m)) : Stays(Area(m), m.c[i], n.c[i])
TiledSettled ==
  [][\/ \E i \in Window : g'.c[i].full /\ ~g.c[i].full
     \/ \E i \in Window, bw \in Borders : RequestBorder(i, bw)
     \/ \E i \in Window, full \in BOOLEAN : UpdateWindowType(i, full, TRUE)
     \/ Settled(g) => Settled(g')]_vars

Disjoint(a, b) ==
  \E d \in Dims : a.pos[d] + a.size[d] + 2 * a.bw <= b.pos[d]
                \/ b.pos[d] + b.size[d] + 2 * b.bw <= a.pos[d]

\* Tiled windows that got the size the layout gave them, and more than their borders
\* take: fibonacci halves nothing for thicker ones.
Roomy(m) ==
  \A i \in Members(Tiled(m)) : \A d \in Dims :
    m.c[i].size[d] > BarHeight /\ m.c[i].size[d] \div 2 > m.c[i].bw

\* Nothing is left to arrange.
Arranged(m) ==
  LET n == Arrange(m)
  IN \A i \in Members(Tiled(m)) : n.c[i].pos = m.c[i].pos /\ n.c[i].size = m.c[i].size

\* Where there is room, no tiled window covers another (the layouts that lay them on
\* one another apart), and each is inside the window area.  Exception: deck with no
\* master reaches an inner gap below it, as MIN(n, m->nmaster) - 1 is then -1.
Spread == {"tile", "bstack", "spiral", "dwindle", "centeredmaster"}
TiledFit ==
  Roomy(g) /\ Arranged(g) =>
    LET ws == Tiled(g)
        a == Area(g)
    IN /\ g.lt \in Spread => \A k, l \in 1..Len(ws) :
                                k # l => Disjoint(g.c[ws[k]], g.c[ws[l]])
       /\ g.lt # "floating" /\ ~(g.lt = "deck" /\ g.nmaster = 0) => \A k \in 1..Len(ws), d \in Dims :
            /\ g.c[ws[k]].pos[d] >= a.pos[d]
            /\ g.c[ws[k]].pos[d] + Outer(g.c[ws[k]])[d] <= a.pos[d] + a.size[d]

\* A floating window that leaves fullscreen is where it would be had it never been
\* fullscreen, whatever was done meanwhile to the others, the layout and the bar: its
\* earlier geometry, within the limits any arrange sets (setfullscreen saves it once).
\* Unless its program asked for another while it was fullscreen.  A window that comes
\* ends a fullscreen and is arranged itself, so the limits are set twice (manage).
Returned(i) ==
  LET m == Show([g' EXCEPT !.c[i].pos = before[i][1], !.c[i].size = before[i][2]], i)
      n == IF g'.order = g.order THEN m ELSE Show(m, i)
  IN <<n.c[i].pos, n.c[i].size>>
FullscreenReturns ==
  [][\A i \in OnList(g') :
       (g.c[i].full /\ ~g'.c[i].full /\ before[i] # <<>> /\ before[i][3])
         => <<g'.c[i].pos, g'.c[i].size>> = Returned(i)]_vars
=============================================================================
