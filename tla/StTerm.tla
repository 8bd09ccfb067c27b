------------------------------- MODULE StTerm -------------------------------
(***************************************************************************)
(* st's terminal as a state machine: one action per control sequence       *)
(* (tputc, tcontrolcode, eschandle, csihandle, tsetmode), per key or mouse *)
(* event that reaches the terminal (kscrollup, selstart, ttywrite) and per *)
(* change of the window's size.  st is one thread and runs each to its end *)
(* (x.c:run), and draws between two of them whenever it likes.             *)
(***************************************************************************)
EXTENDS StScreen

\* What a behaviour may have, the bound of an instance: the groups of sequences and
\* events and how many of them, the size and the text printed at the start, what
\* the program prints (chars), the arguments of its sequences (counts), the clicks
\* (snaps: single 0, double 1, triple 2) and the <<columns, rows>> the window is
\* given (sizes).
CONSTANT Sessions

SequenceGroups == { "print", "newline", "index", "motion", "tabs", "erase", "chars",
                    "lines", "region", "cursor", "modes", "alternate", "reset",
                    "select", "scroll", "keyboard", "resize", "draw" }

ASSUME SessionsAssumption ==
  \A s \in Sessions : /\ s.groups \subseteq SequenceGroups /\ s.ops \in Nat
                      /\ s.rows \in Nat \ {0} /\ s.cols \in Nat \ {0}
                      /\ s.text \in Seq({s.text[i] : i \in DOMAIN s.text})
                      /\ s.counts \subseteq Nat /\ s.snaps \subseteq 0..2
                      /\ s.sizes \subseteq (Nat \ {0}) \X (Nat \ {0})

VARIABLES t,        \* the terminal
          kept,     \* the main screen and cursor since 1049 left them, or nothing
          session,  \* the session of this behaviour
          ops,      \* its sequences and events so far
          input     \* the characters the last of them printed, and whether a key did

vars == <<t, kept, session, ops, input>>

NoEpisode == [on |-> FALSE]
NoInput == [chars |-> 0, key |-> FALSE]

\* The first draw was done.
Init ==
  /\ session \in Sessions
  /\ t = [Printed(TNew(session.cols, session.rows), session.text) EXCEPT !.dirty = {}]
  /\ kept = NoEpisode
  /\ ops = 0
  /\ input = NoInput

Chars == session.chars
Counts == session.counts
Snaps == session.snaps
Sizes == session.sizes

\* A step of group g, which prints what, leaves the terminal s behind.
Doing(g, what) ==
  /\ g \in session.groups /\ session' = session
  /\ ops < session.ops /\ ops' = ops + 1
  /\ input' = what
Does(g) == Doing(g, NoInput)
DoesPrint(n) == Doing("print", [chars |-> n, key |-> FALSE])
Becomes(s) == t' = s /\ kept' = kept

X == t.c.x
Y == t.c.y

-----------------------------------------------------------------------------
(* Characters and control codes (tputc, tcontrolcode).                      *)

PutChar(u) == DoesPrint(1) /\ Becomes(TPutC(t, u))

\* REP: the last character n more times.
Repeat(n) ==
  /\ DoesPrint(n)
  /\ t.lastc # ""
  /\ Becomes(Printed(t, [i \in 1..n |-> t.lastc]))

\* A control code outside a sequence makes tputc forget the last character.
Control(s) == Becomes([s EXCEPT !.lastc = ""])

LineFeed == Does("newline") /\ Control(TNewline(t, "crlf" \in t.mode))
NextLine == Does("newline") /\ Control(TNewline(t, TRUE))       \* NEL
CarriageReturn == Does("newline") /\ Control(TMoveTo(t, 0, Y))
Backspace == Does("newline") /\ Control(TMoveTo(t, X - 1, Y))
HorizontalTab == Does("tabs") /\ Control(TPutTab(t, 1))

\* SUB shows a question mark where the cursor is.
Substitute == Does("reset") /\ Control(TSetChar(t, "?", X, Y))

-----------------------------------------------------------------------------
(* Escape sequences (eschandle, tdectest).                                  *)

Index ==                                                            \* IND
  /\ Does("index")
  /\ Becomes(IF Y = t.bot THEN TScrollUp(t, t.top, 1, TRUE) ELSE TMoveTo(t, X, Y + 1))

ReverseIndex ==                                                     \* RI
  /\ Does("index")
  /\ Becomes(IF Y = t.top THEN TScrollDown(t, t.top, 1, TRUE) ELSE TMoveTo(t, X, Y - 1))

SaveCursor == Does("cursor") /\ Becomes(TCursorSave(t))             \* DECSC
LoadCursor == Does("cursor") /\ Becomes(TCursorLoad(t))             \* DECRC

\* RIS: nothing is left of an episode on the alternate screen either.
Reset ==
  /\ Does("reset")
  /\ t' = TReset(t) /\ kept' = NoEpisode

\* DECALN fills the screen, column by column.
Aligned(s) ==
  LET after[k \in 0..(s.col * s.row)] ==
        IF k = 0 THEN s
        ELSE TSetChar(after[k - 1], "E", (k - 1) \div s.row, (k - 1) % s.row)
  IN after[s.col * s.row]

Align == Does("reset") /\ Becomes(Aligned(t))

SetTab == Does("tabs") /\ Becomes([t EXCEPT !.tabs = @ \cup {X}])   \* HTS

-----------------------------------------------------------------------------
(* CSI sequences (csihandle).  DEFAULT makes 1 of a count of 0.             *)

CursorUp(n) == Does("motion") /\ Becomes(TMoveTo(t, X, Y - n))
CursorDown(n) == Does("motion") /\ Becomes(TMoveTo(t, X, Y + n))
CursorForward(n) == Does("motion") /\ Becomes(TMoveTo(t, X + n, Y))
CursorBackward(n) == Does("motion") /\ Becomes(TMoveTo(t, X - n, Y))
CursorNextLine(n) == Does("motion") /\ Becomes(TMoveTo(t, 0, Y + n))
CursorPreviousLine(n) == Does("motion") /\ Becomes(TMoveTo(t, 0, Y - n))
CursorColumn(n) == Does("motion") /\ Becomes(TMoveTo(t, n - 1, Y))      \* CHA
CursorRow(n) == Does("motion") /\ Becomes(TMoveATo(t, X, n - 1))        \* VPA
CursorPosition(n, m) == Does("motion") /\ Becomes(TMoveATo(t, m - 1, n - 1))

Tab(n) == Does("tabs") /\ Becomes(TPutTab(t, n))                    \* CHT, CBT
ClearTab == Does("tabs") /\ Becomes([t EXCEPT !.tabs = @ \ {X}])
ClearTabs == Does("tabs") /\ Becomes([t EXCEPT !.tabs = {x \in @ : x >= t.col}])

EraseBelow ==                                                       \* ED 0
  /\ Does("erase")
  /\ LET s == TClearRegion(t, X, Y, t.col - 1, Y)
     IN Becomes(IF Y < t.row - 1 THEN TClearRegion(s, 0, Y + 1, t.col - 1, t.row - 1) ELSE s)

EraseAbove ==                                                       \* ED 1
  /\ Does("erase")
  /\ LET s == IF Y > 1 THEN TClearRegion(t, 0, 0, t.col - 1, Y - 1) ELSE t
     IN Becomes(TClearRegion(s, 0, Y, X, Y))

EraseAll == Does("erase") /\ Becomes(TClearScreen(t))               \* ED 2

EraseLine(a) ==                                                     \* EL
  /\ Does("erase")
  /\ Becomes(TClearRegion(t, IF a = 0 THEN X ELSE 0, Y, IF a = 1 THEN X ELSE t.col - 1, Y))

EraseChars(n) == Does("erase") /\ Becomes(TClearRegion(t, X, Y, X + n - 1, Y))
InsertChars(n) == Does("chars") /\ Becomes(TInsertBlank(t, n))
DeleteChars(n) == Does("chars") /\ Becomes(TDeleteChar(t, n))

ScrollUp(n) == Does("lines") /\ Becomes(TScrollUp(t, t.top, n, FALSE))      \* SU
ScrollDown(n) == Does("lines") /\ Becomes(TScrollDown(t, t.top, n, FALSE))  \* SD
InsertLines(n) == Does("lines") /\ Becomes(TInsertBlankLine(t, n))
DeleteLines(n) == Does("lines") /\ Becomes(TDeleteLine(t, n))

\* Mutant: the cursor stays where it is.
SetRegionOnly(a, b) == Does("region") /\ Becomes(TSetScroll(t, a - 1, b - 1))

SetRegion(a, b) == Does("region") /\ Becomes(TMoveATo(TSetScroll(t, a - 1, b - 1), 0, 0))

-----------------------------------------------------------------------------
(* Modes (tsetmode).                                                        *)

SetMode(m, set) ==                  \* DECAWM, IRM, SRM, LNM
  /\ Does("modes")
  /\ Becomes([t EXCEPT !.mode = IF set THEN @ \cup {m} ELSE @ \ {m}])

Origin(set) == Does("region") /\ Becomes(TMoveATo([t EXCEPT !.c.origin = set], 0, 0))

\* 47 and 1047 change the screen; 1049 keeps the cursor with it.
ToScreen(s, set) ==
  LET s1 == IF Alt(s) THEN TClearScreen(s) ELSE s IN
  IF set # Alt(s) THEN TSwapScreen(s1) ELSE s1

SwapOnly(set) ==
  /\ Does("alternate")
  /\ t' = ToScreen(t, set) /\ kept' = NoEpisode

CursorMode(s, set) == IF set THEN TCursorSave(s) ELSE TCursorLoad(s)

Alternate(set) ==
  /\ Does("alternate")
  /\ t' = CursorMode(ToScreen(CursorMode(t, set), set), set)
  /\ kept' = IF set /\ ~Alt(t) THEN [on |-> TRUE, line |-> t.line, c |-> t.c]
             ELSE IF set THEN kept ELSE NoEpisode

-----------------------------------------------------------------------------
(* The window: mouse, keys, size, drawing.                                  *)

Press(x, y, snap) == Does("select") /\ Becomes(SelStart(t, x, y, snap))

\* mousesel, while the button is held or when it is let go.
Drag(x, y, type, done) == Does("select") /\ Becomes(SelExtend(t, x, y, type, done))

\* Another client took the selection (setsel).
Deselect == Does("select") /\ Becomes(SelClear(t))

LookBack(n) == Does("scroll") /\ Becomes(KScrollUp(t, n))
LookForward(n) == Does("scroll") /\ Becomes(KScrollDown(t, n))

\* ttywrite: a key returns to the bottom and is shown when echo is on.
Key(u) ==
  LET s == KScrollDown(t, t.scr)
      echo == "echo" \in t.mode
  IN /\ Doing("keyboard", IF echo THEN [chars |-> 1, key |-> TRUE] ELSE NoInput)
     /\ Becomes(IF echo THEN TPutC(s, u) ELSE s)

\* cresize: the window tells its size, which may be of as many cells as before.
Resize(size) ==
  /\ Does("resize")
  /\ t' = TResize(t, size[1], size[2]) /\ kept' = NoEpisode

Draw == Does("draw") /\ t.dirty # {} /\ Becomes([t EXCEPT !.dirty = {}])

-----------------------------------------------------------------------------
Output ==
  \/ \E u \in Chars : PutChar(u)
  \/ \E n \in Counts : Repeat(n)
  \/ LineFeed \/ NextLine \/ CarriageReturn \/ Backspace \/ HorizontalTab \/ Substitute
  \/ Index \/ ReverseIndex \/ SaveCursor \/ LoadCursor \/ Reset \/ Align
  \/ SetTab \/ ClearTab \/ ClearTabs
  \/ \E n \in Counts : Tab(n) \/ Tab(-n)
  \/ \E n \in Counts : CursorUp(n) \/ CursorDown(n) \/ CursorForward(n) \/ CursorBackward(n)
  \/ \E n \in Counts : CursorNextLine(n) \/ CursorPreviousLine(n) \/ CursorColumn(n) \/ CursorRow(n)
  \/ \E n, m \in Counts : CursorPosition(n, m)
  \/ EraseBelow \/ EraseAbove \/ EraseAll
  \/ \E a \in 0..2 : EraseLine(a)
  \/ \E n \in Counts : EraseChars(n) \/ InsertChars(n) \/ DeleteChars(n)
  \/ \E n \in Counts : ScrollUp(n) \/ ScrollDown(n) \/ InsertLines(n) \/ DeleteLines(n)
  \/ \E a, b \in 1..t.row : SetRegion(a, b)
  \/ \E m \in {"wrap", "insert", "echo", "crlf"}, set \in BOOLEAN : SetMode(m, set)
  \/ \E set \in BOOLEAN : Origin(set) \/ SwapOnly(set) \/ Alternate(set)

Events ==
  \/ \E x \in ColsOf(t), y \in RowsOf(t), snap \in Snaps : Press(x, y, snap)
  \/ \E x \in ColsOf(t), y \in RowsOf(t), type \in {"regular", "rectangular"},
        done \in BOOLEAN : Drag(x, y, type, done)
  \/ Deselect
  \/ \E n \in {1, -1} : LookBack(n) \/ LookForward(n)
  \/ \E u \in Chars : Key(u)
  \/ \E size \in Sizes : Resize(size)
  \/ Draw

Next == Output \/ Events

Spec == Init /\ [][Next]_vars

-----------------------------------------------------------------------------
(* Properties.                                                              *)

\* What the screen, its cursor and the history may hold.
TypeOK ==
  /\ t.col <= t.maxcol /\ t.histi \in 0..(HISTSIZE - 1) /\ t.scr \in 0..HISTSIZE
  /\ DOMAIN t.line = RowsOf(t) /\ DOMAIN t.alt = RowsOf(t)
  /\ \A y \in RowsOf(t) : {DOMAIN t.line[y], DOMAIN t.alt[y]} = {0..(t.maxcol - 1)}
  /\ t.dirty \subseteq RowsOf(t)
  /\ t.top \in RowsOf(t) /\ t.bot \in t.top..(t.row - 1)
  /\ t.c.x \in ColsOf(t) /\ t.c.y \in RowsOf(t)
  /\ t.mode \subseteq {"wrap", "insert", "echo", "crlf", "altscreen"}
  /\ ops \in 0..session.ops

\* In origin mode the cursor is inside the scrolling region, however region,
\* cursor, saved cursor, screen and size change (tmoveto, tsetscroll, tcursor).
OriginHoldsCursor == t.c.origin => t.c.y \in t.top..t.bot

\* What row y looks like: its text and the cells shown as selected.
Text(y) == [x \in ColsOf(t) |-> <<TLINE(t, y)[x].u, TLINE(t, y)[x].part>>]
Highlight(y) == {x \in ColsOf(t) : Selected(t, x, y)}

\* selextend normalizes before it takes the new type, so a selection whose type has
\* just changed waits for the next motion to get its corners.
CornersPending == t.sel.ob[1] # -1 /\ SelNormalize(t).sel # t.sel

Mouse ==
  \/ \E x \in ColsOf(t), y \in RowsOf(t), snap \in Snaps : Press(x, y, snap)
  \/ \E x \in ColsOf(t), y \in RowsOf(t), type \in {"regular", "rectangular"},
        done \in BOOLEAN : Drag(x, y, type, done)

\* selscroll, which keeps a selection on its text, may find more of its word or of
\* its joined lines than before, on rows that did not scroll, and marks none.
MaySnapFurther == t'.sel.snap # 0 /\ ~Mouse

\* A row whose text changes is marked for drawing, and so is one whose highlight
\* changes unless a selection of words or lines snaps further, so that draw, which
\* skips the others, leaves nothing old in the window (tsetdirt).
EveryChangeIsDrawn ==
  [][t.scr = 0 /\ t'.scr = 0 /\ <<t.row, t.col>>' = <<t.row, t.col>> /\ ~CornersPending
       => \A y \in RowsOf(t) \ t'.dirty :
            /\ Text(y)' = Text(y)
            /\ Highlight(y)' = Highlight(y) \/ MaySnapFurther]_vars

\* A program that switches to the alternate screen with 1049 and back finds the
\* main screen and, outside origin mode, the cursor as it left them, whatever it
\* printed, erased, scrolled or saved in between (tsetmode, tcursor).  A reset, a
\* switch with 47 or 1047 and a change of size end such an episode.
EpisodeRestoresScreen ==
  [][kept.on /\ Alternate(FALSE)
       => /\ t'.line = kept.line
          /\ ~kept.c.origin => t'.c = [kept.c EXCEPT !.wrapnext = FALSE]]_vars

Highlighted == {p \in ColsOf(t) \X RowsOf(t) : Selected(t, p[1], p[2])}
SelectedText == [i \in DOMAIN GetSel(t) |-> GetSel(t)[i].text]

\* What changes cells without a look at the selection: the shifts of a line,
\* SUB, DECALN, the other cell of a wide character, a character that wraps
\* (tputc looks where the cursor was), and a change of size, which slides the
\* lines and leaves the selection where it was.
Blind ==
  \/ "insert" \in t.mode \/ t.c.wrapnext
  \/ \E n \in Counts : InsertChars(n) \/ DeleteChars(n)
  \/ Substitute \/ Align \/ \E n \in Counts \ {1} : Repeat(n)
  \/ t'.lastc \in WideChars \/ \E x \in ColsOf(t) : t.line[Y][x].part # "one"
  \/ \E size \in Sizes : Resize(size)

\* As long as the window shows a selection, no step changes the text it stands for:
\* it moves with the text, and what changes the text clears it, except for the
\* sequences above (selscroll, tputc, tclearregion).  One that is snapped to words
\* or lines (snap) may grow or shrink with them; one made on the other screen is
\* not shown, and moves as this one scrolls.
SelectedTextKept ==
  [][/\ t.scr = 0 /\ t'.scr = 0 /\ t.sel.snap = 0
     /\ Highlighted # {} /\ Highlighted' # {} /\ SelectedText' # SelectedText
     => Mouse \/ Blind \/ CornersPending]_vars

\* Looking back and forward moves a selection with its text, when all rows scroll
\* and it is not snapped to words or lines, which may go on in the rows that come
\* into view (kscrollup, kscrolldown, selscroll).
LookingMovesSelection ==
  [][/\ t.top = 0 /\ t.bot = t.row - 1 /\ t.sel.snap = 0
     /\ Highlighted # {} /\ Highlighted' # {} /\ SelectedText' # SelectedText
     => ~(\E n \in {1, -1} : LookBack(n) \/ LookForward(n)) \/ CornersPending]_vars

\* The text of a line, without the blanks at its end.
TextOf(l) ==
  LET n == Max({0} \cup {x + 1 : x \in {i \in DOMAIN l : l[i].u # " "}})
  IN [i \in 1..n |-> l[i - 1].u]

\* The ring of history lines is the log of the lines that left the screen, each
\* with the text it had: at the top of the scrolling region, or at its bottom when
\* RI scrolls down (tscrollup, tscrolldown).
History == INSTANCE Scrollback WITH
  Size <- HISTSIZE, back <- t.scr,
  log <- [i \in 1..HISTSIZE |-> TextOf(t.hist[(t.histi + i) % HISTSIZE])],
  region <- [i \in 1..(t.bot - t.top + 1) |-> TextOf(t.line[t.top + i - 1])],
  above <- IF InRegion(t) THEN Y - t.top ELSE 0,
  chars <- input.chars, key <- input.key
ImplementsScrollback == History!Spec

\* A change of size keeps the line of the cursor under it, and the lines above
\* it that still fit (tresize slides the screen and frees the earlier lines).
ResizeKeepsCursorLine ==
  [][\A size \in Sizes : Resize(size) =>
       \A k \in 0..t'.c.y, x \in 0..(Min({t.col, t'.col}) - 1) :
         t'.line[t'.c.y - k][x] = t.line[t.c.y - k][x]]_vars
=============================================================================
