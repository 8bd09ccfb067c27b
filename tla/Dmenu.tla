------------------------------- MODULE Dmenu -------------------------------
(***************************************************************************)
(* dmenu (dmenu/dmenu.c): the input line, the matching items, the page of   *)
(* them that is shown and the selected one; keys, mouse buttons and pasted   *)
(* text, which comes some time after it was asked for.  A character is one   *)
(* symbol, whatever its bytes (nextrune).  Positions in the list of matches  *)
(* stand for pointers into it, 0 for NULL.                                   *)
(***************************************************************************)
EXTENDS Integers, Sequences

CONSTANTS Char,         \* the characters
          Space,        \* the one in worddelimiters, and between words
          Fold,         \* what a character is compared as (-i)
          Menus,        \* the items on standard input: sequences of texts
          Typed,        \* what a key press may insert
          Pasted,       \* what the selection may hold, up to a newline
          TextMax,      \* BUFSIZ - 1
          LineCounts,   \* what -l may be
          PromptW, InputW, ArrowW, MenuW,   \* promptw, inputw, TEXTW("<"), mw
          RowH          \* bh

ASSUME TextAssumption ==
  /\ Menus \subseteq Seq(Seq(Char)) /\ Typed \cup Pasted \subseteq Seq(Char)
  /\ TextMax \in Nat /\ LineCounts \subseteq Nat

\* A line of standard input is read into a buffer of the text's size (readstdin).
\* Between the input and the arrows there is room for items (calcoffsets' n).
ASSUME RoomAssumption ==
  /\ {PromptW, InputW, ArrowW, MenuW, RowH} \subseteq Nat
  /\ \A menu \in Menus : \A i \in 1..Len(menu) : Len(menu[i]) <= TextMax
  /\ RowH > 0 /\ MenuW > PromptW + InputW + 2 * ArrowW

Smaller(a, b) == IF a < b THEN a ELSE b
Least(S) == CHOOSE x \in S : \A y \in S : x <= y

VARIABLES m,            \* dmenu's memory: the items read, lines (-l, at most as many as
                        \* items), reject (-r), text, cursor, matches, curr, next, prev, sel
          asked,        \* the selection was asked for and has not come
          printed,      \* what the last event printed
          status        \* running; done or failed: exited; hung: in a loop

vars == <<m, asked, printed, status>>

-----------------------------------------------------------------------------
(* Matching.                                                                *)

Same(s, t) == Len(s) = Len(t) /\ \A i \in 1..Len(s) : Fold[s[i]] = Fold[t[i]]
StartsWith(s, w) == Len(w) <= Len(s) /\ Same(SubSeq(s, 1, Len(w)), w)
Holds(s, w) == \E i \in 0..(Len(s) - Len(w)) : Same(SubSeq(s, i + 1, i + Len(w)), w)

\* strtok: the words between the spaces.
WordStarts(t) == {i \in 1..Len(t) : t[i] # Space /\ (i = 1 \/ t[i - 1] = Space)}
WordFrom(t, i) ==
  SubSeq(t, i, Least({j \in i..Len(t) : j = Len(t) \/ t[j + 1] = Space}))
Words(t) == {WordFrom(t, i) : i \in WordStarts(t)}
FirstWord(t) == WordFrom(t, Least(WordStarts(t)))

\* The loop over the items puts those of S at the end of a list (appenditem).
InOrder(r, S) ==
  LET list[k \in 0..Len(r.items)] ==
        IF k = 0 THEN <<>> ELSE IF k \in S THEN Append(list[k - 1], k) ELSE list[k - 1]
  IN list[Len(r.items)]

\* Exact matches go first, then prefixes, then substrings.
Matching(r) ==
  LET all == {i \in 1..Len(r.items) : \A w \in Words(r.text) : Holds(r.items[i], w)}
      exact == {i \in all : Words(r.text) = {} \/ Same(r.text, r.items[i])}
      prefixed == {i \in all \ exact : StartsWith(r.items[i], FirstWord(r.text))}
  IN InOrder(r, exact) \o InOrder(r, prefixed) \o InOrder(r, all \ (exact \cup prefixed))

\* TEXTW.
TextW(r, i) == Len(r.items[i]) + 1

\* calcoffsets: where the next page begins and where the one before does.
Room(r) == IF r.lines > 0 THEN r.lines ELSE MenuW - (PromptW + InputW + 2 * ArrowW)
Takes(r, i) == IF r.lines > 0 THEN 1 ELSE Smaller(TextW(r, i), Room(r))
\* What the matches up to each position take, and those from a to b.
Extent(r) ==
  LET ends[k \in 0..Len(r.matches)] ==
        IF k = 0 THEN 0 ELSE ends[k - 1] + Takes(r, r.matches[k])
  IN ends
Taken(r, a, b) == Extent(r)[b] - Extent(r)[a - 1]

\* The matches from a page's first that no longer fit on it, and where a page may begin
\* that reaches up to it.
Over(r) == {k \in r.curr..Len(r.matches) : Taken(r, r.curr, k) > Room(r)}
Back(r) == {k \in 1..r.curr : Taken(r, k, r.curr - 1) <= Room(r)}
CalcOffsets(r) ==
  IF r.curr = 0 THEN [r EXCEPT !.next = 0, !.prev = 0]
  ELSE [r EXCEPT !.next = IF Over(r) = {} THEN 0 ELSE Least(Over(r)), !.prev = Least(Back(r))]

ShowFrom(r, k) == CalcOffsets([r EXCEPT !.curr = k])
SelectAt(r, k) == [ShowFrom(r, k) EXCEPT !.sel = k]

Match(r) ==
  LET ms == Matching(r)
  IN SelectAt([r EXCEPT !.matches = ms], IF ms = <<>> THEN 0 ELSE 1)

-----------------------------------------------------------------------------
(* The input line.  "cursor" is how many characters are left of it.         *)

Left(r) == SubSeq(r.text, 1, r.cursor)
Right(r) == SubSeq(r.text, r.cursor + 1, Len(r.text))

\* Mutant: no limit.
InsertAny(r, n, s) ==
  LET new == Match([r EXCEPT !.text = SubSeq(r.text, 1, r.cursor - n) \o s \o Right(r),
                             !.cursor = @ - n + Len(s)])
  IN IF r.reject /\ new.matches = <<>> THEN Match(r) ELSE new

\* Mutant: the text comes back without its matches.
InsertNoRematch(r, n, s) ==
  LET new == Match([r EXCEPT !.text = SubSeq(r.text, 1, r.cursor - n) \o s \o Right(r),
                             !.cursor = @ - n + Len(s)])
  IN IF Len(new.text) > TextMax THEN r
     ELSE IF r.reject /\ new.matches = <<>>
          THEN [new EXCEPT !.text = r.text, !.cursor = r.cursor] ELSE new

\* insert: s in place of the n characters left of the cursor; with -r, the text
\* before it comes back when nothing matches.
Insert(r, n, s) ==
  LET new == Match([r EXCEPT !.text = SubSeq(r.text, 1, r.cursor - n) \o s \o Right(r),
                             !.cursor = @ - n + Len(s)])
  IN IF Len(new.text) > TextMax THEN r
     ELSE IF r.reject /\ new.matches = <<>> THEN Match(r) ELSE new

\* movewordedge: where the word left of the cursor begins, and the one right ends.
WordEdgeLeft(r) ==
  Least({p \in 0..r.cursor :
           \A q, s \in p + 1..r.cursor : q < s /\ r.text[q] = Space => r.text[s] = Space})
WordEdgeRight(r) ==
  LET ends == {p \in r.cursor..Len(r.text) :
                 /\ p = Len(r.text) \/ r.text[p + 1] = Space
                 /\ \E q \in r.cursor + 1..p : r.text[q] # Space}
  IN IF ends = {} THEN Len(r.text) ELSE Least(ends)

-----------------------------------------------------------------------------
(* Events.                                                                  *)

Init ==
  /\ \E menu \in Menus, l \in LineCounts, reject \in BOOLEAN :
       m = Match([items |-> menu, lines |-> Smaller(l, Len(menu)), reject |-> reject,
                  text |-> <<>>, cursor |-> 0, matches |-> <<>>, curr |-> 0, next |-> 0,
                  prev |-> 0, sel |-> 0])
  /\ asked = FALSE /\ printed = <<>> /\ status = "running"

Running == status = "running"

\* The event leaves memory r.
Becomes(r) == Running /\ m' = r /\ printed' = <<>> /\ UNCHANGED <<asked, status>>

Exits(how) == Running /\ status' = how /\ printed' = <<>> /\ UNCHANGED <<m, asked>>

\* puts; without Control dmenu exits, with it the item only gets a colour.
Prints(what, ctrl, r) ==
  /\ Running /\ printed' = <<what>> /\ m' = r
  /\ status' = IF ctrl THEN "running" ELSE "done"
  /\ UNCHANGED asked

KeyText == \E s \in Typed : Becomes(Insert(m, 0, s))
\* Mutant: the matches stay those of the longer text.
KeyDeleteRightStale == Becomes([m EXCEPT !.text = Left(m)])

KeyDeleteRight == Becomes(Match([m EXCEPT !.text = Left(m)]))
KeyDeleteLeft == Becomes(Insert(m, m.cursor, <<>>))
KeyBackSpace == m.cursor > 0 /\ Becomes(Insert(m, 1, <<>>))
KeyDelete ==
  m.cursor < Len(m.text) /\ Becomes(Insert([m EXCEPT !.cursor = @ + 1], 1, <<>>))

\* Control-w deletes one character at a time.  One that -r refuses to delete is tried
\* again for ever.
KeyDeleteWord ==
  LET edge == WordEdgeLeft(m)
      After(p) == Insert(m, m.cursor - p, <<>>)
      refused == {p \in edge..m.cursor - 1 : Len(After(p).text) = Len(m.text)}
  IN IF refused = {} THEN Becomes(IF edge = m.cursor THEN m ELSE After(edge))
     ELSE Exits("hung")

KeyWordLeft == Becomes([m EXCEPT !.cursor = WordEdgeLeft(m)])
KeyWordRight == Becomes([m EXCEPT !.cursor = WordEdgeRight(m)])

\* End: with the cursor at the end, the last page: the first of those from the page
\* before the last match on that reaches it.
LastPage(r) ==
  LET first == ShowFrom(r, Len(r.matches)).prev
  IN ShowFrom(r, Least({k \in first..Len(r.matches) : ShowFrom(r, k).next = 0}))
KeyEnd ==
  Becomes(IF m.cursor < Len(m.text) THEN [m EXCEPT !.cursor = Len(m.text)]
          ELSE [IF m.next # 0 THEN LastPage(m) ELSE m EXCEPT !.sel = Len(m.matches)])

KeyHome ==
  Becomes(IF m.sel = Smaller(1, Len(m.matches)) THEN [m EXCEPT !.cursor = 0]
          ELSE SelectAt(m, 1))

Up(r) ==
  IF r.sel <= 1 THEN r
  ELSE LET s == [r EXCEPT !.sel = @ - 1]
       IN IF s.sel + 1 = r.curr THEN ShowFrom(s, r.prev) ELSE s
\* Mutant: the page does not follow.
DownOnPage(r) == IF r.sel = Len(r.matches) THEN r ELSE [r EXCEPT !.sel = @ + 1]

Down(r) ==
  IF r.sel = Len(r.matches) THEN r
  ELSE LET s == [r EXCEPT !.sel = @ + 1]
       IN IF s.sel = r.next THEN ShowFrom(s, r.next) ELSE s

KeyUp == Becomes(Up(m))
KeyDown == Becomes(Down(m))
KeyLeft ==
  IF m.cursor > 0 /\ (m.sel <= 1 \/ m.lines > 0) THEN Becomes([m EXCEPT !.cursor = @ - 1])
  ELSE m.lines = 0 /\ Becomes(Up(m))
KeyRight ==
  IF m.cursor < Len(m.text) THEN Becomes([m EXCEPT !.cursor = @ + 1])
  ELSE m.lines = 0 /\ Becomes(Down(m))
PageDown == m.next # 0 /\ Becomes(SelectAt(m, m.next))
PageUp == m.prev # 0 /\ Becomes(SelectAt(m, m.prev))

KeyReturn(shift, ctrl) ==
  Prints(IF m.sel # 0 /\ ~shift THEN m.items[m.matches[m.sel]] ELSE m.text, ctrl, m)

KeyTab ==
  /\ m.sel # 0
  /\ LET t == m.items[m.matches[m.sel]] IN Becomes(Match([m EXCEPT !.text = t, !.cursor = Len(t)]))

\* Escape, Control-[, the right button; the window is destroyed.
Quit == Exits("failed")

\* Control-y or the middle button asks the owner of the selection; paste inserts it.
AskSelection ==
  /\ Running /\ ~asked /\ asked' = TRUE /\ printed' = <<>>
  /\ UNCHANGED <<m, status>>
SelectionComes ==
  /\ Running /\ asked /\ asked' = FALSE /\ printed' = <<>>
  /\ \E s \in Pasted : m' = Insert(m, 0, s)
  /\ UNCHANGED status

\* Where drawmenu puts the shown matches: from, up to and without to; across, or down
\* with -l.
OnPage(r) == {k \in 1..Len(r.matches) : r.curr <= k /\ (r.next = 0 \/ k < r.next)}
Drawn(r, k) ==
  IF r.lines > 0 THEN [from |-> (k - r.curr + 1) * RowH, to |-> (k - r.curr + 2) * RowH]
  ELSE LET x == PromptW + InputW + ArrowW + Taken(r, r.curr, k - 1)
       IN [from |-> x, to |-> x + Smaller(TextW(r, r.matches[k]), MenuW - x - ArrowW)]

\* Mutant: the items begin where the left arrow does.
ItemAtNoArrow(p) == {k \in OnPage(m) : p + ArrowW <= Drawn(m, k).to}

\* buttonpress, left button at p: the first thing that p is on, its far edge included.
InputEnds ==
  IF m.lines > 0 THEN RowH
  ELSE (IF m.matches = <<>> THEN MenuW ELSE PromptW + InputW)
       + (IF m.prev = 0 \/ m.curr = 1 THEN ArrowW ELSE 0)
ItemAt(p) == {k \in OnPage(m) : p <= Drawn(m, k).to}

OnInput(p) == p <= InputEnds
OnLeftArrow(p) ==
  m.lines = 0 /\ m.curr > 1 /\ m.prev # 0 /\ ~OnInput(p) /\ p <= PromptW + InputW + ArrowW
\* The position of the match that p is on, or 0.
Target(p) == IF OnInput(p) \/ OnLeftArrow(p) \/ ItemAt(p) = {} THEN 0 ELSE Least(ItemAt(p))
OnRightArrow(p) ==
  /\ m.lines = 0 /\ m.next # 0 /\ p >= MenuW - ArrowW
  /\ ~OnInput(p) /\ ~OnLeftArrow(p) /\ Target(p) = 0

ClickInput(p) == OnInput(p) /\ Becomes(Insert(m, m.cursor, <<>>))
ClickItem(p, ctrl) ==
  /\ Target(p) # 0
  /\ Prints(m.items[m.matches[Target(p)]], ctrl, IF ctrl THEN [m EXCEPT !.sel = Target(p)] ELSE m)
ClickLeftArrow(p) == OnLeftArrow(p) /\ Becomes(SelectAt(m, m.prev))
ClickRightArrow(p) == OnRightArrow(p) /\ Becomes(SelectAt(m, m.next))

Click(p, ctrl) ==
  ClickInput(p) \/ ClickItem(p, ctrl) \/ ClickLeftArrow(p) \/ ClickRightArrow(p)
Points == 0..(IF m.lines > 0 THEN (m.lines + 1) * RowH ELSE MenuW) - 1

Edits == KeyText \/ KeyDeleteRight \/ KeyDeleteLeft \/ KeyBackSpace \/ KeyDelete
         \/ KeyDeleteWord \/ KeyTab
Moves == KeyWordLeft \/ KeyWordRight \/ KeyEnd \/ KeyHome \/ KeyUp \/ KeyDown \/ KeyLeft
         \/ KeyRight \/ PageDown \/ PageUp
Mouse == \E p \in Points, ctrl \in BOOLEAN : Click(p, ctrl)

Next ==
  \/ Edits \/ Moves \/ Mouse \/ Quit \/ AskSelection \/ SelectionComes
  \/ \E shift, ctrl \in BOOLEAN : KeyReturn(shift, ctrl)

Spec == Init /\ [][Next]_vars

-----------------------------------------------------------------------------
\* The text fits its buffer, the cursor is in it, positions are in the list.
TypeOK ==
  /\ m.text \in Seq(Char) /\ Len(m.text) <= TextMax /\ m.cursor \in 0..Len(m.text)
  /\ m.matches \in Seq(1..Len(m.items))
  /\ {m.curr, m.next, m.prev, m.sel} \subseteq 0..Len(m.matches)
  /\ status \in {"running", "done", "failed", "hung"}

\* Return and Tab take an item that is on the page shown: whatever pages were turned,
\* the selected match is on it (calcoffsets, Up, Down, End).
SelOnPage == m.matches # <<>> => m.sel \in OnPage(m)

\* What is offered is what the text on the line asks for, each item once, in the order
\* of the three kinds (match after every edit).
MatchesAreCurrent ==
  LET kind == [i \in 1..Len(m.items) |->
        IF Words(m.text) = {} \/ Same(m.text, m.items[i]) THEN 1
        ELSE IF StartsWith(m.items[i], FirstWord(m.text)) THEN 2 ELSE 3]
  IN /\ {m.matches[k] : k \in 1..Len(m.matches)}
          = {i \in 1..Len(m.items) : \A w \in Words(m.text) : Holds(m.items[i], w)}
     /\ \A j, k \in 1..Len(m.matches) : j < k =>
          LET a == m.matches[j]
              b == m.matches[k]
          IN kind[a] < kind[b] \/ (kind[a] = kind[b] /\ a < b)

\* dmenu.1: with -r, "dmenu will reject any input which would result in no matching
\* option left", typed, pasted, deleted or copied.
RejectKeepsMatch == m.reject /\ m.items # <<>> => m.matches # <<>>

\* A click inside what drawmenu drew for an item, without its first pixel, which
\* belongs to what is before it, is on that item (buttonpress).
ClickFindsDrawn ==
  \A k \in OnPage(m) : \A p \in Drawn(m, k).from + 1..Drawn(m, k).to - 1 : Target(p) = k
=============================================================================
