----------------------------- MODULE Scrollback -----------------------------
(***************************************************************************)
(* What st's scrollback promises: the last Size lines that left the        *)
(* screen, oldest first, and how many of them the window shows.  A line    *)
(* that leaves is the first of the scrolling region; while the user reads  *)
(* older lines it leaves these where they are, until the oldest has to go. *)
(***************************************************************************)
EXTENDS Integers, Sequences

CONSTANT Size

VARIABLES log, back,    \* the lines kept, and how many of them the window shows
          region,       \* the lines of the scrolling region
          above,        \* how many of them are above the line of the cursor
          chars, key    \* what the last step printed, and whether a key did

vars == <<log, back, region, above, chars, key>>

Init == Len(log) = Size /\ back = 0

Least(a, b) == IF a < b THEN a ELSE b

\* A control sequence moves one line at most, a character that needs two columns
\* where there is one moves two.
Most == IF chars' = 0 THEN 1 ELSE 2 * chars'

\* The lines that leave first.  A character scrolls before it changes a line; one
\* that follows others may find the line of the cursor changed by them.
Leaving == IF chars' <= 1 THEN region ELSE SubSeq(region, 1, above)

\* k lines leave at the top of the region: each is added to the log as it was.  What
\* the user types and is echoed returns to the bottom first.
Push(k) ==
  LET tape == log \o Leaving IN
  /\ Len(log') = Size
  /\ \A i \in 1..Size : i + k <= Len(tape) => log'[i] = tape[i + k]
  /\ back' = IF key' THEN 0
             ELSE IF back \in 1..(Size - 1) THEN Least(back + k, Size - 1) ELSE back

\* The region goes down by a line and the one at its bottom leaves: it takes the
\* place of the last line but one, and the last is the first to go from now on.
Pull ==
  /\ Len(log') = Size /\ back' = back
  /\ \A i \in 1..Size :
       log'[i] = IF i = Size THEN region[Len(region)]
                 ELSE IF i = 1 THEN log[Size] ELSE log[i - 1]

\* No line leaves; the user looks back or forward.
Look == log' = log /\ back' \in 0..Size

Next == (\E k \in 1..Most : Push(k)) \/ Pull \/ Look

Spec == Init /\ [][Next]_vars
=============================================================================
