---------------------------- MODULE StatusBoard ----------------------------
(***************************************************************************)
(* What dwmblocks promises, without flags, scans and sleeps: a set of      *)
(* posted signals that is served one at a time.  Serving a signal makes    *)
(* its blocks due; each due block is read again, whole or torn, unless its *)
(* command cannot be run; nothing is written while a block is due.  A      *)
(* signal is served only if it was posted, and a posted signal leaves the  *)
(* set only by being served.                                               *)
(***************************************************************************)
CONSTANTS Blocks, Signals, BlockSignal, Periodic, Values, Empty, Scraps

VARIABLES
  world,    \* what each block's command would print
  pending,  \* posted signals not yet served
  due,      \* blocks to be read again
  bar,      \* the text of each block
  screen    \* the text last written

boardVars == <<world, pending, due, bar, screen>>

BoardInit ==
  /\ world \in [Blocks -> Values]
  /\ pending = {}
  /\ due = Blocks
  /\ bar = [b \in Blocks |-> Empty]
  /\ screen = bar

\* A change of block b, announced by its signal.
Post(b, v) ==
  /\ BlockSignal[b] \in Signals
  /\ world' = [world EXCEPT ![b] = v]
  /\ pending' = pending \cup {BlockSignal[b]}
  /\ UNCHANGED <<due, bar, screen>>

\* All blocks of a posted signal become due; another instance of the signal
\* may be behind the one served.
Serve(s) ==
  /\ s \in pending
  /\ pending' \in {pending, pending \ {s}}
  /\ due' = due \cup {b \in Blocks : BlockSignal[b] = s}
  /\ UNCHANGED <<world, bar, screen>>

\* What the clock may make due: periodic blocks, or all of them when the
\* counter reads as -1.
ClockMakesDue(blocks) == blocks \subseteq Periodic \/ blocks = Blocks

Tick ==
  /\ due = {}
  /\ due' \subseteq Blocks
  /\ ClockMakesDue(due')
  /\ UNCHANGED <<world, pending, bar, screen>>

Read(b) ==
  /\ b \in due
  /\ due' = due \ {b}
  /\ bar' = [bar EXCEPT ![b] = world[b]]
  /\ UNCHANGED <<world, pending, screen>>

\* Only a scrap of the text is left when a signal interrupts the reading.
ReadTorn(b, scrap) ==
  /\ b \in due
  /\ due' = due \ {b}
  /\ bar' = [bar EXCEPT ![b] = scrap]
  /\ UNCHANGED <<world, pending, screen>>

ReadFails(b) ==
  /\ b \in due
  /\ due' = due \ {b}
  /\ UNCHANGED <<world, pending, bar, screen>>

\* The text is written as a whole; the clock may make blocks due again at once.
Write ==
  /\ due = {}
  /\ screen' = bar
  /\ due' \subseteq Blocks
  /\ ClockMakesDue(due')
  /\ UNCHANGED <<world, pending, bar>>

BoardNext ==
  \/ \E b \in Blocks, v \in Values : Post(b, v)
  \/ \E s \in Signals : Serve(s)
  \/ \E b \in Blocks : Read(b) \/ ReadFails(b)
  \/ \E b \in Blocks, scrap \in Scraps : ReadTorn(b, scrap)
  \/ Tick
  \/ Write

BoardSpec == BoardInit /\ [][BoardNext]_boardVars
=============================================================================
