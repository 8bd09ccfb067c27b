----------------------------- MODULE Dwmblocks -----------------------------
(***************************************************************************)
(* dwmblocks: one thread that sleeps, runs the commands of its blocks and  *)
(* writes the status, and the signal handlers that interrupt it anywhere.  *)
(* A handler runs to completion before the thread goes on and only stores  *)
(* two flags (or forks), so its delivery is one action; the thread's own   *)
(* reads and writes of those flags are separate steps.                     *)
(*                                                                         *)
(* The text a block prints is a member of Values.  announced[b] is what    *)
(* the command of b would print since the last event its notifier (a key   *)
(* binding, a cron job, a click) announced with a signal.  A block's line  *)
(* is torn when a handler interrupts its reading after part of the line has *)
(* been taken.  A local variable of a function that is not running has its *)
(* initial value.                                                          *)
(***************************************************************************)
EXTENDS DwmblocksTiming

CONSTANTS
  BlockSignal,   \* the RT signal of a block, relative to SIGRTMIN; 0 for none
  MaxSlots,      \* MAXSIGSLOTS
  ClickSignals,  \* the signals dwm reads from the status text under the pointer
  Values,        \* what a block's command may print
  Empty,         \* the empty text of a block that has never run
  Scraps,        \* what may be left of a torn line: nothing, or a part of it
  MaxQueued,     \* bound: instances of one RT signal queued in the kernel
  MaxChildren    \* bound: click commands of one block running at once

Signals == {BlockSignal[b] : b \in Blocks} \ {0}

ASSUME DwmblocksAssumption ==
  /\ BlockSignal \in [Blocks -> Nat]
  /\ MaxSlots \in Nat
  /\ \A b \in Blocks : BlockSignal[b] < MaxSlots
  /\ ClickSignals \subseteq Nat
  /\ Empty \notin Values
  /\ Empty \in Scraps
  /\ MaxQueued \in Nat \ {0}
  /\ MaxChildren \in Nat \ {0}

NoClick == -1

Texts == Values \cup Scraps

VARIABLES
  announced,    \* [Blocks -> Values]
  queued,       \* [Signals -> 0..MaxQueued], RT signals pending in the kernel
  click,        \* the pending SIGUSR1: the clicked signal, or NoClick
  children,     \* [Blocks -> 0..MaxChildren], forked click commands
  slot, any,    \* sigpending_slot, sigpending_any
  alive,        \* termhandler has not run
  pc,           \* where the thread is
  task,         \* which blocks the current pass over them wants
  blk,          \* the pass's loop index
  buf,          \* tmpstr of getcmd
  lost,         \* part of the line being read is gone
  scan,         \* `slot` of drainsignals
  updated,      \* `updated` of drainsignals
  interrupted,  \* `interrupted` of statusloop: nanosleep returned -1
  eintr,        \* a handler ran during the current blocking call
  rest,         \* tosleep
  time,         \* `i` of statusloop
  bar,          \* statusbar
  screen,       \* statusstr[0], the text last written
  failed,       \* blocks whose last popen failed
  torn          \* blocks whose last line was torn

env    == <<announced, queued, click, children, alive>>
flags  == <<slot, any>>
reading == <<buf, lost, torn>>
texts  == <<bar, failed>>
pass   == <<task, blk, reading, texts>>
drain  == <<scan, updated>>
clock  == <<interrupted, rest, time>>
vars   == <<env, flags, pass, drain, clock, pc, eintr, screen>>

Points == {"setup", "loop", "sleep", "drain", "clearany", "scan", "clearslot",
           "cmds", "read", "store", "publish", "tick"}

\* What the loop, the handlers' flags, the kernel and the blocks may hold.
TypeOK ==
  /\ announced \in [Blocks -> Values]
  /\ queued \in [Signals -> 0 .. MaxQueued]
  /\ click \in ClickSignals \cup {NoClick}
  /\ children \in [Blocks -> 0 .. MaxChildren]
  /\ slot \in [0 .. MaxSlots - 1 -> BOOLEAN]
  /\ any \in BOOLEAN
  /\ alive \in BOOLEAN
  /\ pc \in Points
  /\ task \in {"all", "tick", "sig"}
  /\ blk \in 1 .. NBlocks + 1
  /\ buf \in Texts
  /\ lost \in BOOLEAN
  /\ scan \in 0 .. MaxSlots
  /\ updated \in BOOLEAN
  /\ interrupted \in BOOLEAN
  /\ eintr \in BOOLEAN
  /\ rest \in 0 .. Interval
  /\ time \in 0 .. WordSize - 1
  /\ bar \in [Blocks -> Texts]
  /\ screen \in [Blocks -> Texts]
  /\ failed \subseteq Blocks
  /\ torn \subseteq Blocks

Blank == [b \in Blocks |-> Empty]

Init ==
  /\ announced \in [Blocks -> Values]
  /\ queued = [s \in Signals |-> 0]
  /\ click = NoClick
  /\ children = [b \in Blocks |-> 0]
  /\ slot = [s \in 0 .. MaxSlots - 1 |-> FALSE]
  /\ any = FALSE
  /\ alive = TRUE
  /\ pc = "setup"
  /\ task = "all"
  /\ blk = 1
  /\ buf = Empty
  /\ lost = FALSE
  /\ scan = 0
  /\ updated = FALSE
  /\ interrupted = FALSE
  /\ eintr = FALSE
  /\ rest = Interval
  /\ time = 0
  /\ bar = Blank
  /\ screen = Blank
  /\ failed = {}
  /\ torn = {}

-----------------------------------------------------------------------------
(* The notifiers: whoever changes what a block prints, then kills dwmblocks *)
(* with the block's signal.                                                *)

Announce(b, v) ==
  /\ alive
  /\ BlockSignal[b] \in Signals
  /\ v # announced[b]
  /\ queued[BlockSignal[b]] < MaxQueued
  /\ announced' = [announced EXCEPT ![b] = v]
  /\ queued' = [queued EXCEPT ![BlockSignal[b]] = @ + 1]
  /\ UNCHANGED <<click, children, alive, flags, pass, drain, clock, pc, eintr,
                 screen>>

\* dwm's sigqueue(SIGUSR1): a standard signal, so a second click finds the
\* first one still pending and is dropped by the kernel.
Click(s) ==
  /\ alive
  /\ click' = IF click = NoClick THEN s ELSE click
  /\ UNCHANGED <<announced, queued, children, alive, flags, pass, drain, clock,
                 pc, eintr, screen>>

-----------------------------------------------------------------------------
(* Signal handlers.                                                        *)

Blocking == {"sleep", "read"}

\* sighandler: flag the slot, then the summary.  A blocking call it lands in
\* will fail with EINTR, for the handlers have no SA_RESTART.
SigHandler(s) ==
  /\ alive
  /\ pc # "setup"
  /\ queued[s] > 0
  /\ queued' = [queued EXCEPT ![s] = @ - 1]
  /\ slot' = [slot EXCEPT ![s] = TRUE]
  /\ any' = TRUE
  /\ eintr' = (eintr \/ pc \in Blocking)
  /\ UNCHANGED <<announced, click, children, alive, pass, drain, clock, pc,
                 screen>>

\* Until setupsignals is done the RT signals are ignored.
IgnoreSignal(s) ==
  /\ alive
  /\ pc = "setup"
  /\ queued[s] > 0
  /\ queued' = [queued EXCEPT ![s] = @ - 1]
  /\ UNCHANGED <<announced, click, children, alive, flags, pass, drain, clock,
                 pc, eintr, screen>>

\* The search of buttonhandler for signal s ends at block b: the first that
\* has it, or the last of all when none does.
SearchEndsAt(b, s) ==
  /\ BlockSignal[b] = s \/ b = NBlocks
  /\ \A c \in 1 .. b - 1 : BlockSignal[c] # s

\* buttonhandler: fork the click command of the block found.
ButtonHandler(b) ==
  /\ alive
  /\ pc # "setup"
  /\ click # NoClick
  /\ SearchEndsAt(b, click)
  /\ children[b] < MaxChildren
  /\ children' = [children EXCEPT ![b] = @ + 1]
  /\ click' = NoClick
  /\ eintr' = (eintr \/ pc \in Blocking)
  /\ UNCHANGED <<announced, queued, alive, flags, pass, drain, clock, pc,
                 screen>>

\* SIGUSR1 kills a process that has not yet installed the handler.
ButtonTooEarly ==
  /\ alive
  /\ pc = "setup"
  /\ click # NoClick
  /\ alive' = FALSE
  /\ UNCHANGED <<announced, queued, click, children, flags, pass, drain, clock,
                 pc, eintr, screen>>

\* The child's `command && kill`: the command may change what the block
\* prints, and the kill announces it.  A block without a signal gets SIGRTMIN
\* itself, which is ignored.
ClickCommandSucceeds(b, v) ==
  /\ alive
  /\ children[b] > 0
  /\ children' = [children EXCEPT ![b] = @ - 1]
  /\ \/ /\ BlockSignal[b] \in Signals
        /\ queued[BlockSignal[b]] < MaxQueued
        /\ announced' = [announced EXCEPT ![b] = v]
        /\ queued' = [queued EXCEPT ![BlockSignal[b]] = @ + 1]
     \/ /\ BlockSignal[b] \notin Signals
        /\ UNCHANGED <<announced, queued>>
  /\ UNCHANGED <<click, alive, flags, pass, drain, clock, pc, eintr, screen>>

\* A failing command sends no signal (and is taken to have changed nothing).
ClickCommandFails(b) ==
  /\ alive
  /\ children[b] > 0
  /\ children' = [children EXCEPT ![b] = @ - 1]
  /\ UNCHANGED <<announced, queued, click, alive, flags, pass, drain, clock,
                 pc, eintr, screen>>

\* termhandler: _exit at once, wherever the thread is.
TermHandler ==
  /\ alive
  /\ alive' = FALSE
  /\ UNCHANGED <<announced, queued, click, children, flags, pass, drain, clock,
                 pc, eintr, screen>>

-----------------------------------------------------------------------------
(* statusloop.                                                             *)

At(point) == alive /\ pc = point

\* setupsignals has installed the handlers; getcmds(-1) runs every block.
SetupSignals ==
  /\ At("setup")
  /\ pc' = "cmds"
  /\ UNCHANGED <<env, flags, pass, drain, clock, eintr, screen>>

\* Entering nanosleep.  A handler that ran before this point does not
\* interrupt it.
Sleep ==
  /\ At("loop")
  /\ pc' = "sleep"
  /\ eintr' = FALSE
  /\ UNCHANGED <<env, flags, pass, drain, clock, screen>>

SecondPasses ==
  /\ At("sleep")
  /\ ~eintr
  /\ rest > 0
  /\ rest' = rest - 1
  /\ UNCHANGED <<env, flags, pass, drain, interrupted, time, pc, eintr, screen>>

\* Mutant: an interrupted sleep starts over instead of sleeping out its rest.
SleepInterruptedStartsOver ==
  /\ At("sleep")
  /\ eintr
  /\ rest > 0
  /\ interrupted' = TRUE
  /\ rest' = Interval
  /\ eintr' = FALSE
  /\ pc' = "drain"
  /\ UNCHANGED <<env, flags, pass, drain, time, screen>>

\* nanosleep returns -1 and leaves the remainder in tosleep; a sleep that has
\* no remainder returns 0 even if a handler ran.
SleepInterrupted ==
  /\ At("sleep")
  /\ eintr
  /\ rest > 0
  /\ interrupted' = TRUE
  /\ eintr' = FALSE
  /\ pc' = "drain"
  /\ UNCHANGED <<env, flags, pass, drain, rest, time, screen>>

SleepEnds ==
  /\ At("sleep")
  /\ rest = 0
  /\ interrupted' = FALSE
  /\ eintr' = FALSE
  /\ pc' = "drain"
  /\ UNCHANGED <<env, flags, pass, drain, rest, time, screen>>

-----------------------------------------------------------------------------
(* drainsignals.                                                           *)

\* Its return into statusloop: sleep on, or run the blocks due now.
ReturnFromDrain ==
  /\ scan' = 0
  /\ updated' = FALSE
  /\ interrupted' = FALSE
  /\ \/ interrupted /\ pc' = "loop" /\ UNCHANGED task
     \/ ~interrupted /\ pc' = "cmds" /\ task' = "tick"
  /\ UNCHANGED <<blk, reading, texts, rest, time>>

NothingPending ==
  /\ At("drain")
  /\ ~any
  /\ ReturnFromDrain
  /\ UNCHANGED <<env, flags, eintr, screen>>

SomethingPending ==
  /\ At("drain")
  /\ any
  /\ pc' = "clearany"
  /\ UNCHANGED <<env, flags, pass, drain, clock, eintr, screen>>

ClearAny ==
  /\ At("clearany")
  /\ any' = FALSE
  /\ scan' = 0
  /\ updated' = FALSE
  /\ pc' = "scan"
  /\ UNCHANGED <<env, slot, pass, clock, eintr, screen>>

\* Mutant: the test of the slot is dropped.
SlotFlaggedAlways(s) == TRUE

SlotFlagged(s) == slot[s]

SkipSlot ==
  /\ At("scan")
  /\ scan < MaxSlots
  /\ ~SlotFlagged(scan)
  /\ scan' = scan + 1
  /\ UNCHANGED <<env, flags, pass, updated, clock, pc, eintr, screen>>

FoundSlot ==
  /\ At("scan")
  /\ scan < MaxSlots
  /\ SlotFlagged(scan)
  /\ pc' = "clearslot"
  /\ UNCHANGED <<env, flags, pass, drain, clock, eintr, screen>>

\* Cleared before the refresh.
ClearSlot ==
  /\ At("clearslot")
  /\ slot' = [slot EXCEPT ![scan] = FALSE]
  /\ task' = "sig"
  /\ blk' = 1
  /\ pc' = "cmds"
  /\ UNCHANGED <<env, any, reading, texts, drain, clock, eintr, screen>>

\* Mutant: the summary flag is reset after the scan instead of before it.
EndScanResetsAny ==
  /\ At("scan")
  /\ scan = MaxSlots
  /\ any' = FALSE
  /\ \/ updated /\ pc' = "publish" /\ UNCHANGED <<pass, drain, clock>>
     \/ ~updated /\ ReturnFromDrain
  /\ UNCHANGED <<env, slot, eintr, screen>>

\* Mutant: the refreshed blocks are not written.
EndScanUnwritten ==
  /\ At("scan")
  /\ scan = MaxSlots
  /\ ReturnFromDrain
  /\ UNCHANGED <<env, flags, eintr, screen>>

EndScan ==
  /\ At("scan")
  /\ scan = MaxSlots
  /\ \/ updated /\ pc' = "publish" /\ UNCHANGED <<pass, drain, clock>>
     \/ ~updated /\ ReturnFromDrain
  /\ UNCHANGED <<env, flags, eintr, screen>>

\* writestatus at the end of drainsignals.
Publish ==
  /\ At("publish")
  /\ screen' = bar
  /\ ReturnFromDrain
  /\ UNCHANGED <<env, flags, eintr>>

-----------------------------------------------------------------------------
(* getcmds, getsigcmds and getcmd.                                         *)

EndOfPass(kind) ==
  /\ At("cmds")
  /\ task = kind
  /\ blk > NBlocks
  /\ task' = "all"
  /\ blk' = 1
  /\ UNCHANGED <<reading, texts>>

\* The current pass runs block b.
Wanted(b) ==
  \/ task = "all"
  \/ task = "tick" /\ Due(b, time)
  \/ task = "sig" /\ BlockSignal[b] = scan

SkipBlock ==
  /\ At("cmds")
  /\ blk <= NBlocks
  /\ ~Wanted(blk)
  /\ blk' = blk + 1
  /\ UNCHANGED <<env, flags, task, reading, texts, drain, clock, pc, eintr,
                 screen>>

Popen ==
  /\ At("cmds")
  /\ blk <= NBlocks
  /\ Wanted(blk)
  /\ pc' = "read"
  /\ eintr' = FALSE
  /\ UNCHANGED <<env, flags, pass, drain, clock, screen>>

\* No process could be forked: the block keeps its old text.
PopenFails ==
  /\ At("cmds")
  /\ blk <= NBlocks
  /\ Wanted(blk)
  /\ failed' = failed \cup {blk}
  /\ blk' = blk + 1
  /\ UNCHANGED <<env, flags, task, reading, bar, drain, clock, pc, eintr, screen>>

\* fgets returns the command's line.  That is also what tmpstr holds after a
\* torn read when the part taken was all that the command printed: the last
\* fgets then meets the end of the output and leaves tmpstr as it is.
ReadLine ==
  /\ At("read")
  /\ buf' = announced[blk]
  /\ lost' = FALSE
  /\ torn' = torn \ {blk}
  /\ eintr' = FALSE
  /\ pc' = "store"
  /\ UNCHANGED <<env, flags, task, blk, texts, drain, clock, screen>>

\* fgets fails with EINTR and is tried again.  What it had taken of the line
\* before the signal is gone from the stream.
ReadAgain ==
  /\ At("read")
  /\ eintr
  /\ eintr' = FALSE
  /\ lost' \in {lost, TRUE}
  /\ UNCHANGED <<env, flags, task, blk, buf, torn, texts, drain, clock, pc, screen>>

\* fgets returns what is left of a torn line.
ReadRest ==
  /\ At("read")
  /\ lost
  /\ buf' \in Scraps
  /\ lost' = FALSE
  /\ torn' = torn \cup {blk}
  /\ eintr' = FALSE
  /\ pc' = "store"
  /\ UNCHANGED <<env, flags, task, blk, texts, drain, clock, screen>>

Store ==
  /\ At("store")
  /\ bar' = [bar EXCEPT ![blk] = buf]
  /\ failed' = failed \ {blk}
  /\ blk' = blk + 1
  /\ buf' = Empty
  /\ pc' = "cmds"
  /\ UNCHANGED <<env, flags, task, lost, torn, drain, clock, eintr, screen>>

\* The end of getcmds(-1): back to the loop, nothing written yet.
EndAll ==
  /\ EndOfPass("all")
  /\ pc' = "loop"
  /\ UNCHANGED <<env, flags, drain, clock, eintr, screen>>

EndTick ==
  /\ EndOfPass("tick")
  /\ pc' = "tick"
  /\ UNCHANGED <<env, flags, drain, clock, eintr, screen>>

\* Mutant: the slot is reset again once its blocks are refreshed.
EndSignalResetsSlot ==
  /\ EndOfPass("sig")
  /\ slot' = [slot EXCEPT ![scan] = FALSE]
  /\ updated' = TRUE
  /\ scan' = scan + 1
  /\ pc' = "scan"
  /\ UNCHANGED <<env, any, clock, eintr, screen>>

EndSignal ==
  /\ EndOfPass("sig")
  /\ updated' = TRUE
  /\ scan' = scan + 1
  /\ pc' = "scan"
  /\ UNCHANGED <<env, flags, clock, eintr, screen>>

\* The rest of a tick: write, count, and a full sleep next.
FinishTick ==
  /\ At("tick")
  /\ screen' = bar
  /\ time' = AfterTick(time)
  /\ rest' = Interval
  /\ pc' = "loop"
  /\ UNCHANGED <<env, flags, pass, drain, interrupted, eintr>>

-----------------------------------------------------------------------------
Drain ==
  \/ NothingPending \/ SomethingPending \/ ClearAny \/ SkipSlot \/ FoundSlot
  \/ ClearSlot \/ EndScan \/ Publish

RunBlocks ==
  \/ SkipBlock \/ Popen \/ PopenFails \/ ReadLine \/ ReadAgain \/ ReadRest
  \/ Store \/ EndAll \/ EndTick \/ EndSignal

Loop == SetupSignals \/ Sleep \/ SleepInterrupted \/ SleepEnds \/ FinishTick

Thread == Loop \/ Drain \/ RunBlocks

Environment ==
  \/ \E b \in Blocks, v \in Values : Announce(b, v)
  \/ \E s \in ClickSignals : Click(s)
  \/ \E b \in Blocks, v \in Values : ClickCommandSucceeds(b, v)
  \/ \E b \in Blocks : ClickCommandFails(b)

Handlers ==
  \/ \E s \in Signals : SigHandler(s) \/ IgnoreSignal(s)
  \/ \E b \in Blocks : ButtonHandler(b)
  \/ ButtonTooEarly
  \/ TermHandler

\* After _exit nothing happens any more.
Exited == ~alive /\ UNCHANGED vars

Next == Thread \/ SecondPasses \/ Environment \/ Handlers \/ Exited

Spec == Init /\ [][Next]_vars

(* Fairness: the thread is scheduled and pending signals are delivered; time *)
(* passes in every sleep, even one that signals keep interrupting; a command *)
(* that was started delivers its line in the end.                          *)
Fairness ==
  /\ WF_vars(Thread)
  /\ SF_vars(SecondPasses)
  /\ SF_vars(ReadLine \/ ReadRest)
  /\ \A s \in Signals : WF_vars(SigHandler(s))

FairSpec == Spec /\ Fairness

-----------------------------------------------------------------------------
(* Safety.                                                                 *)

\* A flagged slot is never forgotten: the summary flag is up, or the scan
\* that lowered it has not passed the slot yet.  Otherwise no later wake-up
\* would look at it, and the block would stay as it is.
FlaggedIsFound ==
  \A s \in 0 .. MaxSlots - 1 :
    slot[s] => \/ any
               \/ pc \in {"scan", "clearslot"} /\ scan <= s
               \/ pc \in {"cmds", "read", "store"} /\ task = "sig" /\ scan < s

\* The current pass will still read block b.
WillRead(b) ==
  \/ pc = "setup"
  \/ pc \in {"cmds", "read"} /\ blk <= b /\ Wanted(b)
  \/ pc = "store" /\ blk < b /\ Wanted(b)
  \/ pc = "store" /\ blk = b /\ buf = announced[b]

\* No announced change is lost, however many signals were merged into one
\* flag and wherever they landed in a refresh: a block whose text is out of
\* date has a signal on its way, a flag set or a read to come; or its popen
\* failed; or its line was torn by a signal, which then costs the block its
\* text until it runs again.
NoLostUpdate ==
  \A b \in Blocks :
    BlockSignal[b] \in Signals /\ bar[b] # announced[b] =>
      \/ queued[BlockSignal[b]] > 0
      \/ slot[BlockSignal[b]]
      \/ WillRead(b)
      \/ b \in failed \cup torn

\* What is on screen when the thread sleeps is the blocks' current text, but
\* for the first interval: statusloop writes nothing after getcmds(-1).
SleepsPublished == pc = "sleep" => screen = bar \/ screen = Blank

\* What the comment in setupsignals says of EINTR: a thread that sleeps after
\* a drain (nothing is written before the first one) has no flagged update
\* unless that signal is just waking it.
WakesImmediately == At("sleep") /\ screen # Blank => ~any \/ eintr

-----------------------------------------------------------------------------
(* Refinement of StatusBoard.                                              *)

Posted ==
  {s \in Signals : queued[s] > 0 \/ slot[s]}

BlocksDue ==
  IF pc \in {"setup", "cmds", "read"} THEN {b \in Blocks : blk <= b /\ Wanted(b)}
  ELSE IF pc = "store" THEN {b \in Blocks : blk < b /\ Wanted(b)}
  ELSE {}

\* The line just read counts as the block's text.
TextRead == IF pc = "store" THEN [bar EXCEPT ![blk] = buf] ELSE bar

Board == INSTANCE StatusBoard WITH
  Periodic <- {b \in Blocks : BlockInterval[b] # 0}, world <- announced,
  pending <- Posted, due <- BlocksDue, bar <- TextRead

\* Flags, scan, nested wake-ups and ticks together behave as a set of posted
\* signals: nothing is served that was not posted, nothing posted is dropped,
\* a block read has the text of its command or a scrap of a torn line, and
\* nothing is written in the middle of a refresh.
ImplementsBoard == Board!BoardSpec

-----------------------------------------------------------------------------
(* Liveness.                                                               *)

\* Once the announcements of a block are over, the screen ends up showing the
\* last of them, unless the process exits or the block's popens keep failing or
\* its lines being torn.
EventuallyShown ==
  \A b \in Blocks :
    BlockSignal[b] \in Signals =>
      ( <>[](alive /\ b \notin failed \cup torn) /\ <>[][announced'[b] = announced[b]]_vars
        => <>[](screen[b] = announced[b]) )

\* Ticks keep coming however often signals interrupt the sleep.
TicksKeepComing == []<>(pc = "tick") \/ <>~alive
=============================================================================
