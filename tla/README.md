# A verification project for AegixLinux

AegixLinux is a distribution: a profile of programs, scripts and settings that
become the home directory of a user, and the tools that collect, check and ship
that profile. The programs with a logic of their own are the ones under
`iso-profile/live-overlay/etc/skel/.local/src`: the window manager dwm with its
patches, the status program dwmblocks, the terminal st and the menu dmenu; and,
among the tools, `aegix-sync` (captures a live home directory into the profile)
and `src-sync` (copies commits of the live repositories into submodules).

This directory holds TLA+ modules translated from that source, configurations
that check them with TLC on small instances, and proofs that TLAPS checks.
`PROJECT.json` is the index: components, runs, the source lines each definition
stands for, hazards, findings, theorems.

Paths below are relative to `.local/src` where they start with `dwm/`,
`dwmblocks/`, `st/` or `dmenu/`; a bare `dwm.c`, `vanitygaps.c` or `st.c` is the file
in that program's directory.

## 1. Inventory

### dwmblocks (modelled, but for the text's bytes)

*State.* One text per block (`statusbar`), the text last written (`statusstr`), a
flag per real-time signal (`sigpending_slot`) and a summary flag
(`sigpending_any`), the loop counter and what is left of the current sleep.
*Operations.* `statusloop` sleeps, drains, runs the due blocks, writes;
`sighandler` flags a slot; `drainsignals` serves the flagged slots;
`getcmds`/`getsigcmds`/`getcmd` run commands; `buttonhandler` forks the command
of a clicked block; `termhandler` ends the process.
*Interactions.* Scripts, key bindings and cron jobs send it a block's signal; dwm
sends SIGUSR1 with the signal number it read from the status text; it writes the
root window's name, which dwm reads.
*Hard.* Handlers run between any two steps of the loop, the drain and a command's
read, and a read they interrupt loses what it had taken; instances of a signal merge; a blocking call may or may not be the one that
is interrupted; the counter is unsigned in one function and signed in the next.
*Correct when* no announced change is lost (but by a block whose own line is torn), what
was refreshed is written, each block has a text of its command, signals do not stop the clock, and each periodic
block is run in time.

### dwm: tags, windows, focus, monitors (modelled, but for what is listed in 8)

*State.* A list of monitors; per monitor two lists of the same clients (tiling
order, focus order), the selected one, two views and which is in force; per
client its monitor, tags and flags; properties on the windows in the X server.
*Operations.* One handler per X event (MapRequest, UnmapNotify, DestroyNotify,
ClientMessage, PropertyNotify, EnterNotify, MotionNotify, ButtonPress,
ConfigureNotify) and one function per key of `config.h`. They are compositions of
a dozen routines (`focus`, `attach`, `detachstack`, `sendmon`, `manage`, ...).
*Interactions.* Clients and the server through events, which may be stale; the
next dwm after a restart through the properties; dwmblocks through the status text.
*Hard.* Every handler must leave the lists consistent for all the others; events
queued before a change are handled after it; the mouse loops handle other events
in the middle; monitors disappear with windows on them; a restart keeps nothing
but properties; patches (scratchpads, sticky windows, stacker, shiftview,
swallow and more) share functions that were not written for each other.
*Correct when* the lists agree, nothing dangles, the focus is on something that is
shown whenever something is, tags change at the user's request alone and survive
a restart, and the stack keys are each other's inverses.

### dwm: layouts and gaps (modelled in part: `DwmLayout`)

`vanitygaps.c` and `monocle` compute rectangles from the number of tiled windows,
`nmaster`, `mfact` and the gaps; `applysizehints` bends them to what a window can
be. *State.* Per client its geometry, the one to return to, border and flags; per
monitor the layout, its numbers, the gaps, the bar. *Operations.* `arrange` after
every change, keys, client requests (geometry, border, fullscreen), the mouse
loops. *Hard.* A dozen handlers change something the layout depends on, each has to
arrange again; the geometry a fullscreen window returns to is kept through all of
them; shares are whole numbers of pixels with a rest. *Correct when* tiled windows
are where the layout puts them, apart and inside, and fullscreen leaves no trace.

### dwm: window swallowing (modelled in part: `DwmSwallow`)

`swallow`, `unswallow`, `termforwin`, `swallowingclient`. *State.* `c->swallowing`
and a client that is on no list; which of two windows a client stands for. *Hard.*
`swallow` exchanges windows and unmaps one, and the UnmapNotify of it is a message
that arrives later; the program may leave in between; dwm may be restarted. *Correct
when* no two clients stand for one window, nothing freed is still owned, what is
mapped is managed, and a hidden terminal comes back.

### dwm: status text and clicks on it (planned: `StatusClicks`)

`updatestatus` splits the root window's name at its delimiters; `buttonpress` finds
the block under the pointer by its control byte; `sigdwmblocks` asks `pidof` for
dwmblocks and sends SIGUSR1. *Hard.* The pid and the text are both stale by the
time they are used.

### st (modelled in part: `StScreen`, `StTerm`, `Scrollback`)

*State.* The screen and the alternate screen, the history (a ring of lines) and how
far back the user looks, the cursor and two saved ones, the scrolling region, tab
stops, modes, the selection, a mark per row that has to be drawn. *Operations.* One
per control sequence, per key or mouse event that reaches the terminal, and per
window size. *Interactions.* A program writes through the pty; the X event loop
reads the same memory to draw it and changes it for the user. *Hard.* Output, looking
back, selecting and resizing come in any order, and each was written for the
ordinary case of the others; two dozen sequences change text, and each has to mark
rows and mind the selection. *Correct when* what is drawn is what is stored, selected
text stays what was selected, the history is what left the screen, and an
alternate-screen program leaves no trace.

### dmenu and stest (modelled in part: `Dmenu`)

*State.* The input line and cursor, the matching items, the page and the selected one.
*Operations.* Keys that edit or move, clicks, pasted text. *Hard.* Four pointers into a
list that every edit rebuilds; with `-r` an edit is taken back; clicks are located by
sums done again. *Correct when* matches are those of the text, the selected one is on
the page, and a click hits what is drawn under it. stest tests files one by one and
has no state.

### aegix-sync (planned: `AegixSync`)

*State.* A home directory, the profile's copy of it, manifests of files and
packages, rules of what may not be published. *Operations.* Capture, drift report,
verify, deploy. *Hard.* Deletions have to propagate; a failure in the middle leaves
part of a capture behind; what was verified must be what is shipped.

### src-sync and src-gate (planned: `SrcSync`)

*State.* Live repositories, submodules, the parent's index, backups.
*Operations.* The post-commit hook, the sync of one or all, the gate before a push.
*Hard.* The hook runs while a commit is going on in another repository; one step of
several may fail; work in progress must not be overwritten.

### Not modelled

The installers (straight-line scripts of disk and package commands), the tools
that build, test and publish images (drivers of external tools), about 135 desktop
scripts (each a pipeline of commands; the `sb-*` ones are the blocks' commands,
abstracted in `Dwmblocks`), dwm's drawing library (no state but a font cache), and
declarative files. `PROJECT.json` lists them with their sources.

## 2. Modules

| Module | Models | Extends / uses |
|---|---|---|
| `DwmblocksTiming` | `gcd`, the interval, the counter, which block is due | |
| `Dwmblocks` | the status loop and its handlers | extends `DwmblocksTiming`; instantiates `StatusBoard` |
| `StatusBoard` | what dwmblocks promises: a set of posted signals, served one by one | |
| `DwmblocksProofs` | theorems about `Dwmblocks`; theorem: it implements `StatusBoard` | extends `Dwmblocks`, `Induction` |
| `DwmTags` | tag masks, and the circular shifts of `shiftview.c` | |
| `DwmRoutines` | dwm's routines on lists, tags and focus, as functions on its memory | extends `DwmTags` |
| `DwmClients` | dwm as a state machine: one action per handler | extends `DwmRoutines` |
| `DwmRoutinesProofs` | lemmas: what each routine does to a sound memory | extends `DwmClients`, `Induction` |
| `DwmClientsProofs` | theorems about `DwmClients` | extends `DwmRoutinesProofs` |
| `DwmSwallow` | swallowing, between programs, X server and dwm | |
| `DwmSwallowProofs` | theorems about `DwmSwallow` | extends `DwmSwallow`, TLAPS |
| `DwmLayout` | the layouts, the limits of a window and what changes geometry | |
| `DwmLayoutProofs` | theorems about `DwmLayout` | extends `DwmLayout`, `Induction` |
| `StScreen` | st's screen, history and selection: its routines, as functions on its memory | |
| `StTerm` | st as a state machine: one action per sequence and event | extends `StScreen`; instantiates `Scrollback` |
| `Scrollback` | what st's history promises | |
| `StTermProofs` | theorems about `StTerm`; theorem: it implements `Scrollback` | extends `StTerm`, `Induction` |
| `Dmenu` | dmenu | |
| `DmenuProofs` | theorems about `Dmenu` | extends `Dmenu`, `Induction` |
| `Induction` | induction on the natural numbers stated of sets; recursive functions exist | TLAPS |
| `MC...` | the constants of the runs | |

### Dwmblocks

The program is one thread and its signal handlers. A handler runs to its end
before the thread goes on, so its delivery is one action (`SigHandler`,
`ButtonHandler`, `TermHandler`); the thread's own reads and writes of the flags
are steps of their own, with `pc` naming the place: the test of
`sigpending_any` (`SomethingPending`, `NothingPending`), its reset (`ClearAny`),
the test of a slot (`SkipSlot`, `FoundSlot`), its reset (`ClearSlot`), the run of
one block (`Popen`, `ReadLine`, `ReadAgain`, `ReadRest`, `Store`) and the write (`Publish`, `FinishTick`).
`eintr` records whether a handler ran during the current blocking call: only then
does `nanosleep` or `fgets` return early. That a handler before the call does not
count is what the run `dwmblocks_wake` is about.

A block's line need not come at once (`sb-battery` prints its text and its newline
separately). A handler may then interrupt `fgets` after it has taken part of the line:
`fgets` returns NULL, and the loop around it reads on without that part (`lost`). The
block is stored with what is left, a member of `Scraps`, the empty text at least
(`ReadRest`), and is `torn` until its next whole line. If the part taken was all that the
command printed, the next `fgets` meets the end of the output and leaves the buffer as it
is, so that `ReadLine` remains possible. `torn` is a history variable of the properties.

The world outside is `announced`, what each block's command would print, changed
by `Announce` together with the block's signal (`queued`, in the kernel), and by
the commands that clicks fork. `click` is SIGUSR1, of which one instance is
pending at most. `rest` is `tosleep`, `time` the counter, a word of `WordSize`
values read once as unsigned and once as signed (`AsInt`).

`StatusBoard` has no flags, scans or sleeps: posted signals, due blocks, texts, a
screen. `Dwmblocks` maps onto it with `pending` the signals queued or flagged,
`due` the blocks that the current pass has still to read, and `bar` with the line
just read taken as stored. A torn line is a step of its own there (`ReadTorn`).

### DwmRoutines and DwmClients

dwm is one thread without callbacks, so an action is a handler from its first line
to its last. Its routines, though, are shared by all handlers and change the same
lists, in an order that matters (`detachstack` picks a new selection from what is
on the stack at that moment; `setclienttagprop` writes the tags of that moment).
So the memory is one record `wm`, each routine of the C program is an operator on
such records, and a handler composes them in the order of the code. `DwmClients`
adds the guards and the events.

* `clients`, `stack`, `sel`, `tagset`, `seltags`, `mon`, `tags` and the flags are
  the fields of the same name; a tag mask is the set of its bits.
* `tiled` is whether the layout has an arrange function: nothing else of the
  layout decides anything about the lists.
* `info` and `netwm` are the properties on windows that dwm itself reads back.
* `fault` records that a handler left its lists: a NULL dereferenced
  (`FocusDereferencesNull`), a division by zero (`StackPosDivides`), a loop that
  never ends (`ShiftViewHangs`), a list linked to itself (`PushInStack`). In C the
  first two end the process on Linux/x86 and the others do not return; here the
  state has no successor.
* Stale events need no queue: `EnterWindow`, `ButtonPress` and the client's
  messages are enabled for every managed window, shown or not.
* `drag` is the window a mouse loop holds. Such a loop handles MapRequest
  (and Expose and ConfigureRequest, which change no list): so `MapRequest` is the
  one event enabled during a drag.
* `Restart` is `execvp` without `cleanup`: a fresh memory, the properties kept,
  and `scan` managing the mapped windows one by one, transients last.

`DwmTags` has the arithmetic of `shiftview.c`: shifts of 32-bit words where the
shift count is taken modulo 32, as the x86 instruction does with the counts C
leaves undefined, and masks with the scratchpads' bits above the tags.

### DwmSwallow

Three parties: programs map, withdraw and destroy windows; the server keeps their
state and two queues; dwm handles one event at a time. A Client structure is named by
the window it was made for; `win` says which window it stands for now, `swallowing`
whom it holds, as in the code. The queues keep their order but add delay: a request
made by a handler is carried out by `Serve` later, and its UnmapNotify comes behind
whatever the server said before. `XGetWindowAttributes` in `maprequest` waits for
the server, so `HandleMapRequest` waits until `requests` is empty. dwm is told of
every unmap and destroy twice (it selects StructureNotify on the client and
SubstructureNotify on the root), so these handlers apply their routine twice.
`Restart` is the `execvp` at the end of `main`, without `cleanup`: memory, events
and requests under way are lost, the windows stay; `Scan` then looks at the windows
one by one, in the server's order, which is any. `raced` and `orphans` are history
variables that state exceptions (section 7).

### DwmLayout

One monitor. Positions and sizes are pairs, so what C writes once for x and once for
y is said once; `Flow` lays windows along one dimension and is what the bodies of
`tile`, `bstack`, `deck` and the others share. `Resize` is `applysizehints`
followed by `resizeclient`. The memory `g` passes through the operators as in
`DwmRoutines`. `mfact` is counted in twentieths, the steps of its keys. What programs ask for
arrives at any time and for any managed window: geometry, a border of any width (`Borders`,
also while fullscreen), fullscreen, and the properties that make a window a dialog
(`TransientFor`, which arranges, and `UpdateWindowType`, which does not).

### StScreen, StTerm, Scrollback

st is one thread and runs a sequence or an event to its end. `StScreen` has the
routines (`tputc` for a character, `tscrollup`, `tclearregion`, `selnormalize`,
`tresize`...) as operators on the memory `t`; `StTerm` has one action per sequence
with its arguments. `dirty` is the set of marked rows, and `Draw` empties it.
A wide character takes two cells. The history is `hist` with `histi`, as in the code;
`Scrollback` has neither ring nor index but a log of lines, oldest first, and the lines
of the scrolling region: each of its steps takes lines from the top of the region to the end
of the log, with the text they had (`Push`), or one from its bottom (`Pull`), or looks back.
`StTerm` maps to it by reading the ring from `histi` on. How many lines may leave in a step
is bounded by what was printed, which `input` records: a sequence moves one at most, a
character two (it may wrap, and be too wide for what is left of the new line). A character
scrolls before it writes; of one that REP repeats, the later copies may find the
cursor's line written by the earlier ones, so there only the lines above it are followed. `kept` is the main screen as it was
when 1049 left it.

### Dmenu

The memory is one record `m`: the items, the line and its cursor, the matches and the
page. A key or click is an action that passes it through the routines of the code
(`DoMatch`, `DoInsert`, `CalcOffsets`...), which are operators on such records, with
loops as recursive functions. Positions in the list of matches stand for the pointers `curr`, `prev`, `next` and
`sel`, 0 for NULL. Every character is one unit wide, so that what fits on the line
(`calcoffsets`), what is drawn (`Drawn`) and what a click hits (`ItemAt`) are
computed as in the code, in these units. Pasted text comes in an event of its own,
any time after it was asked for.

## 3. Runs

| Run | Asks |
|---|---|
| `dwmblocks_safety` | With handlers landing anywhere: no flag forgotten, no update lost, sleep only after writing, and the whole a refinement of `StatusBoard`. |
| `dwmblocks_liveness` | The last announced change reaches the screen; ticks go on however often the sleep is interrupted. |
| `dwmblocks_wake` | Violation: "wakes statusloop() immediately" does not hold between the test of the flag, in the drain before, and `nanosleep`. |
| `dwm_views` | Views, tags, a scratchpad, urgency and stale pointer events: the selected window is shown, the keyboard is not lost, tags are written on the window. |
| `dwm_windows` | Three windows, hidden or sticky: the walk visits every shown one, push down and up are inverses, ordinary windows get the focus before sticky ones, and the single way dwm can fail. |
| `dwm_hotplug` | A monitor comes and goes under a window and its dialog, with fullscreen, drags and restarts: lists agree, tags change at the user's request only and survive, the state to return to is kept. |
| `dwm_null` | Violation: `focus(NULL)` dereferences NULL where it is to look for sticky windows. |
| `dwm_swallow` | Programs that come and go while requests and events are under way, and restarts: owners agree, mapped is managed, hidden is held, and a terminal comes back. |
| `dwm_swallow_restart` | Violation: after a restart a hidden terminal is not shown again when its program ends. |
| `dwm_layout` | From every layout, every pair of steps: tiled windows settled, apart and inside; fullscreen returns. |
| `st_term` | Sessions of output, looking back, selecting, resizing: drawn is stored, selected text is kept, the history is what left, the alternate screen leaves no trace. |
| `dmenu` | Every line of up to four characters by keys and paste: matches current, selection on the page, `-r` keeps a match, clicks hit what is drawn. |

| Run | Bounds | Enough because |
|---|---|---|
| `dwmblocks_safety` | 2 blocks with signals 1 and 2, the second periodic; 3 slots; `MaxQueued` 1; one click child; clicks on signal 1; word of 2 values; a torn line leaves nothing (`Scraps`) | The drain has a slot before, at and after the one served; a signal can arrive for the block being read, one read earlier and one to come; a third block would repeat one of these. A counter of 2 values reads as -1 every second tick, so passes over all blocks and over the due ones alternate. One queued instance suffices: more of them only repeat the same flagging, and a change that finds one pending waits (the guard of `Announce`). The empty scrap is the one that a filled block shows worst; any other is treated alike by every step. |
| `dwmblocks_liveness` | one block that only its signal refreshes, one periodic every 2 seconds; clicks on a signal no block has | The counter never reads as -1 here, so no tick repairs the first block by accident, and two seconds of sleep can be interrupted before each. |
| `dwm_views` | 2 tags, 1 scratchpad, 2 windows | Every relation of a window's tags to two views: in one, in both, in none, on the scratchpad. |
| `dwm_windows` | 3 windows, 2 tags, 1 monitor | Three windows are the fewest with one passed over between two others, hidden or sticky. |
| `dwm_hotplug` | 2 windows, 2 tags, 2 monitors | The first monitor (which receives) and the last (which goes); two windows so that order in the merged list and dialog-of relations occur. |
| `dwm_swallow` | 1 terminal, 2 programs, 4 maps (`MaxMaps`) | Two programs compete for one terminal; three windows mapped and one of them again while the first exchange is under way. No bound on the queues is needed: what is mapped bounds them. |
| `dwm_layout` | 5 windows (plain, with increments, on a scratchpad, a dialog), 1 to 4 of them tiled, 0 to 3 masters; `left` = 2 steps, 3 for two layouts; a screen of 160 by 48; borders of 0 and 3 | Fewer, as many and more windows than masters; both sides of `centeredmaster`; rests that do not divide. The second step is what meets a state that the first did not settle. The screen is low: four windows in a column just fit, and no longer do once the gaps grow, so that sizes fall to the bar's height and windows would begin beyond the area. A border that dwm does not set itself is asked for tiled, floating and fullscreen windows. |
| `st_term` | 2 columns by 2 rows, by 3, or 1 by 2 with lines in the history; `HISTSIZE` 4; `ops` = 3 to 5 sequences of the groups of a session | A region smaller than the screen, a wrapped line, a wide character and a blank fit in two rows; three have a region of two rows below a wrapped line (`Three`), which a selection of a word may reach over. `Sized` has a selection and a size that changes under it, `Word` a word that goes on from the history to the screen while the user looks back and selects it. The history wraps with four lines and goes back to the start. A session has the groups that its question mixes (`MCStTerm`). |
| `dmenu` | 6 items of 1 to 3 characters, or none; `TextMax` 4; pages of 2 lines or 13 units | Exact, prefix and substring matches, two words, more than two pages, and a line that is full. |

`Keys` (dwm) and `groups` (st) name the keys, events and sequences an instance
enables. They are bounds like the others: with all at once nothing finishes. Each
run enables the groups its question depends on, and between them the runs fire every
action and every disjunct.

`CHECK_DEADLOCK FALSE` stands where the system may stop: dwm when `fault` is set
(`shiftview` may not return, stepping may divide by zero; `dwm_hotplug` has neither
and TLC finds no state without a successor), `DwmLayout` and
`StTerm` when the steps of the bound are done, `Dmenu` when it has exited.

## 4. Fairness

Two specifications assume any. `dwmblocks_liveness` (`Fairness` in `Dwmblocks`):

* `WF(Thread)`: the process is scheduled.
* `SF(SecondPasses)`: time passes in every sleep. Strong, because a signal that is
  handled ends the sleep and so disables the step; the kernel subtracts the time
  that has passed from `tosleep` all the same, so sleeps that are interrupted again
  and again add up. It is the code's `nanosleep(&tosleep, &tosleep)` that makes
  this an assumption about time and not about signals: the mutant
  `SleepInterruptedStartsOver` has the same fairness and starves.
* `SF(ReadLine \/ ReadRest)`: a command that was started prints its line in the end,
  though reads of it are interrupted, and what is left of it is read. The commands are scripts that end; one that hangs
  holds dwmblocks up in the code as well.
* `WF(SigHandler(s))`: a pending signal is delivered.

Nothing is assumed about clicks, their commands, `popen` or the notifiers;
`EventuallyShown` excepts a process that was told to exit and blocks whose
`popen` keeps failing or whose lines keep being torn.

`DwmSwallow`'s `FairSpec` (runs `dwm_swallow`, `dwm_swallow_restart`): `WF(Serve)`, the
server carries out requests; `WF(Handle)`, dwm's `run` takes the next event; `WF` of
`Scan`, its loop goes on. All three are loops that block only for want of input.
Programs and restarts are free: nothing is assumed to end, or to stop restarting dwm.

## 5. What is proved

`DwmblocksProofs`, for any number of blocks, any intervals and signals, any number
of slots, queued instances and children:

* `TypeCorrect`: `Spec => []TypeOK`. `TypeOK` alone is not inductive: that `blk`
  and `scan` are indices of existing elements when they are used depends on where
  the thread is. `TypeInv` adds `ControlOK`, which says so.
* `FlagsNotForgotten`: `Spec => []FlaggedIsFound`, relative to `TypeInv`. A flagged
  slot has the summary flag up, or lies ahead of the scan that lowered it.
* `UpdatesNotLost`: `Spec => []NoLostUpdate`. The property excuses a block of which
  the line is read but not stored when that line is current. That is not inductive:
  a block may change, and change back, while the line waits, and what was read is
  then current or not according to when one looks. `StaleLineIsPosted` strengthens
  it: a line read whole that is not current has a signal behind it, queued or flagged.
  A block whose line was torn is excused until it is read whole again.
* `SleepsOnWrittenScreen`: `Spec => []SleepsPublished`. `WrittenInv` says where else
  the screen is the blocks' text: from one write to the next pass over blocks, where
  the drain owes no write (`updated`); and that the first pass runs on a blank screen.
* `BoardImplemented`: `Spec => ImplementsBoard`, the step simulation behind the
  refinement. A step is judged by what it does to the posted signals, the blocks due
  and the text read, and that needs `PassInv`: outside a pass the index is back at the
  first block (so that a pass starts with all it wants due), the block being read is
  one the pass wants, only signals are flagged, and the slot the drain has just found
  is still flagged when it clears it (so that it serves what was posted). One lemma
  per group of actions: the loop, the drain, the pass, the notifiers, the handlers.

The invariants are proved by one lemma each with one case per action. The
assumptions are those of the modules: `TimingAssumption` (at least one block,
intervals are natural numbers, a word has two values or more) and
`DwmblocksAssumption` (each block's signal has a slot, `Empty` is no block's text
and is what a torn line may leave, at least one signal can be pending). That Euclid's loop over the intervals gives a positive
number is the theorem `IntervalTyped`. The proofs use the real guards and nothing
about the size of the instance.

`DwmSwallowProofs`, for any terminals, any programs, whatever terminal each was started
from, and any number of maps:

* `TypeCorrect`: `Spec => []TypeOK`.
* `OwnersAlwaysAgree`: `Spec => []OwnersAgree`: no two clients stand for one window, a
  swallowed client is on no list and has one owner.

`OwnersAgree` is far from inductive: it does not say which windows an owner and its
program exchange, nor what an event still in the queue will find. The invariant `IInv`
adds two parts. `Good` is about memory: an owner stands for its program's window and
the program keeps the owner's (`HoldsFirm`); any other client stands for its own, or
is a terminal that stands for the window of a program dwm no longer manages
(`StandsFor`), whose own is gone (`Widowed`); no two for one (`Distinct`).
`QueuesAgree` is about what is under way: windows to be scanned are new to dwm, a
terminal's MapRequest comes once and before dwm knows it, what is announced as
destroyed is gone. The last is what makes `unmanage` of a swallowed client safe: it
frees the client whose window the owner then shows alone. One lemma per routine shows
that it keeps a `Good` memory good (`SwallowGood`, `ManageGood`, `UnmanageGood`,
`OnUnmapGood`, `OnDestroyGood`), two lemmas treat the queues (`ServerKeeps`,
`TakeKeeps`), and `NextIInv` has one step per action. Assumptions: terminals and
programs are disjoint, `None` is no window, `StartedFrom` gives a terminal.

* `HiddenAlwaysHeld`: `Spec => []HiddenIsHeld`: with nothing under way, a terminal that is
  hidden is held by a client on dwm's list, or a restart made it an orphan. The invariant
  `EveryTerminalInSight` says it of every moment: a terminal that lives is held, will
  be shown by a request under way (`WillShow`: one to map it and none to hide it behind
  that), or is still to be managed.
* `MappedAlwaysManaged`: `Spec => []MappedAreManaged`: with nothing under way, what is mapped
  is what dwm's clients stand for, unless a window left while a request for it was on its
  way. The invariant `Settling` says of every window what it is between two such moments: one
  that dwm shows is mapped, or a request will map it, or dwm will hear that it left; one
  that is mapped is shown, or is to be scanned, or is about to be hidden. Further parts
  tell the requests and events that may be under way and their order (`In`, `InOrder`):
  at most one unmap that dwm itself asked for, no MapRequest behind the notice that its
  window is gone. `unmapnotify` and `destroynotify` run twice for each, and the second
  finds nothing. `raced` only ever becomes true, and `SettledUnlessRaced` is
  inductive.

The queues enter these two proofs through a few lemmas about appending and taking, and
the routines through what they do to the windows shown (`Joins`, `TakesPlace`, `Departs`,
`GivesBack`, `Survives`); one lemma per step then follows from those facts.

`DwmClientsProofs`, for any windows, monitors, tags, window hints and groups of keys:

* `TypeCorrect`, `ListsAlwaysAgree`, `TagsAlwaysRemembered`: `Spec => []TypeOK`,
  `[]ListsAgree`, `[]TagsRemembered`. A managed window is once on the client list and once
  on the focus stack of one monitor, the one it names, and a selection is on the list
  it belongs to; the tags of a managed window are written on it.
* `OldStateAlwaysKept`, `TagsAlwaysFollow`: the action properties `OldStateKept` (the state
  a fullscreen window is to return to survives every other step) and
  `TagsFollowTheUser` (a step changes the tags of the selected or the dragged window only, and
  a restart takes them from the window).
* `FocusNeverLost`: `[]FocusNotLost` if no monitor is disconnected, and
  `SelectedAlwaysShown`: `[]SelectedIsShown` if besides no window is made sticky. Section 7
  says what the two keys do.
* `StickyAlwaysYields`: `StickyYieldsOnView` without the scratchpad keys, which move the focus
  to a sticky scratchpad because that is what they are for.
* `FailsOnlyWhenUnseen`: `FailsOnlyUnseen` on one monitor (on two, `focus` does read a missing
  selection: run `DwmNull`) and without the keys of `shiftview` (whose loop does not end while
  a scratchpad alone is shown). It says two things no guard in the code says: `focus` is never
  called with no window selected and a sticky one on the stack, and the search of `pushstack`
  always ends at another window, so that none becomes its own successor.
* `PushAlwaysReturns`: `[]PushReturns`: moving a window down the list and up again shows the
  windows of the view in the order they had, and moves no other past another.
* `WalkAlwaysVisitsAll`: `[]WalkVisitsAll`: the key that selects the next window, pressed as often
  as windows are shown, selects each of them once and ends where it began.

The invariant `IInv` is that the memory is sound (`Sound`: types, `Listed`, `Noted`), that a
mouse loop holds a managed window and no scan goes on meanwhile (`DragHeld`: without it,
the loop's end would write to a client that is gone, and a window being dragged could be
managed again), and that the windows a restarted dwm has yet to manage are each on its list
once and on no monitor (`ScanApart`: without it `manage` would put one on a list twice).
`DwmRoutinesProofs` has a lemma for each routine (`Attach`, `Detach`, `Focus`, `Manage`,
`Unmanage`, `SendMon`, `UpdateGeom`...) that says what it keeps and which windows' tags it may
touch; `DwmClientsProofs` one for each group of handlers. `StickyAlwaysYields` and `FailsOnlyWhenUnseen` add
what a routine does to the views and how it may fail (`Yields`, `FailsUnseen`, gathered in `Careful`):
from a memory that is `Safe` (a window is selected, or no sticky window is on the stack) `focus`
reads no missing selection, and `KeyboardOk`, the invariant behind `FocusNeverLost`, makes every
memory that has not failed safe. For `pushstack`, `PlaceOfRank` is the counting argument: among
the shown windows other than the selected one there is one of every rank below their number,
and `stackpos` asks for such a rank. The last two theorems compose a handler with itself, and
need no more of the memory than that it is `Sound`: what the order of the list is to the user
is each shown window's rank (`ShownBefore`), a step of `focusstack` adds one to it round the
ring (`WalkStep`, and `WalkRanks` for any number of steps), and `pushstack` puts the window
where a given number of the others are ahead (`PushedToPlace`), which is one step round the ring
from where it was. Assumptions: `ClientAssumption`, `HintsAssumption`, `TagCounts` and `KeysAssumption`, which type the constants.

`DwmLayoutProofs`, for any windows with any hints, any monitor, bar, border and gaps, and any
requests:

* `TypeCorrect`: `Spec => []TypeOK`. What is selected is shown; a fullscreen window floats; no size is negative, and one is nothing only if the program asks for steps larger than
  the bar and for no base and no least size (`SizesOf`: `applysizehints` rounds the bar's height
  down to no step).
* `FullscreenAlwaysReturns`: the action property `FullscreenReturns`.
* `TiledAlwaysSettled`: the action property `TiledSettled`, for all nine layouts, with the three
  steps it excepts (section 7).

Of a routine the proofs say which windows it moves: `Keeps(m, n, S)` is that the memories differ in
the geometry of windows of `S` at most, and that what a fullscreen window is to return to is left
alone. It composes (`KeepsThen`), so `ResizeKeeps` gives it for the loops (`FlowKeeps`,
`PileKeeps`, `FibonacciKeeps`, by induction over how far the loop has run), these for the nine layouts,
and those for `arrange`. A floating window is moved by `Show` alone, and `ShowAlike` says that where
it goes depends on its own client, the layout's kind and the bar and on nothing else: so
`ArrangeKeeps` has a floating window where `Show` takes it, whatever was laid out beside it.

`TiledAlwaysSettled` is about a layout run twice, so its lemmas are about two runs side by side.
`Couple(k, l, m, n, S)` says that the runs began in memories that differ in positions and sizes
only (`Like`), `k` and `l`, have come to `m` and `n`, and have moved the windows of `S` alike: to
equal sizes, and to equal places but for what `applysizehints` puts at an edge (`Follows`). A layout
reads sizes only of windows it has moved already (the room that is left to the next), so
each `resize` takes a couple to a couple, the loops do by induction over how far they have run,
and `ArrangeMonCouple` has it for the nine layouts. `ArrangeSettles` follows: what `arrange`
leaves is `Settled`. The steps that do not arrange change nothing that `Tiled`, the layout or a tiled
window's geometry depend on (`SettledStays`), or leave no arranging layout (`LooseSettled`).

`IInv` is that the memory is `MemoryOK` (typed; no window twice on the list; what is selected is
shown, and where windows are shown one is selected; a window off the list is not fullscreen) and that what the history variable `before`
remembers of a fullscreen window is what its client has saved. A step is judged by `StepOK`: a window
that stays fullscreen keeps what is saved, one that becomes so saves what it was, one that stops is where
`Show` takes it from there. Most steps are `Calm`, they start and end no fullscreen; the others
are `setfullscreen` and `manage`. Assumptions: `SizesAssumption`, `WindowAssumption`, `StartsAssumption`
and `RequestsAssumption`, which type the constants; the monitor, the bar and what a program asks for
are not empty.

`DmenuProofs`, for any items, texts, widths and page sizes:

* `TypeCorrect`, `SelectedOnPage`, `MatchesAlwaysCurrent`, `MatchAlwaysLeft`,
  `ClicksFindDrawn`: the invariants `TypeOK`, `SelOnPage`, `MatchesAreCurrent`,
  `RejectKeepsMatch` and `ClickFindsDrawn` of the run.

`IInv` is that the memory is `Good`: the line fits and its cursor is in it (`LineOK`); the
matches are those of the line, in three groups, each in the order of the input (`Listed`);
the page is what `calcoffsets` makes of `curr` (`Page`: `next` is the first item that does
not fit, the items from `prev` up to `curr` fit, and `prev` lies before `curr` unless that is
the first), which `SelectedOnPage` needs since paging moves `curr` to `next` or `prev`; the
selected item is on it (`SelShown`); with `-r` something matches (`Kept`: typing and
deleting are taken back; the keys that are not, Control-k and Tab, cannot lose the last
match: `BeginningHeld`, `OwnWordsHeld`). `ClicksFindDrawn` compares the widths that drawing
and `buttonpress` add up: the sums grow along the page, so at most one item covers a pixel.
Assumptions: `TextAssumption` and `RoomAssumption`.

`StTermProofs`, for any size of the window and of the history, any text and any number of
sequences and events:

* `TypeCorrect` and `OriginAlwaysHolds`: `Spec => []TypeOK`, `Spec => []OriginHoldsCursor`.
* `EpisodeAlwaysRestores`: the action property `EpisodeRestoresScreen`: 1049 gives the main
  screen back as it was.
* `ResizeAlwaysKeeps`: the action property `ResizeKeepsCursorLine`.
* `HistoryIsScrollback`: `Spec => ImplementsScrollback`, the refinement of `Scrollback`.

The invariant `TermInv` has three parts. `Sound` types the memory, with more than `TypeOK`
says: the glyphs of every line of both screens and of the history, the cursors and the
selection; the loops that scroll, shift and snap need to know that what they read is there.
`OriginHolds` is inductive with it, since `tmoveto` is what every other routine moves the
cursor with, `tsetscroll` is followed by it and `tresize` opens the region first.
`EpisodeHolds` says where the main screen and its cursor are while 1049 is in force: in
`alt` and `saved[FALSE]`; a step that is not a change of screen, a reset or a resize leaves
both alone, among them DECSC, which then writes to the other slot (`Aside`).

Forty actions share the routines, so each routine is proved once to be in one of a few
relations between the memory before and after, which compose (`EditsTwice`,
`WritesTwice`, `KeepsTwice`, `PushedTwice`): see the head of the module. Loops (`Printed`,
`Exchange`, `SnapWord`, `TPutTab`, `Aligned`) are recursive functions, and a fact about one is an
induction over how far it has run (`StaysIn`).

The refinement is proved on a tape: the texts of the history from its oldest line on, and
after them those of the scrolling region (`Tape`). A line that leaves at the top moves the tape by
one place (`Moves`): `tscrollup` exchanges the region's lines one by one, and `ExchangeShifts` is
the induction that this brings each row up by one. Moves add up (`MovesTwice`) as long as
what is printed between them writes no row that is still to leave: the first character
scrolls before it writes (`Fed`, the whole region is known), the later ones of a REP write only
the cursor's row, which goes up no faster than the tape (`Pushed`). What the history then holds
(`Records`) is what was `k` places further on. Keys that are echoed return to the bottom
first; `Pulled` is RI at the top. `StepScrolls` maps these to `Look`, `Push` and `Pull`.
`tresize` widens the lines of the history, and their text stays the same because what is added
is blank (`WiderText`). Assumptions: `HistoryAssumption` (there is a history), the ones on
`TabSpaces`, and `SessionsAssumption`, which types the constants.

`Induction` states induction on the natural numbers of a set instead of a predicate (the
set of the numbers for which a claim holds), since the library's theorems take an
operator as parameter. It rests on the library's well-foundedness of the natural numbers.
`UnfoldsExists` is the existence of functions defined by recursion, from which the lemmas
about loops written as `f[n \in Nat]` start.

## 6. What is only model-checked

* Liveness and anything under fairness (`EventuallyShown`, `TicksKeepComing`,
  `TerminalComesBack`), outside the prover's reach.
* `DwmLayout`: `TiledFit`, which is about sums over the tiled windows, arithmetic with
  products and quotients that the solvers decide poorly.
* `StTerm`: `EveryChangeIsDrawn`, `SelectedTextKept` and `LookingMovesSelection`. They compare
  cells and highlight before and after, so that each routine would need to be described
  cell by cell and together with the selection's normalized corners; the relations of
  `StTermProofs` say only which parts of the memory may change.

## 7. What the checks found

Three places where the code does something else than it says, each a run that
TLC violates (`PROJECT.json`, "findings"): the sleep that a signal does not cut
short, the NULL dereference of `focus`, and the terminal that a restart of dwm
leaves hidden for good.

Some properties had to be narrowed to be true; the narrower statement is the
result:

* `NoLostUpdate`, `EventuallyShown` and `StatusBoard` except a block whose own line was torn. The
  comment in `getcmd` (`dwmblocks.c:120-124`) says the loop "keeps trying to read if it got
  nothing and the error was an interrupt"; `fgets` may have got something and returns NULL all
  the same, and then the retry reads the rest alone (`dwmblocks.c:127-131`): the block shows
  a scrap, or nothing but its icon, until its next run. No other block is concerned.
* `WakesImmediately` is asked of sleeps entered after a drain. The first sleep, after
  `getcmds(-1)`, is entered without any, and a signal during startup waits for it to end too.
* `TagsRemembered` is about tags. The monitor that `setclienttagprop` notes with them is out of date
  after a disconnection: `updategeom` (`dwm.c:2351-2358`) moves the clients and writes no property.
* `SelectedIsShown` holds for instances without `togglesticky`. That key can hide
  the selected window (a sticky window on another tag) and leaves the focus there.
  `FailsOnlyUnseen` says that on one monitor, without the loop of `shiftview`, this is
  the only way to make dwm fail: from there `focusstack` divides by the number of shown
  windows, none.
* `FocusNotLost` is checked without disconnections. When the selected monitor goes,
  had no windows, and the root window keeps its size, `updategeom` selects the first
  monitor but reports no change, and no `focus(NULL)` follows.
* `MappedAreManaged` excepts behaviours in which a window left while dwm's request for
  it was on its way (`raced`): dwm may then keep a client whose window is
  withdrawn, or unmap a terminal whose program has gone. `HiddenIsHeld` and
  `TerminalComesBack` except terminals hidden at a restart (`orphans`).
* `TiledSettled` excepts three steps that do not arrange: a border request
  (`configurerequest`), going fullscreen, which leaves a hole among the tiled
  windows, and a window whose type becomes that of a dialog, which `updatewindowtype` makes
  float where it is (`dwm.c:2493-2494`; for `WM_TRANSIENT_FOR` `propertynotify` does arrange). It also lets the next arrange put a window at an edge: `applysizehints`
  places a window that would begin beyond the window area at that edge less the width it
  has *before* the new size is set (`dwm.c:424`), so where the gaps leave no room (four
  windows in a column of the instance once the gaps have grown) a window can move when
  the same layout is arranged twice. Sizes do not, and with room (the same windows on
  160 by 90) nothing moves. `TiledFit` excepts `deck` with no master: `MIN(n, nmaster) -
  1` is then -1 and the stack reaches one inner gap out of the area
  (`vanitygaps.c:404`). It also asks for windows more than twice as wide and high as their
  border, which a program may have set to any width: `fibonacci` divides what is left only if its
  half is more than two borders (`vanitygaps.c:452-453`), and lays the next windows over one another
  if not.
* `FullscreenReturns` excepts a window that its program configured while it was
  fullscreen (`configurerequest` overwrites the geometry to return to). A window that comes
  ends the selected window's fullscreen and then arranges once more for itself, so that the limits
  are set twice; the second time can move the window again, since the largest size a program
  allows need not be one of its steps.
* `SelectedTextKept` excepts what `Blind` lists: shifts of a line (DCH, ICH, insert
  mode), SUB, DECALN, REP, the second cell of a wide character, a character that
  wraps (`tputc` looks at the selection where the cursor was), and a change of size, which
  slides the lines and leaves the selection where it was (`st.c:2636-2643`). They change
  selected text and leave the highlight. It is about selections that the window shows: one made on
  the other screen is hidden but still moved when this one scrolls (`selscroll` does not look
  at `sel.alt`), and so stands for other text when its screen comes back.
* Selections of words or lines are left out of `SelectedTextKept` and `LookingMovesSelection`:
  `selnormalize` looks for the ends of the word again whenever the selection moves, and follows a
  wrapped line into rows that were not selected, those of the history too (`st.c:539-586`).
  In `EveryChangeIsDrawn` their highlight is excepted but not their text (`MaySnapFurther`):
  `selscroll` finds a word that goes on above the region, and the rows there, which it then
  highlights, are not marked.
* `EveryChangeIsDrawn` and `SelectedTextKept` are about a window that shows the bottom
  (`scr = 0`); while the user looks back, rows of the screen are used as rows of the
  window in several places. Both except a selection whose type has just changed:
  `selextend` normalizes first and sets the type afterwards (`st.c:485`).
* `LookingMovesSelection` needs a region of the whole screen: `selscroll` is written for
  lines that leave the region.
* `EpisodeRestoresScreen` leaves the cursor out in origin mode, in which it is moved
  into a region that may have changed. A reset, 47, 1047 and a change of size end what it
  follows: after them it says nothing until 1049 is used again.
* `ClickFindsDrawn` leaves out the first pixel of each item, which belongs to what is
  left of it or above.
* `Scrollback`'s `Push` says nothing of lines that one REP both writes and scrolls away. `Push` and `Pull` say what the ring really does: reading on at the limit
  stays one line below it, and RI at the top forgets the history's newest line.

Two loops without an end are part of the models as states without successor, since no
document says what should happen: `shiftview` when the view holds only scratchpads
while a window has an ordinary tag (`ShiftViewHangs`), and Control-w of dmenu with
`-r` when a deletion is refused (`KeyDeleteWord`).

## 8. Left out of the modelled parts, and why

* dwmblocks: byte lengths of the status text, and what `printf` does with it: no
  property of the loop depends on them. The allocation and forking inside
  `buttonhandler` (not async-signal-safe): the hazard is in the C library's locks.
* `DwmClients`: stacking order on the screen, drawing, grabs of keys and buttons;
  `killclient` (asks the client; what follows is DestroyNotify, an action), `cleanup`
  and `main`'s end, `xerror`. Its `manage` and `unmanage` take the branches without
  swallowing, which `DwmSwallow` has on its own.
* `DwmSwallow`: how `termforwin` finds the terminal (process tables); `swallowfloating`
  and rules are `NeverSwallowed`; a terminal started from a terminal, which is not
  swallowed; monitors.
* `DwmLayout`: layouts that `config.h` leaves out; aspect ratios; a second monitor; hints that a
  program changes later (`updatesizehints`, which does not arrange): they are constants.
  `mfact` is a float in the code: its last bit is left out.
* `StTerm`: the bytes of sequences and of UTF-8, attributes and colours, the pty
  (`ttyread`, `ttywrite`), drawing, fonts, child processes. When a selection or a view
  reaches rows past the last one, the code reads memory that is not the screen's; it
  reads as blank here.
* `Dmenu`: X setup, drawing, widths of glyphs, `-P`. A prompt and an input so wide that
  no room is left for items (`RoomAssumption`) is left out.

### Not modelled

* dwm's status text and clicks on it: widths of drawn text and the answer of `pidof`
  decide; planned.
* `aegix-sync` and `src-sync`: shell scripts whose state is files, git repositories and
  what `rsync` and `git` do with them; planned, with those commands modelled by their
  effects.
* Installers, image and release tools, desktop scripts, drawing library, declarative
  files: see the inventory.

## 9. Plan

1. `StatusClicks`: `updatestatus`, the status part of `buttonpress` and
   `sigdwmblocks`, composed with the click handler of `Dwmblocks`: a click reaches
   the block that is drawn under the pointer, or none.
2. `SrcSync`: the hook, `sync_repo` with a failure after each of its steps, the
   backup of work in progress; commits in the live repository interleaved.
   Abstract specification: the submodule is always at some commit of the live
   repository, and nothing uncommitted is lost.
3. `AegixSync`: capture, sanitising and verification over small sets of paths.

Theorem next: `EveryChangeIsDrawn` for `StTerm`.
