--------------------------- MODULE DwmClientsProofs ---------------------------
(***************************************************************************)
(* The properties of DwmClients as theorems of its specification, for all  *)
(* windows, monitors, tags and window hints and for any group of keys.     *)
(*                                                                         *)
(* The inductive invariant is that the memory is sound (DwmRoutinesProofs: *)
(* types, lists, selections, notes on the windows), that a mouse loop      *)
(* holds a managed window and no scan is going on meanwhile, and that the  *)
(* windows a restarted dwm has yet to manage are each on its list once and *)
(* on no monitor.  The lemmas of DwmRoutinesProofs say what each routine   *)
(* does to it; there is one lemma here for each group of actions.          *)
(***************************************************************************)
EXTENDS DwmRoutinesProofs

DragHeld ==
  /\ drag \in Client \cup {NoClient}
  /\ drag # NoClient => drag \in Managed(wm) /\ scanning = <<>>

ScanApart ==
  /\ scanning \in Seq(Client) /\ NoRepeats(scanning)
  /\ ToSet(scanning) \cap Managed(wm) = {}

IInv == Sound(wm) /\ DragHeld /\ ScanApart

\* What TagsFollowTheUser says of a step from w to v, with d being dragged.
TagsKept(w, v, d) ==
  /\ \A c \in Managed(w) \cap Managed(v) : v.tags[c] # w.tags[c] => c \in {Selected(w), d}
  /\ \A c \in Managed(v) \ Managed(w) : w.info[c] # NoInfo => v.tags[c] = w.info[c].tags

\* A step keeps the invariant, old states and tags.
Keeps == IInv' /\ OldKept(wm, wm') /\ TagsKept(wm, wm', drag)

------------------------------------------------------------------------------
(* Steps of a kind.                                                         *)

\* A handler that manages the same windows afterwards.
LEMMA HandledKeeps ==
  ASSUME IInv, NEW X \in SUBSET {Selected(wm), drag}, Handles(wm, wm', X),
         UNCHANGED <<scanning, drag>>
  PROVE  Keeps
<1>1. Sound(wm') /\ Managed(wm') = Managed(wm) /\ OldKept(wm, wm')
  BY DEF Handles
<1>2. IInv'
  BY <1>1 DEF IInv, DragHeld, ScanApart
<1>3. TagsKept(wm, wm', drag)
  BY <1>1 DEF Handles, TagsKept
<1> QED BY <1>1, <1>2, <1>3 DEF Keeps

\* A handler that does nothing.
LEMMA StutterKeeps ==
  ASSUME IInv, UNCHANGED vars
  PROVE  Keeps /\ FocusStays(wm, wm')
<1>1. Sound(wm) /\ wm' = wm /\ UNCHANGED <<scanning, drag>>
  BY DEF IInv, vars
<1>2. Handles(wm, wm', {}) /\ FocusStays(wm, wm')
  BY <1>1, HandlesNothing
<1> QED BY <1>1, <1>2, HandledKeeps

------------------------------------------------------------------------------
(* Windows.                                                                 *)

LEMMA MapRequestKeeps ==
  ASSUME IInv, NEW c \in Client, MapRequest(c)
  PROVE  Keeps /\ FocusStays(wm, wm')
<1>1. PICK urgent \in BOOLEAN : wm' = Manage(wm, c, urgent)
  BY DEF MapRequest, Handle, AsksAttention
<1>2. /\ Sound(wm) /\ c \in Client \ Managed(wm) /\ scanning = <<>>
      /\ UNCHANGED <<scanning, drag>>
  BY DEF IInv, MapRequest, Handle, Running
<1>3. /\ Sound(wm') /\ Managed(wm') = Managed(wm) \cup {c}
      /\ OldKept(wm, wm') /\ FocusOk(wm')
      /\ \A d \in Managed(wm) : wm'.tags[d] = wm.tags[d]
      /\ wm.info[c] # NoInfo => wm'.tags[c] = wm.info[c].tags
  BY <1>1, <1>2, ManageKeeps
<1>4. IInv'
  BY <1>2, <1>3 DEF IInv, DragHeld, ScanApart, ToSet
<1>5. TagsKept(wm, wm', drag)
  BY <1>3 DEF TagsKept
<1>6. FocusStays(wm, wm')
  BY <1>3 DEF FocusStays, FocusOk, FocusRight, KeyboardOk
<1> QED BY <1>3, <1>4, <1>5, <1>6 DEF Keeps

\* What both ways of losing a window do before anything else.
LEMMA UnmanagedKeeps ==
  ASSUME IInv, NEW c \in Managed(wm), Idle,
         Sound(wm'), Managed(wm') = Managed(wm) \ {c}, OldKept(wm, wm'),
         \A d \in Managed(wm') : wm'.tags[d] = wm.tags[d],
         UNCHANGED <<scanning, drag>>
  PROVE  Keeps
<1>1. IInv'
  BY DEF IInv, DragHeld, ScanApart, Idle, Running
<1>2. TagsKept(wm, wm', drag)
  BY DEF TagsKept
<1> QED BY <1>1, <1>2 DEF Keeps

LEMMA UnmapNotifyKeeps ==
  ASSUME IInv, NEW c \in Client, UnmapNotify(c)
  PROVE  Keeps /\ FocusStays(wm, wm')
<1>1. /\ Sound(wm) /\ Idle /\ c \in Managed(wm)
      /\ wm' = Unmanage(wm, c) /\ UNCHANGED <<scanning, drag>>
  BY DEF IInv, UnmapNotify, Handle
<1>2. /\ Sound(wm') /\ Managed(wm') = Managed(wm) \ {c}
      /\ OldKept(wm, wm') /\ FocusOk(wm')
      /\ \A d \in Managed(wm') : wm'.tags[d] = wm.tags[d]
  BY <1>1, UnmanageKeeps
<1>3. FocusStays(wm, wm')
  BY <1>2 DEF FocusStays, FocusOk, FocusRight, KeyboardOk
<1> QED BY <1>1, <1>2, <1>3, UnmanagedKeeps

LEMMA DestroyNotifyKeeps ==
  ASSUME IInv, NEW c \in Client, DestroyNotify(c)
  PROVE  Keeps /\ FocusStays(wm, wm')
<1> DEFINE u == Unmanage(wm, c)
           info == [u.info EXCEPT ![c] = NoInfo]
           netwm == u.netwm \ {c}
<1>1. /\ Sound(wm) /\ Idle /\ c \in Managed(wm)
      /\ wm' = [u EXCEPT !.info = info, !.netwm = netwm]
      /\ UNCHANGED <<scanning, drag>>
  BY DEF IInv, DestroyNotify, Handle
<1>2. /\ Sound(u) /\ Managed(u) = Managed(wm) \ {c}
      /\ OldKept(wm, u) /\ FocusOk(u)
      /\ \A d \in Managed(u) : u.tags[d] = wm.tags[d]
  BY <1>1, UnmanageKeeps
<1> HIDE DEF u
<1>3. u \in Memories /\ u.selmon \in MonsOf(u) /\ (\A m \in Mon : SelOn(u, m))
      /\ u.isfullscreen \subseteq Managed(u)
  BY <1>2 DEF Sound, Listed, Noted
<1>4. /\ info \in [Client -> [tags : SUBSET TAGMASK, num : Mon \cup {-1}]]
      /\ netwm \in SUBSET Client
      /\ \A d \in Managed(u) : info[d] = u.info[d]
  <2>1. Managed(u) \subseteq Client
    BY <1>2, InRange DEF Sound
  <2> QED BY <1>2, <1>3, <2>1 DEF Memories, NoInfo
<1> HIDE DEF info, netwm
<1>5. wm' \in Memories
  BY <1>1, <1>3, <1>4 DEF Memories
<1>6. /\ wm'.selmon = u.selmon /\ wm'.nmons = u.nmons /\ wm'.clients = u.clients /\ wm'.stack = u.stack
      /\ wm'.sel = u.sel /\ wm'.mon = u.mon /\ wm'.tags = u.tags
      /\ wm'.tagset = u.tagset /\ wm'.seltags = u.seltags
      /\ wm'.issticky = u.issticky /\ wm'.isfullscreen = u.isfullscreen
      /\ wm'.oldstate = u.oldstate /\ wm'.info = info /\ wm'.fault = u.fault
  BY <1>1, <1>3 DEF Memories
<1>7. Sound(wm') /\ Managed(wm') = Managed(u)
  <2>1. \A m \in Mon : SelOn(wm', m)
    BY <1>3, <1>6 DEF SelOn
  <2>2. wm'.selmon \in MonsOf(u)
    BY <1>3, <1>6
  <2> QED BY <1>2, <1>3, <1>4, <1>5, <1>6, <2>1, <2>2, SoundFrame
<1>8. FocusOk(wm')
  BY <1>2, <1>6 DEF FocusOk, FocusRight, Failed, Selected, Shown, IsVisible, View
<1>9. OldKept(wm, wm') /\ (\A d \in Managed(wm') : wm'.tags[d] = wm.tags[d])
  BY <1>2, <1>6, <1>7 DEF OldKept
<1>10. FocusStays(wm, wm')
  BY <1>8 DEF FocusStays, FocusOk, FocusRight, KeyboardOk
<1> QED BY <1>1, <1>2, <1>7, <1>9, <1>10, UnmanagedKeeps

\* A handler that changes flags of windows alone, all of them managed.
LEMMA SameWindowsKeeps ==
  ASSUME IInv, wm' \in Memories, SameWindows(wm, wm'), OldKept(wm, wm'),
         wm'.isfullscreen \subseteq Managed(wm), UNCHANGED <<scanning, drag>>
  PROVE  Keeps /\ (wm'.issticky = wm.issticky => FocusStays(wm, wm'))
<1>1. Handles(wm, wm', {})
  BY SameWindowsSound DEF IInv
<1>2. wm'.issticky = wm.issticky => FocusStays(wm, wm')
  BY SameWindowsFocus
<1> QED BY <1>1, <1>2, HandledKeeps

\* A step that changes which windows one flag is set for, and nothing else.
Marks(S) ==
  \/ wm' = [wm EXCEPT !.isurgent = S]
  \/ wm' = [wm EXCEPT !.isfloating = S]
  \/ wm' = [wm EXCEPT !.netwm = S]
  \/ wm' = [wm EXCEPT !.issticky = S]

LEMMA MarksKeeps ==
  ASSUME IInv, NEW S \in SUBSET Client, Marks(S), UNCHANGED <<scanning, drag>>
  PROVE  Keeps /\ (wm'.issticky = wm.issticky => FocusStays(wm, wm'))
<1>1. wm \in Memories /\ wm.isfullscreen \subseteq Managed(wm)
  BY DEF IInv, Sound, Listed, Noted
<1>2. wm' \in Memories /\ SameWindows(wm, wm') /\ OldKept(wm, wm')
      /\ wm'.isfullscreen = wm.isfullscreen
  <2>1. CASE wm' = [wm EXCEPT !.isurgent = S]
    BY <1>1, <2>1 DEF Memories, SameWindows, OldKept
  <2>2. CASE wm' = [wm EXCEPT !.isfloating = S]
    BY <1>1, <2>2 DEF Memories, SameWindows, OldKept
  <2>3. CASE wm' = [wm EXCEPT !.netwm = S]
    BY <1>1, <2>3 DEF Memories, SameWindows, OldKept
  <2>4. CASE wm' = [wm EXCEPT !.issticky = S]
    BY <1>1, <2>4 DEF Memories, SameWindows, OldKept
  <2> QED BY <2>1, <2>2, <2>3, <2>4 DEF Marks
<1> QED BY <1>1, <1>2, SameWindowsKeeps

LEMMA FullscreenKeeps ==
  ASSUME IInv, NEW c \in Managed(wm), NEW on \in BOOLEAN,
         wm' = SetFullscreen(wm, c, on), UNCHANGED <<scanning, drag>>
  PROVE  Keeps /\ FocusStays(wm, wm')
<1>1. wm \in Memories /\ wm.isfullscreen \subseteq Managed(wm) /\ Listed(wm)
  BY DEF IInv, Sound, Listed, Noted
<1>2. c \in Client
  BY <1>1, InRange
<1>3. /\ wm' \in Memories /\ SameWindows(wm, wm') /\ wm'.issticky = wm.issticky
      /\ wm'.isfullscreen \subseteq wm.isfullscreen \cup {c}
      /\ OldKept(wm, wm')
  BY <1>1, <1>2, SetFullscreenKeeps
<1> QED BY <1>1, <1>3, SameWindowsKeeps

LEMMA WindowTypeKeeps ==
  ASSUME IInv, NEW c \in Managed(wm),
         wm' = UpdateWindowType(wm, c), UNCHANGED <<scanning, drag>>
  PROVE  Keeps /\ FocusStays(wm, wm')
<1>1. wm \in Memories /\ wm.isfullscreen \subseteq Managed(wm) /\ Listed(wm)
  BY DEF IInv, Sound, Listed, Noted
<1>2. c \in Client
  BY <1>1, InRange
<1>3. /\ wm' \in Memories /\ SameWindows(wm, wm') /\ wm'.issticky = wm.issticky
      /\ wm'.isfullscreen \subseteq wm.isfullscreen \cup {c}
      /\ OldKept(wm, wm')
  BY <1>1, <1>2, UpdateWindowTypeKeeps
<1> QED BY <1>1, <1>3, SameWindowsKeeps

\* Everything the X server tells dwm about window c.
LEMMA WindowEventKeeps ==
  ASSUME IInv, NEW c \in Client, WindowEvent(c)
  PROVE  Keeps /\ FocusStays(wm, wm')
<1>1. CASE MapRequest(c)
  BY <1>1, MapRequestKeeps
<1>2. CASE UnmapNotify(c)
  BY <1>2, UnmapNotifyKeeps
<1>3. CASE DestroyNotify(c)
  BY <1>3, DestroyNotifyKeeps
<1>4. wm \in Memories
  BY DEF IInv, Sound, Listed
<1>5. /\ wm.netwm \cup {c} \in SUBSET Client /\ wm.isurgent \cup {c} \in SUBSET Client
      /\ wm.isurgent \ {c} \in SUBSET Client /\ wm.isfloating \cup {c} \in SUBSET Client
  BY <1>4 DEF Memories
<1>6. CASE \/ ClientStartsFullscreen(c) \/ ClientMessageActive(c)
           \/ (\E urgent \in BOOLEAN : PropertyHints(c, urgent))
           \/ PropertyTransient(c)
  <2>1. /\ \E S \in SUBSET Client : Marks(S)
        /\ wm'.issticky = wm.issticky /\ UNCHANGED <<scanning, drag>>
    <3>1. CASE ClientStartsFullscreen(c)
      BY <1>4, <1>5, <3>1 DEF ClientStartsFullscreen, Handle, Marks, Memories
    <3>2. CASE ClientMessageActive(c)
      BY <1>4, <1>5, <3>2 DEF ClientMessageActive, Handle, Marks, Memories
    <3>3. CASE \E urgent \in BOOLEAN : PropertyHints(c, urgent)
      BY <1>4, <1>5, <3>3 DEF PropertyHints, Handle, Flag, Marks, Memories
    <3>4. CASE PropertyTransient(c)
      BY <1>4, <1>5, <3>4 DEF PropertyTransient, Handle, Marks, Memories
    <3> QED BY <1>6, <3>1, <3>2, <3>3, <3>4
  <2> QED BY <2>1, MarksKeeps
<1>7. CASE \E action \in {"add", "remove", "toggle"} : ClientMessageState(c, action)
  BY <1>7, FullscreenKeeps DEF ClientMessageState, Handle
<1>8. CASE PropertyWindowType(c)
  BY <1>8, WindowTypeKeeps DEF PropertyWindowType, Handle
<1> QED BY <1>1, <1>2, <1>3, <1>6, <1>7, <1>8 DEF WindowEvent

------------------------------------------------------------------------------
(* The pointer and the mouse loops.                                         *)

LEMMA OnMonitorHandles ==
  ASSUME IInv, NEW m \in MonsOf(wm)
  PROVE  Handles(wm, OnMonitor(m), {})
<1> DEFINE v == OnMonitor(m)
<1>1. Sound(wm) /\ wm \in Memories /\ MonsOf(wm) \subseteq Mon
      /\ wm.isfullscreen \subseteq Managed(wm) /\ (\A k \in Mon : SelOn(wm, k))
  BY InRange DEF IInv, Sound, Listed, Noted
<1>2. /\ v \in Memories /\ v.selmon = m /\ v.nmons = wm.nmons
      /\ v.clients = wm.clients /\ v.stack = wm.stack /\ v.sel = wm.sel
      /\ v.mon = wm.mon /\ v.tags = wm.tags /\ v.info = wm.info
      /\ v.isfullscreen = wm.isfullscreen /\ v.oldstate = wm.oldstate
  BY <1>1 DEF OnMonitor, Memories
<1> HIDE DEF v
<1>3. \A k \in Mon : SelOn(v, k)
  BY <1>1, <1>2 DEF SelOn
<1>4. Sound(v) /\ Managed(v) = Managed(wm)
  BY <1>1, <1>2, <1>3, SoundFrame
<1> QED BY <1>2, <1>4 DEF v, Handles, OldKept

\* A press on a window: its monitor and then the window get the focus.
LEMMA PressedHandles ==
  ASSUME IInv, NEW c \in Managed(wm)
  PROVE  Handles(wm, Pressed(c), {}) /\ FocusStays(wm, Pressed(c))
<1> DEFINE u == IF wm.mon[c] # wm.selmon THEN Refocus(OnMonitor(wm.mon[c])) ELSE wm
<1>1. wm.mon[c] \in MonsOf(wm) /\ Sound(wm)
  BY OnItsMonitor DEF IInv, Sound
<1>2. Handles(wm, u, {})
  <2>1. Handles(wm, OnMonitor(wm.mon[c]), {})
    BY <1>1, OnMonitorHandles
  <2>2. Handles(wm, Refocus(OnMonitor(wm.mon[c])), {})
    BY <2>1, RefocusAfter
  <2>3. Handles(wm, wm, {})
    BY <1>1, HandlesNothing
  <2> QED BY <2>2, <2>3
<1>3. Pressed(c) = Focus(u, c)
  BY DEF Pressed
<1> HIDE DEF u
<1> QED BY <1>2, <1>3, FocusAfter

LEMMA StartDragKeeps ==
  ASSUME IInv, NEW c \in Client, StartDrag(c)
  PROVE  Keeps /\ FocusStays(wm, wm')
<1>1. c \in Managed(wm) /\ wm' = Pressed(c) /\ scanning = <<>> /\ scanning' = <<>>
      /\ drag' \in {NoClient, Selected(wm')}
  BY DEF StartDrag, Does, Idle, Running
<1>2. Handles(wm, wm', {}) /\ FocusStays(wm, wm')
  BY <1>1, PressedHandles
<1>3. Sound(wm') /\ Managed(wm') = Managed(wm) /\ OldKept(wm, wm')
  BY <1>2 DEF Handles
<1>4. drag' # NoClient => drag' \in Managed(wm') /\ drag' \in Client
  BY <1>1, <1>3, SelectedManaged
<1>5. IInv'
  BY <1>1, <1>3, <1>4 DEF IInv, DragHeld, ScanApart
<1>6. TagsKept(wm, wm', drag)
  BY <1>2 DEF Handles, TagsKept
<1> QED BY <1>2, <1>3, <1>5, <1>6 DEF Keeps

\* The end of a mouse loop: the window goes to the monitor it was dragged to,
\* and that monitor is selected.
LEMMA EndDragKeeps ==
  ASSUME IInv, NEW m \in Mon, EndDrag(m)
  PROVE  Keeps /\ FocusStays(wm, wm') /\ SameViews(wm, wm')
<1> DEFINE sent == SendMon(wm, drag, m)
           u == [sent EXCEPT !.selmon = m]
<1>1. /\ Sound(wm) /\ drag # NoClient /\ drag \in Managed(wm)
      /\ m \in MonsOf(wm) /\ scanning = <<>> /\ scanning' = <<>> /\ drag' = NoClient
      /\ wm' = IF m = wm.selmon THEN wm ELSE Refocus(u)
  BY DEF IInv, DragHeld, EndDrag, Running
<1>2. Handles(wm, sent, {drag}) /\ sent.nmons = wm.nmons /\ SameViews(wm, sent)
  BY <1>1, SendMonKeeps
<1>3. Handles(wm, u, {drag}) /\ SameViews(wm, u)
  <2> HIDE DEF sent
  <2>1. Sound(sent) /\ sent \in Memories /\ sent.isfullscreen \subseteq Managed(sent)
        /\ (\A k \in Mon : SelOn(sent, k)) /\ MonsOf(sent) = MonsOf(wm)
    BY <1>2 DEF Handles, Sound, Listed, Noted, MonsOf
  <2>2. /\ u \in Memories /\ u.selmon = m /\ u.nmons = sent.nmons
        /\ u.clients = sent.clients /\ u.stack = sent.stack /\ u.sel = sent.sel
        /\ u.mon = sent.mon /\ u.tags = sent.tags /\ u.info = sent.info
        /\ u.isfullscreen = sent.isfullscreen /\ u.oldstate = sent.oldstate
        /\ u.tagset = sent.tagset /\ u.seltags = sent.seltags
    BY <2>1 DEF Memories
  <2> HIDE DEF u
  <2>3. \A k \in Mon : SelOn(u, k)
    BY <2>1, <2>2 DEF SelOn
  <2>4. Sound(u) /\ Managed(u) = Managed(sent)
    BY <1>1, <2>1, <2>2, <2>3, SoundFrame
  <2> QED BY <1>2, <2>2, <2>4 DEF Handles, OldKept, SameViews
<1> HIDE DEF sent, u
<1>4. Handles(wm, wm', {drag}) /\ FocusStays(wm, wm') /\ SameViews(wm, wm')
  <2>1. /\ Handles(wm, Refocus(u), {drag}) /\ FocusStays(wm, Refocus(u))
        /\ SameViews(u, Refocus(u))
    BY <1>3, RefocusAfter
  <2>2. Handles(wm, wm, {drag}) /\ FocusStays(wm, wm)
    BY <1>1, HandlesNothing
  <2> QED BY <1>1, <1>3, <2>1, <2>2 DEF SameViews
<1>5. Sound(wm') /\ Managed(wm') = Managed(wm) /\ OldKept(wm, wm')
  BY <1>4 DEF Handles
<1>6. IInv'
  BY <1>1, <1>5 DEF IInv, DragHeld, ScanApart
<1>7. TagsKept(wm, wm', drag)
  BY <1>4 DEF Handles, TagsKept
<1> QED BY <1>4, <1>5, <1>6, <1>7 DEF Keeps

LEMMA PointerEventKeeps ==
  ASSUME IInv, PointerEvent
  PROVE  Keeps /\ FocusStays(wm, wm')
<1>1. Sound(wm)
  BY DEF IInv
<1>2. ASSUME NEW c \in Client, EnterWindow(c) \/ ButtonPress(c)
      PROVE  Keeps /\ FocusStays(wm, wm')
  <2>1. c \in Managed(wm) /\ UNCHANGED <<scanning, drag>>
    BY <1>2 DEF EnterWindow, ButtonPress, Handle
  <2>2. CASE EnterWindow(c)
    <3>1. wm.mon[c] \in MonsOf(wm)
      BY <1>1, <2>1, OnItsMonitor DEF Sound
    <3>2. Handles(wm, OnMonitor(wm.mon[c]), {})
      BY <3>1, OnMonitorHandles
    <3>3. wm' = Focus(OnMonitor(wm.mon[c]), c)
      BY <2>2 DEF EnterWindow, Handle
    <3>4. Handles(wm, wm', {}) /\ FocusStays(wm, wm')
      BY <2>1, <3>2, <3>3, FocusAfter
    <3> QED BY <2>1, <3>4, HandledKeeps
  <2>3. CASE ButtonPress(c)
    <3>1. Handles(wm, wm', {}) /\ FocusStays(wm, wm')
      BY <2>1, <2>3, PressedHandles DEF ButtonPress, Handle
    <3> QED BY <2>1, <3>1, HandledKeeps
  <2> QED BY <1>2, <2>2, <2>3
<1>3. ASSUME NEW m \in Mon, EnterRoot(m) \/ MotionNotify(m)
      PROVE  Keeps /\ FocusStays(wm, wm')
  <2>1. m \in MonsOf(wm) /\ wm' = Refocus(OnMonitor(m)) /\ UNCHANGED <<scanning, drag>>
    BY <1>3 DEF EnterRoot, MotionNotify, Handle
  <2>2. Handles(wm, OnMonitor(m), {})
    BY <2>1, OnMonitorHandles
  <2>3. Handles(wm, wm', {}) /\ FocusStays(wm, wm')
    BY <2>1, <2>2, RefocusAfter
  <2> QED BY <2>1, <2>3, HandledKeeps
<1>4. CASE DragMotion
  <2>1. wm' = ToggleFloating(wm) /\ UNCHANGED <<scanning, drag>>
    BY <1>4 DEF DragMotion, Handle
  <2>2. Handles(wm, wm', {}) /\ FocusStays(wm, wm')
    BY <1>1, <2>1, ToggleFloatingKeeps
  <2> QED BY <2>1, <2>2, HandledKeeps
<1> QED BY <1>2, <1>3, <1>4, StartDragKeeps, EndDragKeeps DEF PointerEvent

------------------------------------------------------------------------------
(* The keys.                                                                *)

LEMMA MasksTyped ==
  /\ TagArgs \subseteq SUBSET TAGMASK
  /\ \A t \in OrdinaryTags : {t} \in SUBSET TAGMASK
<1>1. OrdinaryTags \subseteq TAGMASK
  BY TagCounts DEF OrdinaryTags, TAGMASK
<1> QED BY <1>1 DEF TagArgs

\* The keys that change tags, views and the order of windows.
LEMMA TagKeysKeep ==
  ASSUME IInv,
         \/ \E mask \in TagArgs \cup {{}} : KeyView(mask)
         \/ \E mask \in TagArgs : KeyTag(mask)
         \/ \E t \in OrdinaryTags : KeyToggleView(t) \/ KeyToggleTag(t)
         \/ \E i \in 0..(NScratch - 1) : KeyToggleScratch(i)
         \/ \E i \in {-1, 1} : KeyShiftView(i) \/ KeyShiftTag(i)
  PROVE  Keeps /\ FocusStays(wm, wm')
<1>1. Sound(wm) /\ UNCHANGED <<scanning, drag>>
  BY DEF IInv, KeyView, KeyTag, KeyToggleView, KeyToggleTag, KeyToggleScratch,
         KeyShiftView, KeyShiftTag, Handle
<1>2. \/ Handles(wm, wm', {}) /\ FocusStays(wm, wm')
      \/ Handles(wm, wm', {Selected(wm)}) /\ FocusStays(wm, wm')
  <2>1. ASSUME NEW mask \in TagArgs \cup {{}}, KeyView(mask)
        PROVE  Handles(wm, wm', {}) /\ FocusStays(wm, wm')
    BY <1>1, <2>1, MasksTyped, ViewTagsKeeps DEF KeyView, Handle
  <2>2. ASSUME NEW mask \in TagArgs, KeyTag(mask)
        PROVE  Handles(wm, wm', {Selected(wm)}) /\ FocusStays(wm, wm')
    BY <1>1, <2>2, MasksTyped, TagSelectedKeeps DEF KeyTag, Handle
  <2>3. ASSUME NEW t \in OrdinaryTags, KeyToggleView(t)
        PROVE  Handles(wm, wm', {}) /\ FocusStays(wm, wm')
    BY <1>1, <2>3, MasksTyped, ToggleViewTagsKeeps DEF KeyToggleView, Handle
  <2>4. ASSUME NEW t \in OrdinaryTags, KeyToggleTag(t)
        PROVE  Handles(wm, wm', {Selected(wm)}) /\ FocusStays(wm, wm')
    BY <1>1, <2>4, MasksTyped, ToggleTagsKeeps DEF KeyToggleTag, Handle
  <2>5. ASSUME NEW i \in 0..(NScratch - 1), KeyToggleScratch(i)
        PROVE  Handles(wm, wm', {}) /\ FocusStays(wm, wm')
    BY <1>1, <2>5, ToggleScratchpadKeeps DEF KeyToggleScratch, Handle
  <2>6. ASSUME NEW i \in {-1, 1}, KeyShiftView(i)
        PROVE  Handles(wm, wm', {}) /\ FocusStays(wm, wm')
    BY <1>1, <2>6, ShiftKeeps DEF KeyShiftView, Handle
  <2>7. ASSUME NEW i \in {-1, 1}, KeyShiftTag(i)
        PROVE  Handles(wm, wm', {Selected(wm)}) /\ FocusStays(wm, wm')
    BY <1>1, <2>7, ShiftKeeps DEF KeyShiftTag, Handle
  <2> QED BY <2>1, <2>2, <2>3, <2>4, <2>5, <2>6, <2>7
<1> QED BY <1>1, <1>2, HandledKeeps

LEMMA StackKeysKeep ==
  ASSUME IInv,
         \/ \E arg \in StackArgs : KeyFocusStack(arg) \/ KeyPushStack(arg)
         \/ KeyZoom \/ KeyToggleFloating
  PROVE  Keeps /\ FocusStays(wm, wm')
<1>1. Sound(wm) /\ UNCHANGED <<scanning, drag>>
  BY DEF IInv, KeyFocusStack, KeyPushStack, KeyZoom, KeyToggleFloating, Handle
<1>2. Handles(wm, wm', {}) /\ FocusStays(wm, wm')
  <2>1. ASSUME NEW arg \in StackArgs, KeyFocusStack(arg) \/ KeyPushStack(arg)
        PROVE  Handles(wm, wm', {}) /\ FocusStays(wm, wm')
    <3>1. CASE KeyFocusStack(arg)
      BY <1>1, <3>1, FocusInStackKeeps DEF KeyFocusStack, Handle
    <3>2. CASE KeyPushStack(arg)
      BY <1>1, <3>2, PushInStackKeeps DEF KeyPushStack, Handle
    <3> QED BY <2>1, <3>1, <3>2
  <2>2. CASE KeyZoom
    BY <1>1, <2>2, ZoomKeeps DEF KeyZoom, Handle
  <2>3. CASE KeyToggleFloating
    BY <1>1, <2>3, ToggleFloatingKeeps DEF KeyToggleFloating, Handle
  <2> QED BY <2>1, <2>2, <2>3
<1> QED BY <1>1, <1>2, HandledKeeps

\* The key for a sticky window may hide the selected one, but leaves it
\* selected.
LEMMA KeyToggleStickyKeeps ==
  ASSUME IInv, KeyToggleSticky
  PROVE  Keeps /\ KeyboardOk(wm')
<1> DEFINE S == Flag(wm.issticky, Selected(wm), Selected(wm) \notin wm.issticky)
<1>1. /\ Sound(wm) /\ wm \in Memories /\ Selected(wm) # NoClient
      /\ wm' = [wm EXCEPT !.issticky = S] /\ UNCHANGED <<scanning, drag>>
  BY DEF IInv, Sound, Listed, KeyToggleSticky, Handle
<1>2. S \in SUBSET Client
  BY <1>1, SelectedManaged DEF Flag, Memories
<1>3. Keeps
  BY <1>1, <1>2, MarksKeeps DEF Marks
<1>4. wm'.sel = wm.sel /\ wm'.selmon = wm.selmon
  BY <1>1 DEF Memories
<1> QED BY <1>1, <1>3, <1>4 DEF KeyboardOk, Selected

LEMMA KeyToggleFullscreenKeeps ==
  ASSUME IInv, KeyToggleFullscreen
  PROVE  Keeps /\ FocusStays(wm, wm')
<1>1. Selected(wm) \in Managed(wm)
  BY SelectedManaged DEF IInv, KeyToggleFullscreen
<1> QED BY <1>1, FullscreenKeeps DEF KeyToggleFullscreen, Handle

LEMMA KeySetLayoutKeeps ==
  ASSUME IInv, NEW tiled \in BOOLEAN, KeySetLayout(tiled)
  PROVE  Keeps /\ FocusStays(wm, wm')
<1>1. wm \in Memories /\ wm.selmon \in Mon /\ wm.isfullscreen \subseteq Managed(wm)
  BY InRange DEF IInv, Sound, Listed, Noted
<1>2. /\ wm' = [wm EXCEPT !.tiled = [wm.tiled EXCEPT ![wm.selmon] = tiled]]
      /\ UNCHANGED <<scanning, drag>>
  BY DEF KeySetLayout, Handle
<1>3. [wm.tiled EXCEPT ![wm.selmon] = tiled] \in [Mon -> BOOLEAN]
  BY <1>1 DEF Memories
<1>4. /\ wm' \in Memories /\ SameWindows(wm, wm') /\ wm'.issticky = wm.issticky
      /\ wm'.isfullscreen = wm.isfullscreen /\ wm'.oldstate = wm.oldstate
  BY <1>1, <1>2, <1>3 DEF Memories, SameWindows
<1> QED BY <1>1, <1>2, <1>4, SameWindowsKeeps DEF OldKept

\* The monitor a key means is one that is connected.
LEMMA DirToMonConnected ==
  ASSUME IInv, NEW i \in {-1, 1}
  PROVE  DirToMon(wm, i) \in MonsOf(wm)
<1>1. wm.nmons \in Nat \ {0} /\ wm.selmon \in 0..(wm.nmons - 1)
  BY ClientAssumption DEF IInv, Sound, Listed, Memories, MonsOf
<1> QED BY <1>1 DEF DirToMon, MonsOf

LEMMA MonitorKeysKeep ==
  ASSUME IInv, NEW i \in {-1, 1}, KeyFocusMon(i) \/ KeyTagMon(i)
  PROVE  Keeps /\ FocusStays(wm, wm')
<1>1. /\ Sound(wm) /\ DirToMon(wm, i) \in MonsOf(wm) /\ UNCHANGED <<scanning, drag>>
  BY DirToMonConnected DEF IInv, KeyFocusMon, KeyTagMon, Handle
<1>2. CASE KeyFocusMon(i)
  <2>1. Handles(wm, OnMonitor(DirToMon(wm, i)), {})
    BY <1>1, OnMonitorHandles
  <2>2. Handles(wm, wm', {}) /\ FocusStays(wm, wm')
    BY <1>2, <2>1, RefocusAfter DEF KeyFocusMon, Handle
  <2> QED BY <1>1, <2>2, HandledKeeps
<1>3. CASE KeyTagMon(i)
  <2>1. Selected(wm) \in Managed(wm)
    BY <1>1, <1>3, SelectedManaged DEF KeyTagMon
  <2>2. Handles(wm, wm', {Selected(wm)}) /\ FocusStays(wm, wm')
    BY <1>1, <1>3, <2>1, SendMonKeeps DEF KeyTagMon, Handle
  <2> QED BY <1>1, <2>2, HandledKeeps
<1> QED BY <1>2, <1>3

LEMMA KeyKeeps ==
  ASSUME IInv, Key
  PROVE  Keeps /\ (KeyToggleSticky \/ FocusStays(wm, wm'))
<1>1. ASSUME NEW i \in {-1, 1},
             KeyShiftView(i) \/ KeyShiftTag(i) \/ KeyFocusMon(i) \/ KeyTagMon(i)
      PROVE  Keeps /\ FocusStays(wm, wm')
  BY <1>1, TagKeysKeep, MonitorKeysKeep
<1>2. CASE KeyToggleSticky
  BY <1>2, KeyToggleStickyKeeps
<1>3. CASE \/ \E mask \in TagArgs \cup {{}} : KeyView(mask)
           \/ \E mask \in TagArgs : KeyTag(mask)
           \/ \E t \in OrdinaryTags : KeyToggleView(t) \/ KeyToggleTag(t)
           \/ \E i \in 0..(NScratch - 1) : KeyToggleScratch(i)
  BY <1>3, TagKeysKeep
<1>4. CASE \/ \E arg \in StackArgs : KeyFocusStack(arg) \/ KeyPushStack(arg)
           \/ KeyZoom \/ KeyToggleFloating
  BY <1>4, StackKeysKeep
<1>5. CASE KeyToggleFullscreen \/ \E tiled \in BOOLEAN : KeySetLayout(tiled)
  BY <1>5, KeyToggleFullscreenKeeps, KeySetLayoutKeeps
<1> QED BY <1>1, <1>2, <1>3, <1>4, <1>5 DEF Key

------------------------------------------------------------------------------
(* Monitors, restarts and scans.                                            *)

LEMMA ConfigureNotifyKeeps ==
  ASSUME IInv, NEW n \in 1..MaxMons, NEW p \in Mon, NEW moved \in BOOLEAN,
         NEW resized \in BOOLEAN, ConfigureNotify(n, p, moved, resized)
  PROVE  Keeps
<1>1. Sound(wm) /\ p < n /\ UNCHANGED <<scanning, drag>>
      /\ wm' = ConfigureMonitors(wm, n, p, moved, resized)
  BY DEF IInv, ConfigureNotify, Handle
<1>2. Handles(wm, wm', {})
  BY <1>1, ConfigureKeeps
<1> QED BY <1>1, <1>2, HandledKeeps

LEMMA ManagedFinite ==
  ASSUME NEW w, Listed(w)
  PROVE  IsFiniteSet(Managed(w))
<1> DEFINE Lists == { ToSet(w.clients[m]) : m \in MonsOf(w) }
<1>1. w \in Memories /\ MonsOf(w) \subseteq Mon /\ w.nmons \in Nat
  <2>1. w \in Memories
    BY DEF Listed
  <2>2. MonsOf(w) \subseteq Mon
    BY InRange, <2>1
  <2>3. w.nmons \in Nat
    BY <2>1, ClientAssumption DEF Memories
  <2> QED BY <2>1, <2>2, <2>3
<1>2. ASSUME NEW m \in MonsOf(w)
      PROVE  IsFiniteSet(ToSet(w.clients[m]))
  <2>1. w.clients[m] \in Seq(Client)
    BY <1>1 DEF Memories
  <2>2. PICK n \in Nat : DOMAIN w.clients[m] = 1..n
    BY <2>1
  <2>3. IsFiniteSet(1..n)
    BY <2>2, FS_Interval
  <2>4. [i \in 1..n |-> w.clients[m][i]] \in Surjection(1..n, ToSet(w.clients[m]))
    BY <2>2 DEF Surjection, ToSet
  <2> QED BY <2>3, <2>4, FS_Surjection
<1>3. IsFiniteSet(MonsOf(w))
  BY <1>1, FS_Interval DEF MonsOf
<1>4. IsFiniteSet(Lists)
  <2>1. [m \in MonsOf(w) |-> ToSet(w.clients[m])] \in Surjection(MonsOf(w), Lists)
    BY DEF Surjection
  <2> QED BY <1>3, <2>1, FS_Surjection
<1>5. \A S \in Lists : IsFiniteSet(S)
  BY <1>2
<1>6. IsFiniteSet(UNION Lists)
  BY <1>4, <1>5, FS_UNION
<1> QED BY <1>6 DEF Managed

\* A list as long as a set is large that has all its elements has each once.
LEMMA ScanOrderOnce ==
  ASSUME NEW Cs, IsFiniteSet(Cs), Cs \subseteq Client, NEW s \in ScanOrders(Cs)
  PROVE  s \in Seq(Client) /\ NoRepeats(s) /\ ToSet(s) = Cs
<1> DEFINE n == Cardinality(Cs)
<1>1. n \in Nat /\ s \in [1..n -> Cs] /\ ToSet(s) = Cs
  BY FS_CardinalityType DEF ScanOrders
<1>2. s \in Seq(Client)
  BY <1>1
<1>3. IsFiniteSet(1..n) /\ Cardinality(1..n) = n
  BY <1>1, FS_Interval
<1>4. s \in Surjection(1..n, Cs)
  BY <1>1 DEF Surjection, ToSet
<1>5. s \in Injection(1..n, Cs)
  BY <1>3, <1>4, FS_SurjSameCardinalityImpliesInj
<1>6. NoRepeats(s)
  BY <1>1, <1>5 DEF NoRepeats, Injection, IsInjective
<1> QED BY <1>1, <1>2, <1>6

LEMMA RestartKeeps ==
  ASSUME IInv, Restart
  PROVE  Keeps /\ FocusStays(wm, wm')
<1>1. Sound(wm) /\ wm \in Memories /\ Managed(wm) \subseteq Client
      /\ wm.nmons \in 1..MaxMons
  BY InRange DEF IInv, Sound, Memories
<1>2. PICK p \in 0..(wm.nmons - 1) : wm' = Fresh(wm.nmons, p, wm.info, wm.netwm)
  BY DEF Restart, MonsOf
<1>3. Sound(wm') /\ Managed(wm') = {} /\ FocusOk(wm')
  <2>1. /\ wm.netwm \in SUBSET Client
        /\ wm.info \in [Client -> [tags : SUBSET TAGMASK, num : Mon \cup {-1}]]
    BY <1>1 DEF Memories
  <2> QED BY <1>1, <1>2, <2>1, FreshSound
<1>4. wm'.isfullscreen = {}
  BY <1>2 DEF Fresh
<1>5. scanning' \in Seq(Client) /\ NoRepeats(scanning')
  <2>1. IsFiniteSet(Managed(wm))
    BY <1>1, ManagedFinite DEF Sound
  <2>2. scanning' \in ScanOrders(Managed(wm))
    BY DEF Restart
  <2> QED BY <1>1, <2>1, <2>2, ScanOrderOnce
<1>6. drag' = NoClient
  BY DEF Restart, Does, Idle
<1>7. IInv'
  BY <1>3, <1>5, <1>6 DEF IInv, DragHeld, ScanApart
<1>8. OldKept(wm, wm') /\ TagsKept(wm, wm', drag)
  BY <1>3, <1>4 DEF OldKept, TagsKept
<1>9. FocusStays(wm, wm')
  BY <1>3 DEF FocusStays, FocusOk, FocusRight, KeyboardOk
<1> QED BY <1>7, <1>8, <1>9 DEF Keeps

\* The first of a list's distinct elements is not among the rest.
LEMMA HeadAndTail ==
  ASSUME NEW s \in Seq(Client), s # <<>>, NoRepeats(s)
  PROVE  /\ Head(s) \in ToSet(s) /\ Head(s) \in Client
         /\ Tail(s) \in Seq(Client) /\ NoRepeats(Tail(s))
         /\ ToSet(Tail(s)) \subseteq ToSet(s) \ {Head(s)}
<1>1. Len(s) \in Nat \ {0} /\ DOMAIN s = 1..Len(s) /\ Head(s) = s[1] /\ 1 \in DOMAIN s
  OBVIOUS
<1>2. /\ Tail(s) \in Seq(Client) /\ DOMAIN Tail(s) = 1..(Len(s) - 1)
      /\ \A i \in DOMAIN Tail(s) : Tail(s)[i] = s[i + 1] /\ i + 1 \in DOMAIN s
  BY <1>1
<1>3. NoRepeats(Tail(s))
  BY <1>1, <1>2 DEF NoRepeats
<1>4. \A i \in DOMAIN Tail(s) : Tail(s)[i] \in ToSet(s) /\ Tail(s)[i] # Head(s)
  BY <1>1, <1>2 DEF NoRepeats, ToSet
<1> QED BY <1>1, <1>2, <1>3, <1>4 DEF ToSet

LEMMA ScanKeeps ==
  ASSUME IInv, Scan
  PROVE  Keeps /\ FocusStays(wm, wm')
<1> DEFINE c == Head(scanning)
<1>1. /\ Sound(wm) /\ scanning \in Seq(Client) /\ scanning # <<>>
      /\ NoRepeats(scanning) /\ ToSet(scanning) \cap Managed(wm) = {}
      /\ drag' = drag /\ drag = NoClient /\ scanning' = Tail(scanning)
  BY DEF IInv, DragHeld, ScanApart, Scan
<1>2. PICK urgent \in BOOLEAN : wm' = Manage(wm, c, urgent)
  BY DEF Scan, AsksAttention
<1>3. /\ c \in ToSet(scanning) /\ c \in Client
      /\ Tail(scanning) \in Seq(Client) /\ NoRepeats(Tail(scanning))
      /\ ToSet(Tail(scanning)) \subseteq ToSet(scanning) \ {c}
  BY <1>1, HeadAndTail
<1> HIDE DEF c
<1>4. c \in Client \ Managed(wm)
  BY <1>1, <1>3
<1>5. /\ Sound(wm') /\ Managed(wm') = Managed(wm) \cup {c}
      /\ OldKept(wm, wm') /\ FocusOk(wm')
      /\ \A d \in Managed(wm) : wm'.tags[d] = wm.tags[d]
      /\ wm.info[c] # NoInfo => wm'.tags[c] = wm.info[c].tags
  BY <1>1, <1>2, <1>4, ManageKeeps
<1>6. IInv'
  BY <1>1, <1>3, <1>5 DEF IInv, DragHeld, ScanApart
<1>7. TagsKept(wm, wm', drag)
  BY <1>5 DEF TagsKept
<1>8. FocusStays(wm, wm')
  BY <1>5 DEF FocusStays, FocusOk, FocusRight, KeyboardOk
<1> QED BY <1>5, <1>6, <1>7, <1>8 DEF Keeps

------------------------------------------------------------------------------
(* What a step does to the views and how it may fail.                       *)

(***************************************************************************)
(* Changing the view leaves the focus on ordinary windows while there are  *)
(* some; the key that shows a scratchpad moves the focus to it on purpose. *)
(* On one monitor, with a selection or nothing to select, the step fails   *)
(* only as FailsOnlyUnseen says; shiftview's loop is left aside, which     *)
(* does not end while a scratchpad alone is shown.                         *)
(***************************************************************************)
Careful ==
  /\ "scratch" \in Keys \/ Yields(wm, wm')
  /\ MaxMons = 1 /\ KeyboardOk(wm) /\ Safe(wm) =>
       "shift" \in Keys \/ FailsUnseen(wm, wm')

LEMMA SoundStepCareful ==
  ASSUME SameViews(wm, wm'), Safe(wm) => ~Failed(wm')
  PROVE  Careful
BY SameViewsYield DEF Careful, FailsUnseen

LEMMA SameFaultCareful ==
  ASSUME SameViews(wm, wm'), wm'.fault = wm.fault
  PROVE  Careful
BY SoundStepCareful DEF Safe, Failed

LEMMA OneMonitor ==
  ASSUME IInv, MaxMons = 1
  PROVE  /\ wm.nmons = 1
         /\ \A m \in Mon : m = wm.selmon /\ OnMonitor(m) = wm
<1>1. /\ wm \in Memories /\ wm.nmons \in 1..1 /\ wm.selmon \in 0..(1 - 1)
      /\ Mon = 0..(1 - 1)
  BY DEF IInv, Sound, Listed, Memories, Mon
<1>2. \A m \in Mon : m = wm.selmon
  BY <1>1
<1>3. [wm EXCEPT !.selmon = wm.selmon] = wm
  BY <1>1 DEF Memories
<1> QED BY <1>1, <1>2, <1>3 DEF OnMonitor

LEMMA OnMonitorCareful ==
  ASSUME IInv, NEW m \in MonsOf(wm)
  PROVE  /\ m \in Mon /\ Handles(wm, OnMonitor(m), {}) /\ SameViews(wm, OnMonitor(m))
         /\ MaxMons = 1 => OnMonitor(m) = wm
<1>1. wm \in Memories /\ m \in Mon
  BY InRange DEF IInv, Sound, Listed
<1>2. SameViews(wm, OnMonitor(m))
  BY <1>1 DEF OnMonitor, SameViews, Memories
<1>3. Handles(wm, OnMonitor(m), {})
  BY OnMonitorHandles
<1> QED BY <1>1, <1>2, <1>3, OneMonitor

LEMMA UnmappedCareful ==
  ASSUME IInv, NEW c \in Managed(wm), Managed(wm') = Managed(wm) \ {c},
         Safe(wm) => ~Failed(wm')
  PROVE  Careful
<1>1. Yields(wm, wm')
  BY OtherWindowsYield
<1> QED BY <1>1 DEF Careful, FailsUnseen

LEMMA ManagedCareful ==
  ASSUME IInv, NEW c \in Client \ Managed(wm), NEW urgent \in BOOLEAN,
         wm' = Manage(wm, c, urgent)
  PROVE  Careful
<1>1. /\ Managed(wm') = Managed(wm) \cup {c}
      /\ MaxMons = 1 /\ ~Failed(wm) => ~Failed(wm')
  <2>1. /\ Sound(wm') /\ Managed(wm') = Managed(wm) \cup {c}
        /\ OldKept(wm, wm') /\ FocusOk(wm')
        /\ \A d \in Managed(wm) : wm'.tags[d] = wm.tags[d]
        /\ wm.info[c] # NoInfo => wm'.tags[c] = wm.info[c].tags
        /\ MaxMons = 1 /\ ~Failed(wm) => ~Failed(wm')
    BY ManageKeeps DEF IInv
  <2> QED BY <2>1
<1>2. Yields(wm, wm')
  BY <1>1, OtherWindowsYield
<1> QED BY <1>1, <1>2 DEF Careful, FailsUnseen, Safe

LEMMA DestroyNotifyCareful ==
  ASSUME IInv, NEW c \in Client, UnmapNotify(c) \/ DestroyNotify(c)
  PROVE  Careful
<1> DEFINE u == Unmanage(wm, c)
<1>1. c \in Managed(wm) /\ Sound(wm)
  BY DEF UnmapNotify, DestroyNotify, IInv
<1>2. Sound(u) /\ Managed(u) = Managed(wm) \ {c} /\ (Safe(wm) => ~Failed(u))
  <2>1. /\ Sound(u) /\ Managed(u) = Managed(wm) \ {c}
        /\ OldKept(wm, u) /\ FocusOk(u)
        /\ \A d \in Managed(u) : u.tags[d] = wm.tags[d]
        /\ Safe(wm) => ~Failed(u)
    BY <1>1, UnmanageKeeps
  <2> QED BY <2>1
<1>3. wm' = u \/ \E info, netwm : wm' = [u EXCEPT !.info = info, !.netwm = netwm]
  BY DEF UnmapNotify, DestroyNotify, Handle
<1> HIDE DEF u
<1>4. wm'.nmons = u.nmons /\ wm'.clients = u.clients /\ wm'.fault = u.fault
  BY <1>2, <1>3 DEF Sound, Listed, Memories
<1>5. Managed(wm') = Managed(u) /\ (Failed(wm') <=> Failed(u))
  BY <1>4 DEF Managed, MonsOf, Failed
<1> QED BY <1>1, <1>2, <1>5, UnmappedCareful

LEMMA SameWindowsCareful ==
  ASSUME SameWindows(wm, wm')
  PROVE  Careful
BY SameFaultCareful DEF SameWindows, SameViews

LEMMA MarksCareful ==
  ASSUME IInv, NEW S, Marks(S)
  PROVE  Careful
<1>1. wm \in Memories
  BY DEF IInv, Sound, Listed
<1>2. wm'.tagset = wm.tagset /\ wm'.seltags = wm.seltags /\ wm'.fault = wm.fault
  <2>1. CASE wm' = [wm EXCEPT !.isurgent = S]
    BY <1>1, <2>1 DEF Memories
  <2>2. CASE wm' = [wm EXCEPT !.isfloating = S]
    BY <1>1, <2>2 DEF Memories
  <2>3. CASE wm' = [wm EXCEPT !.netwm = S]
    BY <1>1, <2>3 DEF Memories
  <2>4. CASE wm' = [wm EXCEPT !.issticky = S]
    BY <1>1, <2>4 DEF Memories
  <2> QED BY <2>1, <2>2, <2>3, <2>4 DEF Marks
<1> QED BY <1>2, SameFaultCareful DEF SameViews

LEMMA FullscreenCareful ==
  ASSUME IInv, NEW c \in Client, NEW on \in BOOLEAN, wm' = SetFullscreen(wm, c, on)
  PROVE  Careful
<1>1. wm \in Memories
  BY DEF IInv, Sound, Listed
<1>2. SameWindows(wm, wm')
  BY <1>1, SetFullscreenKeeps
<1> QED BY <1>2, SameWindowsCareful

LEMMA WindowTypeCareful ==
  ASSUME IInv, NEW c \in Client, wm' = UpdateWindowType(wm, c)
  PROVE  Careful
<1>1. wm \in Memories
  BY DEF IInv, Sound, Listed
<1>2. SameWindows(wm, wm')
  BY <1>1, UpdateWindowTypeKeeps
<1> QED BY <1>2, SameWindowsCareful

LEMMA WindowEventCareful ==
  ASSUME IInv, NEW c \in Client, WindowEvent(c)
  PROVE  Careful
<1>1. CASE MapRequest(c)
  <2>1. PICK urgent \in BOOLEAN : wm' = Manage(wm, c, urgent)
    BY <1>1 DEF MapRequest, Handle, AsksAttention
  <2>2. c \in Client \ Managed(wm)
    BY <1>1 DEF MapRequest
  <2> QED BY <2>1, <2>2, ManagedCareful
<1>2. CASE UnmapNotify(c) \/ DestroyNotify(c)
  BY <1>2, DestroyNotifyCareful
<1>3. CASE ClientStartsFullscreen(c)
  BY <1>3, MarksCareful DEF ClientStartsFullscreen, Handle, Marks
<1>4. CASE ClientMessageActive(c)
  BY <1>4, MarksCareful DEF ClientMessageActive, Handle, Marks
<1>5. CASE \E urgent \in BOOLEAN : PropertyHints(c, urgent)
  BY <1>5, MarksCareful DEF PropertyHints, Handle, Marks
<1>6. CASE PropertyTransient(c)
  BY <1>6, MarksCareful DEF PropertyTransient, Handle, Marks
<1>7. CASE \E action \in {"add", "remove", "toggle"} : ClientMessageState(c, action)
  BY <1>7, FullscreenCareful DEF ClientMessageState, Handle
<1>8. CASE PropertyWindowType(c)
  BY <1>8, WindowTypeCareful DEF PropertyWindowType, Handle
<1> QED BY <1>1, <1>2, <1>3, <1>4, <1>5, <1>6, <1>7, <1>8 DEF WindowEvent

LEMMA PressedCareful ==
  ASSUME IInv, NEW c \in Managed(wm), wm' = Pressed(c)
  PROVE  Careful
<1> DEFINE m == wm.mon[c]
           u == IF m # wm.selmon THEN Refocus(OnMonitor(m)) ELSE wm
<1>1. Sound(wm) /\ m \in MonsOf(wm)
  BY OnItsMonitor DEF IInv, Sound
<1>2. /\ m \in Mon /\ Handles(wm, OnMonitor(m), {}) /\ SameViews(wm, OnMonitor(m))
  BY <1>1, OnMonitorCareful
<1>3. wm' = Focus(u, c)
  BY DEF Pressed
<1>4. Handles(wm, Refocus(OnMonitor(m)), {}) /\ SameViews(OnMonitor(m), Refocus(OnMonitor(m)))
  BY <1>2, RefocusAfter
<1>5. Handles(wm, u, {}) /\ SameViews(wm, u)
  BY <1>1, <1>2, <1>4, HandlesNothing DEF SameViews
<1>6. MaxMons = 1 => u = wm
  BY <1>2, OneMonitor
<1> HIDE DEF u
<1>7. SameViews(u, Focus(u, c)) /\ (Safe(u) => ~Failed(Focus(u, c)))
  BY <1>5, FocusAfter
<1>8. SameViews(wm, wm')
  BY <1>3, <1>5, <1>7 DEF SameViews
<1>9. Yields(wm, wm')
  BY <1>8, SameViewsYield
<1>10. MaxMons = 1 /\ Safe(wm) => ~Failed(wm')
  BY <1>3, <1>6, <1>7
<1> QED BY <1>9, <1>10 DEF Careful, FailsUnseen

\* The pointer selects a monitor, and focus goes by it.
LEMMA MonitorFocusCareful ==
  ASSUME IInv, NEW m \in MonsOf(wm), NEW c \in Managed(wm) \cup {NoClient},
         wm' = Focus(OnMonitor(m), c) \/ wm' = Refocus(OnMonitor(m))
  PROVE  Careful
<1> DEFINE u == OnMonitor(m)
<1>1. Handles(wm, u, {}) /\ SameViews(wm, u) /\ (MaxMons = 1 => u = wm)
  BY OnMonitorCareful
<1> HIDE DEF u
<1>2. wm' = Focus(u, c) \/ wm' = Refocus(u)
  BY DEF u
<1>3. SameViews(u, wm') /\ (Safe(u) => ~Failed(wm'))
  <2>1. SameViews(u, Focus(u, c)) /\ (Safe(u) => ~Failed(Focus(u, c)))
    BY <1>1, FocusAfter
  <2>2. SameViews(u, Refocus(u)) /\ (Safe(u) => ~Failed(Refocus(u)))
    BY <1>1, RefocusAfter
  <2> QED BY <1>2, <2>1, <2>2
<1>4. Yields(wm, wm')
  BY <1>1, <1>3, SameViewsYield DEF SameViews
<1>5. MaxMons = 1 /\ Safe(wm) => ~Failed(wm')
  BY <1>1, <1>3
<1> QED BY <1>4, <1>5 DEF Careful, FailsUnseen

LEMMA PointerEventCareful ==
  ASSUME IInv, PointerEvent
  PROVE  Careful
<1>1. Sound(wm)
  BY DEF IInv
<1>2. ASSUME NEW c \in Client, EnterWindow(c)
      PROVE  Careful
  <2>1. c \in Managed(wm) /\ wm' = Focus(OnMonitor(wm.mon[c]), c)
    BY <1>2 DEF EnterWindow, Handle
  <2>2. wm.mon[c] \in MonsOf(wm)
    BY <1>1, <2>1, OnItsMonitor DEF Sound
  <2> QED BY <2>1, <2>2, MonitorFocusCareful
<1>3. ASSUME NEW c \in Client, ButtonPress(c) \/ StartDrag(c)
      PROVE  Careful
  BY <1>3, PressedCareful DEF ButtonPress, StartDrag, Handle
<1>4. ASSUME NEW m \in Mon, EnterRoot(m) \/ MotionNotify(m)
      PROVE  Careful
  <2>1. m \in MonsOf(wm) /\ wm' = Refocus(OnMonitor(m))
    BY <1>4 DEF EnterRoot, MotionNotify, Handle
  <2> QED BY <2>1, MonitorFocusCareful
<1>5. ASSUME NEW m \in Mon, EndDrag(m)
      PROVE  Careful
  <2>1. Yields(wm, wm')
    BY <1>5, EndDragKeeps, SameViewsYield
  <2>2. MaxMons = 1 => wm' = wm
    BY <1>5, OneMonitor DEF EndDrag
  <2> QED BY <2>1, <2>2 DEF Careful, Safe, FailsUnseen
<1>6. CASE DragMotion
  <2>1. wm' = ToggleFloating(wm)
    BY <1>6 DEF DragMotion, Handle
  <2>2. SameWindows(wm, wm')
    BY <1>1, <2>1, ToggleFloatingKeeps
  <2> QED BY <2>2, SameWindowsCareful
<1> QED BY <1>2, <1>3, <1>4, <1>5, <1>6 DEF PointerEvent

LEMMA TagKeysCareful ==
  ASSUME IInv,
         \/ \E mask \in TagArgs \cup {{}} : KeyView(mask)
         \/ \E mask \in TagArgs : KeyTag(mask)
         \/ \E t \in OrdinaryTags : KeyToggleView(t) \/ KeyToggleTag(t)
         \/ \E i \in 0..(NScratch - 1) : KeyToggleScratch(i)
         \/ \E i \in {-1, 1} : KeyShiftView(i) \/ KeyShiftTag(i)
  PROVE  Careful
<1>1. Sound(wm)
  BY DEF IInv
<1>2. ASSUME Yields(wm, wm'), Safe(wm) => ~Failed(wm')
      PROVE  Careful
  BY <1>2 DEF Careful, FailsUnseen
<1>3. ASSUME NEW mask \in TagArgs \cup {{}}, KeyView(mask)
      PROVE  Careful
  BY <1>1, <1>2, <1>3, MasksTyped, ViewTagsKeeps DEF KeyView, Handle
<1>4. ASSUME NEW mask \in TagArgs, KeyTag(mask)
      PROVE  Careful
  BY <1>1, <1>4, SoundStepCareful, MasksTyped, TagSelectedKeeps DEF KeyTag, Handle
<1>5. ASSUME NEW t \in OrdinaryTags, KeyToggleView(t)
      PROVE  Careful
  BY <1>1, <1>2, <1>5, MasksTyped, ToggleViewTagsKeeps DEF KeyToggleView, Handle
<1>6. ASSUME NEW t \in OrdinaryTags, KeyToggleTag(t)
      PROVE  Careful
  BY <1>1, <1>6, SoundStepCareful, MasksTyped, ToggleTagsKeeps DEF KeyToggleTag, Handle
<1>7. ASSUME NEW i \in 0..(NScratch - 1), KeyToggleScratch(i)
      PROVE  Careful
  <2>1. "scratch" \in Keys /\ ~Failed(wm) /\ wm' = ToggleScratchpad(wm, i)
    BY <1>7 DEF KeyToggleScratch, Does, Idle, Running, Failed, Handle
  <2>2. KeyboardOk(wm) => ~Failed(wm')
    BY <1>1, <2>1, ToggleScratchpadKeeps
  <2> QED BY <2>1, <2>2 DEF Careful, FailsUnseen
<1>8. ASSUME NEW i \in {-1, 1}, KeyShiftView(i) \/ KeyShiftTag(i)
      PROVE  Careful
  <2>1. "shift" \in Keys /\ (wm' = ShiftViewTo(wm, i) \/ wm' = ShiftTagTo(wm, i))
    BY <1>8 DEF KeyShiftView, KeyShiftTag, Does, Handle
  <2>2. Yields(wm, wm')
    <3>1. /\ LET v == ShiftViewTo(wm, i)
             IN  Handles(wm, v, {}) /\ FocusStays(wm, v) /\ Yields(wm, v)
          /\ LET v == ShiftTagTo(wm, i)
             IN  Handles(wm, v, {Selected(wm)}) /\ FocusStays(wm, v) /\ SameViews(wm, v)
      BY <1>1, ShiftKeeps
    <3> QED BY <2>1, <3>1, SameViewsYield
  <2> QED BY <2>1, <2>2 DEF Careful
<1> QED BY <1>3, <1>4, <1>5, <1>6, <1>7, <1>8

LEMMA StackKeysCareful ==
  ASSUME IInv,
         \/ \E arg \in StackArgs : KeyFocusStack(arg) \/ KeyPushStack(arg)
         \/ KeyZoom \/ KeyToggleFloating
  PROVE  Careful
<1>1. Sound(wm)
  BY DEF IInv
<1>2. ASSUME SameViews(wm, wm'), Safe(wm) => FailsUnseen(wm, wm')
      PROVE  Careful
  BY <1>2, SameViewsYield DEF Careful
<1>3. ASSUME NEW arg \in StackArgs, KeyFocusStack(arg)
      PROVE  Careful
  <2>1. wm' = FocusInStack(wm, arg)
    BY <1>3 DEF KeyFocusStack, Handle
  <2> QED BY <1>1, <1>2, <2>1, FocusInStackKeeps
<1>4. ASSUME NEW arg \in StackArgs, KeyPushStack(arg)
      PROVE  Careful
  <2>1. wm' = PushInStack(wm, arg)
    BY <1>4 DEF KeyPushStack, Handle
  <2>2. SameViews(wm, wm')
    BY <1>1, <2>1, PushInStackKeeps
  <2>3. (arg.rel \/ arg.i = 0) /\ (arg.rel => arg.i \in Int)
    BY DEF StackArgs, Inc, At
  <2>4. Safe(wm) => FailsUnseen(wm, wm')
    BY <1>1, <2>1, <2>3, PushFails
  <2> QED BY <1>2, <2>2, <2>4
<1>5. CASE KeyZoom
  BY <1>1, <1>5, SoundStepCareful, ZoomKeeps DEF KeyZoom, Handle
<1>6. CASE KeyToggleFloating
  <2>1. wm' = ToggleFloating(wm)
    BY <1>6 DEF KeyToggleFloating, Handle
  <2>2. SameWindows(wm, wm')
    BY <1>1, <2>1, ToggleFloatingKeeps
  <2> QED BY <2>2, SameWindowsCareful
<1> QED BY <1>3, <1>4, <1>5, <1>6

LEMMA MonitorKeysCareful ==
  ASSUME IInv, NEW i \in {-1, 1}, KeyFocusMon(i) \/ KeyTagMon(i)
  PROVE  Careful
<1>1. Sound(wm) /\ DirToMon(wm, i) \in MonsOf(wm) /\ wm.nmons > 1
  BY DirToMonConnected DEF IInv, KeyFocusMon, KeyTagMon
<1>2. MaxMons # 1
  BY <1>1, OneMonitor
<1>3. CASE KeyFocusMon(i)
  BY <1>1, <1>3, MonitorFocusCareful DEF KeyFocusMon, Handle
<1>4. CASE KeyTagMon(i)
  <2>1. Selected(wm) \in Managed(wm)
    BY <1>1, <1>4, SelectedManaged DEF KeyTagMon
  <2>2. SameViews(wm, wm')
    BY <1>1, <1>4, <2>1, SendMonKeeps DEF KeyTagMon, Handle
  <2> QED BY <1>2, <2>2, SameViewsYield DEF Careful
<1> QED BY <1>3, <1>4

LEMMA KeyCareful ==
  ASSUME IInv, Key
  PROVE  Careful
<1>1. ASSUME NEW i \in {-1, 1},
             KeyShiftView(i) \/ KeyShiftTag(i) \/ KeyFocusMon(i) \/ KeyTagMon(i)
      PROVE  Careful
  BY <1>1, TagKeysCareful, MonitorKeysCareful
<1>2. CASE \/ \E mask \in TagArgs \cup {{}} : KeyView(mask)
           \/ \E mask \in TagArgs : KeyTag(mask)
           \/ \E t \in OrdinaryTags : KeyToggleView(t) \/ KeyToggleTag(t)
           \/ \E i \in 0..(NScratch - 1) : KeyToggleScratch(i)
  BY <1>2, TagKeysCareful
<1>3. CASE \/ \E arg \in StackArgs : KeyFocusStack(arg) \/ KeyPushStack(arg)
           \/ KeyZoom \/ KeyToggleFloating
  BY <1>3, StackKeysCareful
<1>4. CASE KeyToggleSticky
  BY <1>4, MarksCareful DEF KeyToggleSticky, Handle, Marks
<1>5. CASE KeyToggleFullscreen
  <2>1. Selected(wm) \in Client
    BY <1>5, SelectedManaged DEF IInv, KeyToggleFullscreen
  <2> QED BY <1>5, <2>1, FullscreenCareful DEF KeyToggleFullscreen, Handle
<1>6. ASSUME NEW tiled \in BOOLEAN, KeySetLayout(tiled)
      PROVE  Careful
  <2>1. wm \in Memories
    BY DEF IInv, Sound, Listed
  <2>2. wm'.tagset = wm.tagset /\ wm'.seltags = wm.seltags /\ wm'.fault = wm.fault
    BY <1>6, <2>1 DEF KeySetLayout, Handle, Memories
  <2> QED BY <2>2, SameFaultCareful DEF SameViews
<1> QED BY <1>1, <1>2, <1>3, <1>4, <1>5, <1>6 DEF Key

LEMMA ConfigureNotifyCareful ==
  ASSUME IInv, NEW n \in 1..MaxMons, NEW p \in Mon, NEW moved \in BOOLEAN,
         NEW resized \in BOOLEAN, ConfigureNotify(n, p, moved, resized)
  PROVE  Careful /\ (MaxMons = 1 => FocusStays(wm, wm'))
<1>1. /\ Sound(wm) /\ p < n
      /\ wm' = ConfigureMonitors(wm, n, p, moved, resized)
  BY DEF IInv, ConfigureNotify, Handle
<1>2. /\ Handles(wm, wm', {}) /\ Yields(wm, wm')
      /\ MaxMons = 1 => FocusStays(wm, wm') /\ (Safe(wm) => ~Failed(wm'))
  BY <1>1, ConfigureKeeps
<1> QED BY <1>2 DEF Careful, FailsUnseen

\* A restarted dwm knows of no sticky windows and has not failed.
LEMMA RestartCareful ==
  ASSUME IInv, Restart
  PROVE  Careful
<1>1. wm'.issticky = {} /\ wm'.fault = "none"
  BY DEF Restart, Fresh
<1> QED BY <1>1 DEF Careful, Yields, FailsUnseen, Failed

LEMMA ScanCareful ==
  ASSUME IInv, Scan
  PROVE  Careful
<1>1. /\ scanning \in Seq(Client) /\ scanning # <<>>
      /\ NoRepeats(scanning) /\ ToSet(scanning) \cap Managed(wm) = {}
  BY DEF IInv, ScanApart, Scan
<1>2. PICK urgent \in BOOLEAN : wm' = Manage(wm, Head(scanning), urgent)
  BY DEF Scan, AsksAttention
<1>3. Head(scanning) \in Client \ Managed(wm)
  BY <1>1, HeadAndTail
<1> QED BY <1>2, <1>3, ManagedCareful

LEMMA NextCareful ==
  ASSUME IInv, [Next]_vars
  PROVE  Careful
<1>1. CASE \E c \in Client : WindowEvent(c)
  BY <1>1, WindowEventCareful
<1>2. CASE PointerEvent
  BY <1>2, PointerEventCareful
<1>3. CASE Key
  BY <1>3, KeyCareful
<1>4. CASE \E n \in 1..MaxMons, p \in Mon, moved, resized \in BOOLEAN :
             ConfigureNotify(n, p, moved, resized)
  BY <1>4, ConfigureNotifyCareful
<1>5. CASE Restart
  BY <1>5, RestartCareful
<1>6. CASE Scan
  BY <1>6, ScanCareful
<1>7. CASE UNCHANGED vars
  BY <1>7, SameFaultCareful DEF vars, SameViews
<1> QED BY <1>1, <1>2, <1>3, <1>4, <1>5, <1>6, <1>7 DEF Next

\* A step that changes anything starts from a dwm that runs.
LEMMA NextRuns ==
  ASSUME Next
  PROVE  ~Failed(wm)
<1> USE DEF Does, Idle, Running, Failed
<1>1. ASSUME NEW c \in Client, WindowEvent(c)
      PROVE  ~Failed(wm)
  BY <1>1 DEF WindowEvent, MapRequest, UnmapNotify, DestroyNotify,
       ClientStartsFullscreen, ClientMessageActive, ClientMessageState,
       PropertyHints, PropertyTransient, PropertyWindowType
<1>2. CASE PointerEvent
  BY <1>2 DEF PointerEvent, EnterWindow, ButtonPress, StartDrag, EnterRoot,
       MotionNotify, EndDrag, DragMotion
<1>3. CASE Key
  BY <1>3 DEF Key, KeyView, KeyTag, KeyToggleView, KeyToggleTag, KeyToggleScratch,
       KeyShiftView, KeyShiftTag, KeyFocusMon, KeyTagMon, KeyFocusStack, KeyPushStack,
       KeyZoom, KeyToggleFloating, KeyToggleSticky, KeyToggleFullscreen, KeySetLayout
<1>4. CASE \E n \in 1..MaxMons, p \in Mon, moved, resized \in BOOLEAN :
             ConfigureNotify(n, p, moved, resized)
  BY <1>4 DEF ConfigureNotify
<1>5. CASE Restart \/ Scan
  BY <1>5 DEF Restart, Scan
<1> QED BY <1>1, <1>2, <1>3, <1>4, <1>5 DEF Next

------------------------------------------------------------------------------
(* The theorems.                                                            *)

LEMMA InitKeeps ==
  ASSUME Init
  PROVE  IInv /\ FocusOk(wm) /\ KeyboardOk(wm)
<1>1. PICK n \in 1..MaxMons : \E p \in 0..(n - 1) : wm = Fresh(n, p, NoWindows, {})
  BY DEF Init
<1>2. NoWindows \in [Client -> [tags : SUBSET TAGMASK, num : Mon \cup {-1}]]
  BY DEF NoWindows, NoInfo
<1>3. Sound(wm) /\ Managed(wm) = {} /\ FocusOk(wm)
  BY <1>1, <1>2, FreshSound
<1>4. IInv
  BY <1>3 DEF Init, IInv, DragHeld, ScanApart, NoRepeats, ToSet
<1> QED BY <1>3, <1>4 DEF FocusOk, FocusRight, KeyboardOk

\* Every step keeps the invariant; those that arrange the focus keep it right.
LEMMA NextKeeps ==
  ASSUME IInv, [Next]_vars
  PROVE  /\ Keeps
         /\ "hotplug" \notin Keys => FocusStays(wm, wm') \/ KeyToggleSticky
<1>1. CASE \E c \in Client : WindowEvent(c)
  BY <1>1, WindowEventKeeps
<1>2. CASE PointerEvent
  BY <1>2, PointerEventKeeps
<1>3. CASE Key
  BY <1>3, KeyKeeps
<1>4. CASE \E n \in 1..MaxMons, p \in Mon, moved, resized \in BOOLEAN :
             ConfigureNotify(n, p, moved, resized)
  BY <1>4, ConfigureNotifyKeeps DEF ConfigureNotify, Does
<1>5. CASE Restart
  BY <1>5, RestartKeeps
<1>6. CASE Scan
  BY <1>6, ScanKeeps
<1>7. CASE UNCHANGED vars
  BY <1>7, StutterKeeps
<1> QED BY <1>1, <1>2, <1>3, <1>4, <1>5, <1>6, <1>7 DEF Next

\* On one monitor, monitors that are configured keep the focus right as well.
LEMMA OneMonitorKeeps ==
  ASSUME IInv, [Next]_vars, MaxMons = 1
  PROVE  IInv' /\ (FocusStays(wm, wm') \/ KeyToggleSticky)
<1>1. CASE \E c \in Client : WindowEvent(c)
  BY <1>1, WindowEventKeeps DEF Keeps
<1>2. CASE PointerEvent
  BY <1>2, PointerEventKeeps DEF Keeps
<1>3. CASE Key
  BY <1>3, KeyKeeps DEF Keeps
<1>4. CASE \E n \in 1..MaxMons, p \in Mon, moved, resized \in BOOLEAN :
             ConfigureNotify(n, p, moved, resized)
  BY <1>4, ConfigureNotifyKeeps, ConfigureNotifyCareful DEF Keeps
<1>5. CASE Restart
  BY <1>5, RestartKeeps DEF Keeps
<1>6. CASE Scan
  BY <1>6, ScanKeeps DEF Keeps
<1>7. CASE UNCHANGED vars
  BY <1>7, StutterKeeps DEF Keeps
<1> QED BY <1>1, <1>2, <1>3, <1>4, <1>5, <1>6, <1>7 DEF Next

THEOREM Invariance == Spec => []IInv
<1>1. Init => IInv
  BY InitKeeps
<1>2. IInv /\ [Next]_vars => IInv'
  BY NextKeeps DEF Keeps
<1> QED BY <1>1, <1>2, PTL DEF Spec

\* TypeOK: dwm's memory holds what its types say, whatever handler ran last.
THEOREM TypeCorrect == Spec => []TypeOK
<1>1. IInv => TypeOK
  BY DEF IInv, Sound, Listed, DragHeld, ScanApart, TypeOK
<1> QED BY <1>1, Invariance, PTL

(***************************************************************************)
(* ListsAgree: on every monitor the list of the clients and the stack hold *)
(* the same clients, each once, all on that monitor, and the selected      *)
(* monitor is connected (attach, detach, attachstack, detachstack, sendmon,*)
(* manage, unmanage, pop, pushstack, updategeom).                          *)
(***************************************************************************)
THEOREM ListsAlwaysAgree == Spec => []ListsAgree
<1>1. IInv => ListsAgree
  BY DEF IInv, Sound, Listed, ListsOn, ListsAgree
<1> QED BY <1>1, Invariance, PTL

\* TagsRemembered: what setclienttagprop left on a managed window is its tags.
THEOREM TagsAlwaysRemembered == Spec => []TagsRemembered
<1>1. IInv => TagsRemembered
  BY DEF IInv, Sound, Noted, TagsRemembered
<1> QED BY <1>1, Invariance, PTL

(***************************************************************************)
(* OldStateKept: while a window stays fullscreen, no request changes what  *)
(* setfullscreen will make of it when it leaves fullscreen.                *)
(***************************************************************************)
THEOREM OldStateAlwaysKept == Spec => OldStateKept
<1>1. IInv /\ [Next]_vars => [OldKept(wm, wm')]_vars
  BY NextKeeps DEF Keeps
<1>2. OldKept(wm, wm') <=> \A c \in wm.isfullscreen \cap wm'.isfullscreen :
                             c \in wm.oldstate <=> c \in wm'.oldstate
  BY DEF OldKept
<1> QED BY <1>1, <1>2, Invariance, PTL DEF Spec, OldStateKept

(***************************************************************************)
(* TagsFollowTheUser: only the selected window or the dragged one changes  *)
(* tags, and a window managed again has the tags dwm last noted on it.     *)
(***************************************************************************)
THEOREM TagsAlwaysFollow == Spec => TagsFollowTheUser
<1> DEFINE Follow ==
      /\ \A c \in Managed(wm) \cap Managed(wm') :
           wm'.tags[c] # wm.tags[c] => c \in {Selected(wm), drag}
      /\ \A c \in Managed(wm') \ Managed(wm) :
           wm.info[c] # NoInfo => wm'.tags[c] = wm.info[c].tags
<1>1. TagsKept(wm, wm', drag) => Follow
  BY DEF TagsKept
<1>2. IInv /\ [Next]_vars => [Follow]_vars
  BY <1>1, NextKeeps DEF Keeps
<1> QED BY <1>2, Invariance, PTL DEF Spec, TagsFollowTheUser

(***************************************************************************)
(* FocusNotLost, while no monitor comes or goes: after every handler, the  *)
(* keyboard is on the root window only if the selected monitor shows no    *)
(* window.                                                                 *)
(***************************************************************************)
THEOREM FocusNeverLost == "hotplug" \notin Keys => (Spec => []FocusNotLost)
<1> SUFFICES ASSUME "hotplug" \notin Keys
             PROVE  Spec => []FocusNotLost
  OBVIOUS
<1>1. Init => IInv /\ KeyboardOk(wm)
  BY InitKeeps
<1>2. IInv /\ KeyboardOk(wm) /\ [Next]_vars => IInv' /\ KeyboardOk(wm)'
  BY NextKeeps, KeyToggleStickyKeeps DEF Keeps, FocusStays
<1>3. KeyboardOk(wm) => FocusNotLost
  BY DEF KeyboardOk, FocusNotLost, Running, Failed
<1> QED BY <1>1, <1>2, <1>3, PTL DEF Spec

(***************************************************************************)
(* SelectedIsShown, while no monitor comes or goes and without the key for *)
(* sticky windows: the selected window is one the user sees.               *)
(***************************************************************************)
THEOREM SelectedAlwaysShown ==
  {"hotplug", "sticky"} \cap Keys = {} => (Spec => []SelectedIsShown)
<1> SUFFICES ASSUME {"hotplug", "sticky"} \cap Keys = {}
             PROVE  Spec => []SelectedIsShown
  OBVIOUS
<1>1. Init => IInv /\ FocusOk(wm)
  BY InitKeeps
<1>2. IInv /\ FocusOk(wm) /\ [Next]_vars => IInv' /\ FocusOk(wm)'
  BY NextKeeps DEF Keeps, FocusStays, KeyToggleSticky, Does
<1>3. FocusOk(wm) => SelectedIsShown
  BY DEF FocusOk, FocusRight, SelectedIsShown, Running, Failed
<1> QED BY <1>1, <1>2, <1>3, PTL DEF Spec

(***************************************************************************)
(* StickyYieldsOnView, without the key for scratchpads (which moves the    *)
(* focus to a sticky one because it is asked to): a change of the view     *)
(* never takes the focus from an ordinary window to a sticky one while the *)
(* new view shows an ordinary window, for any number of monitors.          *)
(***************************************************************************)
THEOREM StickyAlwaysYields == "scratch" \notin Keys => (Spec => StickyYieldsOnView)
<1> SUFFICES ASSUME "scratch" \notin Keys
             PROVE  Spec => StickyYieldsOnView
  OBVIOUS
<1> DEFINE Yield == LET m == wm.selmon IN
      (/\ wm'.selmon = m /\ wm'.nmons = wm.nmons /\ wm'.clients = wm.clients
       /\ View(wm', m) # View(wm, m)
       /\ wm.sel[m] \notin wm.issticky /\ wm'.sel[m] \in wm'.issticky)
        => Shown(wm', m) \subseteq wm'.issticky
<1>1. Yields(wm, wm') => Yield
  BY DEF Yields
<1>2. IInv /\ [Next]_vars => [Yield]_vars
  BY <1>1, NextCareful DEF Careful
<1> QED BY <1>2, Invariance, PTL DEF Spec, StickyYieldsOnView

(***************************************************************************)
(* FailsOnlyUnseen, on one monitor and without the keys of shiftview       *)
(* (whose loop does not end while a scratchpad alone is shown): focus      *)
(* never asks whether a missing selection is sticky, pushstack never makes *)
(* a window its own successor, and the only division by zero is that of    *)
(* stackpos when the selected window is hidden and no other is shown.      *)
(***************************************************************************)
THEOREM FailsOnlyWhenUnseen ==
  MaxMons = 1 /\ "shift" \notin Keys => (Spec => FailsOnlyUnseen)
<1> SUFFICES ASSUME MaxMons = 1, "shift" \notin Keys
             PROVE  Spec => FailsOnlyUnseen
  OBVIOUS
<1> DEFINE Unseen ==
      wm'.fault # "none" =>
        /\ wm'.fault = "div"
        /\ Selected(wm) # NoClient /\ Shown(wm, wm.selmon) = {}
<1>1. Init => IInv /\ KeyboardOk(wm)
  BY InitKeeps
<1>2. IInv /\ KeyboardOk(wm) /\ [Next]_vars => IInv' /\ KeyboardOk(wm)'
  <2> SUFFICES ASSUME IInv, KeyboardOk(wm), [Next]_vars
               PROVE  IInv' /\ KeyboardOk(wm)'
    OBVIOUS
  <2>1. IInv' /\ (FocusStays(wm, wm') \/ KeyToggleSticky)
    BY OneMonitorKeeps
  <2> QED BY <2>1, KeyToggleStickyKeeps DEF FocusStays
<1>3. IInv /\ KeyboardOk(wm) /\ [Next]_vars => [Unseen]_vars
  <2> SUFFICES ASSUME IInv, KeyboardOk(wm), Next
               PROVE  Unseen
    OBVIOUS
  <2>1. Safe(wm)
    BY NextRuns, KeyboardSafe
  <2>2. FailsUnseen(wm, wm')
    BY <2>1, NextCareful DEF Careful
  <2> QED BY <2>2 DEF FailsUnseen, Failed
<1> QED BY <1>1, <1>2, <1>3, PTL DEF Spec, FailsOnlyUnseen

(***************************************************************************)
(* PushReturns: from any state in which the selected window is on the      *)
(* screen, pushstack down and then up again restores the order of the      *)
(* windows on the screen, and never moves a window other than the selected *)
(* one past another, hidden ones included.                                 *)
(***************************************************************************)
THEOREM PushAlwaysReturns == Spec => []PushReturns
<1>1. ASSUME IInv, CanWalk
      PROVE  Sound(wm) /\ Selected(wm) \in Shown(wm, wm.selmon)
  BY <1>1 DEF IInv, CanWalk
<1>2. IInv => PushReturns
  BY <1>1, PushThereAndBack DEF PushReturns
<1> QED BY <1>2, Invariance, PTL

(***************************************************************************)
(* WalkVisitsAll: with n windows on the screen, none of them fullscreen,   *)
(* focusstack(INC(+1)) repeated n - 1 times has had each of them selected. *)
(***************************************************************************)
THEOREM WalkAlwaysVisitsAll == Spec => []WalkVisitsAll
<1> DEFINE n == Cardinality(Shown(wm, wm.selmon))
<1>1. ASSUME IInv, CanWalk, Shown(wm, wm.selmon) \cap wm.isfullscreen = {}
      PROVE  Walked(n - 1) = Shown(wm, wm.selmon)
  <2>1. Sound(wm) /\ ~Failed(wm) /\ Selected(wm) \in Shown(wm, wm.selmon)
    BY <1>1 DEF IInv, CanWalk, Idle, Running, Failed
  <2>2. n - 1 \in Nat
    BY <2>1, PlacesCount
  <2> DEFINE W == CHOOSE w : WalkFrom(wm, n - 1, w)
  <2> HIDE DEF n
  <2>3. WalkFrom(wm, n - 1, W)
    BY <2>1, <2>2, WalkFromExists
  <2>4. Walked(n - 1) = { Selected(W[k]) : k \in 0 .. n - 1 }
    BY DEF Walked, WalkFrom
  <2> HIDE DEF W
  <2>5. { Selected(W[k]) : k \in 0 .. n - 1 } = Shown(wm, wm.selmon)
    BY <1>1, <2>1, <2>3, WalkAround DEF n
  <2> QED BY <2>4, <2>5
<1>2. IInv => WalkVisitsAll
  BY <1>1 DEF WalkVisitsAll
<1> QED BY <1>2, Invariance, PTL

==============================================================================
