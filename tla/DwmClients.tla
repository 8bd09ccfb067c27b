------------------------------ MODULE DwmClients ------------------------------
(***************************************************************************)
(* dwm as a state machine (dwm.c).  dwm is one thread that takes X events  *)
(* off a queue and runs a handler to its end for each, so one action is    *)
(* one handler: a key or a button of config.h, or an event of the X        *)
(* server.  Events may be stale: one that was queued before another        *)
(* handler hid the window it is about arrives all the same.  Only the two  *)
(* mouse loops (movemouse, resizemouse) handle other events before they    *)
(* end: "drag" is the window such a loop holds.                            *)
(***************************************************************************)
EXTENDS DwmRoutines

CONSTANT Keys   \* the groups of keys and events this instance enables

KeyGroups == { "view", "toggleview", "tag", "toggletag", "sticky", "float",
               "fullscreen", "urgent", "scratch", "shift", "stack", "zoom",
               "layout", "monitor", "pointer", "drag", "hotplug", "hints",
               "restart" }

ASSUME KeysAssumption == Keys \subseteq KeyGroups

VARIABLES wm,           \* the process's memory and its properties on windows
          scanning,     \* windows scan() has yet to manage, after a restart
          drag          \* window the mouse loop holds, or NoClient

vars == <<wm, scanning, drag>>

NoWindows == [c \in Client |-> NoInfo]

Init ==
  /\ \E n \in 1..MaxMons : \E p \in 0..(n - 1) : wm = Fresh(n, p, NoWindows, {})
  /\ scanning = <<>>
  /\ drag = NoClient

Running == wm.fault = "none" /\ scanning = <<>>
Idle == Running /\ drag = NoClient
Does(group) == Idle /\ group \in Keys

\* The handler leaves the memory w behind, and nothing else changes.
Handle(w) == wm' = w /\ UNCHANGED <<scanning, drag>>

------------------------------------------------------------------------------
(* Windows: maprequest, unmapnotify, destroynotify and what clients ask.    *)

\* What a new window's WM_HINTS may say.
AsksAttention == IF "urgent" \in Keys THEN BOOLEAN ELSE {FALSE}

\* The mouse loops pass MapRequest on to its handler.
MapRequest(c) ==
  /\ Running
  /\ c \notin Managed(wm)
  /\ \E urgent \in AsksAttention : Handle(Manage(wm, c, urgent))

\* A window that is withdrawn keeps its properties; it may be mapped again.
UnmapNotify(c) ==
  /\ Idle
  /\ c \in Managed(wm)
  /\ Handle(Unmanage(wm, c))

DestroyNotify(c) ==
  /\ Idle
  /\ c \in Managed(wm)
  /\ LET gone == Unmanage(wm, c)
     IN  Handle([gone EXCEPT !.info[c] = NoInfo, !.netwm = @ \ {c}])

\* A client sets _NET_WM_STATE on its window before it maps it.
ClientStartsFullscreen(c) ==
  /\ Does("fullscreen")
  /\ c \notin Managed(wm)
  /\ Handle([wm EXCEPT !.netwm = @ \cup {c}])

ClientMessageState(c, action) ==
  /\ Does("fullscreen")
  /\ c \in Managed(wm)
  /\ Handle(SetFullscreen(wm, c,
       action = "add" \/ (action = "toggle" /\ c \notin wm.isfullscreen)))

ClientMessageActive(c) ==
  /\ Does("urgent")
  /\ c \in Managed(wm)
  /\ c # Selected(wm)
  /\ Handle([wm EXCEPT !.isurgent = @ \cup {c}])

\* propertynotify of WM_HINTS (updatewmhints).
PropertyHints(c, urgent) ==
  /\ Does("urgent")
  /\ c \in Managed(wm)
  /\ ~(c = Selected(wm) /\ urgent)
  /\ Handle([wm EXCEPT !.isurgent = Flag(@, c, urgent)])

\* propertynotify of WM_TRANSIENT_FOR and of _NET_WM_WINDOW_TYPE.
PropertyTransient(c) ==
  /\ Does("hints")
  /\ c \in Managed(wm) \ wm.isfloating
  /\ Hints[c].transient \in Managed(wm)
  /\ Handle([wm EXCEPT !.isfloating = @ \cup {c}])

PropertyWindowType(c) ==
  /\ Does("hints")
  /\ c \in Managed(wm)
  /\ Handle(UpdateWindowType(wm, c))

------------------------------------------------------------------------------
(* The pointer: enternotify, motionnotify, buttonpress.                     *)

OnMonitor(m) == [wm EXCEPT !.selmon = m]

EnterWindow(c) ==
  /\ Does("pointer")
  /\ c \in Managed(wm)
  /\ wm.mon[c] # wm.selmon \/ c # Selected(wm)
  /\ Handle(Focus(OnMonitor(wm.mon[c]), c))

EnterRoot(m) ==
  /\ Does("pointer")
  /\ m \in MonsOf(wm) \ {wm.selmon}
  /\ Handle(Refocus(OnMonitor(m)))

MotionNotify(m) ==
  /\ Does("pointer")
  /\ m \in MonsOf(wm)
  /\ Handle(Refocus(OnMonitor(m)))

\* A press on a window of another monitor selects that monitor first.
Pressed(c) ==
  Focus(IF wm.mon[c] # wm.selmon THEN Refocus(OnMonitor(wm.mon[c])) ELSE wm, c)

ButtonPress(c) ==
  /\ Does("pointer")
  /\ c \in Managed(wm)
  /\ Handle(Pressed(c))

\* Mod and a button on a window: the press, then the mouse loop.
StartDrag(c) ==
  /\ Does("drag")
  /\ c \in Managed(wm)
  /\ wm' = Pressed(c)
  /\ drag' = IF Selected(wm') \in wm'.isfullscreen \/ Failed(wm')
             THEN NoClient ELSE Selected(wm')
  /\ UNCHANGED scanning

\* The pointer moved further than "snap": a tiled window is made floating.
DragMotion ==
  /\ Running
  /\ drag \notin wm.isfloating \cup {NoClient}
  /\ wm.tiled[wm.selmon]
  /\ Handle(ToggleFloating(wm))

EndDrag(m) ==
  /\ Running
  /\ drag # NoClient
  /\ m \in MonsOf(wm)
  /\ wm' = IF m = wm.selmon THEN wm
           ELSE Refocus([SendMon(wm, drag, m) EXCEPT !.selmon = m])
  /\ drag' = NoClient
  /\ UNCHANGED scanning

------------------------------------------------------------------------------
(* The keys of config.h, and the clicks on the bar that do the same.        *)

TagArgs == { {t} : t \in OrdinaryTags } \cup {TAGMASK}

KeyView(mask) == Does("view") /\ Handle(ViewTags(wm, mask))
KeyToggleView(t) == Does("toggleview") /\ Handle(ToggleViewTags(wm, {t}))
KeyTag(mask) == Does("tag") /\ Handle(TagSelected(wm, mask))
KeyToggleTag(t) == Does("toggletag") /\ Handle(ToggleTagsOfSelected(wm, {t}))
KeyToggleScratch(i) == Does("scratch") /\ Handle(ToggleScratchpad(wm, i))
KeyShiftView(i) == Does("shift") /\ Handle(ShiftViewTo(wm, i))
KeyShiftTag(i) == Does("shift") /\ Handle(ShiftTagTo(wm, i))
KeyFocusStack(arg) == Does("stack") /\ Handle(FocusInStack(wm, arg))
KeyPushStack(arg) == Does("stack") /\ Handle(PushInStack(wm, arg))
KeyZoom == Does("zoom") /\ Handle(ZoomSelected(wm))
KeyToggleFloating == Does("float") /\ Handle(ToggleFloating(wm))

\* togglesticky arranges the monitor but leaves the focus where it is.
KeyToggleSticky ==
  /\ Does("sticky")
  /\ Selected(wm) # NoClient
  /\ Handle([wm EXCEPT !.issticky = Flag(@, Selected(wm), Selected(wm) \notin @)])

KeyToggleFullscreen ==
  /\ Does("fullscreen")
  /\ Selected(wm) # NoClient
  /\ Handle(SetFullscreen(wm, Selected(wm), Selected(wm) \notin wm.isfullscreen))

\* setlayout: one of the layouts that tile, or the floating one.
KeySetLayout(tiled) ==
  /\ Does("layout")
  /\ Handle([wm EXCEPT !.tiled[wm.selmon] = tiled])

KeyFocusMon(i) ==
  /\ Does("monitor")
  /\ wm.nmons > 1
  /\ DirToMon(wm, i) # wm.selmon
  /\ Handle(Refocus(OnMonitor(DirToMon(wm, i))))

KeyTagMon(i) ==
  /\ Does("monitor")
  /\ wm.nmons > 1
  /\ Selected(wm) # NoClient
  /\ Handle(SendMon(wm, Selected(wm), DirToMon(wm, i)))

StackArgs == { Inc(1), Inc(-1), At(0) }

------------------------------------------------------------------------------
(* Monitors are connected and disconnected; dwm is restarted.               *)

ConfigureNotify(n, p, moved, resized) ==
  /\ Does("hotplug")
  /\ p < n
  /\ Handle(ConfigureMonitors(wm, n, p, moved, resized))

\* The orders in which scan() may meet the windows: transients come last.
ScanOrders(Cs) ==
  { s \in [1..Cardinality(Cs) -> Cs] :
      /\ ToSet(s) = Cs
      /\ \A i, j \in DOMAIN s :
           (Hints[s[i]].transient # NoClient /\ Hints[s[j]].transient = NoClient) => j < i }

(***************************************************************************)
(* quit(1) or SIGHUP: main executes dwm again, without cleanup().  The new *)
(* process finds the windows it managed still mapped.                      *)
(***************************************************************************)
Restart ==
  /\ Does("restart")
  /\ \E p \in MonsOf(wm) : wm' = Fresh(wm.nmons, p, wm.info, wm.netwm)
  /\ scanning' \in ScanOrders(Managed(wm))
  /\ UNCHANGED drag

Scan ==
  /\ wm.fault = "none"
  /\ scanning # <<>>
  /\ \E urgent \in AsksAttention : wm' = Manage(wm, Head(scanning), urgent)
  /\ scanning' = Tail(scanning)
  /\ UNCHANGED drag

WindowEvent(c) ==
  \/ MapRequest(c) \/ UnmapNotify(c) \/ DestroyNotify(c)
  \/ ClientStartsFullscreen(c) \/ ClientMessageActive(c)
  \/ \E action \in {"add", "remove", "toggle"} : ClientMessageState(c, action)
  \/ \E urgent \in BOOLEAN : PropertyHints(c, urgent)
  \/ PropertyTransient(c) \/ PropertyWindowType(c)

PointerEvent ==
  \/ \E c \in Client : EnterWindow(c) \/ ButtonPress(c) \/ StartDrag(c)
  \/ \E m \in Mon : EnterRoot(m) \/ MotionNotify(m) \/ EndDrag(m)
  \/ DragMotion

Key ==
  \/ \E mask \in TagArgs \cup {{}} : KeyView(mask)
  \/ \E mask \in TagArgs : KeyTag(mask)
  \/ \E t \in OrdinaryTags : KeyToggleView(t) \/ KeyToggleTag(t)
  \/ \E i \in 0..(NScratch - 1) : KeyToggleScratch(i)
  \/ \E i \in {-1, 1} : KeyShiftView(i) \/ KeyShiftTag(i) \/ KeyFocusMon(i) \/ KeyTagMon(i)
  \/ \E arg \in StackArgs : KeyFocusStack(arg) \/ KeyPushStack(arg)
  \/ KeyZoom \/ KeyToggleFloating \/ KeyToggleSticky \/ KeyToggleFullscreen
  \/ \E tiled \in BOOLEAN : KeySetLayout(tiled)

Next ==
  \/ \E c \in Client : WindowEvent(c)
  \/ PointerEvent
  \/ Key
  \/ \E n \in 1..MaxMons, p \in Mon, moved, resized \in BOOLEAN :
       ConfigureNotify(n, p, moved, resized)
  \/ Restart
  \/ Scan

Spec == Init /\ [][Next]_vars

------------------------------------------------------------------------------
(* Properties.                                                              *)

\* The record is one of dwm's memories.
Memories ==
  [nmons : 1..MaxMons, selmon : Mon,
   clients : [Mon -> Seq(Client)], stack : [Mon -> Seq(Client)],
   sel : [Mon -> Client \cup {NoClient}],
   tagset : [Mon -> [0..1 -> (SUBSET TAGMASK) \ {{}}]], seltags : [Mon -> 0..1],
   tiled : [Mon -> BOOLEAN],
   mon : [Client -> Mon], tags : [Client -> SUBSET TAGMASK],
   issticky : SUBSET Client, isfloating : SUBSET Client,
   isfullscreen : SUBSET Client, oldstate : SUBSET Client, isurgent : SUBSET Client,
   info : [Client -> [tags : SUBSET TAGMASK, num : Mon \cup {-1}]],
   netwm : SUBSET Client, fault : {"none", "null", "div", "hang", "cycle"}]

\* dwm's memory holds what its types say, with at most one failure noted in it.
TypeOK ==
  /\ wm \in Memories
  /\ scanning \in Seq(Client)
  /\ drag \in Client \cup {NoClient}

NoRepeats(s) == \A i, j \in DOMAIN s : s[i] = s[j] => i = j

(***************************************************************************)
(* The two lists of a monitor hold the same clients, each once, and a      *)
(* client is on the lists of the monitor it says it is on; the selected    *)
(* monitor is one that is connected (attach, detach, updategeom).  Every   *)
(* handler walks these lists without looking for their ends anywhere else. *)
(***************************************************************************)
ListsAgree ==
  /\ wm.selmon \in MonsOf(wm)
  /\ \A m \in Mon :
    /\ NoRepeats(wm.clients[m]) /\ NoRepeats(wm.stack[m])
    /\ ToSet(wm.clients[m]) = ToSet(wm.stack[m])
    /\ \A c \in ToSet(wm.clients[m]) : wm.mon[c] = m
    /\ m \notin MonsOf(wm) => wm.clients[m] = <<>>

(***************************************************************************)
(* The keyboard is never left on the root window while the selected        *)
(* monitor shows a window: when no client is selected, none is visible     *)
(* (focus, after every handler that shows, moves or removes windows).      *)
(***************************************************************************)
FocusNotLost ==
  (Running /\ Selected(wm) = NoClient) => Shown(wm, wm.selmon) = {}

(***************************************************************************)
(* The selected window of the selected monitor is on the screen, so that   *)
(* what is typed is seen.  togglesticky alone breaks this, so the property *)
(* is for instances without that key.                                      *)
(***************************************************************************)
SelectedIsShown ==
  (Running /\ Selected(wm) # NoClient) => IsVisible(wm, Selected(wm))

(***************************************************************************)
(* On one monitor a handler fails in one way only: stepping through the    *)
(* windows divides by zero, and that only when the selected window is one  *)
(* that togglesticky has hidden, with no other window on the screen.       *)
(***************************************************************************)
FailsOnlyUnseen ==
  [][wm'.fault # "none" =>
       /\ wm'.fault = "div"
       /\ Selected(wm) # NoClient /\ Shown(wm, wm.selmon) = {}]_vars

(***************************************************************************)
(* Only the selected window, or the one being dragged, ever changes tags,  *)
(* and a window that is managed again, after it was unmapped or after a    *)
(* restart, comes back with the tags dwm last wrote on it.                 *)
(***************************************************************************)
TagsFollowTheUser ==
  [][/\ \A c \in Managed(wm) \cap Managed(wm') :
          wm'.tags[c] # wm.tags[c] => c \in {Selected(wm), drag}
     /\ \A c \in Managed(wm') \ Managed(wm) :
          wm.info[c] # NoInfo => wm'.tags[c] = wm.info[c].tags]_vars

\* The tags that dwm keeps on a window for the next dwm are the window's (setclienttagprop
\* after every change of them).  Of the monitor's number, kept beside them, this does not
\* hold: updategeom moves windows to another monitor and leaves the number.
TagsRemembered == \A c \in Managed(wm) : wm.info[c].tags = wm.tags[c]

(***************************************************************************)
(* Changing the view never moves the focus from an ordinary window to a    *)
(* sticky one while the new view shows an ordinary window (focus, "check   *)
(* for available stickies" last).  The key that shows a scratchpad asks    *)
(* for it, so the property is for instances without that key.              *)
(***************************************************************************)
StickyYieldsOnView ==
  [][LET m == wm.selmon IN
     (/\ wm'.selmon = m /\ wm'.nmons = wm.nmons /\ wm'.clients = wm.clients
      /\ View(wm', m) # View(wm, m)
      /\ wm.sel[m] \notin wm.issticky /\ wm'.sel[m] \in wm'.issticky)
       => Shown(wm', m) \subseteq wm'.issticky]_vars

\* While a window is fullscreen nothing overwrites what it returns to: a
\* second request for fullscreen does not make "floating" the old state.
OldStateKept ==
  [][\A c \in wm.isfullscreen \cap wm'.isfullscreen :
       c \in wm.oldstate <=> c \in wm'.oldstate]_vars

(***************************************************************************)
(* Walking through the windows with Mod+j and Mod+k: from a shown window,  *)
(* the next one's previous is that window again, and going on visits every *)
(* shown window before it comes back (stackpos and focusstack).            *)
(***************************************************************************)
CanWalk == Idle /\ Selected(wm) \in Shown(wm, wm.selmon) \ wm.isfullscreen

Walked(n) ==
  LET w[k \in 0..n] == IF k = 0 THEN wm ELSE FocusInStack(w[k - 1], Inc(1))
  IN  { Selected(w[k]) : k \in 0..n }

WalkVisitsAll ==
  (CanWalk /\ Shown(wm, wm.selmon) \cap wm.isfullscreen = {}) =>
    Walked(Cardinality(Shown(wm, wm.selmon)) - 1) = Shown(wm, wm.selmon)

\* What place each window on the screen has among them, in tiling order.
ShownRanks(w) == [c \in Shown(w, w.selmon) |-> ShownBefore(w, c)]

(***************************************************************************)
(* Moving the selected window down and up again (Mod+Shift+j, Mod+Shift+k) *)
(* restores the order of the windows on the screen, and moves no other     *)
(* window past a third, hidden ones included (pushstack).                  *)
(***************************************************************************)
PushReturns ==
  CanWalk =>
    LET down == PushInStack(wm, Inc(1))
        up   == PushInStack(down, Inc(-1))
        m    == wm.selmon
    IN  /\ ShownRanks(up) = ShownRanks(wm)
        /\ Without(down.clients[m], Selected(wm)) = Without(wm.clients[m], Selected(wm))

------------------------------------------------------------------------------
(* What the documentation says and the code does not do.                    *)

\* dwm.c, focus: "No windows found; check for available stickies" - with no
\* window selected it reads the selected window's issticky instead.
StickiesAreChecked == wm.fault # "null"

==============================================================================
