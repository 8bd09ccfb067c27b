------------------------------ MODULE DwmRoutines -----------------------------
(***************************************************************************)
(* The core of dwm (dwm.c): monitors, the windows they manage, the tags    *)
(* that decide which of them are shown, and the focus.                     *)
(*                                                                         *)
(* Handlers of dwm are compositions of a few routines (focus, detachstack, *)
(* attach, ...) that update the same lists.  The process's memory is one   *)
(* record here, and a routine is an operator from records to records, as   *)
(* in the code it is a function on the global lists.  DwmClients has the   *)
(* state machine made of them.                                             *)
(*                                                                         *)
(* The fields of the record:                                               *)
(*   nmons        monitors, numbered 0..nmons-1 in the order of the list   *)
(*   selmon       selected monitor                                         *)
(*   clients      per monitor, the clients in tiling order    (m->clients) *)
(*   stack        per monitor, the clients in focus order       (m->stack) *)
(*   sel          per monitor, its selected client or NoClient    (m->sel) *)
(*   tagset, seltags   per monitor, two views and which one is in force    *)
(*   tiled        per monitor, whether the layout arranges windows         *)
(*   mon, tags    per client, c->mon and c->tags                           *)
(*   issticky, isfloating, isfullscreen, oldstate, isurgent                *)
(*                the clients whose flag is set                            *)
(*   info, netwm  two properties dwm keeps on the windows, in the server:  *)
(*                _NET_CLIENT_INFO (tags and monitor number) and whether   *)
(*                _NET_WM_STATE is fullscreen                              *)
(*   fault        how the process ended up outside its lists, or "none":   *)
(*                "null" (dereferenced NULL), "div" (divided by zero),     *)
(*                "hang" (a loop without end), "cycle" (a list that        *)
(*                contains itself)                                         *)
(* Geometry, drawing and input grabs are left out, as is the swallowing of *)
(* terminals (the swallowing fields are NULL throughout).                  *)
(***************************************************************************)
EXTENDS DwmTags, Sequences

CONSTANTS
  Client,       \* windows that may be mapped
  NoClient,     \* NULL
  MaxMons,      \* most monitors ever connected
  Hints         \* per client: what the window and config.h's rules say of it

Mon == 0..(MaxMons - 1)
NoInfo == [tags |-> {}, num |-> -1]

ASSUME ClientAssumption ==
  /\ NoClient \notin Client
  /\ MaxMons \in Nat \ {0}

\* transient: WM_TRANSIENT_FOR; fixed: equal minimum and maximum sizes;
\* dialog: _NET_WM_WINDOW_TYPE; tags and float: the rule that matches.
ASSUME HintsAssumption ==
  Hints \in [Client -> [tags : SUBSET TAGMASK, float : BOOLEAN, dialog : BOOLEAN,
                        fixed : BOOLEAN, transient : Client \cup {NoClient}]]

------------------------------------------------------------------------------
(* Looking things up.                                                       *)

ToSet(s) == { s[i] : i \in DOMAIN s }
View(w, m) == w.tagset[m][w.seltags[m]]
MonsOf(w) == 0..(w.nmons - 1)
Managed(w) == UNION { ToSet(w.clients[m]) : m \in MonsOf(w) }

IsVisible(w, c) == w.tags[c] \cap View(w, w.mon[c]) # {} \/ c \in w.issticky
Shown(w, m) == { c \in ToSet(w.stack[m]) : IsVisible(w, c) }
Selected(w) == w.sel[w.selmon]

\* The first element of list s that is in S, or NoClient.
FirstIn(s, S) ==
  IF ToSet(s) \cap S = {} THEN NoClient
  ELSE s[CHOOSE i \in DOMAIN s : s[i] \in S /\ \A j \in 1..(i - 1) : s[j] \notin S]

Position(s, c) == CHOOSE i \in DOMAIN s : s[i] = c
After(s, c) == SubSeq(s, Position(s, c) + 1, Len(s))
Without(s, c) == SubSeq(s, 1, Position(s, c) - 1) \o After(s, c)
Push(s, c) == <<c>> \o s
PutAfter(s, c, p) == SubSeq(s, 1, Position(s, p)) \o <<c>> \o After(s, p)

\* How many shown windows come before c in its monitor's list.
ShownBefore(w, c) ==
  LET s == w.clients[w.mon[c]]
  IN  Cardinality({ i \in 1..(Position(s, c) - 1) : IsVisible(w, s[i]) })

NextTiled(w, s) == FirstIn(s, { c \in ToSet(s) : IsVisible(w, c) } \ w.isfloating)

\* The monitor before or after the selected one, round the list.
DirToMon(w, i) == (w.selmon + i) % w.nmons

------------------------------------------------------------------------------
(* The routines.                                                            *)

Fail(w, how) == [w EXCEPT !.fault = how]
Failed(w) == w.fault # "none"
Flag(S, c, on) == IF on THEN S \cup {c} ELSE S \ {c}

Detach(w, c) == [w EXCEPT !.clients[w.mon[c]] = Without(@, c)]
Attach(w, c) == [w EXCEPT !.clients[w.mon[c]] = Push(@, c)]
AttachStack(w, c) == [w EXCEPT !.stack[w.mon[c]] = Push(@, c)]

\* Mutant: the selection is merely dropped.
DetachStackDropsSel(w, c) ==
  LET m == w.mon[c]
  IN  [w EXCEPT !.stack[m] = Without(@, c),
                !.sel[m] = IF @ = c THEN NoClient ELSE @]

DetachStack(w, c) ==
  LET m == w.mon[c]
      rest == [w EXCEPT !.stack[m] = Without(@, c)]
  IN  IF w.sel[m] = c
      THEN [rest EXCEPT !.sel[m] = FirstIn(rest.stack[m], Shown(rest, m))]
      ELSE rest

SetClientTagProp(w, c) ==
  [w EXCEPT !.info[c] = [tags |-> w.tags[c], num |-> w.mon[c]]]

\* Mutant: sticky windows are taken like any other.
FocusCandidateSticky(w) == FirstIn(w.stack[w.selmon], Shown(w, w.selmon))

(***************************************************************************)
(* focus(c): c if it is shown, else the first shown window of the selected *)
(* monitor's stack, sticky ones last unless the focus is on a sticky one.  *)
(* The scan asks "selmon->sel->issticky" of a monitor without selection as *)
(* soon as it meets a sticky window.                                       *)
(***************************************************************************)
FocusCandidate(w) ==
  LET m == w.selmon
      plain == IF w.sel[m] \in w.issticky THEN Shown(w, m) ELSE Shown(w, m) \ w.issticky
      first == FirstIn(w.stack[m], plain)
  IN  IF first # NoClient THEN first ELSE FirstIn(w.stack[m], Shown(w, m))

FocusDereferencesNull(w) ==
  /\ Selected(w) = NoClient
  /\ FirstIn(w.stack[w.selmon], Shown(w, w.selmon)) \in w.issticky

Raise(w, c) == AttachStack(DetachStack(w, c), c)

GiveFocus(w, c) ==
  IF c = NoClient
  THEN [w EXCEPT !.sel[w.selmon] = NoClient]
  ELSE [Raise(w, c) EXCEPT !.selmon = w.mon[c], !.sel[w.mon[c]] = c,
                           !.isurgent = @ \ {c}]

Focus(w, c) ==
  IF Failed(w) THEN w
  ELSE IF c # NoClient /\ IsVisible(w, c) THEN GiveFocus(w, c)
  ELSE IF FocusDereferencesNull(w) THEN Fail(w, "null")
  ELSE GiveFocus(w, FocusCandidate(w))

Refocus(w) == Focus(w, NoClient)

EnterFullscreen(w, c) ==
  [w EXCEPT !.isfullscreen = @ \cup {c}, !.netwm = @ \cup {c},
            !.oldstate = Flag(@, c, c \in w.isfloating), !.isfloating = @ \cup {c}]

LeaveFullscreen(w, c) ==
  [w EXCEPT !.isfullscreen = @ \ {c}, !.netwm = @ \ {c},
            !.isfloating = Flag(@, c, c \in w.oldstate)]

\* Mutant: a second request saves the state again.
SetFullscreenAgain(w, c, on) ==
  IF on THEN EnterFullscreen(w, c)
  ELSE IF c \in w.isfullscreen THEN LeaveFullscreen(w, c) ELSE w

SetFullscreen(w, c, on) ==
  IF on /\ c \notin w.isfullscreen THEN EnterFullscreen(w, c)
  ELSE IF ~on /\ c \in w.isfullscreen THEN LeaveFullscreen(w, c) ELSE w

UpdateWindowType(w, c) ==
  LET full == IF c \in w.netwm THEN SetFullscreen(w, c, TRUE) ELSE w
  IN  [full EXCEPT !.isfloating = Flag(@, c, c \in @ \/ Hints[c].dialog)]

ToggleFloating(w) ==
  LET c == Selected(w)
  IN  IF c = NoClient \/ c \in w.isfullscreen THEN w
      ELSE [w EXCEPT !.isfloating = Flag(@, c, c \notin @ \/ Hints[c].fixed)]

SendMon(w, c, m) ==
  IF w.mon[c] = m THEN w
  ELSE LET off == DetachStack(Detach(w, c), c)
           on  == [off EXCEPT !.mon[c] = m, !.tags[c] = View(w, m)]
       IN  Refocus(SetClientTagProp(AttachStack(Attach(on, c), c), c))

\* Mutant: no focus(NULL) after the view has changed.
ViewTagsUnfocused(w, mask) ==
  IF mask = View(w, w.selmon) THEN w
  ELSE LET flip == 1 - w.seltags[w.selmon]
       IN  [w EXCEPT !.seltags[w.selmon] = flip,
                     !.tagset[w.selmon][flip] = IF mask = {} THEN @ ELSE mask]

ViewTags(w, mask) ==
  IF mask = View(w, w.selmon) THEN w
  ELSE LET flip == 1 - w.seltags[w.selmon]
           to   == [w EXCEPT !.seltags[w.selmon] = flip,
                             !.tagset[w.selmon][flip] = IF mask = {} THEN @ ELSE mask]
       IN  Refocus(to)

\* Mutants: no focus(NULL), or no setclienttagprop, after the tags have changed.
TagSelectedUnfocused(w, mask) ==
  IF Selected(w) = NoClient \/ mask = {} THEN w
  ELSE SetClientTagProp([w EXCEPT !.tags[Selected(w)] = mask], Selected(w))
TagSelectedUnsaid(w, mask) ==
  IF Selected(w) = NoClient \/ mask = {} THEN w
  ELSE Refocus([w EXCEPT !.tags[Selected(w)] = mask])

TagSelected(w, mask) ==
  IF Selected(w) = NoClient \/ mask = {} THEN w
  ELSE Refocus(SetClientTagProp([w EXCEPT !.tags[Selected(w)] = mask], Selected(w)))

RuledTags(w, c) ==
  IF Hints[c].tags # {} THEN Hints[c].tags ELSE View(w, w.selmon) \ SPTAGMASK

(***************************************************************************)
(* manage(c), with applyrules and updatewindowtype.  A transient of a      *)
(* managed window goes where that one is; any other window goes to the     *)
(* selected monitor and to its rule's tags, or else to the tags in view.   *)
(* A _NET_CLIENT_INFO left on the window by dwm overrides both.  "urgent": *)
(* whether the window's WM_HINTS ask for attention.                        *)
(***************************************************************************)
Placed(w, c, urgent) ==
  LET t == Hints[c].transient
      follows == t \in Managed(w)
  IN  UpdateWindowType([w EXCEPT
        !.mon[c]  = IF follows THEN w.mon[t] ELSE w.selmon,
        !.tags[c] = IF follows THEN w.tags[t] ELSE RuledTags(w, c),
        !.isurgent = Flag(@, c, urgent),
        !.isfloating = Flag(@, c, ~follows /\ Hints[c].float)], c)

Restored(w, c) ==
  IF w.info[c] = NoInfo THEN w
  ELSE [w EXCEPT !.tags[c] = w.info[c].tags,
                 !.mon[c] = IF w.info[c].num \in MonsOf(w) THEN w.info[c].num ELSE @]

Manage(w, c, urgent) ==
  LET placed == SetClientTagProp(Restored(Placed(w, c, urgent), c), c)
      floats == Hints[c].transient # NoClient \/ Hints[c].fixed
      settled == IF c \in placed.isfloating THEN placed
                 ELSE [placed EXCEPT !.isfloating = Flag(@, c, floats),
                                     !.oldstate = Flag(@, c, floats)]
      listed == AttachStack(Attach(settled, c), c)
      cleared == IF Selected(listed) # NoClient /\ c \notin listed.isfloating
                 THEN SetFullscreen(listed, Selected(listed), FALSE) ELSE listed
  IN  Refocus([cleared EXCEPT !.sel[cleared.mon[c]] = c])

\* unmanage(c): off both lists; what was known of the window is forgotten.
Unmanage(w, c) ==
  LET off == DetachStack(Detach(w, c), c)
  IN  Refocus([off EXCEPT !.mon[c] = 0, !.tags[c] = {}, !.issticky = @ \ {c},
                          !.isfloating = @ \ {c}, !.isfullscreen = @ \ {c},
                          !.oldstate = @ \ {c}, !.isurgent = @ \ {c}])

------------------------------------------------------------------------------
(* What the keys compute.                                                   *)

\* Mutant: the last tag of the view may be toggled off.
ToggleViewTagsEmpty(w, mask) ==
  LET to == (View(w, w.selmon) \ mask) \cup (mask \ View(w, w.selmon))
  IN  Refocus([w EXCEPT !.tagset[w.selmon][w.seltags[w.selmon]] = to])

ToggleViewTags(w, mask) ==
  LET to == (View(w, w.selmon) \ mask) \cup (mask \ View(w, w.selmon))
  IN  IF to = {} THEN w
      ELSE Refocus([w EXCEPT !.tagset[w.selmon][w.seltags[w.selmon]] = to])

ToggleTagsOfSelected(w, mask) ==
  IF Selected(w) = NoClient THEN w
  ELSE TagSelected(w, (w.tags[Selected(w)] \ mask) \cup (mask \ w.tags[Selected(w)]))

(***************************************************************************)
(* togglescratch(i): with a window of scratchpad i on the monitor, toggle  *)
(* it in the view and give it the focus when that shows it; without one,   *)
(* add it to the view and start the program (whose window comes later).    *)
(***************************************************************************)
ToggleScratchpad(w, i) ==
  LET m == w.selmon
      pad == {SPTAG(i)}
      c == FirstIn(w.clients[m], { x \in Client : SPTAG(i) \in w.tags[x] })
      toggled == ToggleViewTags(w, pad)
  IN  IF c = NoClient
      THEN [w EXCEPT !.tagset[m][w.seltags[m]] = @ \cup pad]
      ELSE IF IsVisible(toggled, c) THEN Focus(toggled, c) ELSE toggled

TagsOn(w, Cs) == UNION { w.tags[c] : c \in Cs }

ShiftViewTo(w, i) ==
  LET here == ToSet(w.clients[w.selmon])
      occupied == TagsOn(w, { c \in here : w.tags[c] \cap SPTAGMASK = {} })
      view == View(w, w.selmon)
  IN  IF ShiftViewHangs(view, occupied, i) THEN Fail(w, "hang")
      ELSE ViewTags(w, ShiftedView(view, occupied, i) \cap TAGMASK)

ShiftTagTo(w, i) ==
  LET occupied == TagsOn(w, ToSet(w.clients[w.selmon]))
  IN  TagSelected(w, ShiftedTag(View(w, w.selmon), occupied, i))

(***************************************************************************)
(* The argument of focusstack and pushstack: INC(d), relative to the       *)
(* selected window, or an absolute position.  stackpos divides by the      *)
(* number of shown windows.                                                *)
(***************************************************************************)
Inc(d) == [rel |-> TRUE, i |-> d]
At(i) == [rel |-> FALSE, i |-> i]

NoStackPos(w, arg) == w.clients[w.selmon] = <<>> \/ (arg.rel /\ Selected(w) = NoClient)
StackPosDivides(w, arg) ==
  ~NoStackPos(w, arg) /\ arg.rel /\ Shown(w, w.selmon) = {}

\* Mutant: stops at the ends of the list instead of going round.
StackPosClamped(w, arg) ==
  LET n == Cardinality(Shown(w, w.selmon))
      i == ShownBefore(w, Selected(w)) + arg.i
  IN  IF ~arg.rel THEN arg.i ELSE IF i < 0 THEN 0 ELSE IF i >= n THEN n - 1 ELSE i

StackPos(w, arg) ==
  IF arg.rel
  THEN (ShownBefore(w, Selected(w)) + arg.i) % Cardinality(Shown(w, w.selmon))
  ELSE arg.i

Last(s) == s[Len(s)]

\* The shown window of the selected monitor with n shown ones before it, or
\* the last of the list.
NthShown(w, n) ==
  LET s == w.clients[w.selmon]
      hits == { c \in Shown(w, w.selmon) : ShownBefore(w, c) = n }
  IN  IF hits = {} THEN Last(s) ELSE CHOOSE c \in hits : TRUE

FocusInStack(w, arg) ==
  IF StackPosDivides(w, arg) THEN Fail(w, "div")
  ELSE IF NoStackPos(w, arg) \/ Selected(w) = NoClient \/ Selected(w) \in w.isfullscreen
  THEN w
  ELSE Focus(w, NthShown(w, StackPos(w, arg)))

\* Mutant: counts the selected window among the others.
OthersBeforeWithSel(w, c) == ShownBefore(w, c)

\* How many shown windows other than the selected one come before c.
OthersBefore(w, c) ==
  LET s == w.clients[w.selmon]
      passed == Selected(w) \in Shown(w, w.selmon)
                  /\ Position(s, Selected(w)) < Position(s, c)
  IN  ShownBefore(w, c) - (IF passed THEN 1 ELSE 0)

(***************************************************************************)
(* pushstack: to the front, or behind the n-th shown window among the      *)
(* others.  Should the search run to the end of a list whose last element  *)
(* is the selected window, that window would become its own successor.     *)
(***************************************************************************)
PushInStack(w, arg) ==
  LET sel == Selected(w)
      s == w.clients[w.selmon]
      n == StackPos(w, arg)
      hits == { c \in Shown(w, w.selmon) \ {sel} : OthersBefore(w, c) = n - 1 }
      behind == IF hits = {} THEN Last(s) ELSE CHOOSE c \in hits : TRUE
  IN  IF StackPosDivides(w, arg) THEN Fail(w, "div")
      ELSE IF NoStackPos(w, arg) \/ sel = NoClient THEN w
      ELSE IF n = 0 THEN Attach(Detach(w, sel), sel)
      ELSE IF behind = sel THEN Fail(w, "cycle")
      ELSE [w EXCEPT !.clients[w.selmon] = PutAfter(Without(s, sel), sel, behind)]

\* zoom: the selected window, or the one after it if it is the first tiled
\* one already, becomes the first of the list and gets the focus (pop).
ZoomSelected(w) ==
  LET sel == Selected(w)
      s == w.clients[w.selmon]
      c == IF sel = NextTiled(w, s) THEN NextTiled(w, After(s, sel)) ELSE sel
  IN  IF ~w.tiled[w.selmon] \/ sel = NoClient \/ sel \in w.isfloating \/ c = NoClient
      THEN w
      ELSE Focus(Attach(Detach(w, c), c), c)

------------------------------------------------------------------------------
(* Monitors come and go at the end of the list (updategeom).                *)

NoView == [i \in 0..1 |-> {0}]
Reversed(s) == [i \in DOMAIN s |-> s[Len(s) + 1 - i]]

\* The clients in s go one by one to the front of the first monitor's list.
ToFirst(lists, m, s) == [lists EXCEPT ![0] = Reversed(s) \o @, ![m] = <<>>]

\* The last monitor m is gone; its clients go one by one to the front of the
\* first monitor's lists.
Emptied(w, m) ==
  [w EXCEPT
     !.clients = ToFirst(@, m, w.clients[m]), !.stack = ToFirst(@, m, w.clients[m]),
     !.sel[m] = NoClient, !.tagset[m] = NoView, !.seltags[m] = 0, !.tiled[m] = TRUE,
     !.nmons = m]

OnFirst(w, m) == [c \in Client |-> IF c \in ToSet(w.clients[m]) THEN 0 ELSE w.mon[c]]
Remaining(w, m) == IF w.selmon = m THEN 0 ELSE w.selmon

\* Mutants: the clients are not put on the first monitor's stack; they take the
\* tags in view, as in sendmon.
EvacuateLost(w, m) ==
  [Emptied(w, m) EXCEPT !.mon = OnFirst(w, m), !.selmon = Remaining(w, m),
                        !.stack[0] = w.stack[0]]
EvacuateRetags(w, m) ==
  [Emptied(w, m) EXCEPT
     !.mon = OnFirst(w, m), !.selmon = Remaining(w, m),
     !.tags = [c \in Client |-> IF c \in ToSet(w.clients[m]) THEN View(w, 0) ELSE @[c]]]
Evacuate(w, m) ==
  [Emptied(w, m) EXCEPT !.mon = OnFirst(w, m), !.selmon = Remaining(w, m)]

Resized(w, n) ==
  LET after[k \in n..w.nmons] == IF k = w.nmons THEN w ELSE Evacuate(after[k + 1], k)
  IN  IF n < w.nmons THEN after[n] ELSE [w EXCEPT !.nmons = n]

(***************************************************************************)
(* configurenotify for the root window: n monitors now, the pointer on     *)
(* monitor p; "moved": some remaining monitor's geometry differs;          *)
(* "resized": the root window's size does.  Losing a monitor without       *)
(* windows alone does not count as a change.                               *)
(***************************************************************************)
ConfigureMonitors(w, n, p, moved, resized) ==
  LET dirty == moved \/ n > w.nmons
                 \/ \E m \in n..(w.nmons - 1) : w.clients[m] # <<>>
      now == Resized(w, n)
      placed == IF dirty THEN [now EXCEPT !.selmon = p] ELSE now
  IN  IF dirty \/ resized THEN Refocus(placed) ELSE placed

\* The memory of a process that has just started, with n monitors and the
\* pointer on monitor p, and the properties it finds on the windows.
Fresh(n, p, info, netwm) ==
  [nmons |-> n, selmon |-> p,
   clients |-> [m \in Mon |-> <<>>], stack |-> [m \in Mon |-> <<>>],
   sel |-> [m \in Mon |-> NoClient],
   tagset |-> [m \in Mon |-> NoView], seltags |-> [m \in Mon |-> 0],
   tiled |-> [m \in Mon |-> TRUE],
   mon |-> [c \in Client |-> 0], tags |-> [c \in Client |-> {}],
   issticky |-> {}, isfloating |-> {}, isfullscreen |-> {}, oldstate |-> {},
   isurgent |-> {}, info |-> info, netwm |-> netwm, fault |-> "none"]
==============================================================================
