----------------------------- MODULE DwmSwallow -----------------------------
(***************************************************************************)
(* Window swallowing (dwm.c: swallow, unswallow, unmanage and the handlers *)
(* that call them) between three parties: the programs, the X server, and  *)
(* dwm.  dwm's requests reach the server some time after the handler that  *)
(* made them, and the server's events reach dwm some time after what they  *)
(* tell of; both keep their order.  A Client structure is named by the     *)
(* window it was made for, and "win" is the window it stands for now.      *)
(***************************************************************************)
EXTENDS Integers, Sequences

CONSTANTS Terminals,        \* windows a rule of config.h calls terminals
          Programs,         \* windows of programs started from a terminal
          StartedFrom,      \* the terminal of each program
          NeverSwallowed,   \* programs that float or that a rule excepts
          None,
          MaxMaps           \* bound: how often windows are mapped altogether

Windows == Terminals \cup Programs

ASSUME KindsAssumption == Terminals \cap Programs = {} /\ MaxMaps \in Nat
ASSUME StartedFromAssumption == StartedFrom \in [Programs -> Terminals]
ASSUME NoneAssumption == None \notin Windows
ASSUME NeverAssumption == NeverSwallowed \subseteq Programs

VARIABLES server,     \* each window's state at the server
          asked,      \* how often a window was to be mapped
          events,     \* server to dwm
          requests,   \* dwm to server
          dwm,        \* dwm's memory
          scanning,   \* windows a new dwm has found and not looked at yet (scan)
          raced,      \* a window left while dwm's request for it was on its way
          orphans     \* history: terminals that were hidden when dwm was restarted

vars == <<server, asked, events, requests, dwm, scanning, raced, orphans>>

WindowStates == {"none", "unmapped", "mapped", "gone"}

NoClients == [clients |-> {}, win |-> [i \in Windows |-> i],
              swallowing |-> [i \in Windows |-> None]]

Init ==
  /\ server = [w \in Windows |-> "none"]
  /\ asked = 0
  /\ events = <<>> /\ requests = <<>>
  /\ dwm = NoClients
  /\ scanning = {}
  /\ raced = FALSE
  /\ orphans = {}

Exists(w) == server[w] \in {"unmapped", "mapped"}

-----------------------------------------------------------------------------
(* Programs.                                                                *)

\* A window is made or mapped again.  The server redirects the request to dwm;
\* the terminal that dwm hid does not ask again.
MapWindow(w) ==
  /\ server[w] \in {"none", "unmapped"}
  /\ asked < MaxMaps /\ (w \in Terminals => server[w] = "none")
  /\ w \in Programs => Exists(StartedFrom[w]) \/ server[w] = "unmapped"
  /\ server' = [server EXCEPT ![w] = "unmapped"]
  /\ asked' = asked + 1
  /\ events' = Append(events, [type |-> "MapRequest", win |-> w])
  /\ UNCHANGED <<requests, dwm, scanning, raced, orphans>>

\* dwm's request to map the window, or to hide its terminal, is on its way.
UnderWay(w) ==
  \E i \in 1..Len(requests) :
    \/ requests[i].win = w
    \/ w \in Programs /\ requests[i] = [type |-> "unmap", win |-> StartedFrom[w]]

Leaves(w, state, told) ==
  /\ server' = [server EXCEPT ![w] = state]
  /\ events' = events \o told
  /\ raced' = (raced \/ UnderWay(w))
  /\ UNCHANGED <<asked, requests, dwm, scanning, orphans>>

UnmapNotify(w) == [type |-> "UnmapNotify", win |-> w]
DestroyNotify(w) == [type |-> "DestroyNotify", win |-> w]

Withdraw(w) ==
  /\ w \in Programs /\ server[w] = "mapped"
  /\ Leaves(w, "unmapped", <<UnmapNotify(w)>>)

Close(w) ==
  /\ Exists(w)
  /\ Leaves(w, "gone", IF server[w] = "mapped" THEN <<UnmapNotify(w), DestroyNotify(w)>>
                       ELSE <<DestroyNotify(w)>>)

-----------------------------------------------------------------------------
(* The server takes dwm's requests in order.  A request on a window that is *)
(* gone is an error xerror ignores.                                         *)

Serve ==
  /\ requests # <<>>
  /\ LET r == Head(requests)
         now == server[r.win]
     IN /\ server' = [server EXCEPT ![r.win] =
                        IF ~Exists(r.win) THEN @
                        ELSE IF r.type = "map" THEN "mapped" ELSE "unmapped"]
        /\ events' = IF now = "mapped" /\ r.type = "unmap"
                     THEN Append(events, UnmapNotify(r.win)) ELSE events
  /\ requests' = Tail(requests)
  /\ UNCHANGED <<asked, dwm, scanning, raced, orphans>>

-----------------------------------------------------------------------------
(* dwm's routines, on its memory m; what they ask of the server is collected *)
(* in m.out.                                                                *)

WinToClient(m, w) == {i \in m.clients : m.win[i] = w}
SwallowingClient(m, w) ==
  {i \in m.clients : m.swallowing[i] # None /\ m.win[m.swallowing[i]] = w}

Ask(m, type, w) == [m EXCEPT !.out = Append(@, [type |-> type, win |-> w])]

\* Mutant: the window of a freed Client is cleared.
FreedClearsWindow(m, i) ==
  [m EXCEPT !.win = [m.win EXCEPT ![i] = None],
            !.swallowing = [m.swallowing EXCEPT ![i] = None]]

\* A Client that is freed keeps nothing.
Freed(m, i) ==
  [m EXCEPT !.win = [m.win EXCEPT ![i] = i],
            !.swallowing = [m.swallowing EXCEPT ![i] = None]]

\* The client of the terminal whose shell is an ancestor of the program.
TermForWin(m, w) ==
  IF w \in Terminals THEN {}
  ELSE {i \in m.clients : /\ i = StartedFrom[w] /\ m.swallowing[i] = None
                          /\ server[i] # "gone"}

\* Mutant: the swallowed client stays on the lists.
SwallowWithoutDetach(m, p, c) ==
  IF c \in NeverSwallowed THEN m
  ELSE [Ask(m, "unmap", m.win[p]) EXCEPT
          !.swallowing = [m.swallowing EXCEPT ![p] = c],
          !.win = [m.win EXCEPT ![p] = m.win[c], ![c] = m.win[p]]]

\* p and c exchange windows; c leaves the lists.
Swallow(m, p, c) ==
  IF c \in NeverSwallowed THEN m
  ELSE [Ask(m, "unmap", m.win[p]) EXCEPT
          !.clients = m.clients \ {c},
          !.swallowing = [m.swallowing EXCEPT ![p] = c],
          !.win = [m.win EXCEPT ![p] = m.win[c], ![c] = m.win[p]]]

\* c takes back the window that s, which it swallowed, kept.
TakesBack(m, c, s) ==
  Freed([m EXCEPT !.win = [m.win EXCEPT ![c] = m.win[s]],
                  !.swallowing = [m.swallowing EXCEPT ![c] = None]], s)

\* Mutant: the terminal's window is not mapped again.
UnswallowUnmapped(m, c) == TakesBack(m, c, m.swallowing[c])

Unswallow(m, c) ==
  LET back == TakesBack(m, c, m.swallowing[c]) IN Ask(back, "map", back.win[c])

Manage(m, w) ==
  LET m1 == Ask([m EXCEPT !.clients = m.clients \cup {w},
                          !.win = [m.win EXCEPT ![w] = w]], "map", w)
      terms == TermForWin(m, w)
  IN IF terms = {} THEN m1 ELSE Swallow(m1, CHOOSE p \in terms : TRUE, w)

Leave(m, c) == Freed([m EXCEPT !.clients = m.clients \ {c}], c)

\* Mutant: whoever leaves is taken off the lists, with what it swallowed.
UnmanageSwallowing(m, c) == Leave(m, c)

\* s, whose own window is gone, stays what it shows.
FreeSwallowed(m, s) ==
  LET freed == Freed(m, m.swallowing[s])
  IN [freed EXCEPT !.swallowing = [freed.swallowing EXCEPT ![s] = None]]

\* A client that swallows another gives its place back; one that is swallowed is
\* freed where it is; any other leaves the lists.
Unmanage(m, c) ==
  LET ss == SwallowingClient(m, m.win[c]) IN
  IF m.swallowing[c] # None THEN Unswallow(m, c)
  ELSE IF ss # {} THEN FreeSwallowed(m, CHOOSE s \in ss : TRUE)
  ELSE Leave(m, c)

OnUnmap(m, w) ==
  LET cs == WinToClient(m, w) IN IF cs = {} THEN m ELSE Unmanage(m, CHOOSE c \in cs : TRUE)

\* Mutant: only windows of clients on the lists are looked for.
OnDestroyListed(m, w) == OnUnmap(m, w)

OnDestroy(m, w) ==
  LET cs == WinToClient(m, w)
      ss == SwallowingClient(m, w)
  IN IF cs # {} THEN Unmanage(m, CHOOSE c \in cs : TRUE)
     ELSE IF ss # {} THEN Unmanage(m, m.swallowing[CHOOSE s \in ss : TRUE])
     ELSE m

-----------------------------------------------------------------------------
(* dwm's handlers.  The root window and the client both have dwm told, so a *)
(* notification comes twice.                                                *)

Memory == [clients |-> dwm.clients, win |-> dwm.win, swallowing |-> dwm.swallowing,
           out |-> <<>>]

Keeps(m) ==
  /\ dwm' = [clients |-> m.clients, win |-> m.win, swallowing |-> m.swallowing]
  /\ requests' = requests \o m.out

Take(type) ==
  /\ scanning = {}
  /\ events # <<>> /\ Head(events).type = type
  /\ events' = Tail(events)
  /\ UNCHANGED <<server, asked, scanning, raced, orphans>>

\* XGetWindowAttributes waits for the server, which has then done all that dwm
\* asked before.
HandleMapRequest ==
  /\ Take("MapRequest") /\ requests = <<>>
  /\ LET w == Head(events).win
     IN Keeps(IF Exists(w) /\ WinToClient(Memory, w) = {} THEN Manage(Memory, w) ELSE Memory)

HandleUnmapNotify ==
  /\ Take("UnmapNotify")
  /\ LET w == Head(events).win IN Keeps(OnUnmap(OnUnmap(Memory, w), w))

HandleDestroyNotify ==
  /\ Take("DestroyNotify")
  /\ LET w == Head(events).win IN Keeps(OnDestroy(OnDestroy(Memory, w), w))

\* quit(1) or SIGHUP: main executes dwm again, without cleanup().  What dwm asked
\* and Xlib had not sent is lost, and so are the events for the old dwm.  The new one
\* looks at the windows there are; a hidden terminal is not mapped, nor is its
\* WM_STATE iconic.
Restart ==
  /\ scanning = {}
  /\ dwm' = NoClients /\ events' = <<>> /\ requests' = <<>>
  /\ scanning' = {w \in Windows : Exists(w)}
  /\ orphans' = orphans \cup {t \in Terminals : server[t] = "unmapped"}
  /\ UNCHANGED <<server, asked, raced>>

\* scan: in the server's order, which is any.  XGetWindowAttributes waits here too.
Scan(w) ==
  /\ w \in scanning /\ requests = <<>>
  /\ scanning' = scanning \ {w}
  /\ Keeps(IF server[w] = "mapped" THEN Manage(Memory, w) ELSE Memory)
  /\ UNCHANGED <<server, asked, events, raced, orphans>>

Handle == HandleMapRequest \/ HandleUnmapNotify \/ HandleDestroyNotify

Next ==
  \/ \E w \in Windows : MapWindow(w) \/ Withdraw(w) \/ Close(w)
  \/ Serve \/ Handle \/ Restart \/ \E w \in Windows : Scan(w)

Spec == Init /\ [][Next]_vars

\* The server and dwm's loops take what waits for them (run, scan); programs do what
\* they like.
FairSpec ==
  Spec /\ WF_vars(Serve) /\ WF_vars(Handle) /\ WF_vars(\E w \in Windows : Scan(w))

-----------------------------------------------------------------------------
\* The two queues name windows, and dwm's memory is that of its clients.
TypeOK ==
  /\ server \in [Windows -> WindowStates]
  /\ asked \in 0..MaxMaps
  /\ events \in Seq([type : {"MapRequest", "UnmapNotify", "DestroyNotify"}, win : Windows])
  /\ requests \in Seq([type : {"map", "unmap"}, win : Windows])
  /\ dwm \in [clients : SUBSET Windows, win : [Windows -> Windows],
               swallowing : [Windows -> Windows \cup {None}]]
  /\ scanning \subseteq Windows
  /\ raced \in BOOLEAN /\ orphans \subseteq Terminals

\* The exchanges of swallow and unswallow, and the frees of unmanage, in whatever
\* order events come: no two clients stand for one window, a swallowed client is on
\* no list and has one owner, so what is freed was nobody else's.
OwnersAgree ==
  LET owners == {i \in dwm.clients : dwm.swallowing[i] # None}
      swallowed == {dwm.swallowing[i] : i \in owners}
  IN /\ swallowed \cap dwm.clients = {}
     /\ \A i, j \in owners : dwm.swallowing[i] = dwm.swallowing[j] => i = j
     /\ \A i, j \in dwm.clients \cup swallowed : dwm.win[i] = dwm.win[j] => i = j

AtRest == events = <<>> /\ requests = <<>> /\ scanning = {}

\* When nothing is under way, what is mapped is managed and what is managed is
\* mapped; nobody is left with a window dwm does not know.  Left out: a window that
\* leaves while the request to map it, or to hide its terminal, is on its way.
MappedAreManaged ==
  AtRest /\ ~raced =>
    {w \in Windows : server[w] = "mapped"} = {dwm.win[i] : i \in dwm.clients}

\* A hidden terminal is held by a client, which shows the program in its place;
\* except that a restart forgets what it finds hidden.
HiddenIsHeld ==
  AtRest => \A t \in Terminals \ orphans :
              server[t] = "unmapped" => SwallowingClient(Memory, t) # {}

Alone(t) == \A p \in Programs : StartedFrom[p] = t => server[p] = "gone"

\* A program takes its terminal's place for as long as it lives: then the terminal
\* is on the screen again, even after a race, unless it has ended itself or dwm was
\* restarted meanwhile (unswallow).
TerminalComesBack ==
  \A t \in Terminals :
    (server[t] = "unmapped" /\ Alone(t)) ~> (server[t] # "unmapped" \/ t \in orphans)

\* dwm's README.md of the swallow patch: a program run from a terminal "temporarily
\* takes its place to save space".  The restarted dwm does not know of the terminal,
\* whose window stays unmapped when the program ends.
Taken(t) == SwallowingClient(Memory, t) # {}
TakesPlaceTemporarily ==
  \A t \in Terminals : [](Taken(t) => [](Alone(t) /\ ~raced => <>(server[t] # "unmapped")))
=============================================================================
