-------------------------- MODULE DwmSwallowProofs --------------------------
(***************************************************************************)
(* Proofs about window swallowing, for any terminals and programs: dwm's   *)
(* memory is well typed, its clients and the ones they hold agree on who   *)
(* owns which window, a hidden terminal is held, and when nothing is under *)
(* way dwm manages the windows that are mapped and no others.              *)
(***************************************************************************)
EXTENDS DwmSwallow, SequenceTheorems, TLAPS

MapRequest(w) == [type |-> "MapRequest", win |-> w]

\* A client that swallows another stands for the other's window, and the other
\* keeps the client's.
HoldsFirm(m) ==
  \A i \in Windows : m.swallowing[i] # None =>
    /\ i \in m.clients \cap Terminals
    /\ m.swallowing[i] \in Programs \ m.clients
    /\ m.win[i] = m.swallowing[i] /\ m.win[m.swallowing[i]] = i

\* A client stands for its own window or, a terminal, for a program's that is not
\* managed.
StandsFor(m) ==
  \A i \in m.clients :
    m.win[i] # i => i \in Terminals /\ m.win[i] \in Programs \ m.clients

\* A client that stands for a program's window, and swallows nobody, has lost its
\* own window.
Widowed(m) ==
  \A i \in m.clients :
    m.win[i] # i /\ m.swallowing[i] = None => server[i] = "gone"

Distinct(m) == \A i, j \in m.clients : m.win[i] = m.win[j] => i = j

Good(m) == HoldsFirm(m) /\ StandsFor(m) /\ Widowed(m) /\ Distinct(m)

\* Window w is new to memory m.
New(m, w) == w \notin m.clients /\ \A i \in m.clients : m.win[i] # w

\* What waits to be scanned or mapped is new, a terminal's request comes once, and
\* what is destroyed is gone.
QueuesAgree ==
  /\ \A w \in scanning : New(dwm, w) /\ server[w] # "none"
  /\ \A i \in dwm.clients : server[i] # "none"
  /\ \A k \in 1..Len(events) :
       /\ events[k].type = "DestroyNotify" => server[events[k].win] = "gone"
       /\ (events[k].type = "MapRequest" /\ events[k].win \in Terminals) =>
            /\ events[k].win \notin dwm.clients \cup scanning
            /\ server[events[k].win] # "none"
            /\ \A l \in 1..Len(events) : events[l] = events[k] => l = k

IInv == TypeOK /\ Good(dwm) /\ QueuesAgree

Requests == [type : {"map", "unmap"}, win : Windows]
Records ==
  [clients : SUBSET Windows, win : [Windows -> Windows],
   swallowing : [Windows -> Windows \cup {None}], out : Seq(Requests)]

-----------------------------------------------------------------------------
(* What dwm's routines do to a memory.                                      *)

\* Only what m.out says is asked.
LEMMA AskKeeps ==
  ASSUME NEW m \in Records, NEW type \in {"map", "unmap"}, NEW w \in Windows
  PROVE  /\ Ask(m, type, w) \in Records
         /\ Ask(m, type, w).clients = m.clients
         /\ Ask(m, type, w).win = m.win
         /\ Ask(m, type, w).swallowing = m.swallowing
  <1>1. [type |-> type, win |-> w] \in Requests
    BY DEF Requests
  <1>2. Append(m.out, [type |-> type, win |-> w]) \in Seq(Requests)
    BY <1>1 DEF Records
  <1> QED
    BY <1>2 DEF Ask, Records

\* Making a client for a new window, which may then take a terminal's place, keeps a
\* good memory good (manage, swallow).
LEMMA SwallowGood ==
  ASSUME NEW m \in Records, Good(m), NEW p \in m.clients \cap Terminals,
         NEW c \in m.clients \cap Programs, m.win[p] = p, m.win[c] = c,
         m.swallowing[p] = None
  PROVE  /\ Swallow(m, p, c) \in Records
         /\ Good(Swallow(m, p, c))
         /\ Swallow(m, p, c).clients \subseteq m.clients
         /\ \A i \in Swallow(m, p, c).clients :
              Swallow(m, p, c).win[i] = m.win[i] \/ Swallow(m, p, c).win[i] = c
  <1>1. CASE c \in NeverSwallowed
    BY <1>1 DEF Swallow
  <1>2. CASE c \notin NeverSwallowed
    <2> DEFINE n == Swallow(m, p, c)
    <2>1. /\ p \in Windows /\ c \in Windows /\ p # c
      BY KindsAssumption DEF Windows
    <2>2. /\ n.clients = m.clients \ {c}
          /\ n.swallowing = [m.swallowing EXCEPT ![p] = c]
          /\ n.win = [m.win EXCEPT ![p] = c, ![c] = p]
          /\ n \in Records
      <3> DEFINE a == Ask(m, "unmap", m.win[p])
      <3>1. m.win \in [Windows -> Windows] /\ m.swallowing \in [Windows -> Windows \cup {None}]
            /\ m.clients \in SUBSET Windows
        BY DEF Records
      <3>2. m.win[p] = p /\ m.win[c] = c /\ m.win[p] \in Windows
        BY <2>1
      <3>3. a \in Records /\ a.clients = m.clients /\ a.win = m.win
            /\ a.swallowing = m.swallowing
        BY <3>2, AskKeeps
      <3>4. n = [a EXCEPT !.clients = m.clients \ {c},
                          !.swallowing = [m.swallowing EXCEPT ![p] = c],
                          !.win = [m.win EXCEPT ![p] = c, ![c] = p]]
        BY <1>2, <3>2, Zenon DEF Swallow
      <3> HIDE DEF a, n
      <3>5. /\ [m.win EXCEPT ![p] = c, ![c] = p] \in [Windows -> Windows]
            /\ [m.swallowing EXCEPT ![p] = c] \in [Windows -> Windows \cup {None}]
        BY <2>1, <3>1
      <3> QED
        BY <3>1, <3>3, <3>4, <3>5 DEF Records
    <2>3. HoldsFirm(n)
      BY <2>1, <2>2, KindsAssumption, NoneAssumption DEF HoldsFirm, StandsFor, Good, Distinct, Records, Windows
    <2>4. StandsFor(n)
      BY <2>1, <2>2, KindsAssumption DEF StandsFor, Good, Distinct, Records, Windows
    <2>5. Widowed(n)
      BY <2>1, <2>2, NoneAssumption DEF Widowed, Good, Records, Windows
    <2>6. Distinct(n)
      BY <2>1, <2>2 DEF Distinct, Good, Records
    <2>7. \A i \in n.clients : n.win[i] = m.win[i] \/ n.win[i] = c
      BY <2>1, <2>2 DEF Records
    <2> HIDE DEF n
    <2> QED
      BY <2>2, <2>3, <2>4, <2>5, <2>6, <2>7 DEF Good, n
  <1> QED
    BY <1>1, <1>2

\* manage, of a window dwm does not know.
LEMMA ManageGood ==
  ASSUME NEW m \in Records, Good(m), NEW w \in Windows, New(m, w)
  PROVE  /\ Manage(m, w) \in Records
         /\ Good(Manage(m, w))
         /\ Manage(m, w).clients \subseteq m.clients \cup {w}
         /\ \A i \in Manage(m, w).clients :
              Manage(m, w).win[i] = w \/ (i \in m.clients /\ Manage(m, w).win[i] = m.win[i])
  <1> DEFINE placed == [m EXCEPT !.clients = m.clients \cup {w},
                                 !.win = [m.win EXCEPT ![w] = w]]
             n == Ask(placed, "map", w)
  <1>0. Manage(m, w) = IF TermForWin(m, w) = {} THEN n
                       ELSE Swallow(n, CHOOSE q \in TermForWin(m, w) : TRUE, w)
    BY DEF Manage
  <1>1. /\ placed \in Records
        /\ placed.clients = m.clients \cup {w}
        /\ placed.win = [m.win EXCEPT ![w] = w]
        /\ placed.swallowing = m.swallowing
    BY DEF Records
  <1>2. /\ n \in Records
        /\ n.clients = m.clients \cup {w}
        /\ n.win = [m.win EXCEPT ![w] = w]
        /\ n.swallowing = m.swallowing
    <2> HIDE DEF placed
    <2> QED
      BY <1>1, AskKeeps
  <1> HIDE DEF n
  <1>3. m.swallowing[w] = None /\ \A i \in Windows : m.swallowing[i] # w
    BY NoneAssumption DEF Good, HoldsFirm, New
  <1>4. Good(n)
    <2>1. HoldsFirm(n)
      BY <1>2, <1>3, KindsAssumption DEF HoldsFirm, Good, Records, Windows
    <2>2. StandsFor(n)
      BY <1>2, KindsAssumption DEF StandsFor, Good, Records, New
    <2>3. Widowed(n)
      BY <1>2 DEF Widowed, Good, Records
    <2>4. Distinct(n)
      BY <1>2 DEF Distinct, Good, Records, New
    <2> QED
      BY <2>1, <2>2, <2>3, <2>4 DEF Good
  <1>5. CASE TermForWin(m, w) = {}
    <2>1. Manage(m, w) = n
      BY <1>0, <1>5
    <2> QED
      BY <2>1, <1>2, <1>4 DEF Records
  <1>6. CASE TermForWin(m, w) # {}
    <2> DEFINE p == CHOOSE q \in TermForWin(m, w) : TRUE
    <2>1. p \in TermForWin(m, w)
      BY <1>6
    <2>2. Manage(m, w) = Swallow(n, p, w)
      BY <1>0, <1>6
    <2> HIDE DEF p
    <2>3. /\ w \in Programs /\ p \in m.clients /\ p = StartedFrom[w]
          /\ m.swallowing[p] = None /\ server[p] # "gone"
      BY <2>1 DEF TermForWin, Windows
    <2>4. p \in Terminals /\ p \in Windows
      BY <2>3, StartedFromAssumption DEF Windows
    <2>5. n.win[p] = p /\ n.win[w] = w /\ w \in n.clients
      BY <1>2, <1>4, <2>3, <2>4 DEF Good, Widowed, Records
    <2>6. /\ Swallow(n, p, w) \in Records
          /\ Good(Swallow(n, p, w))
          /\ Swallow(n, p, w).clients \subseteq n.clients
          /\ \A i \in Swallow(n, p, w).clients :
               Swallow(n, p, w).win[i] = n.win[i] \/ Swallow(n, p, w).win[i] = w
      <3>1. p \in n.clients \cap Terminals /\ w \in n.clients \cap Programs
        BY <1>2, <2>3, <2>4, <2>5
      <3>2. n \in Records /\ n.swallowing[p] = None
        BY <1>2, <2>3
      <3> HIDE DEF placed
      <3> QED
        BY <3>1, <3>2, <1>4, <2>5, SwallowGood
    <2> QED
      BY <1>2, <2>2, <2>6 DEF Records
  <1> QED
    BY <1>5, <1>6

\* unmanage, of a client or of one that is swallowed and whose owner's window is gone.
LEMMA UnmanageGood ==
  ASSUME NEW m \in Records, Good(m), NEW c \in Windows,
         c \in m.clients \/ \E s \in m.clients : m.swallowing[s] = c /\ server[s] = "gone"
  PROVE  /\ Unmanage(m, c) \in Records
         /\ Good(Unmanage(m, c))
         /\ Unmanage(m, c).clients \subseteq m.clients
  <1> DEFINE ss == SwallowingClient(m, m.win[c])
  <1>1. CASE m.swallowing[c] # None
    <2> DEFINE s == m.swallowing[c]
               back == TakesBack(m, c, s)
    <2>1. /\ c \in m.clients \cap Terminals /\ s \in Programs \ m.clients
          /\ m.win[c] = s /\ m.win[s] = c
      BY <1>1 DEF Good, HoldsFirm
    <2>2. s \in Windows /\ s # c
      BY <2>1, KindsAssumption DEF Windows
    <2>3. /\ back \in Records
          /\ back.clients = m.clients
          /\ back.win = [m.win EXCEPT ![c] = c, ![s] = s]
          /\ back.swallowing = [m.swallowing EXCEPT ![c] = None, ![s] = None]
      BY <2>1, <2>2 DEF TakesBack, Freed, Records
    <2>4. back.win[c] = c
      BY <2>2, <2>3 DEF Records
    <2>5. Unmanage(m, c) = Ask(back, "map", c)
      BY <1>1, <2>4 DEF Unmanage, Unswallow
    <2> HIDE DEF back, s
    <2> DEFINE n == Ask(back, "map", c)
    <2>6. /\ n \in Records
          /\ n.clients = m.clients
          /\ n.win = [m.win EXCEPT ![c] = c, ![s] = s]
          /\ n.swallowing = [m.swallowing EXCEPT ![c] = None, ![s] = None]
      BY <2>3, AskKeeps
    <2> HIDE DEF n
    <2>7. HoldsFirm(n)
      BY <2>1, <2>2, <2>6 DEF HoldsFirm, Good, Records, s
    <2>8. StandsFor(n)
      BY <2>1, <2>2, <2>6 DEF StandsFor, Good, Records
    <2>9. Widowed(n)
      BY <2>1, <2>2, <2>6 DEF Widowed, Good, Records
    <2>10. Distinct(n)
      BY <2>1, <2>2, <2>6, KindsAssumption DEF Distinct, Good, StandsFor, Records
    <2>11. Unmanage(m, c) = n
      BY <2>5 DEF n
    <2> QED
      BY <2>1, <2>2, <2>6, <2>7, <2>8, <2>9, <2>10, <2>11 DEF Good, Records
  <1>2. CASE m.swallowing[c] = None /\ ss # {}
    <2> DEFINE s == CHOOSE i \in ss : TRUE
    <2>1. s \in ss
      BY <1>2
    <2>2. Unmanage(m, c) = FreeSwallowed(m, s)
      BY <1>2 DEF Unmanage
    <2> HIDE DEF s
    <2>3. /\ s \in m.clients /\ m.swallowing[s] # None /\ m.win[m.swallowing[s]] = m.win[c]
      BY <2>1 DEF SwallowingClient
    <2>4. /\ s \in Terminals /\ m.swallowing[s] \in Programs \ m.clients
          /\ m.win[s] = m.swallowing[s] /\ m.win[c] = s
      BY <2>3 DEF Good, HoldsFirm, Records
    <2>5. c \notin m.clients
      BY <1>2, <2>3, <2>4, KindsAssumption DEF Good, StandsFor
    <2>6. m.swallowing[s] = c /\ server[s] = "gone"
      <3>1. PICK i \in m.clients : m.swallowing[i] = c /\ server[i] = "gone"
        BY <2>5
      <3>2. i = s
        BY <2>4, <3>1, NoneAssumption DEF Good, HoldsFirm, Records
      <3> QED
        BY <3>1, <3>2
    <2> DEFINE n == FreeSwallowed(m, s)
    <2>7. /\ n \in Records
          /\ n.clients = m.clients
          /\ n.win = [m.win EXCEPT ![c] = c]
          /\ n.swallowing = [m.swallowing EXCEPT ![c] = None, ![s] = None]
      BY <2>3, <2>6 DEF FreeSwallowed, Freed, Records
    <2> HIDE DEF n
    <2>8. HoldsFirm(n)
      BY <2>3, <2>4, <2>5, <2>6, <2>7 DEF HoldsFirm, Good, Records
    <2>9. StandsFor(n)
      BY <2>5, <2>7 DEF StandsFor, Good, Records
    <2>10. Widowed(n)
      BY <2>5, <2>6, <2>7 DEF Widowed, Good, Records
    <2>11. Distinct(n)
      BY <2>5, <2>7 DEF Distinct, Good, Records
    <2>12. Unmanage(m, c) = n
      BY <2>2 DEF n
    <2> QED
      BY <2>5, <2>7, <2>8, <2>9, <2>10, <2>11, <2>12 DEF Good, Records
  <1>3. CASE m.swallowing[c] = None /\ ss = {}
    <2>1. c \in m.clients
      <3>1. SUFFICES ASSUME NEW s \in m.clients, m.swallowing[s] = c
                     PROVE  FALSE
        OBVIOUS
      <3>2. m.win[c] = s /\ s \in ss
        BY <3>1, NoneAssumption DEF SwallowingClient, Good, HoldsFirm, Records
      <3> QED
        BY <1>3, <3>2
    <2> DEFINE n == Leave(m, c)
    <2>2. /\ n \in Records
          /\ n.clients = m.clients \ {c}
          /\ n.win = [m.win EXCEPT ![c] = c]
          /\ n.swallowing = [m.swallowing EXCEPT ![c] = None]
      BY DEF Leave, Freed, Records
    <2>3. Unmanage(m, c) = n
      BY <1>3 DEF Unmanage
    <2> HIDE DEF n
    <2>4. \A i \in Windows : m.swallowing[i] # c
      BY <2>1, NoneAssumption DEF Good, HoldsFirm
    <2>5. HoldsFirm(n)
      BY <1>3, <2>1, <2>2, <2>4 DEF HoldsFirm, Good, Records
    <2>6. StandsFor(n)
      BY <2>1, <2>2 DEF StandsFor, Good, Records
    <2>7. Widowed(n)
      BY <2>1, <2>2 DEF Widowed, Good, Records
    <2>8. Distinct(n)
      BY <2>1, <2>2 DEF Distinct, Good, Records
    <2> QED
      BY <2>2, <2>3, <2>5, <2>6, <2>7, <2>8 DEF Good, Records
  <1> QED
    BY <1>1, <1>2, <1>3

\* The handler of an UnmapNotify; unmapnotify unmanages the client that stands for
\* the window.
LEMMA OnUnmapGood ==
  ASSUME NEW m \in Records, Good(m), NEW w \in Windows
  PROVE  /\ OnUnmap(m, w) \in Records
         /\ Good(OnUnmap(m, w))
         /\ OnUnmap(m, w).clients \subseteq m.clients
  <1> DEFINE cs == WinToClient(m, w)
             c == CHOOSE i \in cs : TRUE
  <1>1. CASE cs = {}
    BY <1>1 DEF OnUnmap
  <1>2. CASE cs # {}
    <2>1. c \in cs
      BY <1>2
    <2>2. c \in m.clients /\ c \in Windows
      BY <2>1 DEF WinToClient, Records
    <2>3. OnUnmap(m, w) = Unmanage(m, c)
      BY <1>2 DEF OnUnmap
    <2> HIDE DEF c
    <2> QED
      BY <2>2, <2>3, UnmanageGood
  <1> QED
    BY <1>1, <1>2

\* The handler of a DestroyNotify, of a window that is gone: when no client stands
\* for it and one swallows it, that one's own window is gone.
LEMMA OnDestroyGood ==
  ASSUME NEW m \in Records, Good(m), NEW w \in Windows, server[w] = "gone"
  PROVE  /\ OnDestroy(m, w) \in Records
         /\ Good(OnDestroy(m, w))
         /\ OnDestroy(m, w).clients \subseteq m.clients
  <1> DEFINE cs == WinToClient(m, w)
             ss == SwallowingClient(m, w)
             c == CHOOSE i \in cs : TRUE
             s == CHOOSE i \in ss : TRUE
  <1>1. CASE cs # {}
    <2>1. c \in cs
      BY <1>1
    <2>2. c \in m.clients /\ c \in Windows
      BY <2>1 DEF WinToClient, Records
    <2>3. OnDestroy(m, w) = Unmanage(m, c)
      BY <1>1 DEF OnDestroy
    <2> HIDE DEF c
    <2> QED
      BY <2>2, <2>3, UnmanageGood
  <1>2. CASE cs = {} /\ ss # {}
    <2>1. s \in ss
      BY <1>2
    <2>2. OnDestroy(m, w) = Unmanage(m, m.swallowing[s])
      BY <1>2 DEF OnDestroy
    <2> HIDE DEF s
    <2>3. s \in m.clients /\ m.swallowing[s] # None /\ m.win[m.swallowing[s]] = w
      BY <2>1 DEF SwallowingClient
    <2>4. s = w /\ m.swallowing[s] \in Windows
      BY <2>3 DEF Good, HoldsFirm, Records, Windows
    <2> QED
      BY <2>2, <2>3, <2>4, UnmanageGood
  <1>3. CASE cs = {} /\ ss = {}
    BY <1>3 DEF OnDestroy
  <1> QED
    BY <1>1, <1>2, <1>3

-----------------------------------------------------------------------------
(* The queues.                                                              *)

Told == [type : {"MapRequest", "UnmapNotify", "DestroyNotify"}, win : Windows]

\* Windows that leave, or requests the server takes, disturb nothing.
LEMMA ServerKeeps ==
  ASSUME TypeOK, Good(dwm), QueuesAgree, TypeOK',
         dwm' = dwm, scanning' = scanning,
         \A v \in Windows : server[v] = "gone" => server'[v] = "gone",
         \A v \in Windows : server[v] # "none" => server'[v] # "none",
         \A k \in 1..Len(events') :
           \/ k \in 1..Len(events) /\ events'[k] = events[k]
           \/ events'[k].type = "UnmapNotify"
           \/ events'[k].type = "DestroyNotify" /\ server'[events'[k].win] = "gone"
  PROVE  Good(dwm)' /\ QueuesAgree'
  <1>1. Good(dwm)'
    <2>1. HoldsFirm(dwm)' /\ StandsFor(dwm)' /\ Distinct(dwm)'
      BY DEF Good, HoldsFirm, StandsFor, Distinct
    <2>2. Widowed(dwm)'
      BY DEF Good, Widowed, TypeOK
    <2> QED
      BY <2>1, <2>2 DEF Good
  <1>2. \A k \in 1..Len(events) : events[k] \in Told
    <2>1. events \in Seq(Told)
      BY DEF TypeOK, Told
    <2> QED
      BY <2>1
  <1>3. \A k \in 1..Len(events') : events'[k] \in Told
    <2>1. events' \in Seq(Told)
      BY DEF TypeOK, Told
    <2> QED
      BY <2>1
  <1>4. \A w \in scanning' : New(dwm', w) /\ server'[w] # "none"
    BY DEF QueuesAgree, New, TypeOK
  <1>5. \A i \in dwm'.clients : server'[i] # "none"
    BY DEF QueuesAgree, TypeOK
  <1>6. ASSUME NEW k \in 1..Len(events')
        PROVE  events'[k].type = "DestroyNotify" => server'[events'[k].win] = "gone"
    BY <1>2 DEF QueuesAgree, Told
  <1>7. ASSUME NEW k \in 1..Len(events'), events'[k].type = "MapRequest",
               events'[k].win \in Terminals
        PROVE  /\ events'[k].win \notin dwm'.clients \cup scanning'
               /\ server'[events'[k].win] # "none"
               /\ \A l \in 1..Len(events') : events'[l] = events'[k] => l = k
    <2>1. k \in 1..Len(events) /\ events'[k] = events[k]
      BY <1>7
    <2>2. /\ events[k].win \notin dwm.clients \cup scanning
          /\ server[events[k].win] # "none"
          /\ \A l \in 1..Len(events) : events[l] = events[k] => l = k
      BY <1>7, <2>1 DEF QueuesAgree
    <2>3. ASSUME NEW l \in 1..Len(events'), events'[l] = events'[k]
          PROVE  l = k
      <3>1. events'[l].type = "MapRequest"
        BY <1>7, <2>3
      <3>2. l \in 1..Len(events) /\ events'[l] = events[l]
        BY <3>1
      <3> QED
        BY <2>1, <2>2, <2>3, <3>2
    <2> QED
      BY <1>2, <2>1, <2>2, <2>3 DEF Told
  <1> QED
    BY <1>1, <1>4, <1>5, <1>6, <1>7 DEF QueuesAgree

\* Neither does dwm when it takes an event and leaves its clients alone, lets some
\* go, or manages the window of a MapRequest.
LEMMA TakeKeeps ==
  ASSUME TypeOK, QueuesAgree, TypeOK',
         events # <<>>, events' = Tail(events), server' = server, scanning' = {},
         \A i \in dwm'.clients :
           \/ i \in dwm.clients
           \/ /\ i = Head(events).win /\ Head(events).type = "MapRequest"
              /\ server[i] # "none"
  PROVE  QueuesAgree'
  <1>1. /\ Len(events') = Len(events) - 1
        /\ \A k \in 1..Len(events') : events'[k] = events[k + 1] /\ k + 1 \in 1..Len(events)
        /\ Head(events) = events[1] /\ 1 \in 1..Len(events)
    BY DEF TypeOK
  <1>2. \A k \in 1..Len(events) : events[k] \in Told
    <2>1. events \in Seq(Told)
      BY DEF TypeOK, Told
    <2> QED
      BY <2>1
  <1>3. \A i \in dwm'.clients : server'[i] # "none"
    BY DEF QueuesAgree
  <1>4. ASSUME NEW k \in 1..Len(events')
        PROVE  events'[k].type = "DestroyNotify" => server'[events'[k].win] = "gone"
    BY <1>1 DEF QueuesAgree
  <1>5. ASSUME NEW k \in 1..Len(events'), events'[k].type = "MapRequest",
               events'[k].win \in Terminals
        PROVE  /\ events'[k].win \notin dwm'.clients \cup scanning'
               /\ server'[events'[k].win] # "none"
               /\ \A l \in 1..Len(events') : events'[l] = events'[k] => l = k
    <2>1. /\ events[k + 1].win \notin dwm.clients
          /\ server[events[k + 1].win] # "none"
          /\ \A l \in 1..Len(events) : events[l] = events[k + 1] => l = k + 1
      BY <1>1, <1>5 DEF QueuesAgree
    <2>2. events[1] # events[k + 1]
      BY <1>1, <2>1
    <2>3. ~(Head(events).type = "MapRequest" /\ Head(events).win = events[k + 1].win)
      BY <1>1, <1>2, <1>5, <2>2 DEF Told
    <2>4. \A l \in 1..Len(events') : events'[l] = events'[k] => l = k
      BY <1>1, <2>1
    <2> QED
      BY <1>1, <2>1, <2>3, <2>4
  <1> QED
    BY <1>3, <1>4, <1>5 DEF QueuesAgree

-----------------------------------------------------------------------------
(* The invariant is inductive.                                              *)

LEMMA InitIInv == Init => IInv
  <1> SUFFICES ASSUME Init PROVE IInv
    OBVIOUS
  <1>1. TypeOK
    <2>1. <<>> \in Seq(Told) /\ <<>> \in Seq(Requests)
      OBVIOUS
    <2>2. NoClients \in [clients : SUBSET Windows, win : [Windows -> Windows],
                         swallowing : [Windows -> Windows \cup {None}]]
      BY DEF NoClients
    <2>3. /\ server \in [Windows -> WindowStates] /\ asked \in 0..MaxMaps
          /\ scanning \subseteq Windows /\ orphans \subseteq Terminals
      BY KindsAssumption DEF Init, WindowStates
    <2>4. raced \in BOOLEAN
      BY Zenon DEF Init
    <2> QED
      BY <2>1, <2>2, <2>3, <2>4 DEF Init, TypeOK, Told, Requests
  <1>2. Good(dwm)
    BY DEF Init, NoClients, Good, HoldsFirm, StandsFor, Widowed, Distinct
  <1>3. QueuesAgree
    BY DEF Init, NoClients, QueuesAgree
  <1> QED
    BY <1>1, <1>2, <1>3 DEF IInv

\* What dwm starts a handler with, and what a handler leaves.
LEMMA MemoryGood ==
  ASSUME TypeOK, Good(dwm)
  PROVE  /\ Memory \in Records
         /\ Good(Memory)
         /\ Memory.clients = dwm.clients /\ Memory.win = dwm.win
  <1>1. Memory \in Records
    <2>1. <<>> \in Seq(Requests)
      OBVIOUS
    <2> QED
      BY <2>1 DEF TypeOK, Memory, Records
  <1>2. Good(Memory)
    BY DEF Memory, Good, HoldsFirm, StandsFor, Widowed, Distinct
  <1> QED
    BY <1>1, <1>2 DEF Memory

LEMMA KeepsGood ==
  ASSUME TypeOK, NEW m \in Records, Good(m), Keeps(m), server' = server,
         asked' = asked, events' = events \/ (events # <<>> /\ events' = Tail(events)),
         scanning' \subseteq scanning, raced' = raced, orphans' = orphans
  PROVE  TypeOK' /\ Good(dwm)' /\ dwm'.clients = m.clients /\ dwm'.win = m.win
  <1>1. requests' \in Seq(Requests)
    <2>1. requests \in Seq(Requests) /\ m.out \in Seq(Requests)
      BY DEF TypeOK, Requests, Records
    <2> QED
      BY <2>1 DEF Keeps
  <1>2. events' \in Seq(Told)
    <2>1. events \in Seq(Told)
      BY DEF TypeOK, Told
    <2> QED
      BY <2>1
  <1>3. TypeOK'
    BY <1>1, <1>2 DEF TypeOK, Keeps, Records, Requests, Told
  <1>4. Good(dwm)'
    BY DEF Keeps, Good, HoldsFirm, StandsFor, Widowed, Distinct
  <1> QED
    BY <1>3, <1>4 DEF Keeps

LEMMA NextIInv == IInv /\ [Next]_vars => IInv'
  <1> SUFFICES ASSUME IInv, [Next]_vars PROVE IInv'
    OBVIOUS
  <1> USE DEF IInv
  <1>0. events \in Seq(Told) /\ requests \in Seq(Requests)
    BY DEF TypeOK, Told, Requests
  <1>1. ASSUME NEW w \in Windows, MapWindow(w)
        PROVE  IInv'
    <2> DEFINE e == MapRequest(w)
    <2>1. e \in Told /\ e.type = "MapRequest" /\ e.win = w
      BY DEF MapRequest, Told
    <2>2. events' = Append(events, e)
      BY <1>1 DEF MapWindow, MapRequest
    <2> HIDE DEF e
    <2>3. /\ events' \in Seq(Told) /\ Len(events') = Len(events) + 1
          /\ events'[Len(events')] = e
          /\ \A k \in 1..Len(events) : events'[k] = events[k] /\ events[k] \in Told
      BY <1>0, <2>1, <2>2
    <2>4. TypeOK'
      BY <1>1, <2>3, KindsAssumption DEF MapWindow, TypeOK, WindowStates, Told
    <2>5. Good(dwm)'
      BY <1>1 DEF MapWindow, TypeOK, Good, HoldsFirm, StandsFor, Widowed, Distinct
    <2>6. /\ dwm' = dwm /\ scanning' = scanning
          /\ \A v \in Windows : server[v] # "none" => server'[v] # "none"
          /\ \A v \in Windows : server[v] = "gone" => server'[v] = "gone"
          /\ server'[w] = "unmapped"
          /\ w \in Terminals => server[w] = "none"
      BY <1>1 DEF MapWindow, TypeOK
    <2>7. \A v \in scanning' : New(dwm', v) /\ server'[v] # "none"
      BY <2>6 DEF QueuesAgree, New, TypeOK
    <2>8. \A i \in dwm'.clients : server'[i] # "none"
      BY <2>6 DEF QueuesAgree, TypeOK
    <2>9. ASSUME NEW k \in 1..Len(events'), events'[k].type = "DestroyNotify"
          PROVE  server'[events'[k].win] = "gone"
      <3>1. k \in 1..Len(events)
        BY <2>1, <2>3, <2>9, <1>0
      <3> QED
        BY <2>3, <2>6, <2>9, <3>1 DEF QueuesAgree, Told
    <2>10. ASSUME NEW k \in 1..Len(events'), events'[k].type = "MapRequest",
                  events'[k].win \in Terminals
           PROVE  /\ events'[k].win \notin dwm'.clients \cup scanning'
                  /\ server'[events'[k].win] # "none"
                  /\ \A l \in 1..Len(events') : events'[l] = events'[k] => l = k
      <3>1. CASE k = Len(events')
        <4>1. events'[k].win = w /\ w \notin dwm.clients \cup scanning
          BY <2>1, <2>3, <2>6, <2>10, <3>1 DEF QueuesAgree
        <4>2. ASSUME NEW l \in 1..Len(events), events[l] = e
              PROVE  FALSE
          BY <2>1, <2>3, <2>6, <2>10, <4>1, <4>2 DEF QueuesAgree
        <4> QED
          BY <1>0, <2>3, <2>6, <3>1, <4>1, <4>2
      <3>2. CASE k \in 1..Len(events)
        <4>1. /\ events[k].win \notin dwm.clients \cup scanning
              /\ server[events[k].win] # "none"
              /\ \A l \in 1..Len(events) : events[l] = events[k] => l = k
          BY <2>3, <2>10, <3>2 DEF QueuesAgree
        <4>2. e # events[k]
          BY <2>1, <2>3, <2>6, <2>10, <3>2, <4>1
        <4> QED
          BY <1>0, <2>3, <2>6, <3>2, <4>1, <4>2 DEF Told
      <3> QED
        BY <1>0, <2>3, <3>1, <3>2
    <2>11. QueuesAgree'
      BY <2>7, <2>8, <2>9, <2>10 DEF QueuesAgree
    <2> QED
      BY <2>4, <2>5, <2>11
  <1>2. ASSUME NEW w \in Windows, Withdraw(w)
        PROVE  IInv'
    <2>1. UnmapNotify(w) \in Told
      BY DEF UnmapNotify, Told
    <2>2. events' = Append(events, UnmapNotify(w))
      BY <1>0, <1>2, <2>1 DEF Withdraw, Leaves
    <2>3. /\ events' \in Seq(Told) /\ Len(events') = Len(events) + 1
          /\ events'[Len(events')] = UnmapNotify(w)
          /\ \A k \in 1..Len(events) : events'[k] = events[k]
      BY <1>0, <2>1, <2>2
    <2>4. TypeOK'
      BY <1>2, <2>3 DEF Withdraw, Leaves, TypeOK, WindowStates, Told
    <2>5. \A k \in 1..Len(events') :
            (k \in 1..Len(events) /\ events'[k] = events[k]) \/ events'[k].type = "UnmapNotify"
      BY <1>0, <2>3 DEF UnmapNotify
    <2> QED
      BY <1>2, <2>4, <2>5, ServerKeeps DEF Withdraw, Leaves, TypeOK
  <1>3. ASSUME NEW w \in Windows, Close(w)
        PROVE  IInv'
    <2>1. UnmapNotify(w) \in Told /\ DestroyNotify(w) \in Told
      BY DEF UnmapNotify, DestroyNotify, Told
    <2>2. server' = [server EXCEPT ![w] = "gone"] /\ server'[w] = "gone"
      BY <1>3 DEF Close, Leaves, TypeOK
    <2>3. /\ events' \in Seq(Told)
          /\ \A k \in 1..Len(events') :
               \/ k \in 1..Len(events) /\ events'[k] = events[k]
               \/ events'[k] \in {UnmapNotify(w), DestroyNotify(w)}
      <3>1. CASE server[w] = "mapped"
        <4>1. events' = events \o <<UnmapNotify(w), DestroyNotify(w)>>
          BY <1>3, <3>1 DEF Close, Leaves
        <4> QED
          BY <1>0, <2>1, <4>1
      <3>2. CASE server[w] # "mapped"
        <4>1. events' = events \o <<DestroyNotify(w)>>
          BY <1>3, <3>2 DEF Close, Leaves
        <4> QED
          BY <1>0, <2>1, <4>1
      <3> QED
        BY <3>1, <3>2
    <2>4. TypeOK'
      BY <1>3, <2>2, <2>3 DEF Close, Leaves, TypeOK, WindowStates, Told
    <2>5. \A k \in 1..Len(events') :
           \/ k \in 1..Len(events) /\ events'[k] = events[k]
           \/ events'[k].type = "UnmapNotify"
           \/ events'[k].type = "DestroyNotify" /\ server'[events'[k].win] = "gone"
      BY <2>2, <2>3 DEF UnmapNotify, DestroyNotify
    <2> QED
      BY <1>3, <2>2, <2>4, <2>5, ServerKeeps DEF Close, Leaves, TypeOK
  <1>4. ASSUME Serve
        PROVE  IInv'
    <2> DEFINE r == Head(requests)
    <2>1. r \in Requests /\ Tail(requests) \in Seq(Requests)
      BY <1>0, <1>4 DEF Serve
    <2>2. r.win \in Windows
      BY <2>1 DEF Requests
    <2>3. /\ server' = [server EXCEPT ![r.win] =
                          IF ~Exists(r.win) THEN @
                          ELSE IF r.type = "map" THEN "mapped" ELSE "unmapped"]
          /\ events' = events \/ events' = Append(events, UnmapNotify(r.win))
          /\ requests' = Tail(requests)
          /\ UNCHANGED <<asked, dwm, scanning, raced, orphans>>
      BY <1>4 DEF Serve
    <2> HIDE DEF r
    <2>4. UnmapNotify(r.win) \in Told
      BY <2>2 DEF UnmapNotify, Told
    <2>5. /\ events' \in Seq(Told)
          /\ \A k \in 1..Len(events') :
               \/ k \in 1..Len(events) /\ events'[k] = events[k]
               \/ events'[k].type = "UnmapNotify"
      <3>1. CASE events' = events
        BY <1>0, <3>1
      <3>2. CASE events' = Append(events, UnmapNotify(r.win))
        <4>1. UnmapNotify(r.win).type = "UnmapNotify"
          BY DEF UnmapNotify
        <4> QED
          BY <1>0, <2>4, <3>2, <4>1
      <3> QED
        BY <2>3, <3>1, <3>2
    <2>6. /\ server' \in [Windows -> WindowStates]
          /\ \A v \in Windows : server[v] = "gone" => server'[v] = "gone"
          /\ \A v \in Windows : server[v] # "none" => server'[v] # "none"
      BY <2>2, <2>3 DEF TypeOK, WindowStates, Exists
    <2>7. TypeOK'
      BY <2>1, <2>3, <2>5, <2>6 DEF TypeOK, Told, Requests, r
    <2> QED
      BY <2>3, <2>5, <2>6, <2>7, ServerKeeps
  <1>5. ASSUME HandleMapRequest
        PROVE  IInv'
    <2> DEFINE w == Head(events).win
               m == IF Exists(w) /\ WinToClient(Memory, w) = {} THEN Manage(Memory, w)
                    ELSE Memory
    <2>1. /\ Head(events) \in Told /\ Head(events) = events[1] /\ 1 \in 1..Len(events)
          /\ Head(events).type = "MapRequest"
      BY <1>0, <1>5 DEF HandleMapRequest, Take
    <2>2. w \in Windows
      BY <2>1 DEF Told
    <2>3. /\ Memory \in Records /\ Good(Memory)
          /\ Memory.clients = dwm.clients /\ Memory.win = dwm.win
      BY MemoryGood
    <2>4. /\ m \in Records /\ Good(m)
          /\ \A i \in m.clients : i \in dwm.clients \/ (i = w /\ server[i] # "none")
      <3>1. CASE Exists(w) /\ WinToClient(Memory, w) = {}
        <4>1. \A i \in dwm.clients : dwm.win[i] # w
          BY <2>3, <3>1 DEF WinToClient
        <4>2. w \notin dwm.clients
          BY <2>1, <4>1 DEF Good, StandsFor, QueuesAgree
        <4>3. New(Memory, w)
          BY <2>3, <4>1, <4>2 DEF New
        <4>4. m = Manage(Memory, w) /\ server[w] # "none"
          BY <3>1 DEF Exists
        <4> HIDE DEF m, w
        <4> QED
          BY <2>2, <2>3, <4>3, <4>4, ManageGood
      <3>2. CASE ~(Exists(w) /\ WinToClient(Memory, w) = {})
        BY <2>3, <3>2
      <3> QED
        BY <3>1, <3>2
    <2>5. /\ Keeps(m) /\ events # <<>> /\ events' = Tail(events)
          /\ scanning = {}
          /\ UNCHANGED <<server, asked, scanning, raced, orphans>>
      BY <1>5 DEF HandleMapRequest, Take
    <2> HIDE DEF m
    <2>6. TypeOK' /\ Good(dwm)' /\ dwm'.clients = m.clients
      BY <2>4, <2>5, KeepsGood
    <2> QED
      BY <2>1, <2>4, <2>5, <2>6, TakeKeeps
  <1>6. ASSUME HandleUnmapNotify
        PROVE  IInv'
    <2> DEFINE w == Head(events).win
               m1 == OnUnmap(Memory, w)
               m == OnUnmap(m1, w)
    <2>1. w \in Windows
      <3>1. Head(events) \in Told
        BY <1>0, <1>6 DEF HandleUnmapNotify, Take
      <3> QED
        BY <3>1 DEF Told
    <2>2. Memory \in Records /\ Good(Memory) /\ Memory.clients = dwm.clients
      BY MemoryGood
    <2>3. /\ Keeps(m) /\ events # <<>> /\ events' = Tail(events)
          /\ scanning = {}
          /\ UNCHANGED <<server, asked, scanning, raced, orphans>>
      BY <1>6 DEF HandleUnmapNotify, Take
    <2> HIDE DEF w
    <2>4. m1 \in Records /\ Good(m1) /\ m1.clients \subseteq dwm.clients
      BY <2>1, <2>2, OnUnmapGood
    <2> HIDE DEF m1
    <2>5. m \in Records /\ Good(m) /\ m.clients \subseteq dwm.clients
      BY <2>1, <2>4, OnUnmapGood
    <2> HIDE DEF m
    <2>6. TypeOK' /\ Good(dwm)' /\ dwm'.clients = m.clients
      BY <2>3, <2>5, KeepsGood
    <2> QED
      BY <2>3, <2>5, <2>6, TakeKeeps
  <1>7. ASSUME HandleDestroyNotify
        PROVE  IInv'
    <2> DEFINE w == Head(events).win
               m1 == OnDestroy(Memory, w)
               m == OnDestroy(m1, w)
    <2>1. w \in Windows /\ server[w] = "gone"
      <3>1. /\ Head(events) \in Told /\ Head(events) = events[1] /\ 1 \in 1..Len(events)
            /\ Head(events).type = "DestroyNotify"
        BY <1>0, <1>7 DEF HandleDestroyNotify, Take
      <3> QED
        BY <3>1 DEF QueuesAgree, Told
    <2>2. Memory \in Records /\ Good(Memory) /\ Memory.clients = dwm.clients
      BY MemoryGood
    <2>3. /\ Keeps(m) /\ events # <<>> /\ events' = Tail(events)
          /\ scanning = {}
          /\ UNCHANGED <<server, asked, scanning, raced, orphans>>
      BY <1>7 DEF HandleDestroyNotify, Take
    <2> HIDE DEF w
    <2>4. m1 \in Records /\ Good(m1) /\ m1.clients \subseteq dwm.clients
      BY <2>1, <2>2, OnDestroyGood
    <2> HIDE DEF m1
    <2>5. m \in Records /\ Good(m) /\ m.clients \subseteq dwm.clients
      BY <2>1, <2>4, OnDestroyGood
    <2> HIDE DEF m
    <2>6. TypeOK' /\ Good(dwm)' /\ dwm'.clients = m.clients
      BY <2>3, <2>5, KeepsGood
    <2> QED
      BY <2>3, <2>5, <2>6, TakeKeeps
  <1>8. ASSUME Restart
        PROVE  IInv'
    <2>1. <<>> \in Seq(Told) /\ <<>> \in Seq(Requests)
      OBVIOUS
    <2>2. TypeOK'
      BY <1>8, <2>1 DEF Restart, TypeOK, NoClients, Told, Requests
    <2>3. Good(dwm)'
      BY <1>8 DEF Restart, NoClients, Good, HoldsFirm, StandsFor, Widowed, Distinct
    <2>4. QueuesAgree'
      BY <1>8 DEF Restart, NoClients, QueuesAgree, New, Exists
    <2> QED
      BY <2>2, <2>3, <2>4
  <1>9. ASSUME NEW w \in Windows, Scan(w)
        PROVE  IInv'
    <2> DEFINE m == IF server[w] = "mapped" THEN Manage(Memory, w) ELSE Memory
    <2>1. /\ Memory \in Records /\ Good(Memory)
          /\ Memory.clients = dwm.clients /\ Memory.win = dwm.win
      BY MemoryGood
    <2>2. New(Memory, w) /\ server[w] # "none" /\ w \in scanning
      BY <1>9, <2>1 DEF Scan, QueuesAgree, New
    <2>3. /\ m \in Records /\ Good(m) /\ m.clients \subseteq dwm.clients \cup {w}
          /\ \A i \in m.clients : m.win[i] = w \/ (i \in dwm.clients /\ m.win[i] = dwm.win[i])
      <3>1. CASE server[w] = "mapped"
        <4>1. m = Manage(Memory, w)
          BY <3>1
        <4> HIDE DEF m
        <4> QED
          BY <2>1, <2>2, <4>1, ManageGood
      <3>2. CASE server[w] # "mapped"
        BY <2>1, <3>2
      <3> QED
        BY <3>1, <3>2
    <2>4. /\ Keeps(m) /\ scanning' = scanning \ {w}
          /\ UNCHANGED <<server, asked, events, raced, orphans>>
      BY <1>9 DEF Scan
    <2> HIDE DEF m
    <2>5. TypeOK' /\ Good(dwm)' /\ dwm'.clients = m.clients /\ dwm'.win = m.win
      BY <2>3, <2>4, KeepsGood
    <2>6. QueuesAgree'
      BY <2>2, <2>3, <2>4, <2>5 DEF QueuesAgree, New
    <2> QED
      BY <2>5, <2>6
  <1>10. ASSUME UNCHANGED vars
         PROVE  IInv'
    BY <1>10 DEF vars, TypeOK, Good, HoldsFirm, StandsFor, Widowed, Distinct, QueuesAgree, New
  <1> QED
    BY <1>1, <1>2, <1>3, <1>4, <1>5, <1>6, <1>7, <1>8, <1>9, <1>10 DEF Next, Handle

LEMMA IInvOwners == IInv => OwnersAgree
  <1> SUFFICES ASSUME IInv PROVE OwnersAgree
    OBVIOUS
  <1> DEFINE owners == {i \in dwm.clients : dwm.swallowing[i] # None}
             swallowed == {dwm.swallowing[i] : i \in owners}
  <1>1. \A i \in owners :
          /\ i \in dwm.clients \cap Terminals
          /\ dwm.swallowing[i] \in Programs \ dwm.clients
          /\ dwm.win[i] = dwm.swallowing[i] /\ dwm.win[dwm.swallowing[i]] = i
    BY DEF IInv, TypeOK, Good, HoldsFirm
  <1>2. swallowed \cap dwm.clients = {}
    BY <1>1
  <1>3. \A i, j \in owners : dwm.swallowing[i] = dwm.swallowing[j] => i = j
    BY <1>1
  <1>4. \A i, j \in dwm.clients : dwm.win[i] = dwm.win[j] => i = j
    BY DEF IInv, Good, Distinct
  <1>5. \A i, j \in swallowed : dwm.win[i] = dwm.win[j] => i = j
    BY <1>1
  <1>6. ASSUME NEW i \in dwm.clients, NEW j \in swallowed, dwm.win[i] = dwm.win[j]
        PROVE  FALSE
    <2>1. PICK s \in owners : j = dwm.swallowing[s]
      OBVIOUS
    <2>2. dwm.win[i] = s /\ s \in dwm.clients \cap Terminals
      BY <1>1, <1>6, <2>1
    <2>3. i = s
      BY <2>2 DEF IInv, Good, StandsFor
    <2> QED
      BY <1>1, <2>1, <2>2, <2>3, KindsAssumption
  <1> QED
    BY <1>2, <1>3, <1>4, <1>5, <1>6 DEF OwnersAgree

\* dwm's queues, memory and the windows' states stay of their types (swallow,
\* unswallow, unmanage and the handlers that call them).
THEOREM TypeCorrect == Spec => []TypeOK
  <1>1. IInv => TypeOK
    BY DEF IInv
  <1> QED
    BY <1>1, InitIInv, NextIInv, PTL DEF Spec

\* In every order of events: no two clients stand for one window, a client that is
\* swallowed is on no list and has one owner (swallow, unswallow, unmanage).
THEOREM OwnersAlwaysAgree == Spec => []OwnersAgree
  <1> QED
    BY IInvOwners, InitIInv, NextIInv, PTL DEF Spec
-----------------------------------------------------------------------------
(* Hidden terminals.  What a window will be when the server has taken the   *)
(* requests under way is known before: it will be mapped when it is and no  *)
(* request hides it, or when the last request says so.                      *)

ToHide(w) == [type |-> "unmap", win |-> w]
ToMap(w) == [type |-> "map", win |-> w]

WillShow(q, w) ==
  \/ server[w] = "mapped" /\ \A k \in 1..Len(q) : q[k] # ToHide(w)
  \/ \E k \in 1..Len(q) : q[k] = ToMap(w) /\ \A l \in k..Len(q) : q[l] # ToHide(w)

\* A terminal that dwm's routines, on m, will show again or have replaced.
InSight(m, t) == WillShow(requests \o m.out, t) \/ m.swallowing[t] # None

\* A routine that makes n of m hides no terminal without an owner for it.
LeavesInSight(m, n) == \A t \in Terminals : Exists(t) /\ InSight(m, t) => InSight(n, t)

\* A terminal that is not an orphan will be shown, is held, or waits to be managed.
SeenOrAwaited(t) ==
  \/ WillShow(requests, t)
  \/ dwm.swallowing[t] # None
  \/ \E k \in 1..Len(events) : events[k] = MapRequest(t)
EveryTerminalInSight ==
  \A t \in Terminals \ orphans : Exists(t) => SeenOrAwaited(t)

\* One request more.
LEMMA OneMoreRequest ==
  ASSUME NEW q \in Seq(Requests), NEW r \in Requests, NEW t \in Windows,
         r = ToMap(t) \/ (WillShow(q, t) /\ r # ToHide(t))
  PROVE  WillShow(Append(q, r), t)
  <1> DEFINE a == Append(q, r)
  <1>1. /\ Len(a) = Len(q) + 1 /\ Len(q) \in Nat
        /\ a[Len(q) + 1] = r
        /\ \A k \in 1..Len(q) : a[k] = q[k]
    OBVIOUS
  <1> HIDE DEF a
  <1>2. ToMap(t) # ToHide(t)
    BY DEF ToMap, ToHide
  <1>3. CASE r = ToMap(t)
    <2>1. Len(q) + 1 \in 1..Len(a) /\ \A l \in Len(q) + 1..Len(a) : a[l] # ToHide(t)
      BY <1>1, <1>2, <1>3
    <2>2. WillShow(a, t)
      BY <1>1, <1>3, <2>1 DEF WillShow
    <2> QED
      BY <2>2 DEF a
  <1>4. CASE WillShow(q, t) /\ r # ToHide(t)
    <2>1. CASE server[t] = "mapped" /\ \A k \in 1..Len(q) : q[k] # ToHide(t)
      <3>1. \A k \in 1..Len(a) : a[k] # ToHide(t)
        BY <1>1, <1>4, <2>1
      <3>2. WillShow(a, t)
        BY <2>1, <3>1 DEF WillShow
      <3> QED
        BY <3>2 DEF a
    <2>2. CASE \E k \in 1..Len(q) : q[k] = ToMap(t) /\ \A l \in k..Len(q) : q[l] # ToHide(t)
      <3>1. PICK k \in 1..Len(q) : q[k] = ToMap(t) /\ \A l \in k..Len(q) : q[l] # ToHide(t)
        BY <2>2
      <3>2. /\ k \in 1..Len(a) /\ a[k] = ToMap(t)
            /\ \A l \in k..Len(a) : a[l] # ToHide(t)
        BY <1>1, <1>4, <3>1
      <3>3. WillShow(a, t)
        BY <3>2 DEF WillShow
      <3> QED
        BY <3>3 DEF a
    <2> QED
      BY <1>4, <2>1, <2>2 DEF WillShow
  <1> QED
    BY <1>3, <1>4

\* Appending to the second part is appending to the whole.
LEMMA AppendBehind ==
  ASSUME NEW S, NEW a \in Seq(S), NEW b \in Seq(S), NEW e \in S
  PROVE  a \o Append(b, e) = Append(a \o b, e)
  <1>1. Append(b, e) \in Seq(S) /\ a \o b \in Seq(S)
    OBVIOUS
  <1>2. /\ a \o Append(b, e) \in Seq(S) /\ Append(a \o b, e) \in Seq(S)
        /\ Len(a \o Append(b, e)) = Len(Append(a \o b, e))
    BY <1>1
  <1>3. \A i \in 1..Len(a \o Append(b, e)) : (a \o Append(b, e))[i] = Append(a \o b, e)[i]
    BY <1>1
  <1> QED
    BY <1>2, <1>3, SeqEqual

\* Ask puts a request behind the others.
LEMMA AskAppends ==
  ASSUME TypeOK, NEW m \in Records, NEW type \in {"map", "unmap"}, NEW w \in Windows
  PROVE  /\ [type |-> type, win |-> w] \in Requests
         /\ requests \o m.out \in Seq(Requests)
         /\ requests \o Ask(m, type, w).out
              = Append(requests \o m.out, [type |-> type, win |-> w])
  <1> DEFINE r == [type |-> type, win |-> w]
  <1>1. r \in Requests
    BY DEF Requests
  <1>2. requests \in Seq(Requests) /\ m.out \in Seq(Requests)
    BY DEF TypeOK, Requests, Records
  <1>3. Ask(m, type, w).out = Append(m.out, r)
    BY DEF Ask, Records
  <1> HIDE DEF r
  <1>5. requests \o m.out \in Seq(Requests)
    BY <1>2
  <1>4. requests \o Append(m.out, r) = Append(requests \o m.out, r)
    BY <1>1, <1>2, AppendBehind
  <1> QED
    BY <1>1, <1>3, <1>4, <1>5 DEF r

\* A request to map hides nothing, and shows its window.
LEMMA MapShows ==
  ASSUME TypeOK, NEW m \in Records, NEW w \in Windows
  PROVE  /\ WillShow(requests \o Ask(m, "map", w).out, w)
         /\ \A t \in Windows : WillShow(requests \o m.out, t)
                                 => WillShow(requests \o Ask(m, "map", w).out, t)
  <1>1. /\ ToMap(w) \in Requests /\ requests \o m.out \in Seq(Requests)
        /\ requests \o Ask(m, "map", w).out = Append(requests \o m.out, ToMap(w))
    BY AskAppends DEF ToMap
  <1>2. \A t \in Windows : ToMap(w) # ToHide(t)
    BY DEF ToMap, ToHide
  <1> DEFINE q == requests \o m.out
             r == ToMap(w)
  <1>3. q \in Seq(Requests) /\ r \in Requests /\ requests \o Ask(m, "map", w).out = Append(q, r)
    BY <1>1
  <1>4. r = ToMap(w) /\ \A t \in Windows : r # ToHide(t)
    BY <1>2
  <1>5. \A t \in Windows : WillShow(requests \o m.out, t) = WillShow(q, t)
    OBVIOUS
  <1> HIDE DEF q, r
  <1>6. WillShow(Append(q, r), w)
    BY <1>3, <1>4, OneMoreRequest
  <1>7. \A t \in Windows : WillShow(q, t) => WillShow(Append(q, r), t)
    BY <1>3, <1>4, OneMoreRequest
  <1> QED
    BY <1>3, <1>5, <1>6, <1>7

\* A request to hide a window touches no other.
LEMMA HideSpares ==
  ASSUME TypeOK, NEW m \in Records, NEW w \in Windows
  PROVE  \A t \in Windows \ {w} : WillShow(requests \o m.out, t)
                                 => WillShow(requests \o Ask(m, "unmap", w).out, t)
  <1>1. /\ ToHide(w) \in Requests /\ requests \o m.out \in Seq(Requests)
        /\ requests \o Ask(m, "unmap", w).out = Append(requests \o m.out, ToHide(w))
    BY AskAppends DEF ToHide
  <1> DEFINE q == requests \o m.out
             r == ToHide(w)
  <1>2. \A t \in Windows \ {w} : r # ToHide(t)
    BY DEF ToHide
  <1>3. q \in Seq(Requests) /\ r \in Requests /\ requests \o Ask(m, "unmap", w).out = Append(q, r)
    BY <1>1
  <1>4. \A t \in Windows : WillShow(requests \o m.out, t) = WillShow(q, t)
    OBVIOUS
  <1> HIDE DEF q, r
  <1>5. \A t \in Windows \ {w} : WillShow(q, t) => WillShow(Append(q, r), t)
    BY <1>2, <1>3, OneMoreRequest
  <1> QED
    BY <1>3, <1>4, <1>5

\* manage: the new window will be mapped, and a terminal is hidden for its program
\* alone.
LEMMA ManageInSight ==
  ASSUME TypeOK, NEW m \in Records, Good(m), NEW w \in Windows, New(m, w)
  PROVE  /\ LeavesInSight(m, Manage(m, w))
         /\ w \in Terminals => InSight(Manage(m, w), w)
  <1> DEFINE placed == [m EXCEPT !.clients = m.clients \cup {w},
                                 !.win = [m.win EXCEPT ![w] = w]]
             n == Ask(placed, "map", w)
  <1>0. Manage(m, w) = IF TermForWin(m, w) = {} THEN n
                       ELSE Swallow(n, CHOOSE q \in TermForWin(m, w) : TRUE, w)
    BY DEF Manage
  <1>1. /\ placed \in Records
        /\ placed.clients = m.clients \cup {w}
        /\ placed.win = [m.win EXCEPT ![w] = w]
        /\ placed.swallowing = m.swallowing
        /\ placed.out = m.out
    BY DEF Records
  <1> HIDE DEF placed
  <1>2. /\ n \in Records
        /\ n.clients = m.clients \cup {w}
        /\ n.win = [m.win EXCEPT ![w] = w]
        /\ n.swallowing = m.swallowing
    BY <1>1, AskKeeps
  <1>3. /\ WillShow(requests \o n.out, w)
        /\ \A t \in Windows : WillShow(requests \o m.out, t) => WillShow(requests \o n.out, t)
    BY <1>1, MapShows
  <1> HIDE DEF n
  <1>4. \A t \in Terminals : t \in Windows
    BY DEF Windows
  <1>5. LeavesInSight(m, n) /\ InSight(n, w)
    BY <1>2, <1>3, <1>4 DEF LeavesInSight, InSight
  <1>6. CASE TermForWin(m, w) = {}
    BY <1>0, <1>5, <1>6
  <1>7. CASE TermForWin(m, w) # {}
    <2> DEFINE p == CHOOSE q \in TermForWin(m, w) : TRUE
               k == Ask(n, "unmap", p)
               z == Swallow(n, p, w)
    <2>1. p \in TermForWin(m, w)
      BY <1>7
    <2>2. Manage(m, w) = z
      BY <1>0, <1>7
    <2> HIDE DEF p
    <2>3. /\ w \in Programs /\ p \in m.clients /\ p = StartedFrom[w]
          /\ m.swallowing[p] = None /\ server[p] # "gone"
      BY <2>1 DEF TermForWin, Windows
    <2>4. p \in Terminals /\ p \in Windows /\ p # w
      BY <2>3, StartedFromAssumption, KindsAssumption DEF Windows
    <2>5. n.win[p] = p
      BY <1>2, <2>3, <2>4 DEF Good, Widowed, Records
    <2>6. w \notin Terminals
      BY <2>3, KindsAssumption
    <2>7. CASE w \in NeverSwallowed
      BY <1>5, <2>2, <2>6, <2>7 DEF Swallow
    <2>8. CASE w \notin NeverSwallowed
      <3>1. k \in Records /\ k.swallowing = n.swallowing
        BY <1>2, <2>4, AskKeeps
      <3>2. \A t \in Windows \ {p} : WillShow(requests \o n.out, t) => WillShow(requests \o k.out, t)
        BY <1>2, <2>4, HideSpares
      <3>3. z = [k EXCEPT !.clients = n.clients \ {w},
                          !.swallowing = [n.swallowing EXCEPT ![p] = w],
                          !.win = [n.win EXCEPT ![p] = n.win[w], ![w] = n.win[p]]]
        BY <2>5, <2>8 DEF Swallow
      <3> HIDE DEF k, z
      <3>4. z.out = k.out /\ z.swallowing = [n.swallowing EXCEPT ![p] = w]
        BY <3>1, <3>3 DEF Records
      <3>5. z.swallowing[p] # None /\ \A t \in Windows \ {p} : z.swallowing[t] = n.swallowing[t]
        BY <1>2, <2>4, <3>4, NoneAssumption DEF Records
      <3>6. LeavesInSight(n, z)
        BY <1>4, <3>2, <3>4, <3>5 DEF LeavesInSight, InSight
      <3>7. LeavesInSight(m, z)
        BY <1>5, <3>6 DEF LeavesInSight
      <3> QED
        BY <2>2, <2>6, <3>7
    <2> QED
      BY <2>7, <2>8
  <1> QED
    BY <1>6, <1>7

\* unmanage: who held a terminal asks for it to be mapped.
LEMMA UnmanageInSight ==
  ASSUME TypeOK, NEW m \in Records, Good(m), NEW c \in Windows,
         c \in m.clients \/ \E s \in m.clients : m.swallowing[s] = c /\ server[s] = "gone"
  PROVE  LeavesInSight(m, Unmanage(m, c))
  <1> DEFINE ss == SwallowingClient(m, m.win[c])
  <1>1. CASE m.swallowing[c] # None
    <2> DEFINE s == m.swallowing[c]
               back == TakesBack(m, c, s)
               n == Ask(back, "map", c)
    <2>1. /\ c \in m.clients \cap Terminals /\ s \in Programs \ m.clients
          /\ m.win[c] = s /\ m.win[s] = c
      BY <1>1 DEF Good, HoldsFirm
    <2>2. s \in Windows /\ s # c /\ s \notin Terminals
      BY <2>1, KindsAssumption DEF Windows
    <2>3. /\ back \in Records
          /\ back.win = [m.win EXCEPT ![c] = c, ![s] = s]
          /\ back.swallowing = [m.swallowing EXCEPT ![c] = None, ![s] = None]
          /\ back.out = m.out
      BY <2>1, <2>2 DEF TakesBack, Freed, Records
    <2>4. back.win[c] = c
      BY <2>2, <2>3 DEF Records
    <2>5. Unmanage(m, c) = n
      BY <1>1, <2>4 DEF Unmanage, Unswallow
    <2> HIDE DEF back, s
    <2>6. n \in Records /\ n.swallowing = back.swallowing
      BY <2>3, AskKeeps
    <2>7. /\ WillShow(requests \o n.out, c)
          /\ \A t \in Windows : WillShow(requests \o back.out, t) => WillShow(requests \o n.out, t)
      BY <2>3, MapShows
    <2> HIDE DEF n
    <2>8. \A t \in Terminals : t \in Windows /\ t # s
      BY <2>2 DEF Windows
    <2>9. \A t \in Terminals \ {c} : n.swallowing[t] = m.swallowing[t]
      <3> SUFFICES ASSUME NEW t \in Windows, t # c, t # s
                   PROVE  back.swallowing[t] = m.swallowing[t]
        BY <2>6, <2>8, Zenon
      <3>1. m.swallowing \in [Windows -> Windows \cup {None}]
        BY DEF Records
      <3> QED
        BY <2>2, <2>3, <3>1
    <2> QED
      BY <2>3, <2>5, <2>7, <2>8, <2>9 DEF LeavesInSight, InSight
  <1>2. CASE m.swallowing[c] = None /\ ss # {}
    <2> DEFINE s == CHOOSE i \in ss : TRUE
               n == FreeSwallowed(m, s)
    <2>1. s \in ss
      BY <1>2
    <2>2. Unmanage(m, c) = n
      BY <1>2 DEF Unmanage
    <2> HIDE DEF s
    <2>3. /\ s \in m.clients /\ m.swallowing[s] # None /\ m.win[m.swallowing[s]] = m.win[c]
      BY <2>1 DEF SwallowingClient
    <2>4. /\ s \in Terminals /\ m.swallowing[s] \in Programs
          /\ m.win[s] = m.swallowing[s] /\ m.win[c] = s
      BY <2>3 DEF Good, HoldsFirm, Records
    <2>5. c \notin m.clients
      BY <1>2, <2>3, <2>4, KindsAssumption DEF Good, HoldsFirm, StandsFor
    <2>6. m.swallowing[s] = c /\ server[s] = "gone"
      <3>1. PICK i \in m.clients : m.swallowing[i] = c /\ server[i] = "gone"
        BY <2>5
      <3>2. i = s
        BY <2>4, <3>1, NoneAssumption DEF Good, HoldsFirm, Records
      <3> QED
        BY <3>1, <3>2
    <2>7. /\ n.swallowing = [m.swallowing EXCEPT ![c] = None, ![s] = None]
          /\ n.out = m.out
      BY <2>3, <2>6 DEF FreeSwallowed, Freed, Records
    <2> HIDE DEF n
    <2>8. c \notin Terminals
      BY <2>4, <2>6, KindsAssumption
    <2>9. \A t \in Terminals : Exists(t) => t # s /\ t # c /\ t \in Windows
      BY <2>6, <2>8 DEF Exists, Windows
    <2>10. \A t \in Terminals : Exists(t) => n.swallowing[t] = m.swallowing[t]
      BY <2>7, <2>9 DEF Records
    <2> QED
      BY <2>2, <2>7, <2>10 DEF LeavesInSight, InSight
  <1>3. CASE m.swallowing[c] = None /\ ss = {}
    <2> DEFINE n == Leave(m, c)
    <2>1. n.swallowing = [m.swallowing EXCEPT ![c] = None] /\ n.out = m.out
      BY DEF Leave, Freed, Records
    <2>2. Unmanage(m, c) = n
      BY <1>3 DEF Unmanage
    <2> HIDE DEF n
    <2>3. n.swallowing = m.swallowing
      BY <1>3, <2>1 DEF Records
    <2> QED
      BY <2>1, <2>2, <2>3 DEF LeavesInSight, InSight
  <1> QED
    BY <1>1, <1>2, <1>3

\* unmapnotify and destroynotify.
LEMMA OnUnmapInSight ==
  ASSUME TypeOK, NEW m \in Records, Good(m), NEW w \in Windows
  PROVE  LeavesInSight(m, OnUnmap(m, w))
  <1> DEFINE cs == WinToClient(m, w)
             c == CHOOSE i \in cs : TRUE
  <1>1. CASE cs = {}
    BY <1>1 DEF OnUnmap, LeavesInSight
  <1>2. CASE cs # {}
    <2>1. c \in cs
      BY <1>2
    <2>2. c \in m.clients /\ c \in Windows
      BY <2>1 DEF WinToClient, Records
    <2>3. OnUnmap(m, w) = Unmanage(m, c)
      BY <1>2 DEF OnUnmap
    <2> HIDE DEF c
    <2> QED
      BY <2>2, <2>3, UnmanageInSight
  <1> QED
    BY <1>1, <1>2

LEMMA OnDestroyInSight ==
  ASSUME TypeOK, NEW m \in Records, Good(m), NEW w \in Windows, server[w] = "gone"
  PROVE  LeavesInSight(m, OnDestroy(m, w))
  <1> DEFINE cs == WinToClient(m, w)
             ss == SwallowingClient(m, w)
             c == CHOOSE i \in cs : TRUE
             s == CHOOSE i \in ss : TRUE
  <1>1. CASE cs # {}
    <2>1. c \in cs
      BY <1>1
    <2>2. c \in m.clients /\ c \in Windows
      BY <2>1 DEF WinToClient, Records
    <2>3. OnDestroy(m, w) = Unmanage(m, c)
      BY <1>1 DEF OnDestroy
    <2> HIDE DEF c
    <2> QED
      BY <2>2, <2>3, UnmanageInSight
  <1>2. CASE cs = {} /\ ss # {}
    <2>1. s \in ss
      BY <1>2
    <2>2. OnDestroy(m, w) = Unmanage(m, m.swallowing[s])
      BY <1>2 DEF OnDestroy
    <2> HIDE DEF s
    <2>3. /\ s \in m.clients /\ m.swallowing[s] # None /\ m.win[m.swallowing[s]] = w
      BY <2>1 DEF SwallowingClient
    <2>4. s = w /\ m.swallowing[s] \in Windows
      BY <2>3 DEF Good, HoldsFirm, Records, Windows
    <2> QED
      BY <2>2, <2>3, <2>4, UnmanageInSight
  <1>3. CASE cs = {} /\ ss = {}
    BY <1>3 DEF OnDestroy, LeavesInSight
  <1> QED
    BY <1>1, <1>2, <1>3

\* What a handler starts with is what was before it, and what it leaves comes after.
LEMMA SightBefore ==
  ASSUME TypeOK
  PROVE  \A t \in Terminals : InSight(Memory, t)
           <=> WillShow(requests, t) \/ dwm.swallowing[t] # None
  <1>1. requests \o Memory.out = requests
    BY DEF Memory, TypeOK
  <1> QED
    BY <1>1 DEF InSight, Memory

LEMMA SightAfter ==
  ASSUME NEW m \in Records, Keeps(m), server' = server
  PROVE  \A t \in Terminals : InSight(m, t)
           => (WillShow(requests, t) \/ dwm.swallowing[t] # None)'
  <1>1. requests' = requests \o m.out /\ dwm'.swallowing = m.swallowing
    BY DEF Keeps
  <1> DEFINE q == requests \o m.out
  <1>2. \A t \in Terminals : WillShow(q, t) => WillShow(requests, t)'
    <2>1. requests' = q
      BY <1>1
    <2> HIDE DEF q
    <2> QED
      BY <2>1 DEF WillShow, ToMap, ToHide
  <1> QED
    BY <1>1, <1>2 DEF InSight

\* A handler keeps terminals in sight when its routines do, and when it takes a
\* MapRequest that it brings the terminal into sight.
LEMMA HandlerInSight ==
  ASSUME TypeOK, EveryTerminalInSight, NEW m \in Records, Keeps(m),
         server' = server, orphans' = orphans,
         events # <<>>, events' = Tail(events), LeavesInSight(Memory, m),
         \A t \in Terminals : Exists(t) /\ Head(events) = MapRequest(t) => InSight(m, t)
  PROVE  EveryTerminalInSight'
  <1> SUFFICES ASSUME NEW t \in Terminals \ orphans', Exists(t)'
               PROVE  SeenOrAwaited(t)'
    BY DEF EveryTerminalInSight
  <1>0. t \in Terminals \ orphans /\ Exists(t)
    BY DEF Exists
  <1>1. /\ Len(events') = Len(events) - 1
        /\ \A k \in 1..Len(events') : events'[k] = events[k + 1]
        /\ Head(events) = events[1]
        /\ Len(events) \in Nat
    BY DEF TypeOK
  <1>2. CASE InSight(m, t)
    <2>1. (WillShow(requests, t) \/ dwm.swallowing[t] # None)'
      BY <1>2, SightAfter
    <2> QED
      BY <2>1 DEF SeenOrAwaited, WillShow
  <1>3. CASE ~InSight(m, t)
    <2>1. ~InSight(Memory, t) /\ Head(events) # MapRequest(t)
      BY <1>0, <1>3 DEF LeavesInSight
    <2>2. PICK k \in 1..Len(events) : events[k] = MapRequest(t)
      BY <1>0, <2>1, SightBefore DEF EveryTerminalInSight, SeenOrAwaited
    <2>3. k - 1 \in 1..Len(events') /\ events'[k - 1] = MapRequest(t)
      BY <1>1, <2>1, <2>2
    <2> QED
      BY <2>3 DEF SeenOrAwaited, MapRequest
  <1> QED
    BY <1>2, <1>3

\* The programs' steps change neither requests nor owners.
LEMMA ProgramsInSight ==
  ASSUME TypeOK, EveryTerminalInSight, requests' = requests, dwm' = dwm,
         orphans' = orphans, events' \in Seq(Told),
         \A k \in 1..Len(events) : k \in 1..Len(events') /\ events'[k] = events[k],
         \A t \in Terminals : Exists(t)' =>
           \/ server'[t] = server[t]
           \/ \E k \in 1..Len(events') : events'[k] = MapRequest(t)
  PROVE  EveryTerminalInSight'
  <1> SUFFICES ASSUME NEW t \in Terminals \ orphans', Exists(t)'
               PROVE  SeenOrAwaited(t)'
    BY DEF EveryTerminalInSight
  <1>1. CASE server'[t] = server[t]
    <2>1. Exists(t) /\ t \in Terminals \ orphans
      BY <1>1 DEF Exists
    <2>2. WillShow(requests, t) => WillShow(requests, t)'
      BY <1>1 DEF WillShow, ToMap, ToHide
    <2> QED
      BY <2>1, <2>2 DEF EveryTerminalInSight, SeenOrAwaited, MapRequest
  <1>2. CASE \E k \in 1..Len(events') : events'[k] = MapRequest(t)
    BY <1>2 DEF SeenOrAwaited, MapRequest
  <1> QED
    BY <1>1, <1>2

\* What a request under way will do is the same after the server has done it.
LEMMA ServeInSight ==
  ASSUME TypeOK, EveryTerminalInSight, Serve
  PROVE  EveryTerminalInSight'
  <1> DEFINE r == Head(requests)
  <1>0. requests \in Seq(Requests) /\ events \in Seq(Told)
    BY DEF TypeOK, Requests, Told
  <1>1. /\ requests # <<>> /\ r \in Requests /\ r = requests[1]
        /\ Len(requests') = Len(requests) - 1 /\ Len(requests) \in Nat
        /\ \A k \in 1..Len(requests') : requests'[k] = requests[k + 1]
    BY <1>0 DEF Serve
  <1>2. /\ server' = [server EXCEPT ![r.win] =
                        IF ~Exists(r.win) THEN @
                        ELSE IF r.type = "map" THEN "mapped" ELSE "unmapped"]
        /\ events' = events \/ events' = Append(events, UnmapNotify(r.win))
        /\ UNCHANGED <<dwm, orphans>>
    BY DEF Serve
  <1>3. r.win \in Windows /\ r.type \in {"map", "unmap"} /\ UnmapNotify(r.win) \in Told
    BY <1>1 DEF Requests, UnmapNotify, Told
  <1>4. \A k \in 1..Len(events) : k \in 1..Len(events') /\ events'[k] = events[k]
    BY <1>0, <1>2, <1>3
  <1> SUFFICES ASSUME NEW t \in Terminals \ orphans', Exists(t)'
               PROVE  SeenOrAwaited(t)'
    BY DEF EveryTerminalInSight
  <1>5. t \in Windows /\ Exists(t) /\ t \in Terminals \ orphans
    BY <1>2, <1>3 DEF Exists, TypeOK, Windows
  <1>6. r = [type |-> r.type, win |-> r.win]
    BY <1>1 DEF Requests
  <1> HIDE DEF r
  <1>7. ASSUME server[t] = "mapped", \A k \in 1..Len(requests) : requests[k] # ToHide(t)
        PROVE  WillShow(requests, t)'
    <2>1. r # ToHide(t)
      BY <1>1, <1>7
    <2>2. server'[t] = "mapped"
      BY <1>2, <1>3, <1>5, <1>6, <1>7, <2>1 DEF TypeOK, ToHide
    <2>3. \A k \in 1..Len(requests') : requests'[k] # ToHide(t)
      BY <1>1, <1>7
    <2> QED
      BY <2>2, <2>3 DEF WillShow, ToHide
  <1>8. ASSUME NEW k \in 1..Len(requests), requests[k] = ToMap(t),
               \A l \in k..Len(requests) : requests[l] # ToHide(t)
        PROVE  WillShow(requests, t)'
    <2>1. CASE k = 1
      <3>1. server'[t] = "mapped"
        BY <1>1, <1>2, <1>3, <1>5, <1>8, <2>1 DEF TypeOK, ToMap
      <3>2. \A l \in 1..Len(requests') : requests'[l] # ToHide(t)
        BY <1>1, <1>8, <2>1
      <3> QED
        BY <3>1, <3>2 DEF WillShow, ToHide
    <2>2. CASE k # 1
      <3>1. /\ k - 1 \in 1..Len(requests') /\ requests'[k - 1] = ToMap(t)
            /\ \A l \in k - 1..Len(requests') : requests'[l] # ToHide(t)
        BY <1>1, <1>8, <2>2
      <3> QED
        BY <3>1 DEF WillShow, ToHide, ToMap
    <2> QED
      BY <2>1, <2>2
  <1>9. WillShow(requests, t) => WillShow(requests, t)'
    BY <1>7, <1>8 DEF WillShow
  <1> QED
    BY <1>2, <1>4, <1>5, <1>9 DEF EveryTerminalInSight, SeenOrAwaited, MapRequest

LEMMA NextInSight == IInv /\ EveryTerminalInSight /\ [Next]_vars => EveryTerminalInSight'
  <1> SUFFICES ASSUME IInv, EveryTerminalInSight, [Next]_vars
               PROVE  EveryTerminalInSight'
    OBVIOUS
  <1>0. TypeOK /\ Good(dwm) /\ QueuesAgree /\ IInv'
    BY NextIInv DEF IInv
  <1>00. events \in Seq(Told) /\ events' \in Seq(Told)
    BY <1>0 DEF IInv, TypeOK, Told
  <1>1. ASSUME NEW w \in Windows, MapWindow(w)
        PROVE  EveryTerminalInSight'
    <2>1. events' = Append(events, MapRequest(w)) /\ MapRequest(w) \in Told
      BY <1>1 DEF MapWindow, MapRequest, Told
    <2>2. /\ \A k \in 1..Len(events) : k \in 1..Len(events') /\ events'[k] = events[k]
          /\ Len(events') \in 1..Len(events') /\ events'[Len(events')] = MapRequest(w)
      BY <1>00, <2>1
    <2>3. \A t \in Terminals : server'[t] = server[t] \/ t = w
      BY <1>0, <1>1 DEF MapWindow, TypeOK, Windows
    <2>4. requests' = requests /\ dwm' = dwm /\ orphans' = orphans
      BY <1>1 DEF MapWindow
    <2> QED
      BY <1>0, <1>00, <2>2, <2>3, <2>4, ProgramsInSight
  <1>2. ASSUME NEW w \in Windows, Withdraw(w) \/ Close(w)
        PROVE  EveryTerminalInSight'
    <2>1. UnmapNotify(w) \in Told /\ DestroyNotify(w) \in Told
      BY DEF UnmapNotify, DestroyNotify, Told
    <2>2. \A k \in 1..Len(events) : k \in 1..Len(events') /\ events'[k] = events[k]
      <3>1. \/ events' = events \o <<UnmapNotify(w), DestroyNotify(w)>>
            \/ events' = events \o <<DestroyNotify(w)>>
            \/ events' = events \o <<UnmapNotify(w)>>
        BY <1>2 DEF Withdraw, Close, Leaves
      <3> QED
        BY <1>00, <2>1, <3>1
    <2>3. \A t \in Terminals : Exists(t)' => server'[t] = server[t]
      BY <1>0, <1>2, KindsAssumption DEF Withdraw, Close, Leaves, TypeOK, Windows, Exists
    <2>4. requests' = requests /\ dwm' = dwm /\ orphans' = orphans
      BY <1>2 DEF Withdraw, Close, Leaves
    <2> QED
      BY <1>0, <1>00, <2>2, <2>3, <2>4, ProgramsInSight
  <1>3. CASE Serve
    BY <1>0, <1>3, ServeInSight
  <1>4. CASE HandleMapRequest
    <2> DEFINE w == Head(events).win
               m == IF Exists(w) /\ WinToClient(Memory, w) = {} THEN Manage(Memory, w)
                    ELSE Memory
    <2>1. /\ Head(events) \in Told /\ Head(events) = events[1] /\ 1 \in 1..Len(events)
          /\ Head(events).type = "MapRequest"
      BY <1>00, <1>4 DEF HandleMapRequest, Take
    <2>2. w \in Windows
      BY <2>1 DEF Told
    <2>3. /\ Memory \in Records /\ Good(Memory)
          /\ Memory.clients = dwm.clients /\ Memory.win = dwm.win
      BY <1>0, MemoryGood
    <2>4. ASSUME Exists(w), WinToClient(Memory, w) = {}
          PROVE  /\ m = Manage(Memory, w) /\ m \in Records
                 /\ LeavesInSight(Memory, m)
                 /\ w \in Terminals => InSight(m, w)
      <3>1. \A i \in dwm.clients : dwm.win[i] # w
        BY <2>3, <2>4 DEF WinToClient
      <3>2. w \notin dwm.clients
        BY <1>0, <2>1, <3>1 DEF Good, StandsFor, QueuesAgree
      <3>3. New(Memory, w)
        BY <2>3, <3>1, <3>2 DEF New
      <3>4. m = Manage(Memory, w)
        BY <2>4
      <3> HIDE DEF m, w
      <3> QED
        BY <1>0, <2>2, <2>3, <3>3, <3>4, ManageGood, ManageInSight
    <2>5. ASSUME NEW t \in Terminals, Exists(t), Head(events) = MapRequest(t)
          PROVE  WinToClient(Memory, t) = {} /\ w = t
      <3>1. w = t
        BY <2>5 DEF MapRequest
      <3>2. t \notin dwm.clients
        BY <1>0, <2>1, <2>5, <3>1 DEF QueuesAgree
      <3>3. \A i \in dwm.clients : dwm.win[i] # t
        BY <1>0, <2>5, <3>2, KindsAssumption DEF Good, StandsFor
      <3> QED
        BY <2>3, <3>1, <3>3 DEF WinToClient
    <2>6. m \in Records /\ LeavesInSight(Memory, m)
      <3>1. CASE Exists(w) /\ WinToClient(Memory, w) = {}
        BY <2>4, <3>1
      <3>2. CASE ~(Exists(w) /\ WinToClient(Memory, w) = {})
        <4>1. m = Memory
          BY <3>2
        <4> QED
          BY <2>3, <4>1 DEF LeavesInSight
      <3> QED
        BY <3>1, <3>2
    <2>7. \A t \in Terminals : Exists(t) /\ Head(events) = MapRequest(t) => InSight(m, t)
      <3> SUFFICES ASSUME NEW t \in Terminals, Exists(t), Head(events) = MapRequest(t)
                   PROVE  InSight(m, t)
        OBVIOUS
      <3>1. WinToClient(Memory, t) = {} /\ w = t
        BY <2>5
      <3>2. Exists(w) /\ WinToClient(Memory, w) = {} /\ w \in Terminals
        BY <3>1
      <3>3. InSight(m, w)
        BY <2>4, <3>2
      <3> QED
        BY <3>1, <3>3
    <2>8. /\ Keeps(m) /\ events # <<>> /\ events' = Tail(events)
          /\ server' = server /\ orphans' = orphans
      BY <1>4 DEF HandleMapRequest, Take
    <2> HIDE DEF m
    <2> QED
      BY <1>0, <2>6, <2>7, <2>8, HandlerInSight
  <1>5. CASE HandleUnmapNotify
    <2> DEFINE w == Head(events).win
               m1 == OnUnmap(Memory, w)
               m == OnUnmap(m1, w)
    <2>1. /\ w \in Windows
          /\ \A t \in Terminals : Head(events) # MapRequest(t)
      <3>1. Head(events) \in Told /\ Head(events).type = "UnmapNotify"
        BY <1>00, <1>5 DEF HandleUnmapNotify, Take
      <3> QED
        BY <3>1 DEF Told, MapRequest
    <2>2. Memory \in Records /\ Good(Memory)
      BY <1>0, MemoryGood
    <2>3. /\ Keeps(m) /\ events # <<>> /\ events' = Tail(events)
          /\ server' = server /\ orphans' = orphans
      BY <1>5 DEF HandleUnmapNotify, Take
    <2> HIDE DEF w
    <2>4. m1 \in Records /\ Good(m1) /\ LeavesInSight(Memory, m1)
      BY <1>0, <2>1, <2>2, OnUnmapGood, OnUnmapInSight
    <2> HIDE DEF m1
    <2>5. m \in Records /\ LeavesInSight(m1, m)
      BY <1>0, <2>1, <2>4, OnUnmapGood, OnUnmapInSight
    <2> HIDE DEF m
    <2>6. LeavesInSight(Memory, m)
      BY <2>4, <2>5 DEF LeavesInSight
    <2> QED
      BY <1>0, <2>1, <2>3, <2>5, <2>6, HandlerInSight
  <1>6. CASE HandleDestroyNotify
    <2> DEFINE w == Head(events).win
               m1 == OnDestroy(Memory, w)
               m == OnDestroy(m1, w)
    <2>1. /\ w \in Windows /\ server[w] = "gone"
          /\ \A t \in Terminals : Head(events) # MapRequest(t)
      <3>1. /\ Head(events) \in Told /\ Head(events) = events[1] /\ 1 \in 1..Len(events)
            /\ Head(events).type = "DestroyNotify"
        BY <1>00, <1>6 DEF HandleDestroyNotify, Take
      <3> QED
        BY <1>0, <3>1 DEF Told, MapRequest, QueuesAgree
    <2>2. Memory \in Records /\ Good(Memory)
      BY <1>0, MemoryGood
    <2>3. /\ Keeps(m) /\ events # <<>> /\ events' = Tail(events)
          /\ server' = server /\ orphans' = orphans
      BY <1>6 DEF HandleDestroyNotify, Take
    <2> HIDE DEF w
    <2>4. m1 \in Records /\ Good(m1) /\ LeavesInSight(Memory, m1)
      BY <1>0, <2>1, <2>2, OnDestroyGood, OnDestroyInSight
    <2> HIDE DEF m1
    <2>5. m \in Records /\ LeavesInSight(m1, m)
      BY <1>0, <2>1, <2>4, OnDestroyGood, OnDestroyInSight
    <2> HIDE DEF m
    <2>6. LeavesInSight(Memory, m)
      BY <2>4, <2>5 DEF LeavesInSight
    <2> QED
      BY <1>0, <2>1, <2>3, <2>5, <2>6, HandlerInSight
  <1>7. CASE Restart
    <2> SUFFICES ASSUME NEW t \in Terminals \ orphans', Exists(t)'
                 PROVE  SeenOrAwaited(t)'
      BY DEF EveryTerminalInSight
    <2>1. server'[t] = "mapped" /\ requests' = <<>>
      BY <1>7 DEF Restart, Exists
    <2> QED
      BY <2>1 DEF SeenOrAwaited, WillShow
  <1>8. ASSUME NEW w \in Windows, Scan(w)
        PROVE  EveryTerminalInSight'
    <2> DEFINE m == IF server[w] = "mapped" THEN Manage(Memory, w) ELSE Memory
    <2>1. /\ Memory \in Records /\ Good(Memory)
          /\ Memory.clients = dwm.clients /\ Memory.win = dwm.win
      BY <1>0, MemoryGood
    <2>2. New(Memory, w)
      BY <1>0, <1>8, <2>1 DEF Scan, QueuesAgree, New
    <2>3. m \in Records /\ LeavesInSight(Memory, m)
      <3>1. CASE server[w] = "mapped"
        <4>1. m = Manage(Memory, w)
          BY <3>1
        <4> HIDE DEF m
        <4> QED
          BY <1>0, <2>1, <2>2, <4>1, ManageGood, ManageInSight
      <3>2. CASE server[w] # "mapped"
        <4>1. m = Memory
          BY <3>2
        <4> QED
          BY <2>1, <4>1 DEF LeavesInSight
      <3> QED
        BY <3>1, <3>2
    <2>4. /\ Keeps(m)
          /\ UNCHANGED <<server, events, orphans>>
      BY <1>8 DEF Scan
    <2> HIDE DEF m
    <2> SUFFICES ASSUME NEW t \in Terminals \ orphans', Exists(t)'
                 PROVE  SeenOrAwaited(t)'
      BY DEF EveryTerminalInSight
    <2>5. SeenOrAwaited(t) /\ Exists(t)
      BY <2>4 DEF EveryTerminalInSight, Exists
    <2>6. CASE InSight(Memory, t)
      <3>1. InSight(m, t)
        BY <2>3, <2>5, <2>6 DEF LeavesInSight
      <3>2. (WillShow(requests, t) \/ dwm.swallowing[t] # None)'
        BY <2>3, <2>4, <3>1, SightAfter
      <3> QED
        BY <3>2 DEF SeenOrAwaited, WillShow
    <2>7. CASE ~InSight(Memory, t)
      <3>1. \E k \in 1..Len(events) : events[k] = MapRequest(t)
        BY <1>0, <2>5, <2>7, SightBefore DEF SeenOrAwaited
      <3> QED
        BY <2>4, <3>1 DEF SeenOrAwaited, MapRequest
    <2> QED
      BY <2>6, <2>7
  <1>9. CASE UNCHANGED vars
    <2> SUFFICES ASSUME NEW t \in Terminals \ orphans', Exists(t)'
                 PROVE  SeenOrAwaited(t)'
      BY DEF EveryTerminalInSight
    <2>1. SeenOrAwaited(t)
      BY <1>9 DEF vars, EveryTerminalInSight, Exists
    <2>2. WillShow(requests, t) => WillShow(requests, t)'
      BY <1>9 DEF vars, WillShow, ToMap, ToHide
    <2> QED
      BY <1>9, <2>1, <2>2 DEF vars, SeenOrAwaited, MapRequest
  <1> QED
    BY <1>1, <1>2, <1>3, <1>4, <1>5, <1>6, <1>7, <1>8, <1>9 DEF Next, Handle

\* A hidden terminal is held by a client that shows its program: dwm hides a terminal
\* only when it swallows, and whoever stops holding it asks for it to be mapped
\* (swallow, unswallow, unmanage); except for what a restart finds hidden.
THEOREM HiddenAlwaysHeld == Spec => []HiddenIsHeld
  <1>1. Init => EveryTerminalInSight
    BY DEF Init, EveryTerminalInSight, Exists, Windows
  <1>2. IInv /\ EveryTerminalInSight => HiddenIsHeld
    <2> SUFFICES ASSUME IInv, EveryTerminalInSight, AtRest,
                        NEW t \in Terminals \ orphans, server[t] = "unmapped"
                 PROVE  SwallowingClient(Memory, t) # {}
      BY DEF HiddenIsHeld
    <2>1. ~WillShow(requests, t) /\ events = <<>>
      BY DEF AtRest, WillShow
    <2>2. dwm.swallowing[t] # None
      BY <2>1 DEF EveryTerminalInSight, SeenOrAwaited, Exists
    <2>3. t \in dwm.clients /\ dwm.win[dwm.swallowing[t]] = t
      BY <2>2 DEF IInv, Good, HoldsFirm, Windows
    <2>4. t \in SwallowingClient(Memory, t)
      BY <2>2, <2>3 DEF SwallowingClient, Memory
    <2> QED
      BY <2>4
  <1> QED
    BY <1>1, <1>2, InitIInv, NextIInv, NextInSight, PTL DEF Spec
-----------------------------------------------------------------------------
(* Mapped and managed.  What holds of the windows while requests and events *)
(* are under way is said with two operators on queues: what is in one, and  *)
(* what comes before what.                                                  *)

In(q, e) == \E k \in 1..Len(q) : q[k] = e
InOrder(q, e, f) == \E j, k \in 1..Len(q) : j < k /\ q[j] = e /\ q[k] = f

LEMMA NothingIn ==
  ASSUME NEW e, NEW f
  PROVE  ~In(<<>>, e) /\ ~InOrder(<<>>, e, f)
  BY DEF In, InOrder

\* What is appended comes last.
LEMMA AppendIn ==
  ASSUME NEW S, NEW q \in Seq(S), NEW a \in S
  PROVE  /\ \A e : In(Append(q, a), e) <=> In(q, e) \/ e = a
         /\ \A e, f : InOrder(Append(q, a), e, f) <=> InOrder(q, e, f) \/ (In(q, e) /\ f = a)
  <1> DEFINE n == Append(q, a)
  <1>1. /\ Len(n) = Len(q) + 1 /\ Len(q) \in Nat
        /\ n[Len(q) + 1] = a
        /\ \A k \in 1..Len(q) : n[k] = q[k]
    OBVIOUS
  <1> HIDE DEF n
  <1>2. ASSUME NEW e
        PROVE  In(n, e) <=> In(q, e) \/ e = a
    <2>1. ASSUME NEW k \in 1..Len(n), n[k] = e
          PROVE  In(q, e) \/ e = a
      <3>1. k \in 1..Len(q) \/ k = Len(q) + 1
        BY <1>1
      <3> QED
        BY <1>1, <2>1, <3>1 DEF In
    <2>2. ASSUME NEW k \in 1..Len(q), q[k] = e
          PROVE  In(n, e)
      <3>1. k \in 1..Len(n)
        BY <1>1
      <3> QED
        BY <1>1, <2>2, <3>1 DEF In
    <2>3. ASSUME e = a
          PROVE  In(n, e)
      <3>1. Len(q) + 1 \in 1..Len(n)
        BY <1>1
      <3> QED
        BY <1>1, <2>3, <3>1 DEF In
    <2> QED
      BY <2>1, <2>2, <2>3 DEF In
  <1>3. ASSUME NEW e, NEW f
        PROVE  InOrder(n, e, f) <=> InOrder(q, e, f) \/ (In(q, e) /\ f = a)
    <2>1. ASSUME NEW j \in 1..Len(n), NEW k \in 1..Len(n), j < k, n[j] = e, n[k] = f
          PROVE  InOrder(q, e, f) \/ (In(q, e) /\ f = a)
      <3>1. j \in 1..Len(q) /\ (k \in 1..Len(q) \/ k = Len(q) + 1)
        BY <1>1, <2>1
      <3> QED
        BY <1>1, <2>1, <3>1 DEF In, InOrder
    <2>2. ASSUME NEW j \in 1..Len(q), NEW k \in 1..Len(q), j < k, q[j] = e, q[k] = f
          PROVE  InOrder(n, e, f)
      <3>1. j \in 1..Len(n) /\ k \in 1..Len(n)
        BY <1>1
      <3> QED
        BY <1>1, <2>2, <3>1 DEF InOrder
    <2>3. ASSUME NEW j \in 1..Len(q), q[j] = e, f = a
          PROVE  InOrder(n, e, f)
      <3>1. j \in 1..Len(n) /\ Len(q) + 1 \in 1..Len(n) /\ j < Len(q) + 1
        BY <1>1
      <3> QED
        BY <1>1, <2>3, <3>1 DEF InOrder
    <2> QED
      BY <2>1, <2>2, <2>3 DEF In, InOrder
  <1> QED
    BY <1>2, <1>3 DEF n

\* What is taken from a queue came before the rest.
LEMMA TailIn ==
  ASSUME NEW S, NEW q \in Seq(S), q # <<>>
  PROVE  /\ \A e : In(q, e) <=> e = Head(q) \/ In(Tail(q), e)
         /\ \A e, f : InOrder(q, e, f) <=>
                        InOrder(Tail(q), e, f) \/ (e = Head(q) /\ In(Tail(q), f))
  <1> DEFINE n == Tail(q)
  <1>1. /\ Len(n) = Len(q) - 1 /\ Len(q) \in Nat \ {0}
        /\ Head(q) = q[1]
        /\ \A k \in 1..Len(n) : n[k] = q[k + 1]
    OBVIOUS
  <1> HIDE DEF n
  <1>2. ASSUME NEW e
        PROVE  In(q, e) <=> e = Head(q) \/ In(n, e)
    <2>1. ASSUME NEW k \in 1..Len(q), q[k] = e
          PROVE  e = Head(q) \/ In(n, e)
      <3>1. k = 1 \/ (k - 1 \in 1..Len(n) /\ (k - 1) + 1 = k)
        BY <1>1
      <3> QED
        BY <1>1, <2>1, <3>1 DEF In
    <2>2. ASSUME NEW k \in 1..Len(n), n[k] = e
          PROVE  In(q, e)
      <3>1. k + 1 \in 1..Len(q)
        BY <1>1
      <3> QED
        BY <1>1, <2>2, <3>1 DEF In
    <2>3. 1 \in 1..Len(q)
      BY <1>1
    <2> QED
      BY <1>1, <2>1, <2>2, <2>3 DEF In
  <1>3. ASSUME NEW e, NEW f
        PROVE  InOrder(q, e, f) <=> InOrder(n, e, f) \/ (e = Head(q) /\ In(n, f))
    <2>1. ASSUME NEW j \in 1..Len(q), NEW k \in 1..Len(q), j < k, q[j] = e, q[k] = f
          PROVE  InOrder(n, e, f) \/ (e = Head(q) /\ In(n, f))
      <3>1. k - 1 \in 1..Len(n) /\ n[k - 1] = f
        BY <1>1, <2>1
      <3>2. CASE j = 1
        BY <1>1, <2>1, <3>1, <3>2 DEF In
      <3>3. CASE j # 1
        <4>1. j - 1 \in 1..Len(n) /\ n[j - 1] = e /\ j - 1 < k - 1
          BY <1>1, <2>1, <3>3
        <4> QED
          BY <3>1, <4>1 DEF InOrder
      <3> QED
        BY <3>2, <3>3
    <2>2. ASSUME NEW j \in 1..Len(n), NEW k \in 1..Len(n), j < k, n[j] = e, n[k] = f
          PROVE  InOrder(q, e, f)
      <3>1. j + 1 \in 1..Len(q) /\ k + 1 \in 1..Len(q) /\ j + 1 < k + 1
        BY <1>1, <2>2
      <3> QED
        BY <1>1, <2>2, <3>1 DEF InOrder
    <2>3. ASSUME NEW k \in 1..Len(n), n[k] = f, e = Head(q)
          PROVE  InOrder(q, e, f)
      <3>1. 1 \in 1..Len(q) /\ k + 1 \in 1..Len(q) /\ 1 < k + 1
        BY <1>1
      <3> QED
        BY <1>1, <2>3, <3>1 DEF InOrder
    <2> QED
      BY <2>1, <2>2, <2>3 DEF In, InOrder
  <1> QED
    BY <1>2, <1>3 DEF n

\* Notifications and requests differ by what they say and by their windows.
LEMMA EventsDiffer ==
  /\ \A v, w : MapRequest(v) # UnmapNotify(w)
  /\ \A v, w : MapRequest(v) # DestroyNotify(w)
  /\ \A v, w : UnmapNotify(v) # DestroyNotify(w)
  /\ \A v, w : UnmapNotify(v) = UnmapNotify(w) => v = w
  /\ \A v, w : DestroyNotify(v) = DestroyNotify(w) => v = w
  /\ \A v, w : MapRequest(v) = MapRequest(w) => v = w
  /\ \A v, w : ToMap(v) # ToHide(w)
  /\ \A v, w : ToMap(v) = ToMap(w) => v = w
  /\ \A v, w : ToHide(v) = ToHide(w) => v = w
  BY DEF MapRequest, UnmapNotify, DestroyNotify, ToMap, ToHide
-----------------------------------------------------------------------------
(* What dwm's routines do to who shows which window, to who is held and to  *)
(* what is asked.                                                           *)

\* Some client stands for window w.
Shows(m, w) == \E i \in m.clients : m.win[i] = w

\* manage: the new window gets a client and will be mapped.
Joins(m, n, w) ==
  /\ n.swallowing = m.swallowing
  /\ n.out = Append(m.out, ToMap(w))
  /\ \A v \in Windows : Shows(n, v) <=> Shows(m, v) \/ v = w

\* manage and swallow: the client of its terminal shows it, and the terminal is hidden.
TakesPlace(m, n, w, t) ==
  /\ w \in Programs /\ t = StartedFrom[w] /\ t \in m.clients
  /\ m.swallowing[t] = None /\ server[t] # "gone"
  /\ n.swallowing = [m.swallowing EXCEPT ![t] = w]
  /\ n.out = Append(Append(m.out, ToMap(w)), ToHide(t))
  /\ \A v \in Windows : Shows(n, v) <=> (Shows(m, v) /\ v # t) \/ v = w

\* unmanage of the client that shows w, and holds no window: w is shown no more.
Departs(m, n, w) ==
  /\ Shows(m, w) /\ m.swallowing[w] = None
  /\ n.swallowing = m.swallowing
  /\ n.out = m.out
  /\ \A v \in Windows : Shows(n, v) <=> Shows(m, v) /\ v # w

\* unmanage of the client that shows program w in place of terminal t, which will be
\* mapped again.
GivesBack(m, n, w, t) ==
  /\ w \in Programs /\ t \in Terminals \cap m.clients
  /\ Shows(m, w) /\ m.swallowing[t] = w /\ m.swallowing[w] = None
  /\ n.swallowing = [m.swallowing EXCEPT ![t] = None]
  /\ n.out = Append(m.out, ToMap(t))
  /\ \A v \in Windows : Shows(n, v) <=> (Shows(m, v) /\ v # w) \/ v = t

\* unmanage of what terminal w, which is gone, swallowed: its client stays what it shows.
Survives(m, n, w) ==
  /\ w \in Terminals /\ ~Shows(m, w) /\ m.swallowing[w] # None
  /\ n.swallowing = [m.swallowing EXCEPT ![w] = None]
  /\ n.out = m.out
  /\ \A v \in Windows : Shows(n, v) <=> Shows(m, v)

\* What a notification that w was unmapped or destroyed makes of m.
AfterUnmap(m, n, w) ==
  \/ n = m /\ ~Shows(m, w)
  \/ Departs(m, n, w)
  \/ \E t \in Terminals : GivesBack(m, n, w, t)
AfterDestroy(m, n, w) ==
  \/ n = m /\ ~Shows(m, w) /\ m.swallowing[w] = None
  \/ Departs(m, n, w)
  \/ \E t \in Terminals : GivesBack(m, n, w, t)
  \/ Survives(m, n, w)

\* Who holds no window is shown by its own client alone.
LEMMA ShowsOwn ==
  ASSUME NEW m \in Records, Good(m)
  PROVE  /\ \A w \in Terminals : Shows(m, w) => w \in m.clients /\ m.win[w] = w /\ m.swallowing[w] = None
         /\ \A w \in Programs : m.swallowing[w] = None
  BY KindsAssumption, NoneAssumption DEF Shows, Good, HoldsFirm, StandsFor, Records, Windows

LEMMA ManageEffect ==
  ASSUME NEW m \in Records, Good(m), NEW w \in Windows, New(m, w)
  PROVE  \/ Joins(m, Manage(m, w), w)
         \/ \E t \in Terminals : TakesPlace(m, Manage(m, w), w, t)
  <1> DEFINE placed == [m EXCEPT !.clients = m.clients \cup {w},
                                 !.win = [m.win EXCEPT ![w] = w]]
             n == Ask(placed, "map", w)
  <1>0. Manage(m, w) = IF TermForWin(m, w) = {} THEN n
                       ELSE Swallow(n, CHOOSE q \in TermForWin(m, w) : TRUE, w)
    BY DEF Manage
  <1>1. /\ placed \in Records
        /\ placed.clients = m.clients \cup {w}
        /\ placed.win = [m.win EXCEPT ![w] = w]
        /\ placed.swallowing = m.swallowing
        /\ placed.out = m.out
    BY DEF Records
  <1> HIDE DEF placed
  <1>2. /\ n \in Records
        /\ n.clients = m.clients \cup {w}
        /\ n.win = [m.win EXCEPT ![w] = w]
        /\ n.swallowing = m.swallowing
    BY <1>1, AskKeeps
  <1>3. n.out = Append(m.out, ToMap(w))
    BY <1>1 DEF Ask, ToMap, Records
  <1> HIDE DEF n
  <1>4. \A v \in Windows : Shows(n, v) <=> Shows(m, v) \/ v = w
    BY <1>2 DEF Shows, New, Records
  <1>5. Joins(m, n, w)
    BY <1>2, <1>3, <1>4 DEF Joins
  <1>6. CASE TermForWin(m, w) = {}
    BY <1>0, <1>5, <1>6
  <1>7. CASE TermForWin(m, w) # {}
    <2> DEFINE p == CHOOSE q \in TermForWin(m, w) : TRUE
               z == Swallow(n, p, w)
    <2>1. p \in TermForWin(m, w)
      BY <1>7
    <2>2. Manage(m, w) = z
      BY <1>0, <1>7
    <2> HIDE DEF p
    <2>3. /\ w \in Programs /\ p \in m.clients /\ p = StartedFrom[w]
          /\ m.swallowing[p] = None /\ server[p] # "gone"
      BY <2>1 DEF TermForWin, Windows
    <2>4. p \in Terminals /\ p \in Windows /\ p # w
      BY <2>3, StartedFromAssumption, KindsAssumption DEF Windows
    <2>5. m.win[p] = p /\ n.win[p] = p /\ n.win[w] = w
      BY <1>2, <2>3, <2>4 DEF Good, Widowed, Records
    <2>6. CASE w \in NeverSwallowed
      BY <1>5, <2>2, <2>6 DEF Swallow
    <2>7. CASE w \notin NeverSwallowed
      <3> DEFINE k == Ask(n, "unmap", p)
      <3>1. k \in Records /\ k.out = Append(n.out, ToHide(p))
        BY <1>2, <2>4, AskKeeps DEF Ask, ToHide, Records
      <3>2. z = [k EXCEPT !.clients = n.clients \ {w},
                          !.swallowing = [n.swallowing EXCEPT ![p] = w],
                          !.win = [n.win EXCEPT ![p] = n.win[w], ![w] = n.win[p]]]
        BY <2>5, <2>7 DEF Swallow
      <3> HIDE DEF k, z
      <3>3. /\ z.clients = m.clients
            /\ z.win = [m.win EXCEPT ![p] = w, ![w] = p]
            /\ z.swallowing = [m.swallowing EXCEPT ![p] = w]
            /\ z.out = Append(Append(m.out, ToMap(w)), ToHide(p))
        <4>1. /\ z.clients = n.clients \ {w}
              /\ z.win = [n.win EXCEPT ![p] = w, ![w] = p]
              /\ z.swallowing = [n.swallowing EXCEPT ![p] = w]
              /\ z.out = k.out
          BY <2>5, <3>1, <3>2 DEF Records
        <4>2. n.clients \ {w} = m.clients
          BY <1>2 DEF New
        <4>3. [n.win EXCEPT ![p] = w, ![w] = p] = [m.win EXCEPT ![p] = w, ![w] = p]
          BY <1>2, <2>4 DEF Records
        <4> QED
          BY <1>2, <1>3, <3>1, <4>1, <4>2, <4>3
      <3>4. ASSUME NEW v \in Windows
            PROVE  Shows(z, v) <=> (Shows(m, v) /\ v # p) \/ v = w
        <4>1. \A i \in m.clients : m.win[i] = p => i = p
          BY <2>3, <2>5 DEF Good, Distinct
        <4> QED
          BY <2>3, <2>4, <2>5, <3>3, <4>1 DEF Shows, New, Records
      <3>5. TakesPlace(m, z, w, p)
        BY <2>3, <3>3, <3>4 DEF TakesPlace
      <3> QED
        BY <2>2, <2>4, <3>5
    <2> QED
      BY <2>6, <2>7
  <1> QED
    BY <1>6, <1>7

\* unmanage of a client on the list.
LEMMA UnmanageEffect ==
  ASSUME NEW m \in Records, Good(m), NEW c \in m.clients
  PROVE  \/ Departs(m, Unmanage(m, c), m.win[c])
         \/ \E t \in Terminals : GivesBack(m, Unmanage(m, c), m.win[c], t)
  <1>0. c \in Windows /\ m.win[c] \in Windows
    BY DEF Records
  <1>1. CASE m.swallowing[c] # None
    <2> DEFINE s == m.swallowing[c]
               back == TakesBack(m, c, s)
               n == Ask(back, "map", c)
    <2>1. /\ c \in m.clients \cap Terminals /\ s \in Programs \ m.clients
          /\ m.win[c] = s /\ m.win[s] = c
      BY <1>1 DEF Good, HoldsFirm, Records
    <2>2. s \in Windows /\ s # c /\ m.swallowing[s] = None
      BY <2>1, ShowsOwn, KindsAssumption DEF Windows
    <2>3. /\ back \in Records
          /\ back.clients = m.clients
          /\ back.win = [m.win EXCEPT ![c] = c, ![s] = s]
          /\ back.swallowing = [m.swallowing EXCEPT ![c] = None]
          /\ back.out = m.out
      BY <2>1, <2>2 DEF TakesBack, Freed, Records
    <2>4. back.win[c] = c
      BY <2>2, <2>3 DEF Records
    <2>5. Unmanage(m, c) = n
      BY <1>1, <2>4 DEF Unmanage, Unswallow
    <2> HIDE DEF back, s
    <2>6. /\ n.clients = m.clients
          /\ n.win = [m.win EXCEPT ![c] = c, ![s] = s]
          /\ n.swallowing = [m.swallowing EXCEPT ![c] = None]
          /\ n.out = Append(m.out, ToMap(c))
      BY <1>0, <2>3, AskKeeps DEF Ask, ToMap, Records
    <2> HIDE DEF n
    <2>7. ASSUME NEW v \in Windows
          PROVE  Shows(n, v) <=> (Shows(m, v) /\ v # s) \/ v = c
      <3>1. \A i \in m.clients : m.win[i] = s => i = c
        BY <2>1 DEF Good, Distinct
      <3> QED
        BY <1>0, <2>1, <2>2, <2>6, <3>1 DEF Shows, Records
    <2>8. Shows(m, s)
      BY <2>1 DEF Shows
    <2>9. GivesBack(m, n, s, c)
      BY <2>1, <2>2, <2>6, <2>7, <2>8 DEF GivesBack, s
    <2> QED
      BY <2>1, <2>5, <2>9
  <1>2. CASE m.swallowing[c] = None
    <2> DEFINE n == Leave(m, c)
               w == m.win[c]
    <2>1. SwallowingClient(m, w) = {}
      <3>1. SUFFICES ASSUME NEW s \in m.clients, m.swallowing[s] # None, m.win[m.swallowing[s]] = w
                     PROVE  FALSE
        BY DEF SwallowingClient
      <3>2. s \in Terminals /\ w = s /\ m.win[s] \in Programs
        BY <3>1 DEF Good, HoldsFirm, Records
      <3> QED
        BY <1>2, <3>1, <3>2, KindsAssumption DEF Good, StandsFor
    <2>2. Unmanage(m, c) = n
      BY <1>2, <2>1 DEF Unmanage
    <2>3. /\ n.clients = m.clients \ {c}
          /\ n.win = [m.win EXCEPT ![c] = c]
          /\ n.swallowing = m.swallowing
          /\ n.out = m.out
      BY <1>2 DEF Leave, Freed, Records
    <2> HIDE DEF n
    <2>4. \A v \in Windows : Shows(n, v) <=> Shows(m, v) /\ v # w
      BY <1>0, <2>3 DEF Shows, Good, Distinct, Records
    <2>5. Shows(m, w)
      BY DEF Shows
    <2>6. m.swallowing[w] = None
      BY <1>0, <2>5, ShowsOwn DEF Windows
    <2>7. Departs(m, n, w)
      BY <2>3, <2>4, <2>5, <2>6 DEF Departs
    <2> QED
      BY <2>2, <2>7
  <1> QED
    BY <1>1, <1>2

LEMMA UnmapEffect ==
  ASSUME NEW m \in Records, Good(m), NEW w \in Windows
  PROVE  AfterUnmap(m, OnUnmap(m, w), w)
  <1> DEFINE cs == WinToClient(m, w)
             c == CHOOSE i \in cs : TRUE
  <1>1. CASE cs = {}
    BY <1>1 DEF OnUnmap, AfterUnmap, Shows, WinToClient
  <1>2. CASE cs # {}
    <2>1. c \in cs
      BY <1>2
    <2>2. c \in m.clients /\ m.win[c] = w
      BY <2>1 DEF WinToClient
    <2>3. OnUnmap(m, w) = Unmanage(m, c)
      BY <1>2 DEF OnUnmap
    <2> HIDE DEF c
    <2> QED
      BY <2>2, <2>3, UnmanageEffect DEF AfterUnmap
  <1> QED
    BY <1>1, <1>2

LEMMA DestroyEffect ==
  ASSUME NEW m \in Records, Good(m), NEW w \in Windows, server[w] = "gone"
  PROVE  AfterDestroy(m, OnDestroy(m, w), w)
  <1> DEFINE cs == WinToClient(m, w)
             ss == SwallowingClient(m, w)
             c == CHOOSE i \in cs : TRUE
             s == CHOOSE i \in ss : TRUE
  <1>1. CASE cs # {}
    <2>1. c \in cs
      BY <1>1
    <2>2. c \in m.clients /\ m.win[c] = w
      BY <2>1 DEF WinToClient
    <2>3. OnDestroy(m, w) = Unmanage(m, c)
      BY <1>1 DEF OnDestroy
    <2> HIDE DEF c
    <2> QED
      BY <2>2, <2>3, UnmanageEffect DEF AfterDestroy
  <1>2. CASE cs = {} /\ ss # {}
    <2>1. s \in ss
      BY <1>2
    <2>2. OnDestroy(m, w) = Unmanage(m, m.swallowing[s])
      BY <1>2 DEF OnDestroy
    <2> HIDE DEF s
    <2>3. /\ s \in m.clients /\ m.swallowing[s] # None /\ m.win[m.swallowing[s]] = w
      BY <2>1 DEF SwallowingClient
    <2>4. /\ s = w /\ w \in Terminals /\ m.swallowing[w] \in Programs \ m.clients
          /\ m.win[w] = m.swallowing[w] /\ m.win[m.swallowing[w]] = w
      BY <2>3 DEF Good, HoldsFirm, Records
    <2> DEFINE p == m.swallowing[w]
               n == Unmanage(m, p)
    <2>5. p \in Windows /\ p # w /\ m.swallowing[p] = None
      BY <2>4, ShowsOwn, KindsAssumption DEF Windows
    <2>6. SwallowingClient(m, m.win[p]) = {w}
      <3>1. ASSUME NEW i \in m.clients, m.swallowing[i] # None, m.win[m.swallowing[i]] = w
            PROVE  i = w
        BY <3>1 DEF Good, HoldsFirm, Records
      <3> QED
        BY <2>3, <2>4, <3>1 DEF SwallowingClient
    <2>7. n = FreeSwallowed(m, w)
      BY <2>5, <2>6 DEF Unmanage
    <2> HIDE DEF n
    <2>8. /\ n.clients = m.clients
          /\ n.win = [m.win EXCEPT ![p] = p]
          /\ n.swallowing = [m.swallowing EXCEPT ![w] = None]
          /\ n.out = m.out
      BY <2>3, <2>4, <2>5, <2>7 DEF FreeSwallowed, Freed, Records
    <2>9. \A v \in Windows : Shows(n, v) <=> Shows(m, v)
      BY <2>4, <2>5, <2>8 DEF Shows, Records
    <2>10. ~Shows(m, w)
      BY <1>2 DEF Shows, WinToClient
    <2>11. Survives(m, n, w)
      BY <2>3, <2>4, <2>8, <2>9, <2>10 DEF Survives
    <2> QED
      BY <2>2, <2>4, <2>11 DEF AfterDestroy, n
  <1>3. CASE cs = {} /\ ss = {}
    <2>1. OnDestroy(m, w) = m /\ ~Shows(m, w)
      BY <1>3 DEF OnDestroy, Shows, WinToClient
    <2>2. m.swallowing[w] = None
      <3>1. CASE m.swallowing[w] # None
        <4>1. w \in m.clients /\ m.win[m.swallowing[w]] = w
          BY <3>1 DEF Good, HoldsFirm
        <4> QED
          BY <1>3, <3>1, <4>1 DEF SwallowingClient
      <3> QED
        BY <3>1
    <2> QED
      BY <2>1, <2>2 DEF AfterDestroy
  <1> QED
    BY <1>1, <1>2, <1>3

\* Notifications come twice: the second finds nothing left to do.
LEMMA UnmapTwice ==
  ASSUME NEW m \in Records, Good(m), NEW w \in Windows
  PROVE  AfterUnmap(m, OnUnmap(OnUnmap(m, w), w), w)
  <1> DEFINE n == OnUnmap(m, w)
             z == OnUnmap(n, w)
  <1>1. n \in Records /\ Good(n) /\ AfterUnmap(m, n, w)
    BY OnUnmapGood, UnmapEffect
  <1> HIDE DEF n
  <1>2. AfterUnmap(n, z, w)
    BY <1>1, UnmapEffect
  <1> HIDE DEF z
  <1>3. CASE n = m
    BY <1>2, <1>3 DEF n, z
  <1>4. CASE ~Shows(n, w)
    <2>1. z = n
      BY <1>2, <1>4 DEF AfterUnmap, Departs, GivesBack
    <2> QED
      BY <1>1, <2>1 DEF n, z
  <1>5. n = m \/ ~Shows(n, w)
    <2>1. \A t \in Terminals : t \in Windows /\ (w \in Programs => w # t)
      BY KindsAssumption DEF Windows
    <2> QED
      BY <1>1, <2>1 DEF AfterUnmap, Departs, GivesBack
  <1> QED
    BY <1>3, <1>4, <1>5

LEMMA DestroyTwice ==
  ASSUME NEW m \in Records, Good(m), NEW w \in Windows, server[w] = "gone"
  PROVE  AfterDestroy(m, OnDestroy(OnDestroy(m, w), w), w)
  <1> DEFINE n == OnDestroy(m, w)
             z == OnDestroy(n, w)
  <1>1. n \in Records /\ Good(n) /\ AfterDestroy(m, n, w)
    BY OnDestroyGood, DestroyEffect
  <1> HIDE DEF n
  <1>2. AfterDestroy(n, z, w)
    BY <1>1, DestroyEffect
  <1> HIDE DEF z
  <1>3. CASE n = m
    BY <1>2, <1>3 DEF n, z
  <1>4. CASE ~Shows(n, w) /\ n.swallowing[w] = None
    <2>1. z = n
      BY <1>2, <1>4 DEF AfterDestroy, Departs, GivesBack, Survives
    <2> QED
      BY <1>1, <2>1 DEF n, z
  <1>5. n = m \/ (~Shows(n, w) /\ n.swallowing[w] = None)
    <2>1. \A t \in Terminals : t \in Windows /\ (w \in Programs => w # t)
      BY KindsAssumption DEF Windows
    <2>2. CASE Departs(m, n, w)
      BY <2>2 DEF Departs
    <2>3. ASSUME NEW t \in Terminals, GivesBack(m, n, w, t)
          PROVE  ~Shows(n, w) /\ n.swallowing[w] = None
      BY <2>1, <2>3 DEF GivesBack, Records
    <2>4. CASE Survives(m, n, w)
      BY <2>4 DEF Survives, Records
    <2> QED
      BY <1>1, <2>2, <2>3, <2>4 DEF AfterDestroy
  <1> QED
    BY <1>3, <1>4, <1>5
-----------------------------------------------------------------------------
(* What holds of windows, requests and events while they are under way, as  *)
(* long as no window left with a request for it on its way.                 *)

\* Word that w was withdrawn or destroyed is on its way to dwm.
Leaving(w) == In(events, UnmapNotify(w)) \/ In(events, DestroyNotify(w))
Quiet(w) == ~In(events, MapRequest(w)) /\ ~Leaving(w)
Unasked(w) == ~In(requests, ToMap(w)) /\ ~In(requests, ToHide(w))
Held(t) == dwm.swallowing[t] # None

\* Who holds a program is the terminal it was started from.
OwnProgram == \A t \in Terminals : Held(t) => StartedFrom[dwm.swallowing[t]] = t

\* What is shown exists and is mapped or will be, or dwm will hear that it left.
ShownLive ==
  \A w \in Windows : Shows(dwm, w) /\ ~Leaving(w) =>
    Exists(w) /\ (server[w] = "mapped" \/ In(requests, ToMap(w)))

\* What is mapped is shown, will be scanned, or will be hidden.
MappedKnown ==
  \A w \in Windows : server[w] = "mapped" =>
    Shows(dwm, w) \/ w \in scanning \/ In(requests, ToHide(w))

\* dwm asks for what it shows to be mapped, and for terminals to be hidden that hold a
\* program of which it will not hear that it left.
MapsShown == \A w \in Windows : In(requests, ToMap(w)) /\ Exists(w) => Shows(dwm, w)
HidesHeld ==
  \A w \in Windows : In(requests, ToHide(w)) =>
    w \in Terminals /\ Exists(w) /\ Held(w) /\ ~Leaving(dwm.swallowing[w])

\* That a terminal was unmapped dwm hears while it is held, before it hears that its
\* program left.
OwnHides ==
  \A t \in Terminals : Exists(t) /\ In(events, UnmapNotify(t)) =>
    /\ Held(t)
    /\ ~InOrder(events, UnmapNotify(dwm.swallowing[t]), UnmapNotify(t))
    /\ ~InOrder(events, DestroyNotify(dwm.swallowing[t]), UnmapNotify(t))

\* dwm will hear of the end of a terminal that still holds.
OwnersHeard == \A t \in Terminals : Held(t) /\ ~Exists(t) => In(events, DestroyNotify(t))

\* A program dwm will hear left of is not mapped, and will not be before dwm heard.
LeaversOut == \A p \in Programs : Leaving(p) => server[p] # "mapped" /\ ~In(requests, ToMap(p))

\* A program that asks to be mapped and then leaves is shown meanwhile.
ReturnsShown ==
  \A p \in Programs : Exists(p) /\ InOrder(events, MapRequest(p), UnmapNotify(p)) => Shows(dwm, p)
OneUnmap == \A p \in Programs : ~InOrder(events, UnmapNotify(p), UnmapNotify(p))

\* Nothing is under way for what is still to be scanned, or is not made yet.
ScannedQuiet == \A w \in scanning : Unasked(w) /\ (server[w] = "mapped" => Quiet(w))
NoneQuiet == \A w \in Windows : server[w] = "none" => Unasked(w) /\ Quiet(w)

Settling ==
  /\ OwnProgram /\ ShownLive /\ MappedKnown /\ MapsShown /\ HidesHeld /\ OwnHides
  /\ OwnersHeard /\ LeaversOut /\ ReturnsShown /\ OneUnmap /\ ScannedQuiet /\ NoneQuiet

\* What the other invariant says of dwm's memory.
LEMMA DwmShows ==
  ASSUME TypeOK, Good(dwm)
  PROVE  /\ \A w \in Terminals : Shows(dwm, w) => ~Held(w)
         /\ \A w \in Windows : Held(w) => /\ w \in Terminals \cap dwm.clients
                                         /\ dwm.swallowing[w] \in Programs
         /\ \A v \in Windows : Shows(Memory, v) <=> Shows(dwm, v)
         /\ Memory.swallowing = dwm.swallowing /\ Memory.clients = dwm.clients
  <1>1. ASSUME NEW w \in Windows, Held(w)
        PROVE  w \in Terminals \cap dwm.clients /\ dwm.swallowing[w] \in Programs
    BY <1>1 DEF Held, Good, HoldsFirm
  <1>2. ASSUME NEW w \in Terminals, Shows(dwm, w)
        PROVE  ~Held(w)
    BY <1>2, KindsAssumption DEF Held, Shows, Good, HoldsFirm, StandsFor, TypeOK, Windows
  <1>3. \A v \in Windows : Shows(Memory, v) <=> Shows(dwm, v)
    BY DEF Shows, Memory
  <1> QED
    BY <1>1, <1>2, <1>3 DEF Memory

\* The queue of events grows by nothing that concerns windows that leave.
NoNewOrder(q, n) ==
  \A u, v \in Windows :
    /\ InOrder(n, MapRequest(u), UnmapNotify(v)) => InOrder(q, MapRequest(u), UnmapNotify(v))
    /\ InOrder(n, UnmapNotify(u), UnmapNotify(v)) => InOrder(q, UnmapNotify(u), UnmapNotify(v))
    /\ InOrder(n, DestroyNotify(u), UnmapNotify(v)) => InOrder(q, DestroyNotify(u), UnmapNotify(v))
SameLeavers(q, n) ==
  \A v \in Windows : /\ In(n, UnmapNotify(v)) <=> In(q, UnmapNotify(v))
                     /\ In(n, DestroyNotify(v)) <=> In(q, DestroyNotify(v))

\* Who is in order is in the queue.
LEMMA OrderIn == \A q, e, f : InOrder(q, e, f) => In(q, e) /\ In(q, f)
  BY DEF In, InOrder

-----------------------------------------------------------------------------
(* Programs and the server keep it.                                         *)

LEMMA MapSettling ==
  ASSUME IInv, Settling, NEW w \in Windows, MapWindow(w)
  PROVE  Settling'
  <1>1. /\ events \in Seq(Told) /\ MapRequest(w) \in Told
        /\ events' = Append(events, MapRequest(w))
    BY DEF MapWindow, MapRequest, Told, IInv, TypeOK
  <1>2. /\ NoNewOrder(events, events') /\ SameLeavers(events, events')
        /\ \A v \in Windows \ {w} : In(events', MapRequest(v)) <=> In(events, MapRequest(v))
    BY <1>1, AppendIn, EventsDiffer DEF NoNewOrder, SameLeavers
  <1>3. /\ server[w] \in {"none", "unmapped"} /\ server'[w] = "unmapped"
        /\ \A v \in Windows \ {w} : server'[v] = server[v]
        /\ UNCHANGED <<requests, dwm, scanning>>
    BY DEF MapWindow, IInv, TypeOK
  <1>4. server[w] = "none" => Unasked(w) /\ Quiet(w) /\ ~Shows(dwm, w)
    BY DEF Settling, NoneQuiet, Quiet, ShownLive, Exists
  <1>5. \A t \in Terminals : t \in Windows
    BY DEF Windows
  <1>6. \A p \in Programs : p \in Windows
    BY DEF Windows
  <1>7. \A t \in Terminals : Held(t) => dwm.swallowing[t] \in Windows
    BY DwmShows, <1>5, <1>6 DEF IInv
  <1>8. \A v \in Windows : Leaving(v)' <=> Leaving(v)
    BY <1>2 DEF SameLeavers, Leaving
  <1> USE DEF Settling
  <1>a. OwnProgram'
    BY <1>3 DEF OwnProgram, Held
  <1>b. ShownLive'
    BY <1>3, <1>4, <1>8 DEF ShownLive, Exists
  <1>c. MappedKnown'
    BY <1>3 DEF MappedKnown
  <1>d. MapsShown'
    BY <1>3, <1>4 DEF MapsShown, Exists, Unasked
  <1>e. HidesHeld'
    BY <1>3, <1>5, <1>7, <1>8 DEF HidesHeld, Exists, Held
  <1>f. OwnHides'
    <2> SUFFICES ASSUME NEW t \in Terminals, Exists(t)', In(events', UnmapNotify(t))
                 PROVE  /\ Held(t)
                        /\ ~InOrder(events', UnmapNotify(dwm.swallowing[t]), UnmapNotify(t))
                        /\ ~InOrder(events', DestroyNotify(dwm.swallowing[t]), UnmapNotify(t))
      BY <1>3 DEF OwnHides, Held
    <2>1. In(events, UnmapNotify(t)) /\ Exists(t)
      BY <1>2, <1>3, <1>4, <1>5 DEF SameLeavers, Exists, Quiet, Leaving
    <2> QED
      BY <1>2, <1>5, <1>7, <2>1 DEF OwnHides, NoNewOrder
  <1>g. OwnersHeard'
    BY <1>2, <1>3, <1>5 DEF OwnersHeard, Held, Exists, SameLeavers
  <1>h. LeaversOut'
    BY <1>3, <1>6, <1>8 DEF LeaversOut
  <1>i. ReturnsShown'
    BY <1>2, <1>3, <1>4, <1>6, OrderIn DEF ReturnsShown, Exists, NoNewOrder, Quiet, Leaving
  <1>j. OneUnmap'
    BY <1>2, <1>6 DEF OneUnmap, NoNewOrder
  <1>k. ScannedQuiet'
    <2>1. scanning \subseteq Windows
      BY DEF IInv, TypeOK
    <2> QED
      BY <2>1, <1>2, <1>3, <1>8 DEF ScannedQuiet, Unasked, Quiet
  <1>l. NoneQuiet'
    BY <1>2, <1>3, <1>8 DEF NoneQuiet, Unasked, Quiet
  <1> QED
    BY <1>a, <1>b, <1>c, <1>d, <1>e, <1>f, <1>g, <1>h, <1>i, <1>j, <1>k, <1>l DEF Settling

\* A window is withdrawn or closed, with no request for it under way.
LEMMA LeavesSettling ==
  ASSUME IInv, Settling, NEW w \in Windows, Withdraw(w) \/ Close(w), ~raced'
  PROVE  Settling'
  <1> DEFINE was == server[w] = "mapped"
             gone == server'[w] = "gone"
  <1>1. /\ events \in Seq(Told) /\ UnmapNotify(w) \in Told /\ DestroyNotify(w) \in Told
        /\ server \in [Windows -> WindowStates]
    BY DEF UnmapNotify, DestroyNotify, Told, IInv, TypeOK
  <1>2. /\ Exists(w) /\ server'[w] \in {"unmapped", "gone"}
        /\ \A v \in Windows \ {w} : server'[v] = server[v]
        /\ w \in Terminals => gone
        /\ ~gone => was
        /\ UNCHANGED <<requests, dwm, scanning>>
    BY <1>1, KindsAssumption DEF Withdraw, Close, Leaves, Exists
  <1>3. /\ Unasked(w)
        /\ w \in Programs => ~In(requests, ToHide(StartedFrom[w]))
    <2>1. ~UnderWay(w)
      BY DEF Withdraw, Close, Leaves
    <2>2. ToMap(w).win = w /\ ToHide(w).win = w
      BY DEF ToMap, ToHide
    <2> QED
      BY <2>1, <2>2 DEF UnderWay, Unasked, In, ToHide
  <1>4. /\ \A v \in Windows : /\ In(events', UnmapNotify(v)) <=> In(events, UnmapNotify(v)) \/ (v = w /\ was)
                              /\ In(events', DestroyNotify(v)) <=> In(events, DestroyNotify(v)) \/ (v = w /\ gone)
                              /\ In(events', MapRequest(v)) <=> In(events, MapRequest(v))
        /\ \A e : \A v \in Windows :
             InOrder(events', e, UnmapNotify(v)) =>
               InOrder(events, e, UnmapNotify(v)) \/ (v = w /\ was /\ In(events, e))
    <2>1. CASE was /\ ~gone
      <3>1. events' = Append(events, UnmapNotify(w))
        <4>1. events' = events \o <<UnmapNotify(w)>>
          BY <1>1, <2>1 DEF Withdraw, Close, Leaves
        <4> QED
          BY <1>1, <4>1
      <3> QED
        BY <1>1, <2>1, <3>1, AppendIn, EventsDiffer
    <2>2. CASE was /\ gone
      <3> DEFINE q == Append(events, UnmapNotify(w))
      <3>1. q \in Seq(Told) /\ events' = Append(q, DestroyNotify(w))
        <4>1. events' = events \o <<UnmapNotify(w), DestroyNotify(w)>>
          BY <1>1, <2>2 DEF Withdraw, Close, Leaves
        <4> QED
          BY <1>1, <4>1
      <3>2. /\ \A e : In(q, e) <=> In(events, e) \/ e = UnmapNotify(w)
            /\ \A e, f : InOrder(q, e, f) <=> InOrder(events, e, f) \/ (In(events, e) /\ f = UnmapNotify(w))
        BY <1>1, AppendIn
      <3> HIDE DEF q
      <3>3. /\ \A e : In(events', e) <=> In(q, e) \/ e = DestroyNotify(w)
            /\ \A e, f : InOrder(events', e, f) <=> InOrder(q, e, f) \/ (In(q, e) /\ f = DestroyNotify(w))
        BY <1>1, <3>1, AppendIn
      <3> QED
        BY <2>2, <3>2, <3>3, EventsDiffer
    <2>3. CASE ~was
      <3>1. events' = Append(events, DestroyNotify(w)) /\ gone
        <4>1. events' = events \o <<DestroyNotify(w)>>
          BY <1>1, <2>3 DEF Withdraw, Close, Leaves
        <4> QED
          BY <1>1, <1>2, <2>3, <4>1
      <3> QED
        BY <1>1, <2>3, <3>1, AppendIn, EventsDiffer
    <2> QED
      BY <2>1, <2>2, <2>3
  <1>5. \A t \in Terminals : t \in Windows
    BY DEF Windows
  <1>6. \A p \in Programs : p \in Windows
    BY DEF Windows
  <1>7. \A v \in Windows : Held(v) => v \in Terminals /\ dwm.swallowing[v] \in Programs
    BY DwmShows DEF IInv
  <1>8. /\ Leaving(w)'
        /\ \A v \in Windows \ {w} : Leaving(v)' <=> Leaving(v)
    BY <1>2, <1>4 DEF Leaving
  <1>9. ASSUME NEW t \in Terminals, In(requests, ToHide(t)), Held(t)
        PROVE  dwm.swallowing[t] # w /\ t # w
    BY <1>3, <1>5, <1>7, <1>9 DEF Settling, OwnProgram, Unasked
  <1> HIDE DEF was, gone
  <1> USE DEF Settling
  <1>a. OwnProgram'
    BY <1>2 DEF OwnProgram, Held
  <1>b. ShownLive'
    BY <1>2, <1>8 DEF ShownLive, Exists
  <1>c. MappedKnown'
    BY <1>2 DEF MappedKnown
  <1>d. MapsShown'
    BY <1>2, <1>3 DEF MapsShown, Exists, Unasked
  <1>e. HidesHeld'
    BY <1>2, <1>6, <1>7, <1>8, <1>9 DEF HidesHeld, Exists, Held
  <1>f. OwnHides'
    <2> SUFFICES ASSUME NEW t \in Terminals, Exists(t)', In(events', UnmapNotify(t))
                 PROVE  /\ Held(t)
                        /\ ~InOrder(events', UnmapNotify(dwm.swallowing[t]), UnmapNotify(t))
                        /\ ~InOrder(events', DestroyNotify(dwm.swallowing[t]), UnmapNotify(t))
      BY <1>2 DEF OwnHides, Held
    <2>1. t # w /\ Exists(t)
      BY <1>2, <1>5 DEF Exists, gone
    <2>2. In(events, UnmapNotify(t))
      BY <1>4, <1>5, <2>1
    <2> QED
      BY <1>4, <1>5, <2>1, <2>2 DEF OwnHides
  <1>g. OwnersHeard'
    BY <1>2, <1>4, <1>5 DEF OwnersHeard, Held, Exists, gone
  <1>h. LeaversOut'
    BY <1>2, <1>3, <1>6, <1>8 DEF LeaversOut, Unasked
  <1>i. ReturnsShown'
    <2> SUFFICES ASSUME NEW p \in Programs, Exists(p)', InOrder(events', MapRequest(p), UnmapNotify(p))
                 PROVE  Shows(dwm, p)
      BY <1>2 DEF ReturnsShown
    <2>1. Exists(p)
      BY <1>2, <1>6 DEF Exists
    <2>2. CASE InOrder(events, MapRequest(p), UnmapNotify(p))
      BY <2>1, <2>2 DEF ReturnsShown
    <2>3. CASE p = w /\ was /\ In(events, MapRequest(p))
      BY <1>3, <2>3 DEF MappedKnown, ScannedQuiet, Quiet, Unasked, was
    <2> QED
      BY <1>4, <1>6, <2>2, <2>3
  <1>j. OneUnmap'
    BY <1>4, <1>6 DEF OneUnmap, LeaversOut, Leaving, was
  <1>k. ScannedQuiet'
    <2>1. scanning \subseteq Windows
      BY DEF IInv, TypeOK
    <2> QED
      BY <2>1, <1>2, <1>4, <1>8 DEF ScannedQuiet, Unasked, Quiet
  <1>l. NoneQuiet'
    BY <1>2, <1>4, <1>8 DEF NoneQuiet, Unasked, Quiet
  <1> QED
    BY <1>a, <1>b, <1>c, <1>d, <1>e, <1>f, <1>g, <1>h, <1>i, <1>j, <1>k, <1>l

\* The server maps or hides what dwm asked.
LEMMA ServeSettling ==
  ASSUME IInv, Settling, Serve
  PROVE  Settling'
  <1> DEFINE r == Head(requests)
  <1>1. /\ events \in Seq(Told) /\ requests \in Seq(Requests) /\ requests # <<>>
        /\ server \in [Windows -> WindowStates]
    BY DEF Serve, IInv, TypeOK, Told, Requests
  <1>2. r \in Requests
    BY <1>1
  <1>3. PICK w \in Windows : r = ToMap(w) \/ r = ToHide(w)
    <2>1. r.win \in Windows /\ (r = ToMap(r.win) \/ r = ToHide(r.win))
      BY <1>2 DEF Requests, ToMap, ToHide
    <2> QED
      BY <2>1
  <1>4. /\ server' = [server EXCEPT ![r.win] =
                        IF ~Exists(r.win) THEN @
                        ELSE IF r.type = "map" THEN "mapped" ELSE "unmapped"]
        /\ events' = IF server[r.win] = "mapped" /\ r.type = "unmap"
                     THEN Append(events, UnmapNotify(r.win)) ELSE events
        /\ requests' = Tail(requests)
        /\ UNCHANGED <<dwm, scanning>>
    BY DEF Serve
  <1>5. \A e : In(requests, e) <=> e = r \/ In(requests', e)
    BY <1>1, <1>4, TailIn
  <1>6. \A t \in Terminals : t \in Windows
    BY DEF Windows
  <1>7. \A p \in Programs : p \in Windows
    BY DEF Windows
  <1>8. \A v \in Windows : Held(v) => v \in Terminals /\ dwm.swallowing[v] \in Programs
    BY DwmShows DEF IInv
  <1>9. scanning \subseteq Windows
    BY DEF IInv, TypeOK
  <1> USE DEF Settling
  <1>10. CASE r = ToMap(w)
    <2>1. r.win = w /\ r.type = "map"
      BY <1>10 DEF ToMap
    <2>2. /\ server'[w] = IF Exists(w) THEN "mapped" ELSE server[w]
          /\ \A v \in Windows \ {w} : server'[v] = server[v]
          /\ events' = events
      BY <1>1, <1>4, <2>1
    <2>3. /\ \A v \in Windows : Exists(v)' <=> Exists(v)
          /\ \A v \in Windows : In(requests', ToHide(v)) <=> In(requests, ToHide(v))
          /\ \A v \in Windows \ {w} : In(requests', ToMap(v)) <=> In(requests, ToMap(v))
          /\ In(requests, ToMap(w))
      BY <1>5, <1>10, <2>2, EventsDiffer DEF Exists
    <2>4. \A v \in Windows : Leaving(v)' <=> Leaving(v)
      BY <2>2 DEF Leaving
    <2> HIDE DEF r
    <2>a. OwnProgram'
      BY <1>4 DEF OwnProgram, Held
    <2>b. ShownLive'
      BY <1>4, <2>2, <2>3, <2>4 DEF ShownLive
    <2>c. MappedKnown'
      BY <1>4, <2>2, <2>3 DEF MappedKnown, MapsShown
    <2>d. MapsShown'
      BY <1>4, <1>5, <2>3 DEF MapsShown
    <2>e. HidesHeld'
      BY <1>4, <1>7, <1>8, <2>3, <2>4 DEF HidesHeld, Held
    <2>f. OwnHides'
      BY <1>4, <1>6, <2>2, <2>3 DEF OwnHides, Held
    <2>g. OwnersHeard'
      BY <1>4, <1>6, <2>2, <2>3 DEF OwnersHeard, Held
    <2>h. LeaversOut'
      BY <1>5, <1>7, <2>2, <2>3, <2>4 DEF LeaversOut
    <2>i. ReturnsShown'
      BY <1>4, <1>7, <2>2, <2>3 DEF ReturnsShown
    <2>j. OneUnmap'
      BY <2>2 DEF OneUnmap
    <2>k. ScannedQuiet'
      BY <1>4, <1>5, <1>9, <2>2, <2>3, <2>4 DEF ScannedQuiet, Unasked, Quiet
    <2>l. NoneQuiet'
      BY <1>5, <2>2, <2>3, <2>4 DEF NoneQuiet, Unasked, Quiet, Exists
    <2> QED
      BY <2>a, <2>b, <2>c, <2>d, <2>e, <2>f, <2>g, <2>h, <2>i, <2>j, <2>k, <2>l
  <1>11. CASE r = ToHide(w)
    <2>1. r.win = w /\ r.type = "unmap" /\ r.type # "map"
      BY <1>11 DEF ToHide
    <2>2. In(requests, ToHide(w))
      BY <1>5, <1>11
    <2>3. /\ w \in Terminals /\ Exists(w) /\ Held(w) /\ ~Leaving(dwm.swallowing[w])
          /\ w \notin Programs
      BY <2>2, KindsAssumption DEF HidesHeld
    <2>4. /\ server'[w] = "unmapped"
          /\ \A v \in Windows \ {w} : server'[v] = server[v]
          /\ events' = events \/ events' = Append(events, UnmapNotify(w))
      BY <1>1, <1>4, <2>1, <2>3
    <2>5. /\ \A v \in Windows : Exists(v)' <=> Exists(v)
          /\ \A v \in Windows : In(requests', ToMap(v)) <=> In(requests, ToMap(v))
          /\ \A v \in Windows \ {w} : In(requests', ToHide(v)) <=> In(requests, ToHide(v))
          /\ In(requests', ToHide(w)) => In(requests, ToHide(w))
      BY <1>5, <1>11, <2>3, <2>4, EventsDiffer DEF Exists
    <2>6. /\ \A v \in Windows \ {w} : In(events', UnmapNotify(v)) <=> In(events, UnmapNotify(v))
          /\ In(events, UnmapNotify(w)) => In(events', UnmapNotify(w))
          /\ \A v \in Windows : /\ In(events', DestroyNotify(v)) <=> In(events, DestroyNotify(v))
                                /\ In(events', MapRequest(v)) <=> In(events, MapRequest(v))
          /\ \A e : \A v \in Windows : InOrder(events', e, UnmapNotify(v)) =>
               InOrder(events, e, UnmapNotify(v)) \/ (v = w /\ In(events, e))
      <3>1. CASE events' = events
        BY <3>1
      <3>2. CASE events' = Append(events, UnmapNotify(w))
        <4>1. UnmapNotify(w) \in Told
          BY DEF UnmapNotify, Told
        <4> QED
          BY <1>1, <3>2, <4>1, AppendIn, EventsDiffer
      <3> QED
        BY <2>4, <3>1, <3>2
    <2>7. /\ \A v \in Windows \ {w} : Leaving(v)' <=> Leaving(v)
          /\ Leaving(w) => Leaving(w)'
      BY <2>6 DEF Leaving
    <2>8. ~Shows(dwm, w)
      BY <2>3, DwmShows DEF IInv
    <2> HIDE DEF r
    <2>a. OwnProgram'
      BY <1>4 DEF OwnProgram, Held
    <2>b. ShownLive'
      BY <1>4, <2>4, <2>5, <2>7, <2>8 DEF ShownLive
    <2>c. MappedKnown'
      BY <1>4, <2>4, <2>5 DEF MappedKnown
    <2>d. MapsShown'
      BY <1>4, <2>5 DEF MapsShown
    <2>e. HidesHeld'
      BY <1>4, <1>7, <1>8, <2>3, <2>5, <2>7 DEF HidesHeld, Held
    <2>f. OwnHides'
      <3> SUFFICES ASSUME NEW t \in Terminals, Exists(t)', In(events', UnmapNotify(t))
                   PROVE  /\ Held(t)
                          /\ ~InOrder(events', UnmapNotify(dwm.swallowing[t]), UnmapNotify(t))
                          /\ ~InOrder(events', DestroyNotify(dwm.swallowing[t]), UnmapNotify(t))
        BY <1>4 DEF OwnHides, Held
      <3>1. Exists(t) /\ t \in Windows
        BY <1>6, <2>5
      <3>2. CASE t = w
        <4>1. ~In(events, UnmapNotify(dwm.swallowing[t])) /\ ~In(events, DestroyNotify(dwm.swallowing[t]))
          BY <2>3, <3>2 DEF Leaving
        <4> QED
          BY <2>3, <2>6, <3>1, <3>2, <4>1, OrderIn
      <3>3. CASE t # w
        BY <2>6, <3>1, <3>3 DEF OwnHides
      <3> QED
        BY <3>2, <3>3
    <2>g. OwnersHeard'
      BY <1>4, <1>6, <2>5, <2>6 DEF OwnersHeard, Held
    <2>h. LeaversOut'
      BY <1>7, <2>3, <2>4, <2>5, <2>7 DEF LeaversOut
    <2>i. ReturnsShown'
      BY <1>4, <1>7, <2>3, <2>5, <2>6 DEF ReturnsShown
    <2>j. OneUnmap'
      BY <1>7, <2>3, <2>6 DEF OneUnmap
    <2>k. ScannedQuiet'
      BY <1>4, <1>9, <2>2, <2>4, <2>5, <2>6, <2>7 DEF ScannedQuiet, Unasked, Quiet
    <2>l. NoneQuiet'
      BY <2>4, <2>5, <2>6, <2>7 DEF NoneQuiet, Unasked, Quiet
    <2> QED
      BY <2>a, <2>b, <2>c, <2>d, <2>e, <2>f, <2>g, <2>h, <2>i, <2>j, <2>k, <2>l
  <1> QED
    BY <1>3, <1>10, <1>11

-----------------------------------------------------------------------------
(* dwm's handlers keep it.                                                  *)

\* Word that w left, which comes first, is taken; dwm's memory becomes n.
Hears(w, leave, n) ==
  /\ events # <<>> /\ Head(events) = leave /\ events' = Tail(events)
  /\ leave = UnmapNotify(w) \/ (leave = DestroyNotify(w) /\ server[w] = "gone")
  /\ n \in Records /\ Keeps(n)
  /\ scanning = {} /\ scanning' = {} /\ server' = server

\* What is known of a window when dwm hears that it left.
LEMMA HearsFacts ==
  ASSUME IInv, Settling, NEW w \in Windows, NEW leave, NEW n, Hears(w, leave, n)
  PROVE  /\ NoNewOrder(events, events')
         /\ \A v \in Windows : /\ In(events', MapRequest(v)) <=> In(events, MapRequest(v))
                               /\ In(events', UnmapNotify(v)) => In(events, UnmapNotify(v))
                               /\ In(events', DestroyNotify(v)) => In(events, DestroyNotify(v))
                               /\ In(events', UnmapNotify(v)) => InOrder(events, leave, UnmapNotify(v))
         /\ \A v \in Windows \ {w} : /\ Leaving(v)' <=> Leaving(v)
                                     /\ In(events, DestroyNotify(v)) => In(events', DestroyNotify(v))
         /\ Leaving(w) /\ (Leaving(w)' => Leaving(w))
         /\ leave # DestroyNotify(w) => (In(events, DestroyNotify(w)) => In(events', DestroyNotify(w)))
         /\ leave \in {UnmapNotify(w), DestroyNotify(w)}
         /\ w \in Programs => server[w] # "mapped" /\ ~In(requests, ToMap(w))
         /\ w \in Programs /\ Exists(w) => ~InOrder(events', MapRequest(w), UnmapNotify(w))
         /\ w \in Terminals /\ Shows(dwm, w) => ~Exists(w)
         /\ leave = DestroyNotify(w) => ~Exists(w)
  <1>1. events \in Seq(Told) /\ events # <<>> /\ Head(events) = leave /\ events' = Tail(events)
    BY DEF Hears, Told, IInv, TypeOK
  <1>2. /\ \A e : In(events, e) <=> e = leave \/ In(events', e)
        /\ \A e, f : InOrder(events, e, f) <=> InOrder(events', e, f) \/ (e = leave /\ In(events', f))
    BY <1>1, TailIn
  <1>3. leave = UnmapNotify(w) \/ (leave = DestroyNotify(w) /\ ~Exists(w))
    BY DEF Hears, Exists
  <1>4. NoNewOrder(events, events')
    BY <1>2 DEF NoNewOrder
  <1>5. \A v \in Windows : /\ In(events', MapRequest(v)) <=> In(events, MapRequest(v))
                           /\ In(events', UnmapNotify(v)) => In(events, UnmapNotify(v))
                           /\ In(events', DestroyNotify(v)) => In(events, DestroyNotify(v))
                           /\ In(events', UnmapNotify(v)) => InOrder(events, leave, UnmapNotify(v))
    BY <1>2, <1>3, EventsDiffer
  <1>6. \A v \in Windows \ {w} : /\ Leaving(v)' <=> Leaving(v)
                                 /\ In(events, DestroyNotify(v)) => In(events', DestroyNotify(v))
    BY <1>2, <1>3, EventsDiffer DEF Leaving
  <1>7. Leaving(w)
    BY <1>2, <1>3 DEF Leaving
  <1>8. /\ Leaving(w)' => Leaving(w)
        /\ leave # DestroyNotify(w) => (In(events, DestroyNotify(w)) => In(events', DestroyNotify(w)))
        /\ leave = DestroyNotify(w) => ~Exists(w)
    BY <1>2, <1>3, <1>7, EventsDiffer
  <1>9. w \in Programs => server[w] # "mapped" /\ ~In(requests, ToMap(w))
    BY <1>7 DEF Settling, LeaversOut
  <1>10. ASSUME w \in Programs, Exists(w)
         PROVE  ~InOrder(events', MapRequest(w), UnmapNotify(w))
    <2>1. leave = UnmapNotify(w)
      BY <1>3, <1>10
    <2>2. ~In(events', UnmapNotify(w))
      BY <1>5, <1>10, <2>1 DEF Settling, OneUnmap
    <2> QED
      BY <2>2, OrderIn
  <1>11. ASSUME w \in Terminals, Shows(dwm, w)
         PROVE  ~Exists(w)
    <2>1. ~Held(w)
      BY <1>11, DwmShows DEF IInv
    <2> QED
      BY <1>2, <1>3, <1>11, <2>1 DEF Settling, OwnHides
  <1> QED
    BY <1>3, <1>4, <1>5, <1>6, <1>7, <1>8, <1>9, <1>10, <1>11

LEMMA HearsSettling ==
  ASSUME IInv, Settling, NEW w \in Windows, NEW leave, NEW n, Hears(w, leave, n),
         \/ leave = UnmapNotify(w) /\ AfterUnmap(Memory, n, w)
         \/ leave = DestroyNotify(w) /\ AfterDestroy(Memory, n, w)
  PROVE  Settling'
  <1>1. /\ NoNewOrder(events, events')
        /\ \A v \in Windows : /\ In(events', MapRequest(v)) <=> In(events, MapRequest(v))
                              /\ In(events', UnmapNotify(v)) => In(events, UnmapNotify(v))
                              /\ In(events', DestroyNotify(v)) => In(events, DestroyNotify(v))
                              /\ In(events', UnmapNotify(v)) => InOrder(events, leave, UnmapNotify(v))
    BY HearsFacts
  <1>2. /\ \A v \in Windows \ {w} : Leaving(v)' <=> Leaving(v)
        /\ Leaving(w) /\ (Leaving(w)' => Leaving(w))
        /\ \A v \in Windows : Leaving(v)' => Leaving(v)
    BY HearsFacts
  <1>3. /\ \A v \in Windows \ {w} : In(events, DestroyNotify(v)) => In(events', DestroyNotify(v))
        /\ leave # DestroyNotify(w) => (In(events, DestroyNotify(w)) => In(events', DestroyNotify(w)))
    BY HearsFacts
  <1>4. /\ w \in Programs => server[w] # "mapped" /\ ~In(requests, ToMap(w))
        /\ w \in Programs /\ Exists(w) => ~InOrder(events', MapRequest(w), UnmapNotify(w))
        /\ w \in Terminals /\ Shows(dwm, w) => ~Exists(w)
        /\ leave = DestroyNotify(w) => ~Exists(w)
        /\ leave \in {UnmapNotify(w), DestroyNotify(w)}
    BY HearsFacts
  <1>5. /\ scanning' = {} /\ server' = server
        /\ dwm'.swallowing = n.swallowing
        /\ requests' = requests \o n.out
        /\ \A v : Shows(dwm', v) <=> Shows(n, v)
        /\ n.swallowing \in [Windows -> Windows \cup {None}]
    BY DEF Hears, Keeps, Shows, Records
  <1>6. /\ \A t \in Terminals : t \in Windows
        /\ \A p \in Programs : p \in Windows /\ p \notin Terminals
    BY KindsAssumption DEF Windows
  <1>7. \A v \in Windows : Held(v) => v \in Terminals \cap dwm.clients /\ dwm.swallowing[v] \in Programs
    BY DwmShows DEF IInv
  <1>8. /\ \A v \in Windows : Shows(Memory, v) <=> Shows(dwm, v)
        /\ Memory.swallowing = dwm.swallowing /\ Memory.clients = dwm.clients /\ Memory.out = <<>>
        /\ dwm.swallowing \in [Windows -> Windows \cup {None}]
    BY DwmShows DEF IInv, Memory, TypeOK
  <1>9. \A v \in Windows : Exists(v)' <=> Exists(v)
    BY <1>5 DEF Exists
  <1>10. requests \in Seq(Requests)
    BY DEF IInv, TypeOK, Requests
  <1>11. w \in Programs \/ w \in Terminals
    BY DEF Windows
  <1> USE DEF Settling
  <1>12. OneUnmap'
    BY <1>1, <1>6 DEF OneUnmap, NoNewOrder
  <1>13. ScannedQuiet'
    BY <1>5 DEF ScannedQuiet
  <1>14. ASSUME \A v \in Windows : Shows(dwm', v) <=> Shows(dwm, v) /\ v # w,
                dwm'.swallowing = dwm.swallowing \/
                  (w \in Terminals /\ dwm'.swallowing = [dwm.swallowing EXCEPT ![w] = None]),
                leave = DestroyNotify(w) => dwm'.swallowing[w] = None,
                requests' = requests, w \in Terminals /\ Held(w)' # Held(w) => ~Exists(w)
         PROVE  Settling'
    <2>1. \A v \in Windows \ {w} : dwm'.swallowing[v] = dwm.swallowing[v] /\ (Held(v)' <=> Held(v))
      BY <1>8, <1>14 DEF Held
    <2>2. \A v \in Windows : Held(v)' => Held(v) /\ dwm'.swallowing[v] = dwm.swallowing[v]
      BY <1>8, <1>14, <2>1 DEF Held
    <2>3. Exists(w) => dwm'.swallowing[w] = dwm.swallowing[w]
      BY <1>8, <1>14 DEF Held
    <2>a. OwnProgram'
      BY <1>6, <2>2 DEF OwnProgram
    <2>b. ShownLive'
      BY <1>2, <1>5, <1>9, <1>14 DEF ShownLive
    <2>c. MappedKnown'
      BY <1>4, <1>5, <1>11, <1>14 DEF MappedKnown, Exists, Hears
    <2>d. MapsShown'
      BY <1>4, <1>9, <1>11, <1>14 DEF MapsShown
    <2>e. HidesHeld'
      <3> SUFFICES ASSUME NEW v \in Windows, In(requests, ToHide(v))
                   PROVE  v \in Terminals /\ Exists(v)' /\ Held(v)' /\ ~Leaving(dwm.swallowing[v])'
        BY <1>14 DEF HidesHeld
      <3>1. v \in Terminals /\ Exists(v) /\ Held(v) /\ ~Leaving(dwm.swallowing[v])
        BY DEF HidesHeld
      <3>2. dwm'.swallowing[v] = dwm.swallowing[v] /\ dwm.swallowing[v] \in Windows
        BY <1>6, <1>7, <2>1, <2>3, <3>1
      <3>3. ~Leaving(dwm.swallowing[v])'
        <4> DEFINE p == dwm.swallowing[v]
        <4>1. p \in Windows /\ ~Leaving(p) /\ dwm'.swallowing[v] = p
          BY <3>1, <3>2
        <4> HIDE DEF p
        <4> QED
          BY <1>1, <4>1 DEF Leaving
      <3> QED
        BY <1>9, <3>1, <3>2, <3>3 DEF Held
    <2>f. OwnHides'
      <3> SUFFICES ASSUME NEW t \in Terminals, Exists(t), In(events', UnmapNotify(t))
                   PROVE  /\ Held(t)'
                          /\ ~InOrder(events', UnmapNotify(dwm'.swallowing[t]), UnmapNotify(t))
                          /\ ~InOrder(events', DestroyNotify(dwm'.swallowing[t]), UnmapNotify(t))
        BY <1>6, <1>9 DEF OwnHides
      <3>1. /\ t \in Windows /\ Held(t)
            /\ ~InOrder(events, UnmapNotify(dwm.swallowing[t]), UnmapNotify(t))
            /\ ~InOrder(events, DestroyNotify(dwm.swallowing[t]), UnmapNotify(t))
        BY <1>1, <1>6 DEF OwnHides
      <3>2. dwm'.swallowing[t] = dwm.swallowing[t] /\ dwm.swallowing[t] \in Windows
        BY <1>6, <1>7, <2>1, <2>3, <3>1
      <3> QED
        BY <1>1, <3>1, <3>2 DEF NoNewOrder, Held
    <2>g. OwnersHeard'
      <3> SUFFICES ASSUME NEW t \in Terminals, Held(t)', ~Exists(t)
                   PROVE  In(events', DestroyNotify(t))
        BY <1>6, <1>9 DEF OwnersHeard
      <3>1. In(events, DestroyNotify(t)) /\ t \in Windows
        BY <1>6, <2>2 DEF OwnersHeard
      <3> QED
        BY <1>3, <1>14, <3>1 DEF Held
    <2>h. LeaversOut'
      BY <1>2, <1>5, <1>6, <1>14 DEF LeaversOut
    <2>i. ReturnsShown'
      BY <1>1, <1>4, <1>6, <1>9, <1>14 DEF ReturnsShown, NoNewOrder
    <2>l. NoneQuiet'
      BY <1>1, <1>2, <1>5, <1>14 DEF NoneQuiet, Unasked, Quiet
    <2> QED
      BY <1>12, <1>13, <2>a, <2>b, <2>c, <2>d, <2>e, <2>f, <2>g, <2>h, <2>i, <2>l
  <1>15. CASE n = Memory /\ ~Shows(Memory, w) /\ (leave = DestroyNotify(w) => Memory.swallowing[w] = None)
    <2>1. requests' = requests /\ dwm'.swallowing = dwm.swallowing
      BY <1>5, <1>8, <1>10, <1>15
    <2>2. \A v \in Windows : Shows(dwm', v) <=> Shows(dwm, v) /\ v # w
      BY <1>5, <1>8, <1>15
    <2> QED
      BY <1>8, <1>14, <1>15, <2>1, <2>2 DEF Held
  <1>16. CASE Departs(Memory, n, w)
    <2>1. requests' = requests /\ dwm'.swallowing = dwm.swallowing
      BY <1>5, <1>8, <1>10, <1>16 DEF Departs
    <2>2. \A v \in Windows : Shows(dwm', v) <=> Shows(dwm, v) /\ v # w
      BY <1>5, <1>8, <1>16 DEF Departs
    <2>3. dwm'.swallowing[w] = None
      BY <1>8, <1>16, <2>1 DEF Departs
    <2> QED
      BY <1>14, <2>1, <2>2, <2>3 DEF Held
  <1>17. CASE leave = DestroyNotify(w) /\ Survives(Memory, n, w)
    <2>1. requests' = requests /\ dwm'.swallowing = [dwm.swallowing EXCEPT ![w] = None] /\ w \in Terminals
      BY <1>5, <1>8, <1>10, <1>17 DEF Survives
    <2>2. \A v \in Windows : Shows(dwm', v) <=> Shows(dwm, v) /\ v # w
      BY <1>5, <1>8, <1>17 DEF Survives
    <2>3. dwm'.swallowing[w] = None
      BY <1>8, <2>1
    <2> QED
      BY <1>4, <1>14, <1>17, <2>1, <2>2, <2>3 DEF Held
  <1>18. ASSUME NEW t \in Terminals, GivesBack(Memory, n, w, t)
         PROVE  Settling'
    <2>1. /\ w \in Programs /\ t \in dwm.clients /\ Shows(dwm, w)
          /\ dwm.swallowing[t] = w /\ w # None /\ Held(t) /\ t # w /\ t \in Windows
          /\ dwm'.swallowing = [dwm.swallowing EXCEPT ![t] = None]
          /\ \A v \in Windows : Shows(dwm', v) <=> (Shows(dwm, v) /\ v # w) \/ v = t
      BY <1>5, <1>6, <1>8, <1>18, NoneAssumption DEF GivesBack, Held
    <2>2. \A e : In(requests', e) <=> In(requests, e) \/ e = ToMap(t)
      <3>1. ToMap(t) \in Requests
        BY <2>1 DEF ToMap, Requests
      <3>2. n.out = Append(<<>>, ToMap(t))
        BY <1>8, <1>18 DEF GivesBack
      <3>3. requests' = Append(requests, ToMap(t))
        BY <1>5, <1>10, <3>1, <3>2
      <3> QED
        BY <1>10, <3>1, <3>3, AppendIn
    <2>3. /\ \A v \in Windows : In(requests', ToHide(v)) <=> In(requests, ToHide(v))
          /\ \A v \in Windows \ {t} : In(requests', ToMap(v)) <=> In(requests, ToMap(v))
          /\ In(requests', ToMap(t))
      BY <2>2, EventsDiffer
    <2>4. /\ ~Held(t)'
          /\ \A v \in Windows \ {t} : dwm'.swallowing[v] = dwm.swallowing[v] /\ (Held(v)' <=> Held(v))
      BY <1>8, <2>1 DEF Held
    <2>5. ~In(requests, ToHide(t))
      BY <1>2, <2>1 DEF HidesHeld
    <2>6. Exists(t) => ~In(events', UnmapNotify(t))
      BY <1>1, <1>4, <2>1 DEF OwnHides
    <2>7. ~Exists(t) => In(events', DestroyNotify(t))
      BY <1>3, <2>1 DEF OwnersHeard
    <2>8. server[t] # "none"
      BY <2>1 DEF IInv, QueuesAgree
    <2>a. OwnProgram'
      BY <1>6, <2>4 DEF OwnProgram
    <2>b. ShownLive'
      <3> SUFFICES ASSUME NEW v \in Windows, Shows(dwm', v), ~Leaving(v)'
                   PROVE  Exists(v) /\ (server[v] = "mapped" \/ In(requests', ToMap(v)))
        BY <1>5, <1>9 DEF ShownLive
      <3>1. CASE v = t
        BY <2>3, <2>7, <3>1 DEF Leaving
      <3>2. CASE v # t
        BY <1>2, <2>1, <2>3, <3>2 DEF ShownLive
      <3> QED
        BY <3>1, <3>2
    <2>c. MappedKnown'
      BY <1>4, <1>5, <2>1, <2>3 DEF MappedKnown, Hears
    <2>d. MapsShown'
      BY <1>4, <1>9, <2>1, <2>3 DEF MapsShown
    <2>e. HidesHeld'
      <3> SUFFICES ASSUME NEW v \in Windows, In(requests, ToHide(v))
                   PROVE  v \in Terminals /\ Exists(v)' /\ Held(v)' /\ ~Leaving(dwm.swallowing[v])'
        BY <2>3 DEF HidesHeld
      <3>1. v \in Terminals /\ Exists(v) /\ Held(v) /\ ~Leaving(dwm.swallowing[v]) /\ v # t
        BY <2>5 DEF HidesHeld
      <3>2. dwm'.swallowing[v] = dwm.swallowing[v] /\ dwm.swallowing[v] \in Windows
        BY <1>6, <1>7, <2>4, <3>1
      <3>3. ~Leaving(dwm.swallowing[v])'
        <4> DEFINE p == dwm.swallowing[v]
        <4>1. p \in Windows /\ ~Leaving(p) /\ dwm'.swallowing[v] = p
          BY <3>1, <3>2
        <4> HIDE DEF p
        <4> QED
          BY <1>1, <4>1 DEF Leaving
      <3> QED
        BY <1>9, <2>4, <3>1, <3>3
    <2>f. OwnHides'
      <3> SUFFICES ASSUME NEW u \in Terminals, Exists(u), In(events', UnmapNotify(u))
                   PROVE  /\ Held(u)'
                          /\ ~InOrder(events', UnmapNotify(dwm'.swallowing[u]), UnmapNotify(u))
                          /\ ~InOrder(events', DestroyNotify(dwm'.swallowing[u]), UnmapNotify(u))
        BY <1>6, <1>9 DEF OwnHides
      <3>1. /\ u \in Windows /\ Held(u) /\ u # t
            /\ ~InOrder(events, UnmapNotify(dwm.swallowing[u]), UnmapNotify(u))
            /\ ~InOrder(events, DestroyNotify(dwm.swallowing[u]), UnmapNotify(u))
        BY <1>1, <1>6, <2>6 DEF OwnHides
      <3>2. dwm'.swallowing[u] = dwm.swallowing[u] /\ dwm.swallowing[u] \in Windows
        BY <1>6, <1>7, <2>4, <3>1
      <3> QED
        BY <1>1, <2>4, <3>1, <3>2 DEF NoNewOrder
    <2>g. OwnersHeard'
      <3> SUFFICES ASSUME NEW u \in Terminals, Held(u)', ~Exists(u)
                   PROVE  In(events', DestroyNotify(u))
        BY <1>6, <1>9 DEF OwnersHeard
      <3>1. In(events, DestroyNotify(u)) /\ u \in Windows /\ u # w
        BY <1>6, <2>1, <2>4 DEF OwnersHeard
      <3> QED
        BY <1>3, <3>1
    <2>h. LeaversOut'
      BY <1>2, <1>5, <1>6, <2>3 DEF LeaversOut
    <2>i. ReturnsShown'
      BY <1>1, <1>4, <1>6, <1>9, <2>1 DEF ReturnsShown, NoNewOrder
    <2>l. NoneQuiet'
      BY <1>1, <1>2, <1>5, <2>3, <2>8 DEF NoneQuiet, Unasked, Quiet
    <2> QED
      BY <1>12, <1>13, <2>a, <2>b, <2>c, <2>d, <2>e, <2>f, <2>g, <2>h, <2>i, <2>l
  <1> QED
    <2>1. UnmapNotify(w) # DestroyNotify(w)
      BY EventsDiffer
    <2> QED
      BY <1>15, <1>16, <1>17, <1>18, <2>1 DEF AfterUnmap, AfterDestroy

\* dwm looks at window w, for a MapRequest or in a scan, and forgets what brought it
\* there.  The server has done all that was asked.
Looks(w) ==
  /\ requests = <<>> /\ server' = server
  /\ scanning' = scanning \ {w}
  /\ NoNewOrder(events, events') /\ SameLeavers(events, events')
  /\ \A v \in Windows : In(events', MapRequest(v)) => In(events, MapRequest(v))

\* It manages w.
LEMMA ManagesSettling ==
  ASSUME IInv, Settling, NEW w \in Windows, Looks(w), NEW n \in Records, Keeps(n),
         Exists(w), ~Leaving(w), w \notin dwm.clients,
         Joins(Memory, n, w) \/ \E t \in Terminals : TakesPlace(Memory, n, w, t)
  PROVE  Settling'
  <1>1. /\ server' = server /\ scanning' = scanning \ {w} /\ scanning \subseteq Windows
        /\ dwm'.swallowing = n.swallowing
        /\ requests' = n.out
        /\ \A v : Shows(dwm', v) <=> Shows(n, v)
        /\ \A e : ~In(requests, e)
    <2>1. n.out \in Seq(Requests)
      BY DEF Records
    <2>2. scanning \subseteq Windows
      BY DEF IInv, TypeOK
    <2> QED
      BY <2>1, <2>2, NothingIn DEF Looks, Keeps, Shows
  <1>2. /\ \A t \in Terminals : t \in Windows
        /\ \A p \in Programs : p \in Windows /\ p \notin Terminals
    BY KindsAssumption DEF Windows
  <1>3. /\ NoNewOrder(events, events')
        /\ \A v \in Windows : In(events', MapRequest(v)) => In(events, MapRequest(v))
        /\ \A v \in Windows : /\ In(events', UnmapNotify(v)) <=> In(events, UnmapNotify(v))
                              /\ In(events', DestroyNotify(v)) <=> In(events, DestroyNotify(v))
        /\ \A v \in Windows : Leaving(v)' <=> Leaving(v)
    BY DEF Looks, SameLeavers, Leaving
  <1>4. \A v \in Windows : Held(v) => v \in Terminals \cap dwm.clients /\ dwm.swallowing[v] \in Programs
    BY DwmShows DEF IInv
  <1>5. /\ \A v \in Windows : Shows(Memory, v) <=> Shows(dwm, v)
        /\ Memory.swallowing = dwm.swallowing /\ Memory.clients = dwm.clients /\ Memory.out = <<>>
        /\ dwm.swallowing \in [Windows -> Windows \cup {None}]
    BY DwmShows DEF IInv, Memory, TypeOK
  <1>6. \A v \in Windows : Exists(v)' <=> Exists(v)
    BY <1>1 DEF Exists
  <1>7. ToMap(w) \in Requests /\ <<>> \in Seq(Requests)
    BY DEF ToMap, Requests
  <1> DEFINE q == Append(<<>>, ToMap(w))
  <1>8. q \in Seq(Requests) /\ \A e : In(q, e) <=> e = ToMap(w)
    <2>1. \A e : In(q, e) <=> In(<<>>, e) \/ e = ToMap(w)
      BY <1>7, AppendIn
    <2>2. q \in Seq(Requests)
      BY <1>7
    <2> HIDE DEF q
    <2> QED
      BY <2>1, <2>2, NothingIn
  <1> HIDE DEF q
  <1> USE DEF Settling
  <1>9. OneUnmap'
    BY <1>2, <1>3 DEF OneUnmap, NoNewOrder
  <1>10. CASE Joins(Memory, n, w)
    <2>1. /\ dwm'.swallowing = dwm.swallowing
          /\ \A v \in Windows : Shows(dwm', v) <=> Shows(dwm, v) \/ v = w
      BY <1>1, <1>5, <1>10 DEF Joins
    <2>2. /\ \A v \in Windows : ~In(requests', ToHide(v))
          /\ \A v \in Windows : In(requests', ToMap(v)) <=> v = w
      BY <1>1, <1>5, <1>8, <1>10, EventsDiffer DEF Joins, q
    <2>a. OwnProgram'
      BY <2>1 DEF OwnProgram, Held
    <2>b. ShownLive'
      BY <1>1, <1>3, <1>6, <2>1, <2>2 DEF ShownLive
    <2>c. MappedKnown'
      BY <1>1, <2>1 DEF MappedKnown
    <2>d. MapsShown'
      BY <2>1, <2>2 DEF MapsShown
    <2>e. HidesHeld'
      BY <2>2 DEF HidesHeld
    <2>f. OwnHides'
      BY <1>2, <1>3, <1>4, <1>6, <2>1 DEF OwnHides, Held, NoNewOrder
    <2>g. OwnersHeard'
      BY <1>2, <1>3, <1>6, <2>1 DEF OwnersHeard, Held
    <2>h. LeaversOut'
      BY <1>1, <1>2, <1>3, <2>2 DEF LeaversOut
    <2>i. ReturnsShown'
      BY <1>2, <1>3, <1>6, <2>1 DEF ReturnsShown, NoNewOrder
    <2>k. ScannedQuiet'
      BY <1>1, <1>3, <2>2 DEF ScannedQuiet, Unasked, Quiet
    <2>l. NoneQuiet'
      BY <1>1, <1>3, <2>2 DEF NoneQuiet, Unasked, Quiet, Exists
    <2> QED
      BY <1>9, <2>a, <2>b, <2>c, <2>d, <2>e, <2>f, <2>g, <2>h, <2>i, <2>k, <2>l
  <1>11. ASSUME NEW t \in Terminals, TakesPlace(Memory, n, w, t)
         PROVE  Settling'
    <2>1. /\ w \in Programs /\ t = StartedFrom[w] /\ t \in dwm.clients /\ t # w /\ t \in Windows
          /\ ~Held(t) /\ server[t] # "gone" /\ w # None
          /\ dwm'.swallowing = [dwm.swallowing EXCEPT ![t] = w]
          /\ \A v \in Windows : Shows(dwm', v) <=> (Shows(dwm, v) /\ v # t) \/ v = w
      BY <1>1, <1>2, <1>5, <1>11, NoneAssumption DEF TakesPlace, Held
    <2>2. /\ \A v \in Windows : In(requests', ToHide(v)) <=> v = t
          /\ \A v \in Windows : In(requests', ToMap(v)) <=> v = w
      <3>1. requests' = Append(q, ToHide(t))
        BY <1>1, <1>5, <1>11 DEF TakesPlace, q
      <3>2. ToHide(t) \in Requests
        BY <2>1 DEF ToHide, Requests
      <3>3. \A e : In(requests', e) <=> In(q, e) \/ e = ToHide(t)
        BY <1>8, <3>1, <3>2, AppendIn
      <3> QED
        BY <1>8, <3>3, EventsDiffer
    <2>3. /\ dwm'.swallowing[t] = w /\ Held(t)'
          /\ \A v \in Windows \ {t} : dwm'.swallowing[v] = dwm.swallowing[v] /\ (Held(v)' <=> Held(v))
      BY <1>5, <2>1 DEF Held
    <2>4. server[t] # "none" /\ t \notin scanning
      BY <2>1 DEF IInv, QueuesAgree, New
    <2>5. Exists(t)
      BY <2>1, <2>4 DEF IInv, TypeOK, WindowStates, Exists
    <2>a. OwnProgram'
      BY <1>2, <2>1, <2>3 DEF OwnProgram
    <2>b. ShownLive'
      BY <1>1, <1>3, <1>6, <2>1, <2>2 DEF ShownLive
    <2>c. MappedKnown'
      BY <1>1, <2>1, <2>2 DEF MappedKnown
    <2>d. MapsShown'
      BY <2>1, <2>2 DEF MapsShown
    <2>e. HidesHeld'
      <3>1. ~Leaving(dwm.swallowing[t])'
        <4>1. ~Leaving(w)'
          BY <1>3
        <4> QED
          BY <2>3, <4>1 DEF Leaving
      <3> QED
        BY <1>6, <2>2, <2>3, <2>5, <3>1 DEF HidesHeld
    <2>f. OwnHides'
      <3> SUFFICES ASSUME NEW u \in Terminals, Exists(u), In(events', UnmapNotify(u))
                   PROVE  /\ Held(u)'
                          /\ ~InOrder(events', UnmapNotify(dwm'.swallowing[u]), UnmapNotify(u))
                          /\ ~InOrder(events', DestroyNotify(dwm'.swallowing[u]), UnmapNotify(u))
        BY <1>2, <1>6 DEF OwnHides
      <3>1. /\ u \in Windows /\ Held(u) /\ u # t
            /\ ~InOrder(events, UnmapNotify(dwm.swallowing[u]), UnmapNotify(u))
            /\ ~InOrder(events, DestroyNotify(dwm.swallowing[u]), UnmapNotify(u))
        BY <1>2, <1>3, <2>1 DEF OwnHides
      <3>2. dwm'.swallowing[u] = dwm.swallowing[u] /\ dwm.swallowing[u] \in Windows
        BY <1>2, <1>4, <2>3, <3>1
      <3> QED
        BY <1>3, <2>3, <3>1, <3>2 DEF NoNewOrder
    <2>g. OwnersHeard'
      BY <1>2, <1>3, <1>6, <2>3, <2>5 DEF OwnersHeard
    <2>h. LeaversOut'
      BY <1>1, <1>2, <1>3, <2>2 DEF LeaversOut
    <2>i. ReturnsShown'
      BY <1>2, <1>3, <1>6, <2>1 DEF ReturnsShown, NoNewOrder
    <2>k. ScannedQuiet'
      BY <1>1, <1>3, <2>2, <2>4 DEF ScannedQuiet, Unasked, Quiet
    <2>l. NoneQuiet'
      BY <1>1, <1>3, <2>2, <2>4 DEF NoneQuiet, Unasked, Quiet, Exists
    <2> QED
      BY <1>9, <2>a, <2>b, <2>c, <2>d, <2>e, <2>f, <2>g, <2>h, <2>i, <2>k, <2>l
  <1> QED
    BY <1>10, <1>11

\* Or it leaves things as they are.
LEMMA IgnoresSettling ==
  ASSUME IInv, Settling, NEW w \in Windows, Looks(w), Keeps(Memory),
         w \in scanning => server[w] # "mapped"
  PROVE  Settling'
  <1>1. /\ server' = server /\ scanning' = scanning \ {w} /\ scanning \subseteq Windows
        /\ dwm'.swallowing = dwm.swallowing
        /\ \A v : Shows(dwm', v) <=> Shows(dwm, v)
        /\ requests' = requests
    BY DEF IInv, TypeOK, Looks, Keeps, Memory, Shows
  <1>2. /\ NoNewOrder(events, events')
        /\ \A v \in Windows : In(events', MapRequest(v)) => In(events, MapRequest(v))
        /\ \A v \in Windows : /\ In(events', UnmapNotify(v)) <=> In(events, UnmapNotify(v))
                              /\ In(events', DestroyNotify(v)) <=> In(events, DestroyNotify(v))
        /\ \A v \in Windows : Leaving(v)' <=> Leaving(v)
    BY DEF Looks, SameLeavers, Leaving
  <1>3. /\ \A t \in Terminals : t \in Windows
        /\ \A p \in Programs : p \in Windows
    BY DEF Windows
  <1>4. \A v \in Windows : /\ Held(v) => dwm.swallowing[v] \in Windows
                           /\ Held(v)' <=> Held(v)
                           /\ Exists(v)' <=> Exists(v)
    BY <1>1, <1>3, DwmShows DEF IInv, Held, Exists
  <1> USE DEF Settling
  <1>a. OwnProgram'
    BY <1>1 DEF OwnProgram, Held
  <1>b. ShownLive'
    BY <1>1, <1>2 DEF ShownLive, Exists
  <1>c. MappedKnown'
    BY <1>1 DEF MappedKnown
  <1>d. MapsShown'
    BY <1>1 DEF MapsShown, Exists
  <1>e. HidesHeld'
    BY <1>1, <1>2, <1>4 DEF HidesHeld
  <1>f. OwnHides'
    BY <1>1, <1>2, <1>3, <1>4 DEF OwnHides, NoNewOrder
  <1>g. OwnersHeard'
    BY <1>1, <1>2, <1>3, <1>4 DEF OwnersHeard
  <1>h. LeaversOut'
    BY <1>1, <1>2, <1>3 DEF LeaversOut
  <1>i. ReturnsShown'
    BY <1>1, <1>2, <1>3, <1>4 DEF ReturnsShown, NoNewOrder
  <1>j. OneUnmap'
    BY <1>2, <1>3 DEF OneUnmap, NoNewOrder
  <1>k. ScannedQuiet'
    BY <1>1, <1>2 DEF ScannedQuiet, Unasked, Quiet
  <1>l. NoneQuiet'
    BY <1>1, <1>2 DEF NoneQuiet, Unasked, Quiet
  <1> QED
    BY <1>a, <1>b, <1>c, <1>d, <1>e, <1>f, <1>g, <1>h, <1>i, <1>j, <1>k, <1>l

\* A new dwm will scan what is mapped.
LEMMA RestartSettling ==
  ASSUME IInv, Restart
  PROVE  Settling'
  <1>1. /\ events' = <<>> /\ requests' = <<>> /\ server' = server
        /\ scanning' = {w \in Windows : Exists(w)}
        /\ dwm'.clients = {} /\ dwm'.swallowing = [i \in Windows |-> None]
    BY DEF Restart, NoClients
  <1>2. \A v : ~Shows(dwm', v)
    BY <1>1 DEF Shows
  <1>3. \A v \in Windows : ~Held(v)'
    BY <1>1 DEF Held
  <1>4. /\ \A e : ~In(events', e) /\ ~In(requests', e)
        /\ \A e, f : ~InOrder(events', e, f)
    BY <1>1, NothingIn
  <1>5. /\ \A v \in Windows : ~Leaving(v)'
        /\ \A v \in Windows : Unasked(v)' /\ Quiet(v)'
    BY <1>4 DEF Leaving, Unasked, Quiet
  <1>6. MappedKnown'
    BY <1>1 DEF MappedKnown, Exists
  <1>7. \A t : t \in Terminals \/ t \in Programs => t \in Windows
    BY DEF Windows
  <1>8. scanning' \subseteq Windows
    BY <1>1
  <1> QED
    BY <1>2, <1>3, <1>4, <1>5, <1>6, <1>7, <1>8
      DEF Settling, OwnProgram, ShownLive, MapsShown, HidesHeld, OwnHides, OwnersHeard,
          LeaversOut, ReturnsShown, OneUnmap, ScannedQuiet, NoneQuiet

-----------------------------------------------------------------------------
LEMMA InitSettling == Init => Settling
  <1> SUFFICES ASSUME Init PROVE Settling
    OBVIOUS
  <1>1. \A e : ~In(events, e) /\ ~In(requests, e)
    BY NothingIn DEF Init
  <1>2. \A e, f : ~InOrder(events, e, f)
    BY NothingIn DEF Init
  <1>3. \A v : ~Shows(dwm, v)
    BY DEF Init, NoClients, Shows
  <1>4. \A v \in Windows : ~Held(v)
    BY DEF Init, NoClients, Held
  <1>5. (\A v \in Windows : server[v] = "none") /\ scanning = {}
    BY DEF Init
  <1>6. \A v : Quiet(v) /\ Unasked(v) /\ ~Leaving(v)
    BY <1>1 DEF Quiet, Unasked, Leaving
  <1>7. \A t : t \in Terminals \/ t \in Programs => t \in Windows
    BY DEF Windows
  <1> QED
    BY <1>1, <1>2, <1>3, <1>4, <1>5, <1>6, <1>7
      DEF Settling, OwnProgram, ShownLive, MappedKnown, MapsShown, HidesHeld, OwnHides,
          OwnersHeard, LeaversOut, ReturnsShown, OneUnmap, ScannedQuiet, NoneQuiet

LEMMA NextSettling == IInv /\ Settling /\ ~raced' /\ [Next]_vars => Settling'
  <1> SUFFICES ASSUME IInv, Settling, ~raced', [Next]_vars
               PROVE  Settling'
    OBVIOUS
  <1>0. events \in Seq(Told) /\ TypeOK /\ Good(dwm) /\ QueuesAgree
    BY DEF IInv, TypeOK, Told
  <1>00. /\ Memory \in Records /\ Good(Memory)
         /\ Memory.clients = dwm.clients /\ Memory.win = dwm.win
    BY <1>0, MemoryGood
  <1>1. ASSUME NEW w \in Windows, MapWindow(w)
        PROVE  Settling'
    BY <1>1, MapSettling
  <1>2. ASSUME NEW w \in Windows, Withdraw(w) \/ Close(w)
        PROVE  Settling'
    BY <1>2, LeavesSettling
  <1>3. CASE Serve
    BY <1>3, ServeSettling
  <1>4. CASE HandleMapRequest
    <2> DEFINE w == Head(events).win
               n == IF Exists(w) /\ WinToClient(Memory, w) = {} THEN Manage(Memory, w)
                    ELSE Memory
    <2>1. /\ events # <<>> /\ Head(events).type = "MapRequest" /\ Head(events) \in Told
          /\ Head(events) = events[1] /\ 1 \in 1..Len(events)
          /\ events' = Tail(events) /\ scanning = {} /\ scanning' = {}
          /\ requests = <<>> /\ server' = server /\ Keeps(n)
      BY <1>0, <1>4 DEF HandleMapRequest, Take
    <2>2. w \in Windows /\ Head(events) = MapRequest(w)
      BY <2>1 DEF Told, MapRequest
    <2>3. /\ \A e : In(events, e) <=> e = MapRequest(w) \/ In(events', e)
          /\ \A e, f : InOrder(events, e, f) <=>
                         InOrder(events', e, f) \/ (e = MapRequest(w) /\ In(events', f))
      BY <1>0, <2>1, <2>2, TailIn
    <2>4. w \in Terminals => w \notin dwm.clients
      BY <1>0, <2>1 DEF QueuesAgree
    <2> HIDE DEF w
    <2>5. Looks(w)
      BY <2>1, <2>2, <2>3, EventsDiffer DEF Looks, NoNewOrder, SameLeavers
    <2>6. CASE Exists(w) /\ WinToClient(Memory, w) = {}
      <3>1. n = Manage(Memory, w)
        BY <2>6
      <3>2. ~Shows(dwm, w)
        BY <1>00, <2>6 DEF WinToClient, Shows
      <3>3. w \notin dwm.clients
        BY <1>0, <2>4, <3>2 DEF Good, StandsFor, Shows
      <3>4. New(Memory, w)
        BY <1>00, <3>2, <3>3 DEF New, Shows
      <3>5. ~In(events, DestroyNotify(w))
        BY <1>0, <2>2, <2>6 DEF In, QueuesAgree, DestroyNotify, Exists
      <3>6. ~In(events, UnmapNotify(w))
        <4>1. SUFFICES ASSUME In(events, UnmapNotify(w))
                       PROVE  FALSE
          OBVIOUS
        <4>2. CASE w \in Terminals
          <5>1. Held(w)
            BY <2>6, <4>1, <4>2 DEF Settling, OwnHides
          <5> QED
            BY <1>0, <2>2, <3>3, <5>1, DwmShows
        <4>3. CASE w \in Programs
          <5>1. InOrder(events, MapRequest(w), UnmapNotify(w))
            BY <2>2, <2>3, <4>1, EventsDiffer
          <5> QED
            BY <2>6, <3>2, <4>3, <5>1 DEF Settling, ReturnsShown
        <4> QED
          BY <2>2, <4>2, <4>3 DEF Windows
      <3>7. ~Leaving(w)
        BY <3>5, <3>6 DEF Leaving
      <3> HIDE DEF n
      <3>8. n \in Records /\ (Joins(Memory, n, w) \/ \E t \in Terminals : TakesPlace(Memory, n, w, t))
        BY <1>00, <2>2, <3>1, <3>4, ManageGood, ManageEffect
      <3> QED
        BY <2>1, <2>2, <2>5, <2>6, <3>3, <3>7, <3>8, ManagesSettling
    <2>7. CASE ~(Exists(w) /\ WinToClient(Memory, w) = {})
      <3>1. n = Memory
        BY <2>7
      <3> QED
        BY <2>1, <2>2, <2>5, <3>1, IgnoresSettling
    <2> QED
      BY <2>6, <2>7
  <1>5. CASE HandleUnmapNotify
    <2> DEFINE w == Head(events).win
               n == OnUnmap(OnUnmap(Memory, w), w)
    <2>1. /\ events # <<>> /\ Head(events).type = "UnmapNotify" /\ Head(events) \in Told
          /\ events' = Tail(events) /\ scanning = {} /\ scanning' = {}
          /\ server' = server /\ Keeps(n)
      BY <1>0, <1>5 DEF HandleUnmapNotify, Take
    <2>2. w \in Windows /\ Head(events) = UnmapNotify(w)
      BY <2>1 DEF Told, UnmapNotify
    <2> HIDE DEF w
    <2>3. n \in Records /\ AfterUnmap(Memory, n, w)
      BY <1>00, <2>2, OnUnmapGood, UnmapTwice
    <2> HIDE DEF n
    <2>4. Hears(w, UnmapNotify(w), n)
      BY <2>1, <2>2, <2>3 DEF Hears
    <2> QED
      BY <2>2, <2>3, <2>4, HearsSettling
  <1>6. CASE HandleDestroyNotify
    <2> DEFINE w == Head(events).win
               n == OnDestroy(OnDestroy(Memory, w), w)
    <2>1. /\ events # <<>> /\ Head(events).type = "DestroyNotify" /\ Head(events) \in Told
          /\ Head(events) = events[1] /\ 1 \in 1..Len(events)
          /\ events' = Tail(events) /\ scanning = {} /\ scanning' = {}
          /\ server' = server /\ Keeps(n)
      BY <1>0, <1>6 DEF HandleDestroyNotify, Take
    <2>2. w \in Windows /\ Head(events) = DestroyNotify(w) /\ server[w] = "gone"
      BY <1>0, <2>1 DEF Told, DestroyNotify, QueuesAgree
    <2> HIDE DEF w
    <2>3. n \in Records /\ AfterDestroy(Memory, n, w)
      BY <1>00, <2>2, OnDestroyGood, DestroyTwice
    <2> HIDE DEF n
    <2>4. Hears(w, DestroyNotify(w), n)
      BY <2>1, <2>2, <2>3 DEF Hears
    <2> QED
      BY <2>2, <2>3, <2>4, HearsSettling
  <1>7. CASE Restart
    BY <1>7, RestartSettling
  <1>8. ASSUME NEW w \in Windows, Scan(w)
        PROVE  Settling'
    <2> DEFINE n == IF server[w] = "mapped" THEN Manage(Memory, w) ELSE Memory
    <2>1. w \in scanning /\ Keeps(n)
      BY <1>8 DEF Scan
    <2>2. Looks(w)
      BY <1>8 DEF Scan, Looks, NoNewOrder, SameLeavers
    <2>3. New(Memory, w) /\ w \notin dwm.clients
      BY <1>0, <1>00, <2>1 DEF QueuesAgree, New
    <2>4. CASE server[w] = "mapped"
      <3>1. n = Manage(Memory, w)
        BY <2>4
      <3>2. Exists(w) /\ ~Leaving(w)
        BY <2>1, <2>4 DEF Settling, ScannedQuiet, Quiet, Exists
      <3> HIDE DEF n
      <3>3. n \in Records /\ (Joins(Memory, n, w) \/ \E t \in Terminals : TakesPlace(Memory, n, w, t))
        BY <1>00, <2>3, <3>1, ManageGood, ManageEffect
      <3> QED
        BY <2>1, <2>2, <2>3, <3>2, <3>3, ManagesSettling
    <2>5. CASE server[w] # "mapped"
      <3>1. n = Memory
        BY <2>5
      <3> QED
        BY <2>1, <2>2, <2>5, <3>1, IgnoresSettling
    <2> QED
      BY <2>4, <2>5
  <1>9. CASE UNCHANGED vars
    BY <1>9 DEF vars, Settling, OwnProgram, ShownLive, MappedKnown, MapsShown, HidesHeld,
          OwnHides, OwnersHeard, LeaversOut, ReturnsShown, OneUnmap, ScannedQuiet, NoneQuiet,
          Quiet, Unasked, Leaving, Held, Exists
  <1> QED
    BY <1>1, <1>2, <1>3, <1>4, <1>5, <1>6, <1>7, <1>8, <1>9 DEF Next, Handle

SettledUnlessRaced == raced \/ Settling

\* When nothing is under way, dwm manages the windows that are mapped and no others,
\* whatever came in between: windows that came and went, exchanges of a terminal and its
\* program undone from either side, restarts (manage, swallow, unmanage, scan);
\* unless a window left with a request for it on its way.
THEOREM MappedAlwaysManaged == Spec => []MappedAreManaged
  <1>1. Init => SettledUnlessRaced
    BY InitSettling DEF SettledUnlessRaced
  <1>2. IInv /\ SettledUnlessRaced /\ [Next]_vars => SettledUnlessRaced'
    <2>1. raced /\ [Next]_vars => raced'
      <3> SUFFICES ASSUME raced, [Next]_vars PROVE raced'
        OBVIOUS
      <3> QED
        BY DEF Next, Handle, HandleMapRequest, HandleUnmapNotify, HandleDestroyNotify, Take,
               MapWindow, Withdraw, Close, Leaves, Serve, Restart, Scan, vars
    <2> QED
      BY <2>1, NextSettling DEF SettledUnlessRaced
  <1>3. IInv /\ SettledUnlessRaced => MappedAreManaged
    <2> SUFFICES ASSUME IInv, Settling, AtRest
                 PROVE  {w \in Windows : server[w] = "mapped"} = {dwm.win[i] : i \in dwm.clients}
      BY DEF MappedAreManaged, SettledUnlessRaced
    <2>1. /\ \A e : ~In(events, e) /\ ~In(requests, e)
          /\ scanning = {}
      BY NothingIn DEF AtRest
    <2>2. \A w \in Windows : Shows(dwm, w) <=> server[w] = "mapped"
      BY <2>1 DEF Settling, ShownLive, MappedKnown, Leaving
    <2>3. \A i \in dwm.clients : dwm.win[i] \in Windows
      BY DEF IInv, TypeOK
    <2> QED
      BY <2>2, <2>3 DEF Shows
  <1> QED
    BY <1>1, <1>2, <1>3, InitIInv, NextIInv, PTL DEF Spec
=============================================================================
