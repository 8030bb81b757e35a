---------------------------- MODULE WindowDaemon ----------------------------
(***************************************************************************)
(* The desktop's background process (daemon/src) and the windows, each a   *)
(* process of its own, that ask it whether another window already has the  *)
(* phone (daemon/utilities/src/DaemonClient.cpp, ConnectionManager.cpp).   *)
(*                                                                         *)
(* There is one phone, and it is on the auto-connect list.  A link is a    *)
(* DaemonClient with its socket and, on the other side, the ClientData and *)
(* the ProcessClient coroutine that serve it.                              *)
(***************************************************************************)
EXTENDS Naturals, Sequences, FiniteSets

CONSTANTS Windows,    \* processes
          MaxLinks,   \* DaemonClients created
          MaxTurns    \* connections begun and sessions ended, by anyone

Links == 1..MaxLinks

(* What the theorem assumes of the constants. *)
DaemonBounds == Windows # {} /\ MaxLinks \in Nat

VARIABLES process,    \* of a window: "absent", "runs", "gone" (it exited because
                      \* another window has the phone)
          hasPhone,   \* the window's primary connection is up
          sender,     \* m_signalSender: a link, 0 for none
          asking,     \* CoConnect of the window: "no", "waits" for its link,
                      \* "asked", "goes" on to the phone
          link,       \* every DaemonClient
          toTell,     \* ConnectedSignal coroutines that wait for their link
          clients,    \* m_clients of the daemon
          daemon,     \* the daemon runs
          shown,      \* windows brought to the front
          grounds,    \* ghost: what the last true answer to a window rested on
          created, turns

daemonVars == <<process, hasPhone, sender, asking, link, toTell, clients, daemon,
                shown, grounds, created, turns>>

(***************************************************************************)
(* A link: conn is m_connected and m_connectAttemptFinished of the client  *)
(* ("new", "up", "over"), closed says that its socket was closed, up and   *)
(* down are what travels; serves is the state of the daemon's side, named  *)
(* says that m_uuid is the phone's, and late (a ghost) that the link was   *)
(* connected after it was destroyed.                                       *)
(***************************************************************************)
NewLink(w) == [owner |-> w, conn |-> "new", closed |-> FALSE, up |-> <<>>,
               down |-> <<>>, serves |-> "no", named |-> FALSE, late |-> FALSE]

Unused == [NewLink(CHOOSE w \in Windows : TRUE) EXCEPT !.conn = "over"]

Running(w) == process[w] = "runs"

\* DaemonClient::Send, on a socket that may be closed.
Sends(l, links, m) ==
  IF links[l].closed THEN links ELSE [links EXCEPT ![l].up = Append(@, m)]

\* DaemonClient::Create.
Creates(w) ==
  /\ created < MaxLinks
  /\ created' = created + 1
  /\ sender' = [sender EXCEPT ![w] = created']

\* DaemonClient::Destroy, and what the end of a process does to its links: a
\* CoConnect that has not begun is stopped only by the latter.
DestroysLinks(ls) == [l \in Links |->
  IF l \in ls THEN [link[l] EXCEPT !.conn = "over", !.closed = TRUE, !.down = <<>>]
  ELSE link[l]]

EndsLinks(ls) == [l \in Links |->
  IF l \in ls /\ link[l].serves = "no"
  THEN [DestroysLinks(ls)[l] EXCEPT !.serves = "refused"] ELSE DestroysLinks(ls)[l]]

OwnedBy(w) == {l \in 1..created : link[l].owner = w}

Turn == turns < MaxTurns /\ turns' = turns + 1

(***************************************************************************)
(* The windows.                                                            *)
(***************************************************************************)
\* ConnectionManager::Connect: a link is made if there is none, and the
\* connection waits for what the daemon says.
ConnectsWindow(w) ==
  /\ asking' = [asking EXCEPT ![w] = "waits"]
  /\ IF sender[w] # 0
       THEN UNCHANGED <<sender, created, link>>
       ELSE /\ Creates(w)
            /\ link' = [link EXCEPT ![created'] = NewLink(w)]

UserConnects(w) ==
  /\ Turn
  /\ Running(w) /\ ~hasPhone[w] /\ asking[w] = "no"
  /\ ConnectsWindow(w)
  /\ UNCHANGED <<process, hasPhone, toTell, clients, daemon, shown, grounds>>

UserStarts(w) ==
  /\ process[w] = "absent"
  /\ process' = [process EXCEPT ![w] = "runs"]
  /\ UNCHANGED <<hasPhone, sender, asking, link, toTell, clients, daemon, shown,
                 grounds, created, turns>>

\* DaemonClient::CoConnect, which also opens a socket that was closed before.
LinkConnects(l) ==
  /\ l <= created
  /\ link[l].serves = "no"
  /\ link' = [link EXCEPT ![l].conn = IF daemon THEN "up" ELSE "over",
                          ![l].closed = @ /\ ~daemon,
                          ![l].late = @ \/ link[l].closed,
                          ![l].serves = IF daemon THEN "accepted" ELSE "refused"]
  /\ UNCHANGED <<process, hasPhone, sender, asking, toTell, clients, daemon,
                 shown, grounds, created, turns>>

\* RequestConnectedWindow, once WaitForConnectResult has returned: an answer, a
\* failed attempt or 250 ms.
Asks(w) ==
  /\ asking[w] = "waits"
  /\ LET l == sender[w] IN
     IF l # 0 /\ link[l].conn = "up"
       THEN /\ asking' = [asking EXCEPT ![w] = "asked"]
            /\ link' = Sends(l, link, "request")
       ELSE /\ asking' = [asking EXCEPT ![w] = "goes"]
            /\ UNCHANGED link
  /\ UNCHANGED <<process, hasPhone, sender, toTell, clients, daemon, shown,
                 grounds, created, turns>>

\* ... and the second it waits for the answer.
AskTimesOut(w) ==
  /\ asking[w] = "asked"
  /\ asking' = [asking EXCEPT ![w] = "goes"]
  /\ UNCHANGED <<process, hasPhone, sender, link, toTell, clients, daemon,
                 shown, grounds, created, turns>>

\* ShowWindowEvent: the window comes to the front.
ShowsWindow(w) == shown' = shown \cup {w}

\* DaemonClient::CoReceive: an answer counts while a request is registered, and
\* "already connected" ends the process.
ClientReceives(l) ==
  /\ l <= created
  /\ link[l].conn = "up" /\ link[l].down # <<>>
  /\ LET w == link[l].owner
         m == Head(link[l].down)
         rest == [link EXCEPT ![l].down = Tail(@)]
     IN IF m = "show"
          THEN /\ ShowsWindow(w)
               /\ link' = rest
               /\ UNCHANGED <<process, asking>>
        ELSE IF asking[w] # "asked" \/ sender[w] # l
          THEN /\ link' = rest
               /\ UNCHANGED <<process, asking, shown>>
        ELSE IF m = "yes"
          THEN /\ process' = [process EXCEPT ![w] = "gone"]
               /\ asking' = [asking EXCEPT ![w] = "no"]
               /\ link' = EndsLinks(OwnedBy(w))
               /\ UNCHANGED shown
        ELSE /\ asking' = [asking EXCEPT ![w] = "goes"]
             /\ link' = rest
             /\ UNCHANGED <<process, shown>>
  /\ UNCHANGED <<hasPhone, sender, toTell, clients, daemon, grounds, created, turns>>

\* The handshake and the primary connection: the phone takes one at a time.
\* ConnectedSignal tells the daemon, at once or when the link is up.
SessionBegins(w) ==
  /\ asking[w] = "goes"
  /\ \A v \in Windows : ~hasPhone[v]
  /\ asking' = [asking EXCEPT ![w] = "no"]
  /\ hasPhone' = [hasPhone EXCEPT ![w] = TRUE]
  /\ IF sender[w] = 0
       THEN /\ Creates(w)
            /\ link' = [link EXCEPT ![created'] = NewLink(w)]
            /\ toTell' = toTell \cup {created'}
       ELSE /\ UNCHANGED <<sender, created>>
            /\ IF link[sender[w]].conn = "up"
                 THEN link' = Sends(sender[w], link, "connected") /\ UNCHANGED toTell
                 ELSE toTell' = toTell \cup {sender[w]} /\ UNCHANGED link
  /\ UNCHANGED <<process, clients, daemon, shown, grounds, turns>>

Signals(l) ==
  /\ l \in toTell
  /\ toTell' = toTell \ {l}
  /\ link' = IF link[l].conn = "up" THEN Sends(l, link, "connected") ELSE link
  /\ UNCHANGED <<process, hasPhone, sender, asking, clients, daemon, shown,
                 grounds, created, turns>>

SessionFails(w) ==
  /\ asking[w] = "goes"
  /\ asking' = [asking EXCEPT ![w] = "no"]
  /\ UNCHANGED <<process, hasPhone, sender, link, toTell, clients, daemon,
                 shown, grounds, created, turns>>

\* The user disconnects or cancels: ConnectionManager::Disconnect destroys the
\* link.  The coroutine that asks the daemon goes on, and after it the
\* connection; the object it runs in may be freed under it, which ends the
\* process as UserQuits does.
UserDisconnects(w) ==
  /\ Turn
  /\ sender[w] # 0 /\ (hasPhone[w] \/ asking[w] # "no")
  /\ hasPhone' = [hasPhone EXCEPT ![w] = FALSE]
  /\ link' = DestroysLinks({sender[w]})
  /\ sender' = [sender EXCEPT ![w] = 0]
  /\ UNCHANGED <<process, asking, toTell, clients, daemon, shown, grounds, created>>

\* The phone goes, or its heartbeats: PrimaryConnection ends by itself, and the
\* link stays as it is.
SessionIsLost(w) ==
  /\ Turn
  /\ hasPhone[w]
  /\ hasPhone' = [hasPhone EXCEPT ![w] = FALSE]
  /\ UNCHANGED <<process, sender, asking, link, toTell, clients, daemon, shown,
                 grounds, created>>

UserQuits(w) ==
  /\ Turn
  /\ Running(w)
  /\ process' = [process EXCEPT ![w] = "absent"]
  /\ hasPhone' = [hasPhone EXCEPT ![w] = FALSE]
  /\ asking' = [asking EXCEPT ![w] = "no"]
  /\ sender' = [sender EXCEPT ![w] = 0]
  /\ link' = EndsLinks(OwnedBy(w))
  /\ toTell' = toTell \ OwnedBy(w)
  /\ UNCHANGED <<clients, daemon, shown, grounds, created>>

(***************************************************************************)
(* The daemon.                                                             *)
(***************************************************************************)
\* SeekConnections: ProcessClient already runs when the client is put on the
\* list.
Lists(l) ==
  /\ l <= created
  /\ link[l].serves = "accepted" /\ l \notin clients
  /\ clients' = clients \cup {l}
  /\ link' = [link EXCEPT ![l].serves = "listed"]
  /\ UNCHANGED <<process, hasPhone, sender, asking, toTell, daemon, shown,
                 grounds, created, turns>>

Served(l) == link[l].serves \in {"accepted", "listed"}

FoundWithItself(l) == {c \in clients : link[c].named}

\* ProcessClient, REQUEST_CONNECTED_WINDOW: another client with the device.
Found(l) == {c \in clients : c # l /\ link[c].named}

OfAnother(l, c) == /\ ~link[c].closed
                   /\ link[c].owner # link[l].owner
                   /\ Running(link[c].owner)

Responds(l) ==
  /\ l <= created /\ daemon
  /\ Served(l) /\ link[l].up # <<>> /\ Head(link[l].up) = "request"
  /\ IF Found(l) = {}
       THEN /\ link' = [link EXCEPT ![l].up = Tail(@), ![l].down = Append(@, "no")]
            /\ UNCHANGED grounds
       ELSE \E c \in Found(l) :
              /\ link' = [link EXCEPT ![l].up = Tail(@),
                                      ![l].down = Append(@, "yes"),
                                      ![c].down = IF c = l THEN @ \o <<"yes", "show">>
                                                  ELSE Append(@, "show")]
              /\ grounds' = [grounds EXCEPT ![link[l].owner] =
                   IF link[l].closed THEN @
                   ELSE IF OfAnother(l, c) THEN "window"
                   ELSE IF link[c].closed \/ link[c].late THEN "closing"
                   ELSE "itself"]
  /\ UNCHANGED <<process, hasPhone, sender, asking, toTell, clients, daemon,
                 shown, created, turns>>

RegistersConnected(l) ==
  /\ l <= created /\ daemon
  /\ Served(l) /\ link[l].up # <<>> /\ Head(link[l].up) = "connected"
  /\ link' = [link EXCEPT ![l].up = Tail(@), ![l].named = TRUE]
  /\ UNCHANGED <<process, hasPhone, sender, asking, toTell, clients, daemon,
                 shown, grounds, created, turns>>

\* The end of ProcessClient; a client that is not on the list yet stays on it
\* for ever.
ClientEnds(l) ==
  /\ l <= created
  /\ Served(l) /\ link[l].closed /\ link[l].up = <<>>
  /\ clients' = IF link[l].serves = "accepted" THEN clients \cup {l}
                ELSE clients \ {l}
  /\ link' = [link EXCEPT ![l].serves = "ended"]
  /\ UNCHANGED <<process, hasPhone, sender, asking, toTell, daemon, shown,
                 grounds, created, turns>>

\* main(): every 10 s a window is started for a listed device that was heard
\* and that no client has; the window goes on to connect.
StartInstance(w) ==
  /\ daemon /\ Turn
  /\ process[w] = "absent"
  /\ \A c \in clients : ~link[c].named
  /\ process' = [process EXCEPT ![w] = "runs"]
  /\ ConnectsWindow(w)
  /\ UNCHANGED <<hasPhone, toTell, clients, daemon, shown, grounds>>

\* The daemon is ended; the windows' sockets end with it.
DaemonStops ==
  /\ daemon /\ Turn
  /\ daemon' = FALSE
  /\ clients' = {}
  /\ link' = [l \in Links |-> IF Served(l)
                THEN [link[l] EXCEPT !.serves = "ended", !.conn = "over", !.up = <<>>]
                ELSE link[l]]
  /\ UNCHANGED <<process, hasPhone, sender, asking, toTell, shown, grounds, created>>

DaemonInit ==
  /\ process = [w \in Windows |-> "absent"]
  /\ hasPhone = [w \in Windows |-> FALSE]
  /\ sender = [w \in Windows |-> 0]
  /\ asking = [w \in Windows |-> "no"]
  /\ link = [l \in Links |-> Unused]
  /\ toTell = {} /\ clients = {}
  /\ daemon \in BOOLEAN
  /\ shown = {}
  /\ grounds = [w \in Windows |-> "none"]
  /\ created = 0 /\ turns = 0

DaemonNext ==
  \/ \E w \in Windows :
       \/ UserStarts(w) \/ UserConnects(w) \/ Asks(w) \/ AskTimesOut(w)
       \/ SessionBegins(w) \/ SessionFails(w) \/ UserDisconnects(w)
       \/ SessionIsLost(w) \/ UserQuits(w) \/ StartInstance(w)
  \/ \E l \in Links :
       \/ LinkConnects(l) \/ ClientReceives(l) \/ Signals(l) \/ Lists(l)
       \/ Responds(l) \/ RegistersConnected(l) \/ ClientEnds(l)
  \/ DaemonStops

DaemonSpec == DaemonInit /\ [][DaemonNext]_daemonVars

DaemonTypeOK ==
  /\ process \in [Windows -> {"absent", "runs", "gone"}]
  /\ hasPhone \in [Windows -> BOOLEAN]
  /\ sender \in [Windows -> 0..created]
  /\ asking \in [Windows -> {"no", "waits", "asked", "goes"}]
  /\ link \in [Links -> [owner : Windows, conn : {"new", "up", "over"},
                         closed : BOOLEAN, named : BOOLEAN, late : BOOLEAN,
                         up : Seq({"request", "connected"}),
                         down : Seq({"yes", "no", "show"}),
                         serves : {"no", "refused", "accepted", "listed", "ended"}]]
  /\ toTell \subseteq 1..created /\ clients \subseteq 1..created
  /\ daemon \in BOOLEAN /\ shown \subseteq Windows
  /\ grounds \in [Windows -> {"none", "window", "closing", "itself"}]

(***************************************************************************)
(* A window never ends itself because of itself: when the daemon answers   *)
(* that the device has a window, that window is another process, which was *)
(* running when it was found and has been told to show itself, or a client *)
(* whose link was closed or destroyed, which the daemon has not seen       *)
(* (DaemonServer.cpp:96-110; the registration of a lost session stays, so  *)
(* the window that asks may well be on the list itself).                   *)
(***************************************************************************)
AnotherWindowIsThere == \A w \in Windows : grounds[w] # "itself"
=============================================================================
