---------------------------- MODULE ModuleLifecycle ----------------------------
(***************************************************************************)
(* One module on two devices: BaseModule.h, the connection events that     *)
(* ModulesManager obeys, and how the two NotificationSyncModule.cpp enable *)
(* and disable each other over the primary connection and connect their    *)
(* channel.                                                                *)
(*                                                                         *)
(* Enable, Disable and Shutdown spawn coroutines on the module's strand; a *)
(* coroutine holds the strand up to its next suspension, and only OnEnable *)
(* suspends (a poll every 10 ms, a flag, a permission dialog).  OnDisable  *)
(* never does.  Off the strand: the Qt thread, which initializes and shuts *)
(* down, and the handlers of packages, which run in any order.             *)
(*                                                                         *)
(* Abstracted: the three permission dialogs are one; the list is fetched   *)
(* or not; channel c is the one the desktop's c-th OnEnable created, a     *)
(* different object on each device.  Bounds: MaxToggles requests of the    *)
(* users, MaxLinks sessions, MaxChannels channels, MaxEnables OnEnables *)
(* under way on a device.                                                  *)
(***************************************************************************)
EXTENDS Integers, Sequences, Bags

CONSTANTS MaxToggles, MaxLinks, MaxChannels, MaxEnables

ASSUME LifeBounds == {MaxToggles, MaxLinks, MaxChannels, MaxEnables} \subseteq Nat

VARIABLES
    state,          \* m_state of each device
    registered,     \* EnableResponseCallbacks was called last, not DisableResponseCallbacks
    peerEnabled,    \* m_peerModuleEnabled
    strand,         \* what is posted to m_moduleStrand
    seen,           \* the state the first of them has read, or "nothing"
    enabling,       \* the OnEnable coroutines: where each is, and its channel
    channel,        \* m_channel: its number, or NoChannel
    deskChannel,    \* the desktop's object of each channel
    phoneChannel,   \* the phone's
    connectedFlag,  \* m_connectedFlag
    packages,       \* on the primary connection: a bag
    events,         \* connection events the Qt thread has yet to see
    linked,         \* the primary connection is up
    sessions, toggles, channels,    \* how many there were (bounds)
    late            \* ghost: a coroutine changed a module that was shut down meanwhile

module      == <<state, registered, peerEnabled>>
work        == <<strand, seen, enabling>>
channelVars == <<channel, deskChannel, phoneChannel, connectedFlag>>
session     == <<events, linked, sessions>>
lifeVars    == <<module, work, channelVars, packages, session, toggles, channels, late>>

-------------------------------------------------------------------------------

NoChannel == 0
Devices == {"desktop", "phone"}
Peer(d) == IF d = "desktop" THEN "phone" ELSE "desktop"
Channels == 1 .. MaxChannels
Slots == 1 .. MaxEnables
Idle == [at |-> "idle", channel |-> NoChannel]

ShouldAbortEnable(d) == state[d] \notin {"Enabling", "Enabled"}

Quiescent ==
    /\ \A d \in Devices : /\ strand[d] = <<>> /\ seen[d] = "nothing" /\ events[d] = <<>>
                          /\ \A s \in Slots : enabling[d][s] = Idle
    /\ packages = EmptyBag
    /\ \A c \in Channels : phoneChannel[c] # "connecting"

States     == {"Uninitialized", "Disabled", "Enabling", "Enabled"}
Operations == [op : {"enable", "disable", "shutdown"}, was : States \cup {"nothing"}]
Coroutines == [at : {"idle", "listen", "accept", "peer", "fetch", "dialog", "flag", "store"},
               channel : 0 .. MaxChannels]
Packages   == [to : Devices, number : 0 .. MaxChannels,
               kind : {"ENABLE", "DISABLE", "STATE_ON", "STATE_OFF", "PORT_INFO"}]

LifeTypeOK ==
    /\ state \in [Devices -> States]
    /\ registered \in [Devices -> BOOLEAN] /\ peerEnabled \in [Devices -> BOOLEAN]
    /\ strand \in [Devices -> Seq(Operations)]
    /\ seen \in [Devices -> States \cup {"nothing"}]
    /\ enabling \in [Devices -> [Slots -> Coroutines]]
    /\ channel \in [Devices -> 0 .. MaxChannels]
    /\ deskChannel \in [Channels -> {"none", "listening", "connected", "closed"}]
    /\ phoneChannel \in [Channels -> {"none", "connecting", "connected", "closed"}]
    /\ connectedFlag \in BOOLEAN /\ linked \in BOOLEAN /\ late \in BOOLEAN
    /\ IsABag(packages) /\ BagToSet(packages) \subseteq Packages
    /\ events \in [Devices -> Seq({"connected", "disconnected"})]
    /\ sessions \in 0 .. MaxLinks /\ toggles \in 0 .. MaxToggles /\ channels \in 0 .. MaxChannels

LifeInit ==
    /\ state = [d \in Devices |-> "Uninitialized"]
    /\ registered = [d \in Devices |-> FALSE] /\ peerEnabled = [d \in Devices |-> FALSE]
    /\ strand = [d \in Devices |-> <<>>] /\ seen = [d \in Devices |-> "nothing"]
    /\ enabling = [d \in Devices |-> [s \in Slots |-> Idle]]
    /\ channel = [d \in Devices |-> NoChannel]
    /\ deskChannel = [c \in Channels |-> "none"] /\ phoneChannel = [c \in Channels |-> "none"]
    /\ connectedFlag = FALSE
    /\ packages = EmptyBag
    /\ events = [d \in Devices |-> <<>>] /\ linked = FALSE
    /\ sessions = 0 /\ toggles = 0 /\ channels = 0
    /\ late = FALSE

-------------------------------------------------------------------------------
(* What the operations are made of. *)

Package(d, kind, n) == [to |-> Peer(d), kind |-> kind, number |-> n]
Bagged(ps) == SetToBag(ps)

(* ConnectionManager::Send does nothing while the connection is down. *)
After(bag, d, ps) == IF linked THEN bag (+) Bagged(ps) ELSE bag

Posts(d, op, was) == [strand EXCEPT ![d] = Append(@, [op |-> op, was |-> was])]

(* TakeChannel and Disconnect; an end that has not started yet is not disconnected. *)
DropsChannel(d) ==
    /\ channel' = [channel EXCEPT ![d] = NoChannel]
    /\ IF channel[d] = NoChannel THEN UNCHANGED <<deskChannel, phoneChannel>>
       ELSE IF d = "desktop"
       THEN /\ deskChannel' = [deskChannel EXCEPT ![channel[d]] = IF @ = "none" THEN @ ELSE "closed"]
            /\ UNCHANGED phoneChannel
       ELSE /\ phoneChannel' = [phoneChannel EXCEPT ![channel[d]] = IF @ = "none" THEN @ ELSE "closed"]
            /\ UNCHANGED deskChannel

(* OnDisable: the peer is told twice, that this side is off and that it should be. *)
OnDisable(d, bag) ==
    /\ peerEnabled' = [peerEnabled EXCEPT ![d] = FALSE]
    /\ packages' = After(bag, d, {Package(d, "STATE_OFF", NoChannel), Package(d, "DISABLE", NoChannel)})
    /\ connectedFlag' = (IF d = "phone" THEN FALSE ELSE connectedFlag)
    /\ DropsChannel(d)

(* OnEnable calls Disable: it runs at once, the strand being this coroutine's. *)
DisablesItself(d) ==
    /\ state' = [state EXCEPT ![d] = "Disabled"]
    /\ OnDisable(d, packages)

Leaves(d, s) == enabling' = [enabling EXCEPT ![d][s] = Idle]
Goes(d, s, at) == enabling' = [enabling EXCEPT ![d][s].at = at]

(* EnableAwaitable after OnEnable: the state is compared, and stored after that. *)
Returns(d, s) == IF state[d] = "Enabling" THEN Goes(d, s, "store") ELSE Leaves(d, s)

-------------------------------------------------------------------------------
(* The strand. *)

(* The first thing each coroutine does is to read the state, the second to change it: *)
(* the Qt thread may shut the module down in between.  Reading is a step of its own    *)
(* only when that thread has something to do.                                          *)
ReadsState(d) ==
    /\ strand[d] # <<>> /\ seen[d] = "nothing" /\ events[d] # <<>>
    /\ seen' = [seen EXCEPT ![d] = state[d]]
    /\ UNCHANGED <<module, strand, enabling, channelVars, packages, session, toggles, channels, late>>

Saw(d) == IF seen[d] = "nothing" THEN state[d] ELSE seen[d]

Runs(d, op) ==
    /\ strand[d] # <<>> /\ Head(strand[d]).op = op
    /\ strand' = [strand EXCEPT ![d] = Tail(@)]
    /\ seen' = [seen EXCEPT ![d] = "nothing"]

HasFreeSlot(d) == \E s \in Slots : enabling[d][s] = Idle
FreeSlot(d)    == CHOOSE s \in Slots : enabling[d][s] = Idle

(* EnableAwaitable up to the first suspension of OnEnable.  The desktop asks the phone to   *)
(* enable and replaces its channel; the phone asks for its permissions first.               *)
RunEnable(d) ==
    /\ Runs(d, "enable")
    /\ IF Saw(d) \in {"Uninitialized", "Disabled"}
       THEN /\ HasFreeSlot(d) /\ channels < MaxChannels
            /\ state' = [state EXCEPT ![d] = "Enabling"]
            /\ registered' = [registered EXCEPT ![d] = @ \/ Saw(d) = "Uninitialized"]
            /\ late' = (late \/ state[d] # Saw(d) \/ Saw(d) = "Uninitialized")
            /\ peerEnabled' = [peerEnabled EXCEPT ![d] = FALSE]
            /\ IF d = "desktop"
               THEN /\ channels' = channels + 1
                    /\ enabling' = [enabling EXCEPT ![d][FreeSlot(d)] = [at |-> "listen", channel |-> channels + 1]]
                    /\ packages' = After(packages, d, {Package(d, "ENABLE", NoChannel)})
                    /\ channel' = [channel EXCEPT ![d] = channels + 1]
                    /\ deskChannel' = IF channel[d] = NoChannel \/ deskChannel[channel[d]] = "none"
                                      THEN deskChannel
                                      ELSE [deskChannel EXCEPT ![channel[d]] = "closed"]
                    /\ UNCHANGED <<phoneChannel, connectedFlag>>
               ELSE /\ enabling' = [enabling EXCEPT ![d][FreeSlot(d)] = [at |-> "dialog", channel |-> NoChannel]]
                    /\ UNCHANGED <<channels, packages, channelVars>>
       ELSE UNCHANGED <<module, enabling, channelVars, packages, channels, late>>
    /\ UNCHANGED <<session, toggles>>

RunDisable(d) ==
    /\ Runs(d, "disable")
    /\ IF Saw(d) \in {"Enabled", "Enabling"}
       THEN /\ state' = [state EXCEPT ![d] = "Disabled"]
            /\ late' = (late \/ state[d] # Saw(d))
            /\ OnDisable(d, packages)
       ELSE UNCHANGED <<state, peerEnabled, channelVars, packages, late>>
    /\ UNCHANGED <<registered, enabling, session, toggles, channels>>

RunShutdown(d) ==
    /\ Runs(d, "shutdown")
    /\ IF Head(strand[d]).was \in {"Enabled", "Enabling"}
       THEN OnDisable(d, packages)
       ELSE DropsChannel(d) /\ UNCHANGED <<peerEnabled, packages, connectedFlag>>
    /\ UNCHANGED <<state, registered, enabling, session, toggles, channels, late>>

-------------------------------------------------------------------------------
(* The desktop's OnEnable, from suspension to suspension. *)

(* The listener opens, whatever became of the channel, or it does not: then nothing ever *)
(* signals the flag.                                                                     *)
TellsPort(s) ==
    LET c == enabling["desktop"][s].channel IN
    /\ enabling["desktop"][s].at = "listen"
    /\ \/ /\ deskChannel' = [deskChannel EXCEPT ![c] = "listening"]
          /\ IF ShouldAbortEnable("desktop")
             THEN Leaves("desktop", s) /\ UNCHANGED packages
             ELSE /\ packages' = After(packages, "desktop", {Package("desktop", "PORT_INFO", c)})
                  /\ Goes("desktop", s, "accept")
       \/ /\ deskChannel' = [deskChannel EXCEPT ![c] = "closed"]
          /\ Leaves("desktop", s)
          /\ UNCHANGED packages
    /\ UNCHANGED <<module, strand, seen, channel, phoneChannel, connectedFlag, session, toggles, channels, late>>

AwaitsConnection(s) ==
    LET c == enabling["desktop"][s].channel IN
    /\ enabling["desktop"][s].at = "accept"
    /\ \/ deskChannel[c] = "connected" /\ channel["desktop"] = c /\ Goes("desktop", s, "peer")
       \/ channel["desktop"] # c /\ Returns("desktop", s)
       \/ deskChannel[c] # "connected" /\ ShouldAbortEnable("desktop") /\ Returns("desktop", s)
    /\ UNCHANGED <<module, strand, seen, channelVars, packages, session, toggles, channels, late>>

AwaitsPeer(d, s) ==
    /\ enabling[d][s].at = "peer"
    /\ \/ peerEnabled[d] /\ (IF d = "desktop" THEN Goes(d, s, "fetch") ELSE Returns(d, s))
       \/ ~peerEnabled[d] /\ ShouldAbortEnable(d) /\ Returns(d, s)
    /\ UNCHANGED <<module, strand, seen, channelVars, packages, session, toggles, channels, late>>

(* FetchNotificationList uses whatever channel the module has by now; when it cannot ask *)
(* it disables the module.                                                               *)
Fetches(s) ==
    LET connected == IF channel["desktop"] = NoChannel THEN FALSE ELSE deskChannel[channel["desktop"]] = "connected" IN
    /\ enabling["desktop"][s].at = "fetch"
    /\ \/ /\ connected
          /\ packages' = IF ShouldAbortEnable("desktop") THEN packages
                         ELSE After(packages, "desktop", {Package("desktop", "STATE_ON", NoChannel)})
          /\ Returns("desktop", s)
          /\ UNCHANGED <<module, channelVars>>
       \/ /\ ~connected \/ ~linked
          /\ IF state["desktop"] \in {"Enabled", "Enabling"} THEN DisablesItself("desktop")
             ELSE UNCHANGED <<state, peerEnabled, channelVars, packages>>
          /\ Leaves("desktop", s)
          /\ UNCHANGED registered
    /\ UNCHANGED <<strand, seen, session, toggles, channels, late>>

(* The phone's OnEnable. *)
Answers(s) ==
    /\ enabling["phone"][s].at = "dialog"
    /\ \/ /\ state["phone"] \in {"Enabled", "Enabling"}     \* rejected
          /\ DisablesItself("phone") /\ Leaves("phone", s)
       \/ /\ IF ShouldAbortEnable("phone")
             THEN Leaves("phone", s) /\ UNCHANGED packages
             ELSE /\ Goes("phone", s, "flag")
                  /\ packages' = After(packages, "phone", {Package("phone", "ENABLE", NoChannel)})
          /\ UNCHANGED <<state, peerEnabled, channelVars>>
    /\ UNCHANGED <<registered, strand, seen, session, toggles, channels, late>>

AwaitsFlag(s) ==
    /\ enabling["phone"][s].at = "flag"
    /\ connectedFlag /\ connectedFlag' = FALSE
    /\ IF ShouldAbortEnable("phone")
       THEN Leaves("phone", s) /\ UNCHANGED packages
       ELSE /\ Goes("phone", s, "peer")
            /\ packages' = After(packages, "phone", {Package("phone", "STATE_ON", NoChannel)})
    /\ UNCHANGED <<module, strand, seen, channel, deskChannel, phoneChannel, session, toggles, channels, late>>

(* Variant: it only reports the timeout. *)
FlagTimesOutQuietly(s) ==
    /\ enabling["phone"][s].at = "flag" /\ ~connectedFlag
    /\ Returns("phone", s)
    /\ UNCHANGED <<module, strand, seen, channelVars, packages, session, toggles, channels, late>>

(* The flag's 5 seconds are longer than a package or a posted coroutine is under way. *)
FlagTimesOut(s) ==
    /\ enabling["phone"][s].at = "flag" /\ ~connectedFlag
    /\ packages = EmptyBag /\ \A d \in Devices : strand[d] = <<>>
    /\ IF ShouldAbortEnable("phone")
       THEN UNCHANGED <<state, peerEnabled, channelVars, packages>>
       ELSE DisablesItself("phone")
    /\ Leaves("phone", s)
    /\ UNCHANGED <<registered, strand, seen, session, toggles, channels, late>>

(* The store that ends EnableAwaitable. *)
BecomesEnabled(d, s) ==
    /\ enabling[d][s].at = "store"
    /\ state' = [state EXCEPT ![d] = "Enabled"]
    /\ late' = (late \/ state[d] # "Enabling")
    /\ Leaves(d, s)
    /\ UNCHANGED <<registered, peerEnabled, strand, seen, channelVars, packages, session, toggles, channels>>

-------------------------------------------------------------------------------
(* The phone connects the channel whose port it is told; the desktop accepts.  A channel *)
(* that m_channel does not name any more is destroyed, and its socket closed, when its   *)
(* coroutine returns.                                                                    *)
ChannelConnects(c) ==
    /\ phoneChannel[c] = "connecting"
    /\ IF deskChannel[c] = "listening"
       THEN /\ phoneChannel' = [phoneChannel EXCEPT ![c] = IF channel["phone"] = c THEN "connected" ELSE "closed"]
            /\ deskChannel' = [deskChannel EXCEPT ![c] = "connected"]
            /\ connectedFlag' = (connectedFlag \/ channel["phone"] = c)
       ELSE /\ phoneChannel' = [phoneChannel EXCEPT ![c] = "closed"]
            /\ UNCHANGED <<deskChannel, connectedFlag>>
    /\ UNCHANGED <<module, work, channel, packages, session, toggles, channels, late>>

-------------------------------------------------------------------------------
(* The handlers of packages; without them a package is dropped. *)

Handles(d, p, rest) ==
    \/ /\ p.kind = "ENABLE"
       /\ IF state[d] = "Enabled"
          THEN packages' = After(rest, d, {Package(d, "STATE_ON", NoChannel)}) /\ UNCHANGED strand
          ELSE packages' = rest /\ strand' = Posts(d, "enable", "nothing")
       /\ UNCHANGED <<peerEnabled, channel, phoneChannel>>
    \/ /\ p.kind = "DISABLE"
       /\ peerEnabled' = [peerEnabled EXCEPT ![d] = FALSE]
       /\ packages' = After(rest, d, {Package(d, "STATE_OFF", NoChannel)})
       /\ strand' = Posts(d, "disable", "nothing")
       /\ UNCHANGED <<channel, phoneChannel>>
    \/ /\ p.kind \in {"STATE_ON", "STATE_OFF"}
       /\ peerEnabled' = [peerEnabled EXCEPT ![d] = p.kind = "STATE_ON"]
       /\ packages' = rest
       /\ UNCHANGED <<strand, channel, phoneChannel>>
    \/ /\ p.kind = "PORT_INFO"
       /\ channel' = [channel EXCEPT ![d] = p.number]
       /\ phoneChannel' = [c \in Channels |->
             IF c = p.number THEN "connecting"
             ELSE IF c = channel[d] /\ phoneChannel[c] = "connected" THEN "closed" ELSE phoneChannel[c]]
       /\ packages' = rest
       /\ UNCHANGED <<peerEnabled, strand>>

Receives(p) ==
    LET rest == packages (-) Bagged({p}) IN
    /\ IF registered[p.to] THEN Handles(p.to, p, rest)
       ELSE packages' = rest /\ UNCHANGED <<peerEnabled, strand, channel, phoneChannel>>
    /\ UNCHANGED <<state, registered, seen, enabling, deskChannel, connectedFlag, session, toggles, channels, late>>

-------------------------------------------------------------------------------
(* Users, sessions and the Qt thread. *)

Toggle(d) ==
    /\ linked /\ Quiescent
    /\ toggles < MaxToggles /\ toggles' = toggles + 1
    /\ \E op \in {"enable", "disable"} : strand' = Posts(d, op, "nothing")
    /\ UNCHANGED <<module, seen, enabling, channelVars, packages, session, channels, late>>

Tells(e) == events' = [d \in Devices |-> Append(events[d], e)]

LinkBegins ==
    /\ ~linked /\ Quiescent /\ sessions < MaxLinks
    /\ linked' = TRUE /\ sessions' = sessions + 1
    /\ Tells("connected")
    /\ UNCHANGED <<module, work, channelVars, packages, toggles, channels, late>>

LinkEnds ==
    /\ linked
    /\ linked' = FALSE /\ packages' = EmptyBag
    /\ Tells("disconnected")
    /\ UNCHANGED <<module, work, channelVars, sessions, toggles, channels, late>>

(* Variant: a module that is only Enabling is left alone. *)
QtShutdownOfEnabled(d) ==
    IF state[d] \in {"Enabled", "Disabled"}
    THEN /\ strand' = Posts(d, "shutdown", state[d])
         /\ state' = [state EXCEPT ![d] = "Uninitialized"]
         /\ registered' = [registered EXCEPT ![d] = FALSE]
    ELSE UNCHANGED <<strand, state, registered>>

(* Shutdown, on the Qt thread; the rest of it is posted to the strand. *)
QtShutdown(d) ==
    IF state[d] # "Uninitialized"
    THEN /\ strand' = Posts(d, "shutdown", state[d])
         /\ state' = [state EXCEPT ![d] = "Uninitialized"]
         /\ registered' = [registered EXCEPT ![d] = FALSE]
    ELSE UNCHANGED <<strand, state, registered>>

(* Initialize leaves a module alone that is not Uninitialized. *)
QtInitialize(d) ==
    /\ IF state[d] = "Uninitialized"
       THEN /\ state' = [state EXCEPT ![d] = "Disabled"]
            /\ registered' = [registered EXCEPT ![d] = TRUE]
       ELSE UNCHANGED <<state, registered>>
    /\ UNCHANGED strand

(* ModulesManager::event. *)
QtEvent(d) ==
    /\ events[d] # <<>>
    /\ events' = [events EXCEPT ![d] = Tail(@)]
    /\ IF Head(events[d]) = "disconnected" THEN QtShutdown(d) ELSE QtInitialize(d)
    /\ UNCHANGED <<peerEnabled, seen, enabling, channelVars, packages, linked, sessions, toggles, channels, late>>

-------------------------------------------------------------------------------

Strand(d) == ReadsState(d) \/ RunEnable(d) \/ RunDisable(d) \/ RunShutdown(d)
OnEnable(d, s) ==
    \/ d = "desktop" /\ (TellsPort(s) \/ AwaitsConnection(s) \/ Fetches(s))
    \/ d = "phone" /\ (Answers(s) \/ AwaitsFlag(s) \/ FlagTimesOut(s))
    \/ AwaitsPeer(d, s) \/ BecomesEnabled(d, s)

LifeNext ==
    \/ \E d \in Devices : Strand(d) \/ Toggle(d) \/ QtEvent(d)
    \/ \E d \in Devices, s \in Slots : OnEnable(d, s)
    \/ \E c \in Channels : ChannelConnects(c)
    \/ \E p \in BagToSet(packages) : Receives(p)
    \/ LinkBegins \/ LinkEnds

LifeFairness ==
    /\ \A d \in Devices : /\ WF_lifeVars(Strand(d)) /\ WF_lifeVars(QtEvent(d))
                          /\ \A s \in Slots : WF_lifeVars(OnEnable(d, s))
    /\ \A c \in Channels : WF_lifeVars(ChannelConnects(c))
    /\ WF_lifeVars(\E p \in BagToSet(packages) : Receives(p))

LifeSpec == LifeInit /\ [][LifeNext]_lifeVars /\ LifeFairness

-------------------------------------------------------------------------------

(* Once a session is over and everything has run, the module is as before it: shut down, *)
(* without handlers, and no end of a channel is connected, whichever point of enabling or *)
(* disabling the end of the session met.                                                  *)
SessionLeavesNothing ==
    ~linked /\ Quiescent /\ ~late =>
        /\ \A d \in Devices : state[d] = "Uninitialized" /\ ~registered[d] /\ channel[d] = NoChannel
        /\ \A c \in Channels : deskChannel[c] # "connected" /\ phoneChannel[c] # "connected"

(* When requests come one at a time, both modules end up enabled, or neither. *)
BothOrNeither ==
    <>[](~late => /\ \A d \in Devices : state[d] # "Enabling"
                 /\ state["desktop"] = "Enabled" <=> state["phone"] = "Enabled")

================================================================================
