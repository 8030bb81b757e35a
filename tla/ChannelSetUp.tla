------------------------------ MODULE ChannelSetUp ------------------------------
(***************************************************************************)
(* How the two pools of transfer channels come to be connected             *)
(* (TransferChannelPool.cpp, the set-up halves of TransferChannel.cpp, and *)
(* ModulesManager::event, which resets the pools): the desktop asks every  *)
(* second until a port comes, the phone opens a listener per channel and   *)
(* publishes the ports, and each side polls until its channels are         *)
(* connected.  What the channels then carry is TransferChannels.tla.       *)
(*                                                                         *)
(* A device's coroutines are counted by where they are.  s_connectionState *)
(* and m_waitingForConnections are atomics that every one of them reads    *)
(* and stores without a lock.                                              *)
(*                                                                         *)
(* Bounds: MaxSessions sessions, MaxRetries times that enabling the file   *)
(* share calls Connect again, MaxFailures listeners that do not open, two  *)
(* Seeks at their beginning.                                               *)
(***************************************************************************)
EXTENDS Integers, Sequences

CONSTANTS Indices, MaxSessions, MaxRetries, MaxFailures

ASSUME SetUpBounds == MaxSessions \in Nat /\ MaxRetries \in Nat /\ MaxFailures \in Nat

VARIABLES
    up,             \* the primary connection
    told,           \* connection events that a device's Qt thread has yet to handle
    ready,          \* TransferChannelPool::Initialize has run
    poolState,      \* s_connectionState
    waiting,        \* m_waitingForConnections of the desktop
    objects,        \* which m_channels: Reset replaces them all
    ends,           \* of each device, objects and index: the state of the channel
    running,        \* coroutines of a device, counted by where they are
    publishing,     \* the objects whose ports the phone's Seek has yet to publish
    mail,           \* packages on the primary connection
    begun, retries, failed,     \* how many there were (bounds)
    raced           \* ghost: a Reset came after the Seek, a store after what it was decided on,
                    \* or a pool was set up a second time over channels that were connecting

setUpVars == <<up, told, ready, poolState, waiting, objects, ends, running, publishing, mail, begun, retries, failed, raced>>

-------------------------------------------------------------------------------

Sides == {"desktop", "phone"}
Pools == 0 .. 2 * MaxSessions
Places == {"connect", "connectStore", "connectLoop", "seek", "seekStore", "wait", "waitConnected", "waitDropped"}
Unused == [state |-> "DISCONNECTED", peer |-> -1]

SetUpTypeOK ==
    /\ up \in BOOLEAN /\ raced \in BOOLEAN /\ waiting \in BOOLEAN
    /\ told \in [Sides -> {<<>>, <<"connected">>, <<"disconnected">>, <<"connected", "disconnected">>}]
    /\ ready \in [Sides -> BOOLEAN]
    /\ poolState \in [Sides -> {"DISCONNECTED", "CONNECTING", "CONNECTED"}]
    /\ objects \in [Sides -> Pools]
    /\ ends \in [Sides -> [Pools \X Indices ->
                    [state : {"DISCONNECTED", "CONNECTING", "CONNECTED"}, peer : Pools \cup {-1}]]]
    /\ running \in [Sides -> [Places -> Nat]]
    /\ running["desktop"]["wait"] <= 1 /\ running["phone"]["seek"] + running["phone"]["seekStore"] <= 2
    /\ publishing \subseteq Pools
    /\ mail \subseteq {<<"CONNECT">>} \cup ({"PORT_INFO"} \X Indices \X Pools)
    /\ begun \in 0 .. MaxSessions /\ retries \in 0 .. MaxRetries /\ failed \in 0 .. MaxFailures

SetUpInit ==
    /\ up = FALSE /\ told = [d \in Sides |-> <<>>] /\ ready = [d \in Sides |-> FALSE]
    /\ poolState = [d \in Sides |-> "DISCONNECTED"] /\ waiting = FALSE
    /\ objects = [d \in Sides |-> 0]
    /\ ends = [d \in Sides |-> [c \in Pools \X Indices |-> Unused]]
    /\ running = [d \in Sides |-> [p \in Places |-> 0]]
    /\ publishing = {} /\ mail = {} /\ begun = 0 /\ retries = 0 /\ failed = 0 /\ raced = FALSE

-------------------------------------------------------------------------------

Moves(d, from, to) ==       \* a coroutine goes on; it comes from the "pool" of threads and ends there
    running' = [running EXCEPT ![d] = [p \in DOMAIN @ |->
        @[p] - (IF p = from THEN 1 ELSE 0) + (IF p = to THEN 1 ELSE 0)]]
At(d, p) == running[d][p] > 0
Sends(p) == mail' = IF up THEN mail \cup p ELSE mail

AllConnected(d) == \A i \in Indices : ends[d][<<objects[d], i>>].state = "CONNECTED"

-------------------------------------------------------------------------------
(* The primary connection, and what the Qt thread does about it. *)

(* Making a connection takes longer than the set-up of the last one takes to notice its end. *)
AtRest ==
    /\ publishing = {} /\ \A d \in Sides : told[d] = <<>> /\ \A p \in Places : ~At(d, p)
    /\ \A c \in Pools \X Indices : ends["desktop"][c].state # "CONNECTING"

SessionBegins ==
    /\ ~up /\ AtRest /\ begun < MaxSessions
    /\ up' = TRUE /\ begun' = begun + 1
    /\ told' = [d \in Sides |-> Append(told[d], "connected")]
    /\ UNCHANGED <<ready, poolState, waiting, objects, ends, running, mail, retries, failed, raced, publishing>>

SessionEnds ==
    /\ up
    /\ up' = FALSE /\ mail' = {}
    /\ told' = [d \in Sides |-> Append(told[d], "disconnected")]
    /\ UNCHANGED <<ready, poolState, waiting, objects, ends, running, begun, retries, failed, raced, publishing>>

(* Reset: the objects are replaced and the old ones disconnected, those that have not begun *)
(* to connect excepted.                                                                     *)
Reset(d) ==
    /\ poolState' = [poolState EXCEPT ![d] = "DISCONNECTED"]
    /\ waiting' = (waiting /\ d # "desktop")
    /\ objects' = [objects EXCEPT ![d] = @ + 1]
    /\ ends' = [ends EXCEPT ![d] = [c \in DOMAIN @ |->
                    IF c[1] = objects[d] THEN Unused ELSE @[c]]]

(* ModulesManager::event: both kinds of event reset the pool. *)
HandlesEvent(d) ==
    /\ told[d] # <<>>
    /\ told' = [told EXCEPT ![d] = Tail(@)]
    /\ Reset(d)
    /\ ready' = [ready EXCEPT ![d] = @ \/ Head(told[d]) = "connected"]
    /\ IF Head(told[d]) = "connected" /\ d = "desktop" THEN Moves(d, "pool", "connect") ELSE UNCHANGED running
    /\ raced' = \/ raced
                \/ /\ Head(told[d]) = "connected" /\ d = "phone"
                   /\ poolState[d] # "DISCONNECTED" \/ At(d, "seek") \/ At(d, "seekStore")
    /\ UNCHANGED <<up, mail, begun, retries, failed, publishing>>

(* FileShareModule::OnEnable, in a module that is initialized, finds the pool disconnected. *)
EnablesFileShare ==
    /\ up /\ told["desktop"] = <<>> /\ poolState["desktop"] = "DISCONNECTED"
    /\ retries < MaxRetries /\ retries' = retries + 1
    /\ Moves("desktop", "pool", "connect")
    /\ UNCHANGED <<up, told, ready, poolState, waiting, objects, ends, mail, begun, failed, raced, publishing>>

-------------------------------------------------------------------------------
(* TransferChannelPool::Connect, on the desktop.  The state is tested under a lock and *)
(* stored after it.                                                                    *)

Tests(d, from, store) ==
    /\ At(d, from)
    /\ Moves(d, from, IF poolState[d] = "DISCONNECTED" THEN store ELSE "pool")
    /\ UNCHANGED <<up, told, ready, poolState, waiting, objects, ends, mail, begun, retries, failed, raced, publishing>>

StoresConnecting(d, from, to) ==
    /\ At(d, from)
    /\ Moves(d, from, to)
    /\ poolState' = [poolState EXCEPT ![d] = "CONNECTING"]
    /\ raced' = (raced \/ \E i \in Indices : ends[d][<<objects[d], i>>].state # "DISCONNECTED")

ConnectBegins ==
    \/ Tests("desktop", "connect", "connectStore")
    \/ /\ StoresConnecting("desktop", "connectStore", "connectLoop")
       /\ UNCHANGED <<up, told, ready, waiting, objects, ends, mail, begun, retries, failed, publishing>>

(* Variant: the request is sent and waited for once. *)
AsksOnce ==
    /\ At("desktop", "connectLoop")
    /\ Moves("desktop", "connectLoop", "pool")
    /\ IF poolState["desktop"] = "CONNECTING" /\ ~waiting THEN Sends({<<"CONNECT">>}) ELSE UNCHANGED mail
    /\ UNCHANGED <<up, told, ready, poolState, waiting, objects, ends, begun, retries, failed, raced, publishing>>

(* One turn of the loop, a second after the last. *)
Asks ==
    /\ At("desktop", "connectLoop")
    /\ IF poolState["desktop"] # "CONNECTING" \/ ~up \/ waiting
       THEN /\ Moves("desktop", "connectLoop", "pool")
            /\ poolState' = [poolState EXCEPT !["desktop"] = IF @ = "CONNECTING" /\ ~up THEN "DISCONNECTED" ELSE @]
            /\ UNCHANGED mail
       ELSE /\ <<"CONNECT">> \notin mail /\ Sends({<<"CONNECT">>})
            /\ UNCHANGED <<running, poolState>>
    /\ UNCHANGED <<up, told, ready, waiting, objects, ends, begun, retries, failed, raced, publishing>>

(* The 15 seconds are longer than anything the phone still has to do. *)
AskingTimesOut ==
    /\ At("desktop", "connectLoop") /\ poolState["desktop"] = "CONNECTING" /\ up /\ ~waiting
    /\ told["phone"] = <<>> /\ poolState["phone"] # "DISCONNECTED"
    /\ \A p \in {"seek", "seekStore"} : ~At("phone", p)
    /\ publishing = {}
    /\ \A p \in mail : p[1] # "PORT_INFO"
    /\ Moves("desktop", "connectLoop", "pool")
    /\ poolState' = [poolState EXCEPT !["desktop"] = "DISCONNECTED"]
    /\ UNCHANGED <<up, told, ready, waiting, objects, ends, mail, begun, retries, failed, raced, publishing>>

-------------------------------------------------------------------------------
(* TransferChannelPool::Seek and TransferChannel::CoSeek, on the phone. *)

ReceivesConnect ==
    /\ <<"CONNECT">> \in mail /\ running["phone"]["seek"] + running["phone"]["seekStore"] < 2
    /\ mail' = mail \ {<<"CONNECT">>}
    /\ IF ready["phone"] THEN Moves("phone", "pool", "seek") ELSE UNCHANGED running
    /\ UNCHANGED <<up, told, ready, poolState, waiting, objects, ends, begun, retries, failed, raced, publishing>>

(* A channel that seeks again closes its first listener, whose coroutine disconnects it, *)
(* before the second listener is there or after.                                         *)
Sought(end, left) == [end EXCEPT !.state = IF @ = "DISCONNECTED" THEN "CONNECTING" ELSE left]

SeekBegins ==
    \/ Tests("phone", "seek", "seekStore")
    \/ /\ StoresConnecting("phone", "seekStore", "pool")
       /\ publishing' = publishing \cup {objects["phone"]}
       /\ \E left \in {"CONNECTING", "DISCONNECTED"} :
             ends' = [ends EXCEPT !["phone"] = [c \in DOMAIN @ |->
                IF c[1] = objects["phone"] THEN Sought(@[c], left) ELSE @[c]]]
       /\ UNCHANGED <<up, told, ready, waiting, objects, mail, begun, retries, failed>>

(* The flags are awaited one by one and the ports sent; a listener that failed has port 0. *)
Publishes(e) ==
    /\ e \in publishing /\ publishing' = publishing \ {e}
    /\ \/ /\ failed < MaxFailures /\ failed' = failed + 1
          /\ \E i \in Indices : ends' = [ends EXCEPT !["phone"][<<e, i>>].state = "DISCONNECTED"]
          /\ poolState' = [poolState EXCEPT !["phone"] = "DISCONNECTED"]
          /\ raced' = (raced \/ e # objects["phone"])
          /\ UNCHANGED <<mail, running>>
       \/ /\ IF up THEN Moves("phone", "pool", "wait") /\ UNCHANGED poolState
             ELSE poolState' = [poolState EXCEPT !["phone"] = "DISCONNECTED"] /\ UNCHANGED running
          /\ Sends({<<"PORT_INFO", i, e>> : i \in Indices})
          /\ UNCHANGED <<ends, failed, raced>>
    /\ UNCHANGED <<up, told, ready, waiting, objects, begun, retries>>

-------------------------------------------------------------------------------
(* The desktop's handler of a port, and TransferChannel::CoConnect. *)

(* Variant: every port starts a waiter. *)
ReceivesPortAndWaits(i, e) ==
    /\ <<"PORT_INFO", i, e>> \in mail
    /\ mail' = mail \ {<<"PORT_INFO", i, e>>}
    /\ ends' = [ends EXCEPT !["desktop"][<<objects["desktop"], i>>] = [state |-> "CONNECTING", peer |-> e]]
    /\ waiting' = TRUE
    /\ Moves("desktop", "pool", "wait")
    /\ UNCHANGED <<up, told, ready, poolState, objects, begun, retries, failed, raced, publishing>>

ReceivesPort(i, e) ==
    /\ <<"PORT_INFO", i, e>> \in mail
    /\ mail' = mail \ {<<"PORT_INFO", i, e>>}
    /\ IF ~ready["desktop"] THEN UNCHANGED <<ends, waiting, running>>
       ELSE /\ ends' = [ends EXCEPT !["desktop"][<<objects["desktop"], i>>] =
                          IF @.state = "DISCONNECTED" THEN [state |-> "CONNECTING", peer |-> e]
                          ELSE Unused]
            /\ waiting' = TRUE
            /\ IF waiting THEN UNCHANGED running ELSE Moves("desktop", "pool", "wait")
    /\ UNCHANGED <<up, told, ready, poolState, objects, begun, retries, failed, raced, publishing>>

(* Connect and the TLS handshake; an object that was reset meanwhile hears neither. *)
Connects(c) ==
    LET theirs == <<ends["desktop"][c].peer, c[2]>> IN
    /\ ends["desktop"][c].state = "CONNECTING"
    /\ ends' = IF ends["phone"][theirs].state = "CONNECTING"
               THEN [ends EXCEPT !["desktop"][c].state = "CONNECTED",
                                 !["phone"][theirs] = [state |-> "CONNECTED", peer |-> c[1]]]
               ELSE [ends EXCEPT !["desktop"][c] = Unused]
    /\ UNCHANGED <<up, told, ready, poolState, waiting, objects, running, mail, begun, retries, failed, raced, publishing>>

-------------------------------------------------------------------------------
(* WaitForAllChannelsConnected: what it saw and what it stores are two steps. *)

Sees(d, verdict) ==
    /\ At(d, "wait")
    /\ \/ ~up /\ verdict = "waitDropped"
       \/ up /\ AllConnected(d) /\ verdict = "waitConnected"
    /\ Moves(d, "wait", verdict)
    /\ UNCHANGED <<up, told, ready, poolState, waiting, objects, ends, mail, begun, retries, failed, raced, publishing>>

EndsWait(d, from, state) ==
    /\ Moves(d, from, "pool")
    /\ poolState' = [poolState EXCEPT ![d] = state]
    /\ waiting' = (waiting /\ d # "desktop")
    /\ UNCHANGED <<up, told, ready, objects, ends, mail, begun, retries, failed, publishing>>

(* Variant: a channel is enough. *)
StoresConnectedEarly(d) ==
    /\ At(d, "wait") /\ up
    /\ raced' = raced
    /\ EndsWait(d, "wait", "CONNECTED")

StoresConnected(d) ==
    /\ At(d, "waitConnected")
    /\ raced' = (raced \/ ~AllConnected(d) \/ told[d] # <<>>)
    /\ EndsWait(d, "waitConnected", "CONNECTED")

StoresDropped(d) ==
    /\ At(d, "waitDropped")
    /\ raced' = raced
    /\ EndsWait(d, "waitDropped", "DISCONNECTED")

(* Its 15 seconds, too, are longer than what is under way. *)
WaitTimesOut(d) ==
    /\ At(d, "wait") /\ up /\ ~AllConnected(d)
    /\ mail = {} /\ \A x \in Sides : told[x] = <<>>
    /\ \A p \in {"seek", "seekStore"} : ~At("phone", p)
    /\ publishing = {}
    /\ \A c \in Pools \X Indices : ends["desktop"][c].state # "CONNECTING"
    /\ raced' = raced
    /\ EndsWait(d, "wait", "DISCONNECTED")

-------------------------------------------------------------------------------

Waits(d) == Sees(d, "waitConnected") \/ Sees(d, "waitDropped") \/ StoresConnected(d) \/ StoresDropped(d) \/ WaitTimesOut(d)

Steps ==
    \/ SessionBegins \/ SessionEnds \/ EnablesFileShare
    \/ ConnectBegins \/ Asks \/ AskingTimesOut \/ ReceivesConnect \/ SeekBegins
    \/ \E d \in Sides : HandlesEvent(d) \/ Waits(d)
    \/ \E e \in Pools : Publishes(e)
    \/ \E i \in Indices, e \in Pools : ReceivesPort(i, e)
    \/ \E c \in Pools \X Indices : Connects(c)

(* What comes after a race is not explored: no property speaks of it. *)
SetUpNext == ~raced /\ Steps

SetUpFairness ==
    /\ WF_setUpVars(~raced /\ ConnectBegins) /\ WF_setUpVars(~raced /\ Asks)
    /\ WF_setUpVars(~raced /\ AskingTimesOut) /\ WF_setUpVars(~raced /\ ReceivesConnect)
    /\ WF_setUpVars(~raced /\ SeekBegins)
    /\ \A d \in Sides : WF_setUpVars(~raced /\ HandlesEvent(d)) /\ WF_setUpVars(~raced /\ Waits(d))
    /\ WF_setUpVars(~raced /\ \E e \in Pools : Publishes(e))
    /\ WF_setUpVars(~raced /\ \E i \in Indices, e \in Pools : ReceivesPort(i, e))
    /\ WF_setUpVars(~raced /\ \E c \in Pools \X Indices : Connects(c))

SetUpSpec == SetUpInit /\ [][SetUpNext]_setUpVars /\ SetUpFairness

-------------------------------------------------------------------------------

(* A pool that calls itself connected is: each of its channels is connected, and to the *)
(* channel of the same index in the pool that the peer uses now.                        *)
ConnectedPoolsMatch ==
    up /\ ~raced /\ (\A d \in Sides : told[d] = <<>>) =>
        \A d \in Sides, i \in Indices : poolState[d] = "CONNECTED" =>
            LET mine == ends[d][<<objects[d], i>>]
                other == CHOOSE x \in Sides : x # d
            IN  mine.state = "CONNECTED" /\ mine.peer = objects[other]

(* In a session that lasts both pools get connected: a request that came before the phone *)
(* was ready is repeated until it is answered.                                            *)
SetUpSucceeds ==
    <>[](up /\ ~raced => \A d \in Sides : poolState[d] = "CONNECTED")

================================================================================
