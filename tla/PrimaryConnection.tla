--------------------------- MODULE PrimaryConnection ---------------------------
(***************************************************************************)
(* The encrypted session with the peer: PrimaryConnection.cpp and the loop *)
(* of ConnectionManager that takes packages from it.                       *)
(*                                                                         *)
(* Coroutines on m_strand run one at a time and interleave only where they *)
(* suspend, so one action below is the code between two suspensions.       *)
(* CoDisconnect never suspends (CleanupSSLSocket only closes the socket),  *)
(* but it is split into steps because threads outside the strand look at   *)
(* its intermediate states: `strand` says how far it has come and keeps    *)
(* the other coroutines out.  asio::co_spawn dispatches, so a coroutine    *)
(* spawned from the strand runs up to its first suspension within the      *)
(* step that spawns it; Disconnect called from another thread is posted    *)
(* (disconnectPosted).                                                     *)
(*                                                                         *)
(* Off the strand: an application thread in Send (appThread) and the one   *)
(* CoProcessPackages loop (consumer).                                      *)
(*                                                                         *)
(* Abstracted: TCP and TLS are "opens", "is established" or "fails";       *)
(* a package is its size and, as a ghost, the session it belongs to.       *)
(* Bounds: MaxGeneration, MaxPackageOut, MaxPackageIn (guards only).       *)
(***************************************************************************)
EXTENDS Integers, Sequences, FiniteSets, SequencesExt

CONSTANTS
    Modes,                  \* "connect" (CoConnect), "seek" (CoSeek) or both
    Sizes,                  \* sizes of the packages a peer may send
    MAX_PACKAGE_SIZE,
    MAX_INBOUND_QUEUED_BYTES,
    Word,                   \* the counter m_inboundQueuedBytes wraps at Word
    MaxGeneration,          \* bound on m_connectionGeneration
    MaxPackageOut,          \* bound on m_packageOut
    MaxPackageIn            \* bound on m_packageIn

ASSUME ModeAssumption == Modes \subseteq {"connect", "seek"}

ASSUME SizeAssumption ==
    /\ Sizes \subseteq Nat \ {0}
    /\ MAX_PACKAGE_SIZE \in Nat
    /\ MAX_INBOUND_QUEUED_BYTES \in Nat
    /\ Word \in Nat
    /\ MAX_INBOUND_QUEUED_BYTES + 2 * MAX_PACKAGE_SIZE < Word

ASSUME BoundAssumption ==
    /\ MaxGeneration \in Nat
    /\ MaxPackageOut \in Nat
    /\ MaxPackageIn \in Nat

VARIABLES
    connectionState,        \* m_connectionState
    generation,             \* m_connectionGeneration
    disconnectedEventSent,  \* m_disconnectedEventSent
    heartbeatReceived,      \* m_heartbeatReceived
    peerData,               \* the attempt whose device m_peerData names, or None
    socket,                 \* the generation whose socket m_socket is, or None
    sendFlag,               \* m_sendFlag
    receiveFlag,            \* m_receiveFlag
    packageOut,             \* m_packageOut: packages queued, per session they belong to
    packageIn,              \* m_packageIn: [size, session]
    inboundQueuedBytes,     \* m_inboundQueuedBytes
    dialers,                \* suspended CoConnect and CoSeek coroutines
    running,                \* suspended session coroutines: <<role, generation>>
    writing,                \* per generation: the package CoSend is writing, or None
    strand,                 \* "free", or the step the strand is in the middle of
    disconnectPosted,       \* a Disconnect from off the strand waits for it
    appThread,              \* the session in which Send saw CONNECTED, or None
    consumer,               \* where CoProcessPackages is, and what it holds
    attempt,                \* ghost: generation of the newest CoConnect or CoSeek
    events                  \* ghost: the events posted to the application

conn       == <<connectionState, generation, socket>>
told       == <<disconnectedEventSent, attempt, events>>
peer       == <<heartbeatReceived, peerData>>
outbound   == <<sendFlag, packageOut>>
inbound    == <<receiveFlag, packageIn, inboundQueuedBytes>>
coroutines == <<dialers, running, writing>>
offStrand  == <<disconnectPosted, appThread, consumer>>
vars == <<conn, told, peer, outbound, inbound, coroutines, strand, offStrand>>

-------------------------------------------------------------------------------

None == 0                       \* generations start at 1
Generations == 1 .. MaxGeneration
States == {"DISCONNECTED", "CONNECTING", "CONNECTED", "DISCONNECTING"}
Roles  == {"send", "receive", "heartbeat", "monitor"}
Stages == {"opening", "handshake", "failed"}
Idle   == [at |-> "wait", size |-> 0]

Post(what) == events' = Append(events, [about |-> attempt, says |-> what])

Free == strand = "free"
IsCurrentByState(g) == connectionState = "CONNECTED"    \* variant: no generation check
IsCurrent(g) == connectionState = "CONNECTED" /\ g = generation

TypeOK ==
    /\ connectionState \in States
    /\ generation \in Nat /\ attempt \in Nat
    /\ disconnectedEventSent \in BOOLEAN
    /\ heartbeatReceived \in BOOLEAN
    /\ peerData \in Nat /\ socket \in Nat
    /\ sendFlag \in BOOLEAN /\ receiveFlag \in BOOLEAN
    /\ packageOut \in [Generations -> Nat]
    /\ packageIn \in Seq([size : Sizes, session : Nat])
    /\ inboundQueuedBytes \in 0 .. Word - 1
    /\ dialers \subseteq [generation : Nat, mode : Modes, stage : Stages]
    /\ running \subseteq Roles \X Nat
    /\ writing \in [Generations -> Nat]
    /\ strand \in {"free", "seekTail", "clearOut", "clearIn", "resetBytes", "finish", "report"}
    /\ disconnectPosted \in BOOLEAN
    /\ appThread \in Nat
    /\ consumer \in [at : {"wait", "drain", "settle"}, size : Sizes \cup {0}]
    /\ events \in Seq([about : Nat, says : {"SUCCESS", "FAILURE", "DISCONNECTED"}])

Init ==
    /\ connectionState = "DISCONNECTED"
    /\ generation = 0 /\ attempt = 0
    /\ disconnectedEventSent = FALSE /\ heartbeatReceived = FALSE
    /\ peerData = None /\ socket = None
    /\ sendFlag = FALSE /\ receiveFlag = FALSE
    /\ packageOut = [g \in Generations |-> 0] /\ packageIn = <<>> /\ inboundQueuedBytes = 0
    /\ dialers = {} /\ running = {}
    /\ writing = [g \in Generations |-> None]
    /\ strand = "free" /\ disconnectPosted = FALSE
    /\ appThread = None /\ consumer = Idle
    /\ events = <<>>

-------------------------------------------------------------------------------
(* CoDisconnect *)

(* Variant: without the early return. *)
CoDisconnectAgain ==
    /\ connectionState' = "DISCONNECTING" /\ generation' = generation + 1
    /\ sendFlag' = TRUE /\ receiveFlag' = TRUE
    /\ socket' = None
    /\ strand' = "clearOut"
    /\ UNCHANGED <<told, peer, packageOut, packageIn>>

(* CoDisconnect as far as the closed socket.  The early return makes a second *)
(* Disconnect of the same session harmless.                                   *)
CoDisconnect ==
    /\ IF connectionState \in {"DISCONNECTED", "DISCONNECTING"}
       THEN UNCHANGED <<conn, sendFlag, receiveFlag, strand>>
       ELSE /\ connectionState' = "DISCONNECTING" /\ generation' = generation + 1
            /\ sendFlag' = TRUE /\ receiveFlag' = TRUE
            /\ socket' = None
            /\ strand' = "clearOut"
    /\ UNCHANGED <<told, peer, packageOut, packageIn>>

(* ClearQueuedPackages, first loop. *)
ClearOutbound ==
    /\ strand = "clearOut" /\ strand' = "clearIn"
    /\ packageOut' = [s \in Generations |-> 0]
    /\ UNCHANGED <<conn, told, peer, sendFlag, inbound, coroutines, offStrand>>

(* ClearQueuedPackages, second loop, one package at a time: the consumer may *)
(* take packages from the same queue meanwhile.                              *)
ClearInbound ==
    /\ strand = "clearIn"
    /\ IF packageIn = <<>>
       THEN strand' = "resetBytes" /\ UNCHANGED packageIn
       ELSE packageIn' = Tail(packageIn) /\ UNCHANGED strand
    /\ UNCHANGED <<conn, told, peer, outbound, receiveFlag, inboundQueuedBytes,
                   coroutines, offStrand>>

(* m_inboundQueuedBytes.store(0). *)
ResetInboundBytes ==
    /\ strand = "resetBytes" /\ strand' = "finish"
    /\ inboundQueuedBytes' = 0
    /\ UNCHANGED <<conn, told, peer, outbound, receiveFlag, packageIn, coroutines, offStrand>>

FailedDialers == {d \in dialers : d.stage = "failed"}

(* The end of CoDisconnect.  If it was called from the catch of CoConnect or *)
(* CoSeek, control goes back there.                                          *)
FinishDisconnect ==
    /\ strand = "finish"
    /\ strand' = IF FailedDialers = {} THEN "free" ELSE "report"
    /\ connectionState' = "DISCONNECTED"
    /\ heartbeatReceived' = FALSE /\ peerData' = None
    /\ disconnectedEventSent' = TRUE
    /\ IF disconnectedEventSent THEN UNCHANGED events ELSE Post("DISCONNECTED")
    /\ UNCHANGED <<generation, attempt, socket, outbound, inbound, coroutines, offStrand>>

ReportFailure ==
    /\ strand = "report" /\ strand' = "free"
    /\ dialers' = dialers \ FailedDialers
    /\ Post("FAILURE")
    /\ UNCHANGED <<conn, disconnectedEventSent, attempt, peer, outbound, inbound,
                   running, writing, offStrand>>

(* Disconnect called from any other thread: the window, a module, or the *)
(* package loop when a package does not parse.                           *)
PostDisconnect ==
    /\ ~disconnectPosted /\ disconnectPosted' = TRUE
    /\ UNCHANGED <<conn, told, peer, outbound, inbound, coroutines, strand,
                   appThread, consumer>>

PostedDisconnect ==
    /\ Free /\ disconnectPosted /\ disconnectPosted' = FALSE
    /\ CoDisconnect
    /\ UNCHANGED <<inboundQueuedBytes, coroutines, appThread, consumer>>
-------------------------------------------------------------------------------
(* CoConnect and CoSeek *)

(* Up to the first suspension: the socket of whatever was there is closed and *)
(* a new one is opened.  Nothing is reported about a session this supersedes. *)
StartAttempt(mode) ==
    /\ Free /\ generation + 1 < MaxGeneration
    /\ generation' = generation + 1 /\ attempt' = generation + 1
    /\ disconnectedEventSent' = FALSE
    /\ connectionState' = "CONNECTING"
    /\ socket' = generation + 1
    /\ dialers' = dialers \cup
                  {[generation |-> generation + 1, mode |-> mode, stage |-> "opening"]}
    /\ UNCHANGED <<events, peer, outbound, inbound, running, writing, strand, offStrand>>

(* async_connect or async_accept completed. *)
SocketOpened(d) ==
    /\ Free /\ d.stage = "opening" /\ socket = d.generation
    /\ dialers' = (dialers \ {d}) \cup {[d EXCEPT !.stage = "handshake"]}
    /\ UNCHANGED <<conn, told, peer, outbound, inbound, running, writing, strand, offStrand>>

(* Variant: queued without waking CoSend. *)
SendHeartbeatUnsignalled(g) ==
    /\ packageOut' = [packageOut EXCEPT ![g] = IF @ < MaxPackageOut THEN @ + 1 ELSE @]
    /\ UNCHANGED sendFlag

(* Send(HEARTBEAT) from the strand; beyond MaxPackageOut only the signal counts. *)
SendHeartbeat(g) ==
    /\ packageOut' = [packageOut EXCEPT ![g] = IF @ < MaxPackageOut THEN @ + 1 ELSE @]
    /\ sendFlag' = TRUE

(* The handshake completed and the fingerprint was accepted: the session's *)
(* coroutines start.  CoSeek names the peer only after the event.          *)
Establish(d) ==
    /\ Free /\ d.stage = "handshake" /\ d.generation = generation
    /\ dialers' = dialers \ {d}
    /\ connectionState' = "CONNECTED"
    /\ heartbeatReceived' = FALSE
    /\ running' = running \cup (Roles \X {generation})
    /\ SendHeartbeat(generation)
    /\ Post("SUCCESS")
    /\ IF d.mode = "connect"
       THEN peerData' = attempt /\ UNCHANGED strand
       ELSE strand' = "seekTail" /\ UNCHANGED peerData
    /\ UNCHANGED <<generation, attempt, disconnectedEventSent, socket, inbound,
                   writing, offStrand>>

(* Variant: CoSeek forgets m_peerData. *)
NamePeerForgotten ==
    /\ strand = "seekTail" /\ strand' = "free"
    /\ UNCHANGED <<conn, told, peer, outbound, inbound, coroutines, offStrand>>

NamePeer ==
    /\ strand = "seekTail" /\ strand' = "free"
    /\ peerData' = attempt
    /\ UNCHANGED <<conn, told, heartbeatReceived, outbound, inbound, coroutines, offStrand>>

(* The socket failed, or the peer's fingerprint is not the paired one. *)
AttemptFails(d) ==
    /\ Free /\ d.generation = generation
    /\ dialers' = (dialers \ {d}) \cup {[d EXCEPT !.stage = "failed"]}
    /\ CoDisconnect
    /\ UNCHANGED <<inboundQueuedBytes, running, writing, offStrand>>

(* A superseded attempt wakes, sees the generation and returns. *)
AttemptEnds(d) ==
    /\ Free /\ d.generation # generation
    /\ dialers' = dialers \ {d}
    /\ UNCHANGED <<conn, told, peer, outbound, inbound, running, writing, strand, offStrand>>
-------------------------------------------------------------------------------
(* CoSend and Send *)

(* The inner loop of CoSend: stop, wait again, or write another package. *)
(* The queue keeps no order between the threads that fill it.            *)
TakeNext(g) ==
    \/ /\ ~IsCurrent(g)
       /\ running' = running \ {<<"send", g>>}
       /\ writing' = [writing EXCEPT ![g] = None]
       /\ UNCHANGED packageOut
    \/ /\ IsCurrent(g) /\ \A s \in Generations : packageOut[s] = 0
       /\ writing' = [writing EXCEPT ![g] = None]
       /\ UNCHANGED <<running, packageOut>>
    \/ /\ IsCurrent(g)
       /\ \E s \in Generations :
            /\ packageOut[s] > 0
            /\ packageOut' = [packageOut EXCEPT ![s] = @ - 1]
            /\ writing' = [writing EXCEPT ![g] = s]
       /\ UNCHANGED running

(* m_sendFlag.Wait() returns: whoever consumes the signal, it is gone. *)
CoSendWakes(g) ==
    /\ Free /\ <<"send", g>> \in running /\ writing[g] = None
    /\ sendFlag /\ sendFlag' = FALSE
    /\ TakeNext(g)
    /\ UNCHANGED <<conn, told, peer, inbound, dialers, strand, offStrand>>

CoSendWritten(g) ==
    /\ Free /\ writing[g] # None
    /\ TakeNext(g)
    /\ UNCHANGED <<conn, told, peer, sendFlag, inbound, dialers, strand, offStrand>>

(* The write failed; only the current session's failure disconnects. *)
CoSendFails(g) ==
    /\ Free /\ writing[g] # None
    /\ running' = running \ {<<"send", g>>}
    /\ writing' = [writing EXCEPT ![g] = None]
    /\ IF g = generation
       THEN CoDisconnect
       ELSE UNCHANGED <<conn, told, peer, outbound, receiveFlag, packageIn, strand>>
    /\ UNCHANGED <<inboundQueuedBytes, dialers, offStrand>>

(* Send on an application thread: the state is checked, and the package is *)
(* queued some time later.                                                 *)
SendChecks ==
    /\ appThread = None /\ connectionState = "CONNECTED"
    /\ appThread' = generation
    /\ UNCHANGED <<conn, told, peer, outbound, inbound, coroutines, strand,
                   disconnectPosted, consumer>>

SendEnqueues ==
    /\ appThread # None /\ packageOut[appThread] < MaxPackageOut
    /\ packageOut' = [packageOut EXCEPT ![appThread] = @ + 1]
    /\ sendFlag' = TRUE
    /\ appThread' = None
    /\ UNCHANGED <<conn, told, peer, inbound, coroutines, strand, disconnectPosted, consumer>>
-------------------------------------------------------------------------------
(* CoReceive *)

(* The coroutines that outlive their session notice it and return. *)
CoroutineEnds(role, g) ==
    /\ Free /\ <<role, g>> \in running /\ ~IsCurrent(g)
    /\ role # "send"
    /\ running' = running \ {<<role, g>>}
    /\ UNCHANGED <<conn, told, peer, outbound, inbound, dialers, writing, strand, offStrand>>

Receives(g) == Free /\ <<"receive", g>> \in running /\ IsCurrent(g)

CoReceiveHeartbeat(g) ==
    /\ Receives(g)
    /\ heartbeatReceived' = TRUE
    /\ UNCHANGED <<conn, told, peerData, outbound, inbound, coroutines, strand, offStrand>>

(* Variant: the limit is compared before the package is counted. *)
CoReceiveEnqueuesFirst(g, size) ==
    /\ Receives(g) /\ size <= MAX_PACKAGE_SIZE /\ Len(packageIn) < MaxPackageIn
    /\ inboundQueuedBytes <= MAX_INBOUND_QUEUED_BYTES
    /\ inboundQueuedBytes' = (inboundQueuedBytes + size) % Word
    /\ packageIn' = Append(packageIn, [size |-> size, session |-> g])
    /\ receiveFlag' = TRUE
    /\ UNCHANGED <<conn, told, peer, outbound, coroutines, strand, offStrand>>

CoReceiveEnqueues(g, size) ==
    /\ Receives(g) /\ size <= MAX_PACKAGE_SIZE /\ Len(packageIn) < MaxPackageIn
    /\ inboundQueuedBytes' = (inboundQueuedBytes + size) % Word
    /\ inboundQueuedBytes' <= MAX_INBOUND_QUEUED_BYTES
    /\ packageIn' = Append(packageIn, [size |-> size, session |-> g])
    /\ receiveFlag' = TRUE
    /\ UNCHANGED <<conn, told, peer, outbound, coroutines, strand, offStrand>>

(* The package is dropped and the session with it. *)
CoReceiveOverLimit(g, size) ==
    /\ Receives(g) /\ size <= MAX_PACKAGE_SIZE
    /\ inboundQueuedBytes' = (inboundQueuedBytes + size) % Word
    /\ inboundQueuedBytes' > MAX_INBOUND_QUEUED_BYTES
    /\ running' = running \ {<<"receive", g>>}
    /\ CoDisconnect
    /\ UNCHANGED <<dialers, writing, offStrand>>

(* Variant: CoReceive ends on an error and leaves the session up. *)
CoReceiveFailsQuietly(g) ==
    /\ Receives(g)
    /\ running' = running \ {<<"receive", g>>}
    /\ UNCHANGED <<conn, told, peer, outbound, inbound, dialers, writing, strand, offStrand>>

(* A header over MAX_PACKAGE_SIZE, or a read error, of the current session. *)
CoReceiveFails(g) ==
    /\ Receives(g)
    /\ running' = running \ {<<"receive", g>>}
    /\ CoDisconnect
    /\ UNCHANGED <<inboundQueuedBytes, dialers, writing, offStrand>>
-------------------------------------------------------------------------------
(* CoSendHeartbeat and CoHeartbeatMonitor: their timers may fire at any time *)

HeartbeatDue(g) ==
    /\ Free /\ <<"heartbeat", g>> \in running /\ IsCurrent(g)
    /\ SendHeartbeat(g)
    /\ UNCHANGED <<conn, told, peer, inbound, coroutines, strand, offStrand>>

MonitorChecks(g) ==
    /\ Free /\ <<"monitor", g>> \in running /\ IsCurrent(g)
    /\ heartbeatReceived /\ heartbeatReceived' = FALSE
    /\ UNCHANGED <<conn, told, peerData, outbound, inbound, coroutines, strand, offStrand>>

(* Variant: the monitor only warns. *)
MonitorOnlyWarns(g) ==
    /\ Free /\ <<"monitor", g>> \in running /\ IsCurrent(g)
    /\ ~heartbeatReceived
    /\ running' = running \ {<<"monitor", g>>}
    /\ UNCHANGED <<conn, told, peer, outbound, inbound, dialers, writing, strand, offStrand>>

MonitorTimesOut(g) ==
    /\ Free /\ <<"monitor", g>> \in running /\ IsCurrent(g)
    /\ ~heartbeatReceived
    /\ running' = running \ {<<"monitor", g>>}
    /\ CoDisconnect
    /\ UNCHANGED <<inboundQueuedBytes, dialers, writing, offStrand>>
-------------------------------------------------------------------------------
(* CoProcessPackages and GetPackage, on a thread of the pool *)

OnConsumer == UNCHANGED <<conn, told, peer, outbound, coroutines, strand, appThread>>

ConsumerWakes ==
    /\ consumer.at = "wait" /\ receiveFlag /\ receiveFlag' = FALSE
    /\ consumer' = [at |-> "drain", size |-> 0]
    /\ OnConsumer /\ UNCHANGED <<packageIn, inboundQueuedBytes, disconnectPosted>>

ConsumerRests ==
    /\ consumer.at = "drain" /\ packageIn = <<>>
    /\ consumer' = Idle
    /\ OnConsumer /\ UNCHANGED <<inbound, disconnectPosted>>

(* Packages of one session come out in order, those of two in either. *)
OldestOfItsSession(i) ==
    \A j \in 1 .. i - 1 : packageIn[j].session # packageIn[i].session

GetPackageDequeues ==
    /\ consumer.at = "drain"
    /\ \E i \in 1 .. Len(packageIn) :
         /\ OldestOfItsSession(i)
         /\ packageIn' = RemoveAt(packageIn, i)
         /\ consumer' = [at |-> "settle", size |-> packageIn[i].size]
    /\ OnConsumer /\ UNCHANGED <<receiveFlag, inboundQueuedBytes, disconnectPosted>>

UncheckedMinus(bytes, size) == bytes - size         \* variant: a signed counter
Minus(bytes, size) == (bytes - size) % Word         \* uint64_t arithmetic

(* The bytes are subtracted after the dequeue, and the package is handed to  *)
(* its handler; one that does not parse throws, and the loop asks for a      *)
(* disconnect of whatever is connected by then.                              *)
GetPackageSettles ==
    /\ consumer.at = "settle"
    /\ inboundQueuedBytes' = Minus(inboundQueuedBytes, consumer.size)
    /\ \/ consumer' = [at |-> "drain", size |-> 0] /\ UNCHANGED disconnectPosted
       \/ consumer' = Idle /\ disconnectPosted' = TRUE
    /\ OnConsumer /\ UNCHANGED <<receiveFlag, packageIn>>
-------------------------------------------------------------------------------

Disconnecting ==
    \/ ClearOutbound \/ ClearInbound \/ ResetInboundBytes
    \/ FinishDisconnect \/ ReportFailure \/ PostedDisconnect

Dialing ==
    \/ \E mode \in Modes : StartAttempt(mode)
    \/ NamePeer
    \/ \E d \in dialers :
         SocketOpened(d) \/ Establish(d) \/ AttemptFails(d) \/ AttemptEnds(d)

Session(g) ==
    \/ CoSendWakes(g) \/ CoSendWritten(g) \/ CoSendFails(g)
    \/ CoReceiveHeartbeat(g) \/ CoReceiveFails(g)
    \/ \E size \in Sizes : CoReceiveEnqueues(g, size) \/ CoReceiveOverLimit(g, size)
    \/ HeartbeatDue(g) \/ MonitorChecks(g) \/ MonitorTimesOut(g)
    \/ \E role \in Roles : CoroutineEnds(role, g)

OffStrand ==
    \/ PostDisconnect \/ SendChecks \/ SendEnqueues
    \/ ConsumerWakes \/ ConsumerRests \/ GetPackageDequeues \/ GetPackageSettles

Next ==
    \/ Disconnecting
    \/ Dialing
    \/ \E g \in Generations : Session(g)
    \/ OffStrand

Spec == Init /\ [][Next]_vars

(* The thread pool runs every posted handler, timers fire, and an operation *)
(* on a socket completes or fails; a peer need not say anything.            *)
Fairness ==
    /\ WF_vars(Disconnecting)
    /\ WF_vars(NamePeer)
    /\ WF_vars(\E d \in dialers : AttemptEnds(d))
    /\ \A g \in Generations :
         /\ WF_vars(CoSendWakes(g))
         /\ WF_vars(CoSendWritten(g) \/ CoSendFails(g))
         /\ WF_vars(HeartbeatDue(g))
         /\ WF_vars(MonitorChecks(g) \/ MonitorTimesOut(g))
         /\ WF_vars(\E role \in Roles : CoroutineEnds(role, g))
    /\ WF_vars(ConsumerWakes \/ ConsumerRests \/ GetPackageDequeues \/ GetPackageSettles)

FairSpec == Spec /\ Fairness
-------------------------------------------------------------------------------
(* Properties *)

(* The engine of the connection is never missing a part: a session that      *)
(* reports CONNECTED owns the socket and has all four of its coroutines, and *)
(* one that reports CONNECTING has a coroutine still working on it.          *)
SomeoneDrives ==
    /\ connectionState = "CONNECTED" =>
         /\ socket = generation /\ attempt = generation
         /\ Roles \X {generation} \subseteq running
    /\ connectionState = "CONNECTING" =>
         /\ socket = generation
         /\ \E d \in dialers : d.generation = generation /\ d.stage # "failed"
    /\ connectionState \in {"DISCONNECTED", "DISCONNECTING"} => socket = None

(* Whenever the strand is at rest, m_peerData names the connected peer and   *)
(* nobody once disconnected.                                                 *)
PeerIsTheSessions ==
    Free => /\ connectionState = "CONNECTED" => peerData = attempt
            /\ connectionState = "DISCONNECTED" => peerData = None

(* The bytes of a queue, each with the place of its package, and their number. *)
BytesOf(s) == UNION {{i} \X (1 .. s[i].size) : i \in DOMAIN s}
SumOfSizes(s) == Cardinality(BytesOf(s))

(* However the consumer races ClearQueuedPackages, the queued packages never *)
(* hold more than the limit and one package.                                 *)
InboundIsBounded ==
    SumOfSizes(packageIn) <= MAX_INBOUND_QUEUED_BYTES + MAX_PACKAGE_SIZE

(* The events the application gets are those ConnectionContract allows. *)
ContractPhase ==
    CASE connectionState = "CONNECTING" -> "trying"
      [] connectionState = "CONNECTED" -> "up"
      [] connectionState = "DISCONNECTING" ->
            IF FailedDialers = {} THEN "ending" ELSE "failing"
      [] OTHER -> IF strand = "report" THEN "failed" ELSE "idle"

Contract == INSTANCE ConnectionContract
                WITH phase <- ContractPhase, attempt <- attempt, reports <- events

EventContract == Contract!Init /\ [][Contract!Next]_(Contract!contractVars)

(* No package is forgotten in m_packageOut: even when a coroutine of an old  *)
(* session swallows the signal, the connected session writes or ends.        *)
QueuedIsWritten ==
    (connectionState = "CONNECTED" /\ \E s \in Generations : packageOut[s] > 0)
        ~> (connectionState # "CONNECTED" \/ writing[generation] # None)

(* A peer that goes silent for good does not keep the connection up. *)
SilenceEndsTheSession ==
    <>[](~heartbeatReceived) => []<>(connectionState # "CONNECTED")

(* Readers and timers of an abandoned session do not live on. *)
AbandonedCoroutinesEnd ==
    \A g \in Generations :
        (g # generation /\ \E role \in Roles \ {"send"} : <<role, g>> \in running)
            ~> (\A role \in Roles \ {"send"} : <<role, g>> \notin running)

(* "Queued packages size over the limit" is what CoReceive reports before it *)
(* drops the session: then the queue, with the package being taken out and   *)
(* the one that came in, is over the limit.                                  *)
OverLimitIsReal ==
    [][\A g \in Generations, size \in Sizes :
         CoReceiveOverLimit(g, size) =>
            SumOfSizes(packageIn) + consumer.size + size > MAX_INBOUND_QUEUED_BYTES]_vars
===============================================================================
