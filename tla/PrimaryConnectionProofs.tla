------------------------ MODULE PrimaryConnectionProofs ------------------------
(***************************************************************************)
(* Theorems about PrimaryConnection for every value of its constants: the  *)
(* type invariant, SomeoneDrives, PeerIsTheSessions, the bound             *)
(* InboundIsBounded on the package queue, and that the event stream        *)
(* implements ConnectionContract.                                          *)
(***************************************************************************)
EXTENDS PrimaryConnection, SequenceTheorems, FunctionTheorems, FiniteSetTheorems, TLAPS

Closing == {"clearOut", "clearIn", "resetBytes", "finish"}

(* Where the strand is agrees with the state it has published. *)
StrandMatchesState ==
    /\ strand \in Closing <=> connectionState = "DISCONNECTING"
    /\ strand = "report" => connectionState = "DISCONNECTED" /\ peerData = None
    /\ strand = "seekTail" => connectionState = "CONNECTED"

(* Generations only ever come from m_connectionGeneration. *)
GenerationsInOrder ==
    /\ attempt <= generation /\ generation <= MaxGeneration
    /\ connectionState \in {"CONNECTING", "CONNECTED"} =>
         generation = attempt /\ generation \in 1 .. MaxGeneration - 1
    /\ appThread <= generation
    /\ \A d \in dialers : d.generation \in 1 .. generation
    /\ \A w \in running : w[2] \in 1 .. generation
    /\ \A g \in Generations : writing[g] # None => g <= generation

(* One dialing coroutine per attempt, and only while CONNECTING one that is  *)
(* not superseded; one whose attempt failed is inside the disconnect it      *)
(* called.                                                                   *)
DialersInOrder ==
    /\ connectionState # "CONNECTING" => \A d \in dialers : d.generation # generation
    /\ \A d, e \in dialers : d.generation = e.generation => d = e
    /\ FailedDialers # {} => strand \in Closing \cup {"report"}
    /\ strand = "report" => FailedDialers # {}

EventPending ==
    connectionState # "DISCONNECTED" => ~disconnectedEventSent

IInv ==
    /\ TypeOK
    /\ StrandMatchesState
    /\ GenerationsInOrder
    /\ DialersInOrder
    /\ EventPending
    /\ SomeoneDrives
    /\ PeerIsTheSessions

LEMMA InitType == Init => TypeOK
  <1> SUFFICES ASSUME Init PROVE TypeOK
    OBVIOUS
  <1>1. 0 \in 0 .. Word - 1
    BY SizeAssumption, SMT
  <1>2. consumer \in [at : {"wait", "drain", "settle"}, size : Sizes \cup {0}]
    BY DEF Init, Idle
  <1>3. packageIn \in Seq([size : Sizes, session : Nat])
    BY EmptySeq DEF Init
  <1>4. events \in Seq([about : Nat, says : {"SUCCESS", "FAILURE", "DISCONNECTED"}])
    BY EmptySeq DEF Init
  <1>5. /\ writing \in [Generations -> Nat]
        /\ packageOut \in [Generations -> Nat]
    BY DEF Init, None
  <1>6. /\ dialers \subseteq [generation : Nat, mode : Modes, stage : Stages]
        /\ running \subseteq Roles \X Nat
    BY DEF Init
  <1>7. QED
    BY <1>1, <1>2, <1>3, <1>4, <1>5, <1>6 DEF Init, TypeOK, None, Idle, States, Generations

(* What CoDisconnect leaves behind has its type. *)
LEMMA CoDisconnectType ==
  ASSUME TypeOK, CoDisconnect
  PROVE  /\ connectionState' \in States
         /\ generation' \in Nat /\ socket' \in Nat
         /\ attempt' \in Nat /\ disconnectedEventSent' \in BOOLEAN
         /\ heartbeatReceived' \in BOOLEAN /\ peerData' \in Nat
         /\ sendFlag' \in BOOLEAN /\ receiveFlag' \in BOOLEAN
         /\ packageOut' = packageOut /\ packageIn' = packageIn /\ events' = events
         /\ strand' \in {"free", "seekTail", "clearOut", "clearIn", "resetBytes",
                          "finish", "report"}
  <1>1. /\ disconnectedEventSent' = disconnectedEventSent /\ attempt' = attempt
        /\ events' = events
        /\ heartbeatReceived' = heartbeatReceived /\ peerData' = peerData
        /\ packageOut' = packageOut /\ packageIn' = packageIn
    BY DEF CoDisconnect, told, peer
  <1>2. CASE connectionState \in {"DISCONNECTED", "DISCONNECTING"}
    <2>1. /\ connectionState' = connectionState /\ generation' = generation
          /\ socket' = socket
          /\ sendFlag' = sendFlag /\ receiveFlag' = receiveFlag /\ strand' = strand
      BY <1>2 DEF CoDisconnect, conn
    <2>2. QED
      BY <1>1, <2>1 DEF TypeOK
  <1>3. CASE connectionState \notin {"DISCONNECTED", "DISCONNECTING"}
    <2>1. /\ connectionState' = "DISCONNECTING" /\ generation' = generation + 1
          /\ socket' = 0
          /\ sendFlag' = TRUE /\ receiveFlag' = TRUE /\ strand' = "clearOut"
      BY <1>3 DEF CoDisconnect, None
    <2>2. QED
      BY <1>1, <2>1 DEF TypeOK, States
  <1>4. QED
    BY <1>2, <1>3

(* A package more or a package less keeps m_packageOut typed. *)
LEMMA PackageOutType ==
  ASSUME TypeOK, NEW g \in Generations, NEW n \in Nat,
         packageOut' = [packageOut EXCEPT ![g] = n]
  PROVE  packageOut' \in [Generations -> Nat]
  BY DEF TypeOK

LEMMA SendHeartbeatType ==
  ASSUME TypeOK, NEW g \in Generations, SendHeartbeat(g)
  PROVE  packageOut' \in [Generations -> Nat] /\ sendFlag' \in BOOLEAN
  BY DEF TypeOK, SendHeartbeat

LEMMA TakeNextType ==
  ASSUME TypeOK, NEW g \in Generations, TakeNext(g)
  PROVE  /\ packageOut' \in [Generations -> Nat]
         /\ running' \subseteq Roles \X Nat
         /\ writing' \in [Generations -> Nat]
  <1>1. CASE /\ ~IsCurrent(g)
             /\ running' = running \ {<<"send", g>>}
             /\ writing' = [writing EXCEPT ![g] = None]
             /\ UNCHANGED packageOut
    BY <1>1 DEF TypeOK, None
  <1>2. CASE /\ IsCurrent(g) /\ \A s \in Generations : packageOut[s] = 0
             /\ writing' = [writing EXCEPT ![g] = None]
             /\ UNCHANGED <<running, packageOut>>
    BY <1>2 DEF TypeOK, None
  <1>3. CASE /\ IsCurrent(g)
             /\ \E s \in Generations :
                  /\ packageOut[s] > 0
                  /\ packageOut' = [packageOut EXCEPT ![s] = @ - 1]
                  /\ writing' = [writing EXCEPT ![g] = s]
             /\ UNCHANGED running
    <2>1. PICK s \in Generations :
            /\ packageOut[s] > 0
            /\ packageOut' = [packageOut EXCEPT ![s] = @ - 1]
            /\ writing' = [writing EXCEPT ![g] = s]
      BY <1>3
    <2>2. packageOut[s] - 1 \in Nat /\ s \in Nat
      BY <2>1, BoundAssumption DEF TypeOK, Generations
    <2>3. packageOut' \in [Generations -> Nat]
      BY <2>1, <2>2 DEF TypeOK
    <2>4. writing' \in [Generations -> Nat]
      BY <2>1, <2>2 DEF TypeOK
    <2>5. QED
      BY <1>3, <2>3, <2>4 DEF TypeOK
  <1>4. QED
    BY <1>1, <1>2, <1>3 DEF TakeNext

(* The byte counter wraps at Word whatever is added or subtracted. *)
LEMMA InboundBytesType ==
  ASSUME NEW n \in Int
  PROVE  n % Word \in 0 .. Word - 1
  BY SizeAssumption

LEMMA SettledBytesType ==
  ASSUME TypeOK
  PROVE  Minus(inboundQueuedBytes, consumer.size) \in 0 .. Word - 1
  <1>1. inboundQueuedBytes \in Int
    BY SizeAssumption DEF TypeOK
  <1>2. consumer.size \in Sizes \cup {0}
    BY DEF TypeOK
  <1>3. \A n \in Sizes \cup {0} : n \in Int
    BY SizeAssumption
  <1>4. QED
    BY <1>1, <1>2, <1>3, InboundBytesType DEF Minus

LEMMA EventsType ==
  ASSUME TypeOK, NEW what \in {"SUCCESS", "FAILURE", "DISCONNECTED"}, Post(what)
  PROVE  events' \in Seq([about : Nat, says : {"SUCCESS", "FAILURE", "DISCONNECTED"}])
  BY AppendProperties DEF TypeOK, Post

(* RemoveAt drops one element and keeps the order of the others. *)
LEMMA RemoveAtProperties ==
  ASSUME NEW S, NEW s \in Seq(S), NEW i \in 1 .. Len(s)
  PROVE  RemoveAt(s, i) \in Seq(S) /\ Len(RemoveAt(s, i)) = Len(s) - 1
  <1>1. Len(s) \in Nat /\ \A k \in 1 .. Len(s) : s[k] \in S
    BY LenProperties, ElementOfSeq
  <1> DEFINE front == SubSeq(s, 1, i - 1)
             back  == SubSeq(s, i + 1, Len(s))
  <1>2. front \in Seq(S) /\ Len(front) = i - 1
    <2>1. i - 1 \in Int /\ \A k \in 1 .. i - 1 : s[k] \in S
      BY <1>1
    <2>2. front \in Seq(S) /\ Len(front) = IF 1 <= i - 1 THEN (i - 1) - 1 + 1 ELSE 0
      BY <2>1, SubSeqProperties
    <2>3. QED
      BY <2>2
  <1>3. back \in Seq(S) /\ Len(back) = Len(s) - i
    <2>1. i + 1 \in Int /\ \A k \in i + 1 .. Len(s) : s[k] \in S
      BY <1>1
    <2>2. back \in Seq(S)
          /\ Len(back) = IF i + 1 <= Len(s) THEN Len(s) - (i + 1) + 1 ELSE 0
      BY <1>1, <2>1, SubSeqProperties
    <2>3. QED
      BY <1>1, <2>2
  <1>4. RemoveAt(s, i) = front \o back
    BY DEF RemoveAt
  <1> HIDE DEF front, back
  <1>5. front \o back \in Seq(S) /\ Len(front \o back) = Len(front) + Len(back)
    BY <1>2, <1>3, ConcatProperties
  <1>6. QED
    BY <1>1, <1>2, <1>3, <1>4, <1>5

LEMMA TypeStep == IInv /\ [Next]_vars => TypeOK'
  <1> SUFFICES ASSUME IInv, [Next]_vars PROVE TypeOK'
    OBVIOUS
  <1> USE DEF IInv, TypeOK, None, Free, IsCurrent, Generations, States, Roles, Stages,
              conn, told, peer, outbound, inbound, coroutines, offStrand
  <1>1. ASSUME ClearOutbound PROVE TypeOK'
    BY <1>1 DEF ClearOutbound
  <1>2. ASSUME ClearInbound PROVE TypeOK'
    <2>1. packageIn' \in Seq([size : Sizes, session : Nat])
      <3>1. CASE packageIn = <<>>
        BY <1>2, <3>1 DEF ClearInbound
      <3>2. CASE packageIn # <<>>
        <4>1. Tail(packageIn) \in Seq([size : Sizes, session : Nat])
          BY <3>2, HeadTailProperties
        <4>2. QED
          BY <1>2, <3>2, <4>1 DEF ClearInbound
      <3>3. QED
        BY <3>1, <3>2
    <2>2. QED
      BY <1>2, <2>1 DEF ClearInbound
  <1>3. ASSUME ResetInboundBytes PROVE TypeOK'
    <2>1. 0 \in 0 .. Word - 1
      BY SizeAssumption
    <2>2. QED
      BY <1>3, <2>1 DEF ResetInboundBytes
  <1>4. ASSUME FinishDisconnect PROVE TypeOK'
    <2>1. events' \in Seq([about : Nat, says : {"SUCCESS", "FAILURE", "DISCONNECTED"}])
      BY <1>4, EventsType DEF FinishDisconnect
    <2>2. QED
      BY <1>4, <2>1 DEF FinishDisconnect
  <1>5. ASSUME ReportFailure PROVE TypeOK'
    <2>1. events' \in Seq([about : Nat, says : {"SUCCESS", "FAILURE", "DISCONNECTED"}])
      BY <1>5, EventsType DEF ReportFailure
    <2>2. QED
      BY <1>5, <2>1 DEF ReportFailure, FailedDialers
  <1>6. ASSUME PostedDisconnect PROVE TypeOK'
    BY <1>6, CoDisconnectType DEF PostedDisconnect
  <1>7. ASSUME NEW mode \in Modes, StartAttempt(mode) PROVE TypeOK'
    <2>1. dialers' \subseteq [generation : Nat, mode : Modes, stage : Stages]
      BY <1>7 DEF StartAttempt
    <2>2. QED
      BY <1>7, <2>1 DEF StartAttempt
  <1>8. ASSUME NamePeer PROVE TypeOK'
    BY <1>8 DEF NamePeer
  <1>9. ASSUME NEW d \in dialers, SocketOpened(d) PROVE TypeOK'
    BY <1>9 DEF SocketOpened
  <1>10. ASSUME NEW d \in dialers, Establish(d) PROVE TypeOK'
    <2>1. generation \in Generations
      BY <1>10 DEF Establish, GenerationsInOrder
    <2>2. events' \in Seq([about : Nat, says : {"SUCCESS", "FAILURE", "DISCONNECTED"}])
      BY <1>10, EventsType DEF Establish
    <2>3. packageOut' \in [Generations -> Nat] /\ sendFlag' \in BOOLEAN
      BY <1>10, <2>1, SendHeartbeatType DEF Establish
    <2>4. QED
      BY <1>10, <2>1, <2>2, <2>3 DEF Establish
  <1>11. ASSUME NEW d \in dialers, AttemptFails(d) PROVE TypeOK'
    <2>1. dialers' \subseteq [generation : Nat, mode : Modes, stage : Stages]
      BY <1>11 DEF AttemptFails
    <2>2. QED
      BY <1>11, <2>1, CoDisconnectType DEF AttemptFails
  <1>12. ASSUME NEW d \in dialers, AttemptEnds(d) PROVE TypeOK'
    BY <1>12 DEF AttemptEnds
  <1>13. ASSUME NEW g \in Generations, CoSendWakes(g) PROVE TypeOK'
    BY <1>13, TakeNextType DEF CoSendWakes
  <1>14. ASSUME NEW g \in Generations, CoSendWritten(g) PROVE TypeOK'
    BY <1>14, TakeNextType DEF CoSendWritten
  <1>15. ASSUME NEW g \in Generations, CoSendFails(g) PROVE TypeOK'
    <2>1. running' \subseteq Roles \X Nat /\ writing' \in [Generations -> Nat]
      BY <1>15 DEF CoSendFails
    <2>2. CASE g = generation
      BY <1>15, <2>1, <2>2, CoDisconnectType DEF CoSendFails
    <2>3. CASE g # generation
      BY <1>15, <2>1, <2>3 DEF CoSendFails
    <2>4. QED
      BY <2>2, <2>3
  <1>16. ASSUME NEW g \in Generations, CoReceiveHeartbeat(g) PROVE TypeOK'
    BY <1>16 DEF CoReceiveHeartbeat, Receives
  <1>17. ASSUME NEW g \in Generations, CoReceiveFails(g) PROVE TypeOK'
    BY <1>17, CoDisconnectType DEF CoReceiveFails
  <1>18. ASSUME NEW g \in Generations, HeartbeatDue(g) PROVE TypeOK'
    BY <1>18, SendHeartbeatType DEF HeartbeatDue
  <1>19. ASSUME NEW g \in Generations, MonitorChecks(g) PROVE TypeOK'
    BY <1>19 DEF MonitorChecks
  <1>20. ASSUME NEW g \in Generations, MonitorTimesOut(g) PROVE TypeOK'
    BY <1>20, CoDisconnectType DEF MonitorTimesOut
  <1>21. ASSUME NEW g \in Generations, NEW size \in Sizes, CoReceiveEnqueues(g, size) PROVE TypeOK'
    <2>1. packageIn' \in Seq([size : Sizes, session : Nat])
      <3>1. g \in Nat
        BY BoundAssumption
      <3>2. QED
        BY <1>21, <3>1, AppendProperties DEF CoReceiveEnqueues
    <2>2. inboundQueuedBytes' \in 0 .. Word - 1
      <3>1. inboundQueuedBytes + size \in Int
        BY SizeAssumption
      <3>2. QED
        BY <1>21, <3>1, InboundBytesType DEF CoReceiveEnqueues
    <2>3. QED
      BY <1>21, <2>1, <2>2 DEF CoReceiveEnqueues
  <1>22. ASSUME NEW g \in Generations, NEW size \in Sizes, CoReceiveOverLimit(g, size) PROVE TypeOK'
    <2>1. inboundQueuedBytes' \in 0 .. Word - 1
      <3>1. inboundQueuedBytes + size \in Int
        BY SizeAssumption
      <3>2. QED
        BY <1>22, <3>1, InboundBytesType DEF CoReceiveOverLimit
    <2>2. QED
      BY <1>22, <2>1, CoDisconnectType DEF CoReceiveOverLimit
  <1>23. ASSUME NEW role \in Roles, NEW g \in Generations, CoroutineEnds(role, g) PROVE TypeOK'
    BY <1>23 DEF CoroutineEnds
  <1>24. ASSUME PostDisconnect PROVE TypeOK'
    BY <1>24 DEF PostDisconnect
  <1>25. ASSUME SendChecks PROVE TypeOK'
    BY <1>25 DEF SendChecks
  <1>26. ASSUME SendEnqueues PROVE TypeOK'
    <2>1. appThread \in Generations /\ packageOut[appThread] + 1 \in Nat
      BY <1>26, BoundAssumption DEF SendEnqueues, GenerationsInOrder
    <2>2. packageOut' \in [Generations -> Nat]
      BY <1>26, <2>1, PackageOutType DEF SendEnqueues
    <2>3. QED
      BY <1>26, <2>2 DEF SendEnqueues
  <1>27. ASSUME ConsumerWakes PROVE TypeOK'
    BY <1>27 DEF ConsumerWakes, OnConsumer
  <1>28. ASSUME ConsumerRests PROVE TypeOK'
    BY <1>28 DEF ConsumerRests, OnConsumer, Idle
  <1>29. ASSUME GetPackageDequeues PROVE TypeOK'
    <2>1. PICK i \in 1 .. Len(packageIn) :
            /\ packageIn' = RemoveAt(packageIn, i)
            /\ consumer' = [at |-> "settle", size |-> packageIn[i].size]
      BY <1>29 DEF GetPackageDequeues
    <2>2. packageIn[i] \in [size : Sizes, session : Nat]
      BY ElementOfSeq
    <2>3. packageIn' \in Seq([size : Sizes, session : Nat])
      BY <2>1, RemoveAtProperties
    <2>4. QED
      BY <1>29, <2>1, <2>2, <2>3 DEF GetPackageDequeues, OnConsumer
  <1>30. ASSUME GetPackageSettles PROVE TypeOK'
    <2>1. inboundQueuedBytes' \in 0 .. Word - 1
      BY <1>30, SettledBytesType DEF GetPackageSettles
    <2>2. consumer' \in [at : {"wait", "drain", "settle"}, size : Sizes \cup {0}]
      BY <1>30 DEF GetPackageSettles, Idle
    <2>3. disconnectPosted' \in BOOLEAN
      BY <1>30 DEF GetPackageSettles
    <2>4. QED
      BY <1>30, <2>1, <2>2, <2>3 DEF GetPackageSettles, OnConsumer
  <1>31. CASE UNCHANGED vars
    BY <1>31 DEF vars
  <1>32. QED
    BY <1>1, <1>2, <1>3, <1>4, <1>5, <1>6, <1>7, <1>8, <1>9, <1>10, <1>11, <1>12, <1>13, <1>14, <1>15, <1>16, <1>17, <1>18, <1>19, <1>20, <1>21, <1>22, <1>23, <1>24, <1>25, <1>26, <1>27, <1>28, <1>29, <1>30, <1>31
       DEF Next, Disconnecting, Dialing, Session, OffStrand

-------------------------------------------------------------------------------
(* The rest of the inductive invariant, by what a step does to the parts of  *)
(* the state it speaks of.                                                   *)

Rest ==
    /\ StrandMatchesState
    /\ GenerationsInOrder
    /\ DialersInOrder
    /\ EventPending
    /\ SomeoneDrives
    /\ PeerIsTheSessions

(* What a coroutine may do to the two variables that list the coroutines.    *)
OnlyOldOnesLeave ==
    /\ running' \subseteq running
    /\ \A g \in Generations : writing'[g] # None => g <= generation
    /\ appThread' <= generation

(* Steps that neither connect nor disconnect. *)
LEMMA QuietStep ==
  ASSUME IInv, OnlyOldOnesLeave,
         UNCHANGED <<connectionState, generation, socket, attempt, peerData, dialers, strand>>,
         disconnectedEventSent' = disconnectedEventSent,
         connectionState = "CONNECTED" => Roles \X {generation} \subseteq running'
  PROVE  Rest'
  <1> USE DEF IInv, OnlyOldOnesLeave
  <1>1. StrandMatchesState'
    BY DEF StrandMatchesState
  <1>2. GenerationsInOrder'
    BY DEF GenerationsInOrder
  <1>3. DialersInOrder'
    BY DEF DialersInOrder, FailedDialers
  <1>4. EventPending'
    BY DEF EventPending
  <1>5. SomeoneDrives'
    BY DEF SomeoneDrives
  <1>6. PeerIsTheSessions'
    BY DEF PeerIsTheSessions, Free
  <1>7. QED
    BY <1>1, <1>2, <1>3, <1>4, <1>5, <1>6 DEF Rest

(* The suspended coroutine d, its attempt having failed. *)
Failed(d) == [d EXCEPT !.stage = "failed"]

(* Steps that call CoDisconnect. *)
LEMMA DisconnectStep ==
  ASSUME IInv, Free, CoDisconnect,
         running' \subseteq running,
         \A g \in Generations : writing'[g] # None => g <= generation,
         appThread' = appThread,
         \/ dialers' = dialers
         \/ \E d \in dialers : /\ d.generation = generation
                              /\ dialers' = (dialers \ {d}) \cup {Failed(d)}
  PROVE  Rest'
  <1> USE DEF IInv
  <1>0. /\ attempt' = attempt /\ peerData' = peerData
        /\ disconnectedEventSent' = disconnectedEventSent
    BY DEF CoDisconnect, told, peer
  <1>1. CASE connectionState \in {"DISCONNECTED", "DISCONNECTING"}
    <2>1. /\ UNCHANGED <<connectionState, generation, socket, strand>>
          /\ connectionState # "CONNECTED" /\ connectionState # "CONNECTING"
      BY <1>1 DEF CoDisconnect, conn
    <2>2. dialers' = dialers
      BY <2>1 DEF DialersInOrder
    <2>3. OnlyOldOnesLeave
      BY DEF OnlyOldOnesLeave, GenerationsInOrder
    <2>4. QED
      BY <1>0, <2>1, <2>2, <2>3, QuietStep
  <1>2. CASE connectionState \notin {"DISCONNECTED", "DISCONNECTING"}
    <2>1. /\ connectionState' = "DISCONNECTING" /\ generation' = generation + 1
          /\ socket' = None /\ strand' = "clearOut"
      BY <1>2 DEF CoDisconnect
    <2>2. connectionState \in {"CONNECTING", "CONNECTED"}
      BY <1>2 DEF TypeOK, States
    <2>3. generation \in Nat /\ attempt \in Nat /\ MaxGeneration \in Nat
      BY BoundAssumption DEF TypeOK
    <2>4. StrandMatchesState' /\ EventPending' /\ SomeoneDrives' /\ PeerIsTheSessions'
      <3>1. ~disconnectedEventSent
        BY <2>2 DEF EventPending
      <3>2. QED
        BY <1>0, <2>1, <3>1
           DEF StrandMatchesState, EventPending, SomeoneDrives, PeerIsTheSessions, Free, Closing
    <2>5. \A d \in dialers' : /\ d.generation \in 1 .. generation
                             /\ \E e \in dialers : e.generation = d.generation
      BY DEF GenerationsInOrder, TypeOK, Failed
    <2>6. GenerationsInOrder'
      <3>1. generation + 1 <= MaxGeneration /\ attempt <= generation + 1
        BY <2>2, <2>3 DEF GenerationsInOrder
      <3>2. appThread' <= generation'
        BY <2>1, <2>3 DEF GenerationsInOrder, TypeOK
      <3>3. \A d \in dialers' : d.generation \in 1 .. generation'
        BY <2>1, <2>3, <2>5
      <3>4. \A w \in running' : w[2] \in 1 .. generation'
        BY <2>1, <2>3 DEF GenerationsInOrder
      <3>5. \A g \in Generations : writing'[g] # None => g <= generation'
        BY <2>1, <2>3 DEF Generations
      <3>6. QED
        BY <1>0, <2>1, <3>1, <3>2, <3>3, <3>4, <3>5 DEF GenerationsInOrder
    <2>7. DialersInOrder'
      <3>1. \A d \in dialers' : d.generation # generation'
        BY <2>1, <2>3, <2>5
      <3>2. \A d, e \in dialers' : d.generation = e.generation => d = e
        BY DEF DialersInOrder, TypeOK, Failed
      <3>3. QED
        BY <2>1, <3>1, <3>2 DEF DialersInOrder, Closing
    <2>8. QED
      BY <2>4, <2>6, <2>7 DEF Rest
  <1>3. QED
    BY <1>1, <1>2

(* The steps of a coroutine of generation g, and of the threads outside the  *)
(* strand.                                                                   *)
LEMMA TakeNextLeavesCurrent ==
  ASSUME IInv, NEW g \in Generations, <<"send", g>> \in running \/ writing[g] # None,
         TakeNext(g)
  PROVE  /\ running' \subseteq running
         /\ \A h \in Generations : writing'[h] # None => h <= generation
         /\ connectionState = "CONNECTED" => Roles \X {generation} \subseteq running'
  <1> USE DEF IInv
  <1>1. g <= generation
    BY DEF GenerationsInOrder, TypeOK
  <1>2. running' = running \/ (~IsCurrent(g) /\ running' = running \ {<<"send", g>>})
    BY DEF TakeNext
  <1>3. \A h \in Generations : h # g => writing'[h] = writing[h]
    BY DEF TakeNext, TypeOK
  <1>4. QED
    BY <1>1, <1>2, <1>3 DEF IsCurrent, SomeoneDrives, GenerationsInOrder

LEMMA SessionStep ==
  ASSUME IInv, NEW g \in Generations, Session(g)
  PROVE  Rest'
  <1> USE DEF IInv
  <1>1. /\ connectionState = "CONNECTED" => Roles \X {generation} \subseteq running
        /\ \A h \in Generations : writing[h] # None => h <= generation
        /\ appThread <= generation
    BY DEF SomeoneDrives, GenerationsInOrder
  <1> DEFINE Still == /\ UNCHANGED <<connectionState, generation, socket, attempt, peerData,
                                     dialers, strand>>
                      /\ disconnectedEventSent' = disconnectedEventSent
                      /\ appThread' = appThread
  <1>2. ASSUME CoSendWakes(g) PROVE Rest'
    <2>1. Still
      BY <1>2 DEF CoSendWakes, conn, told, peer, offStrand
    <2>2. QED
      BY <1>1, <1>2, <2>1, TakeNextLeavesCurrent, QuietStep DEF CoSendWakes, OnlyOldOnesLeave
  <1>3. ASSUME CoSendWritten(g) PROVE Rest'
    <2>1. Still
      BY <1>3 DEF CoSendWritten, conn, told, peer, offStrand
    <2>2. QED
      BY <1>1, <1>3, <2>1, TakeNextLeavesCurrent, QuietStep DEF CoSendWritten, OnlyOldOnesLeave
  <1>4. ASSUME CoSendFails(g) PROVE Rest'
    <2>1. /\ Free /\ running' \subseteq running /\ appThread' = appThread
          /\ dialers' = dialers
          /\ \A h \in Generations : writing'[h] # None => h <= generation
      BY <1>1, <1>4 DEF CoSendFails, offStrand, TypeOK
    <2>2. CASE g = generation
      BY <1>4, <2>1, <2>2, DisconnectStep DEF CoSendFails
    <2>3. CASE g # generation
      <3>1. Still
        BY <1>4, <2>3 DEF CoSendFails, conn, told, peer, offStrand
      <3>2. connectionState = "CONNECTED" => Roles \X {generation} \subseteq running'
        BY <1>1, <1>4, <2>3 DEF CoSendFails
      <3>3. QED
        BY <1>1, <2>1, <3>1, <3>2, QuietStep DEF OnlyOldOnesLeave
    <2>4. QED
      BY <2>2, <2>3
  <1>5. ASSUME CoReceiveHeartbeat(g) PROVE Rest'
    <2>1. Still /\ running' = running /\ writing' = writing
      BY <1>5 DEF CoReceiveHeartbeat, conn, told, coroutines, offStrand
    <2>2. QED
      BY <1>1, <2>1, QuietStep DEF OnlyOldOnesLeave
  <1>6. ASSUME CoReceiveFails(g) PROVE Rest'
    <2>1. /\ Free /\ CoDisconnect /\ running' \subseteq running /\ writing' = writing
          /\ appThread' = appThread /\ dialers' = dialers
      BY <1>6 DEF CoReceiveFails, Receives, offStrand
    <2>2. QED
      BY <1>1, <2>1, DisconnectStep
  <1>7. ASSUME NEW size \in Sizes, CoReceiveEnqueues(g, size) PROVE Rest'
    <2>1. Still /\ running' = running /\ writing' = writing
      BY <1>7 DEF CoReceiveEnqueues, conn, told, peer, coroutines, offStrand
    <2>2. QED
      BY <1>1, <2>1, QuietStep DEF OnlyOldOnesLeave
  <1>8. ASSUME NEW size \in Sizes, CoReceiveOverLimit(g, size) PROVE Rest'
    <2>1. /\ Free /\ CoDisconnect /\ running' \subseteq running /\ writing' = writing
          /\ appThread' = appThread /\ dialers' = dialers
      BY <1>8 DEF CoReceiveOverLimit, Receives, offStrand
    <2>2. QED
      BY <1>1, <2>1, DisconnectStep
  <1>9. ASSUME HeartbeatDue(g) PROVE Rest'
    <2>1. Still /\ running' = running /\ writing' = writing
      BY <1>9 DEF HeartbeatDue, conn, told, peer, coroutines, offStrand
    <2>2. QED
      BY <1>1, <2>1, QuietStep DEF OnlyOldOnesLeave
  <1>10. ASSUME MonitorChecks(g) PROVE Rest'
    <2>1. Still /\ running' = running /\ writing' = writing
      BY <1>10 DEF MonitorChecks, conn, told, coroutines, offStrand
    <2>2. QED
      BY <1>1, <2>1, QuietStep DEF OnlyOldOnesLeave
  <1>11. ASSUME MonitorTimesOut(g) PROVE Rest'
    <2>1. /\ Free /\ CoDisconnect /\ running' \subseteq running /\ writing' = writing
          /\ appThread' = appThread /\ dialers' = dialers
      BY <1>11 DEF MonitorTimesOut, offStrand
    <2>2. QED
      BY <1>1, <2>1, DisconnectStep
  <1>12. ASSUME NEW role \in Roles, CoroutineEnds(role, g) PROVE Rest'
    <2>1. Still /\ running' = running \ {<<role, g>>} /\ writing' = writing
      BY <1>12 DEF CoroutineEnds, conn, told, peer, offStrand
    <2>2. connectionState = "CONNECTED" => Roles \X {generation} \subseteq running'
      BY <1>1, <1>12, <2>1 DEF CoroutineEnds, IsCurrent
    <2>3. QED
      BY <1>1, <2>1, <2>2, QuietStep DEF OnlyOldOnesLeave
  <1>13. QED
    BY <1>2, <1>3, <1>4, <1>5, <1>6, <1>7, <1>8, <1>9, <1>10, <1>11, <1>12 DEF Session

LEMMA OffStrandStep ==
  ASSUME IInv, OffStrand
  PROVE  Rest'
  <1> USE DEF IInv
  <1>1. /\ UNCHANGED <<connectionState, generation, socket, attempt, peerData, dialers, strand>>
        /\ disconnectedEventSent' = disconnectedEventSent
        /\ running' = running /\ writing' = writing
        /\ appThread' \in {appThread, None, generation}
    BY DEF OffStrand, PostDisconnect, SendChecks, SendEnqueues, ConsumerWakes, ConsumerRests,
           GetPackageDequeues, GetPackageSettles, OnConsumer, conn, told, peer, coroutines
  <1>2. OnlyOldOnesLeave
    BY <1>1 DEF OnlyOldOnesLeave, GenerationsInOrder, TypeOK, None
  <1>3. connectionState = "CONNECTED" => Roles \X {generation} \subseteq running'
    BY <1>1 DEF SomeoneDrives
  <1>4. QED
    BY <1>1, <1>2, <1>3, QuietStep

(* The steps inside a disconnect. *)
LEMMA DisconnectingStep ==
  ASSUME IInv, Disconnecting
  PROVE  Rest'
  <1> USE DEF IInv
  <1>1. ASSUME ClearOutbound \/ ClearInbound \/ ResetInboundBytes PROVE Rest'
    <2>1. /\ connectionState' = connectionState /\ generation' = generation
          /\ socket' = socket /\ attempt' = attempt /\ peerData' = peerData
          /\ disconnectedEventSent' = disconnectedEventSent
          /\ dialers' = dialers /\ running' = running /\ writing' = writing
          /\ appThread' = appThread
          /\ strand \in Closing /\ strand' \in Closing
      BY <1>1 DEF ClearOutbound, ClearInbound, ResetInboundBytes, Closing,
                  conn, told, peer, coroutines, offStrand
    <2>2. connectionState = "DISCONNECTING"
      BY <2>1 DEF StrandMatchesState
    <2>3. strand' \notin {"free", "report", "seekTail"}
      BY <2>1 DEF Closing
    <2>4. StrandMatchesState' /\ EventPending' /\ SomeoneDrives' /\ PeerIsTheSessions'
      BY <2>1, <2>2, <2>3
         DEF StrandMatchesState, EventPending, SomeoneDrives, PeerIsTheSessions, Free
    <2>5. GenerationsInOrder'
      BY <2>1 DEF GenerationsInOrder
    <2>6. DialersInOrder'
      BY <2>1, <2>3 DEF DialersInOrder, FailedDialers
    <2>7. QED
      BY <2>4, <2>5, <2>6 DEF Rest
  <1>2. ASSUME FinishDisconnect PROVE Rest'
    <2>1. /\ connectionState' = "DISCONNECTED" /\ generation' = generation
          /\ socket' = socket /\ attempt' = attempt /\ peerData' = None
          /\ dialers' = dialers /\ running' = running /\ writing' = writing
          /\ appThread' = appThread
          /\ strand = "finish"
          /\ strand' = IF FailedDialers = {} THEN "free" ELSE "report"
      BY <1>2 DEF FinishDisconnect, coroutines, offStrand
    <2>2. connectionState = "DISCONNECTING"
      BY <2>1 DEF StrandMatchesState, Closing
    <2>3. StrandMatchesState' /\ EventPending' /\ SomeoneDrives' /\ PeerIsTheSessions'
      BY <2>1, <2>2
         DEF StrandMatchesState, EventPending, SomeoneDrives, PeerIsTheSessions, Free, Closing
    <2>4. GenerationsInOrder'
      BY <2>1 DEF GenerationsInOrder
    <2>5. DialersInOrder'
      BY <2>1, <2>2 DEF DialersInOrder, FailedDialers, Closing
    <2>6. QED
      BY <2>3, <2>4, <2>5 DEF Rest
  <1>3. ASSUME ReportFailure PROVE Rest'
    <2>1. /\ connectionState' = connectionState /\ generation' = generation
          /\ socket' = socket /\ attempt' = attempt /\ peerData' = peerData
          /\ disconnectedEventSent' = disconnectedEventSent
          /\ dialers' = dialers \ FailedDialers /\ running' = running /\ writing' = writing
          /\ appThread' = appThread
          /\ strand = "report" /\ strand' = "free"
      BY <1>3 DEF ReportFailure, conn, peer, offStrand
    <2>2. connectionState = "DISCONNECTED"
      BY <2>1 DEF StrandMatchesState
    <2>3. StrandMatchesState' /\ EventPending' /\ SomeoneDrives'
      BY <2>1, <2>2 DEF StrandMatchesState, EventPending, SomeoneDrives, Closing
    <2>4. PeerIsTheSessions'
      BY <2>1, <2>2 DEF PeerIsTheSessions, StrandMatchesState
    <2>5. GenerationsInOrder'
      BY <2>1 DEF GenerationsInOrder
    <2>6. DialersInOrder'
      BY <2>1, <2>2 DEF DialersInOrder, FailedDialers, Closing
    <2>7. QED
      BY <2>3, <2>4, <2>5, <2>6 DEF Rest
  <1>4. ASSUME PostedDisconnect PROVE Rest'
    <2>1. /\ Free /\ CoDisconnect /\ running' = running /\ writing' = writing
          /\ appThread' = appThread /\ dialers' = dialers
      BY <1>4 DEF PostedDisconnect, coroutines
    <2>2. QED
      BY <2>1, DisconnectStep DEF GenerationsInOrder
  <1>5. QED
    BY <1>1, <1>2, <1>3, <1>4 DEF Disconnecting

(* The steps of CoConnect and CoSeek. *)
LEMMA DialingStep ==
  ASSUME IInv, Dialing
  PROVE  Rest'
  <1> USE DEF IInv
  <1>0. generation \in Nat /\ attempt \in Nat /\ MaxGeneration \in Nat
    BY BoundAssumption DEF TypeOK
  <1>1. ASSUME NEW mode \in Modes, StartAttempt(mode) PROVE Rest'
    <2> DEFINE new == [generation |-> generation + 1, mode |-> mode, stage |-> "opening"]
    <2>1. /\ Free /\ generation + 1 < MaxGeneration
          /\ generation' = generation + 1 /\ attempt' = generation + 1
          /\ ~disconnectedEventSent' /\ connectionState' = "CONNECTING"
          /\ socket' = generation + 1 /\ strand' = strand
          /\ dialers' = dialers \cup {new}
          /\ running' = running /\ writing' = writing /\ appThread' = appThread
      BY <1>1 DEF StartAttempt, offStrand
    <2>2. \A d \in dialers : d.generation \in 1 .. generation /\ d.stage # "failed"
      BY <2>1 DEF GenerationsInOrder, DialersInOrder, FailedDialers, Free, Closing
    <2>3. StrandMatchesState' /\ EventPending'
      BY <2>1 DEF StrandMatchesState, EventPending, Free, Closing
    <2>4. SomeoneDrives' /\ PeerIsTheSessions'
      <3>1. new \in dialers' /\ new.generation = generation' /\ new.stage # "failed"
        BY <2>1
      <3>2. QED
        BY <2>1, <3>1 DEF SomeoneDrives, PeerIsTheSessions
    <2>5. GenerationsInOrder'
      <3>1. \A d \in dialers' : d.generation \in 1 .. generation'
        BY <1>0, <2>1, <2>2
      <3>2. \A w \in running' : w[2] \in 1 .. generation'
        BY <1>0, <2>1 DEF GenerationsInOrder
      <3>3. \A g \in Generations : writing'[g] # None => g <= generation'
        BY <1>0, <2>1 DEF GenerationsInOrder, Generations
      <3>4. appThread' <= generation'
        BY <1>0, <2>1 DEF GenerationsInOrder, TypeOK
      <3>5. QED
        BY <1>0, <2>1, <3>1, <3>2, <3>3, <3>4 DEF GenerationsInOrder
    <2>6. DialersInOrder'
      <3>1. \A d, e \in dialers' : d.generation = e.generation => d = e
        BY <1>0, <2>1, <2>2 DEF DialersInOrder
      <3>2. FailedDialers' = {} /\ strand' # "report"
        BY <2>1, <2>2 DEF FailedDialers, Free
      <3>3. QED
        BY <2>1, <3>1, <3>2 DEF DialersInOrder
    <2>7. QED
      BY <2>3, <2>4, <2>5, <2>6 DEF Rest
  <1>2. ASSUME NamePeer PROVE Rest'
    <2>1. /\ connectionState' = connectionState /\ generation' = generation
          /\ socket' = socket /\ attempt' = attempt /\ peerData' = attempt
          /\ disconnectedEventSent' = disconnectedEventSent
          /\ dialers' = dialers /\ running' = running /\ writing' = writing
          /\ appThread' = appThread
          /\ strand = "seekTail" /\ strand' = "free"
      BY <1>2 DEF NamePeer, conn, told, coroutines, offStrand
    <2>2. connectionState = "CONNECTED"
      BY <2>1 DEF StrandMatchesState
    <2>3. StrandMatchesState' /\ EventPending' /\ SomeoneDrives' /\ PeerIsTheSessions'
      BY <2>1, <2>2
         DEF StrandMatchesState, EventPending, SomeoneDrives, PeerIsTheSessions, Closing
    <2>4. GenerationsInOrder'
      BY <2>1 DEF GenerationsInOrder
    <2>5. DialersInOrder'
      BY <2>1 DEF DialersInOrder, FailedDialers, Closing
    <2>6. QED
      BY <2>3, <2>4, <2>5 DEF Rest
  <1>3. ASSUME NEW d \in dialers, SocketOpened(d) PROVE Rest'
    <2> DEFINE opened == [d EXCEPT !.stage = "handshake"]
    <2>1. /\ connectionState' = connectionState /\ generation' = generation
          /\ socket' = socket /\ attempt' = attempt /\ peerData' = peerData
          /\ disconnectedEventSent' = disconnectedEventSent
          /\ dialers' = (dialers \ {d}) \cup {opened}
          /\ running' = running /\ writing' = writing /\ appThread' = appThread
          /\ Free /\ strand' = strand
      BY <1>3 DEF SocketOpened, conn, told, peer, offStrand
    <2>2. opened.generation = d.generation /\ opened.stage = "handshake"
      BY DEF TypeOK
    <2>3. StrandMatchesState' /\ EventPending' /\ PeerIsTheSessions'
      BY <2>1 DEF StrandMatchesState, EventPending, PeerIsTheSessions, Free
    <2>4. SomeoneDrives'
      BY <2>1, <2>2 DEF SomeoneDrives
    <2>5. GenerationsInOrder'
      BY <2>1, <2>2 DEF GenerationsInOrder
    <2>6. DialersInOrder'
      BY <2>1, <2>2 DEF DialersInOrder, FailedDialers, Free, Closing
    <2>7. QED
      BY <2>3, <2>4, <2>5, <2>6 DEF Rest
  <1>4. ASSUME NEW d \in dialers, Establish(d) PROVE Rest'
    <2>1. /\ Free /\ d.generation = generation
          /\ connectionState' = "CONNECTED" /\ generation' = generation
          /\ socket' = socket /\ attempt' = attempt
          /\ disconnectedEventSent' = disconnectedEventSent
          /\ dialers' = dialers \ {d}
          /\ running' = running \cup (Roles \X {generation})
          /\ writing' = writing /\ appThread' = appThread
          /\ \/ peerData' = attempt /\ strand' = strand
             \/ strand' = "seekTail"
      BY <1>4 DEF Establish, offStrand
    <2>2. connectionState = "CONNECTING"
      BY <2>1 DEF DialersInOrder
    <2>3. generation \in 1 .. MaxGeneration - 1 /\ generation = attempt
      BY <2>2 DEF GenerationsInOrder
    <2>4. StrandMatchesState' /\ EventPending' /\ PeerIsTheSessions'
      BY <2>1, <2>2
         DEF StrandMatchesState, EventPending, PeerIsTheSessions, Free, Closing
    <2>5. SomeoneDrives'
      BY <2>1, <2>2, <2>3 DEF SomeoneDrives
    <2>6. GenerationsInOrder'
      <3>1. \A w \in running' : w[2] \in 1 .. generation
        BY <1>0, <2>1, <2>3 DEF GenerationsInOrder
      <3>2. QED
        BY <2>1, <2>3, <3>1 DEF GenerationsInOrder
    <2>7. DialersInOrder'
      <3>1. \A e \in dialers' : e.generation # generation'
        BY <2>1 DEF DialersInOrder
      <3>2. FailedDialers' = {} /\ strand' # "report"
        BY <2>1 DEF DialersInOrder, FailedDialers, Free, Closing
      <3>3. QED
        BY <2>1, <3>1, <3>2 DEF DialersInOrder
    <2>8. QED
      BY <2>4, <2>5, <2>6, <2>7 DEF Rest
  <1>5. ASSUME NEW d \in dialers, AttemptFails(d) PROVE Rest'
    <2>1. /\ Free /\ CoDisconnect /\ running' = running /\ writing' = writing
          /\ appThread' = appThread /\ d.generation = generation
          /\ dialers' = (dialers \ {d}) \cup {Failed(d)}
      BY <1>5 DEF AttemptFails, Failed, offStrand
    <2>2. \A g \in Generations : writing'[g] # None => g <= generation
      BY <2>1 DEF GenerationsInOrder
    <2>3. QED
      BY <2>1, <2>2, DisconnectStep
  <1>6. ASSUME NEW d \in dialers, AttemptEnds(d) PROVE Rest'
    <2>1. /\ connectionState' = connectionState /\ generation' = generation
          /\ socket' = socket /\ attempt' = attempt /\ peerData' = peerData
          /\ disconnectedEventSent' = disconnectedEventSent
          /\ dialers' = dialers \ {d} /\ d.generation # generation
          /\ running' = running /\ writing' = writing /\ appThread' = appThread
          /\ Free /\ strand' = strand
      BY <1>6 DEF AttemptEnds, conn, told, peer, offStrand
    <2>2. StrandMatchesState' /\ EventPending' /\ PeerIsTheSessions' /\ SomeoneDrives'
      BY <2>1 DEF StrandMatchesState, EventPending, PeerIsTheSessions, SomeoneDrives, Free
    <2>3. GenerationsInOrder'
      BY <2>1 DEF GenerationsInOrder
    <2>4. DialersInOrder'
      BY <2>1 DEF DialersInOrder, FailedDialers, Free, Closing
    <2>5. QED
      BY <2>2, <2>3, <2>4 DEF Rest
  <1>7. QED
    BY <1>1, <1>2, <1>3, <1>4, <1>5, <1>6 DEF Dialing

LEMMA InitIInv == Init => IInv
  <1> SUFFICES ASSUME Init PROVE IInv
    OBVIOUS
  <1>1. TypeOK
    BY InitType
  <1>2. Rest
    BY BoundAssumption
       DEF Init, Rest, StrandMatchesState, GenerationsInOrder, DialersInOrder, EventPending,
           SomeoneDrives, PeerIsTheSessions, FailedDialers, Closing, Free, None
  <1>3. QED
    BY <1>1, <1>2 DEF IInv, Rest

LEMMA IInvStep == IInv /\ [Next]_vars => IInv'
  <1> SUFFICES ASSUME IInv, [Next]_vars PROVE IInv'
    OBVIOUS
  <1>1. TypeOK'
    BY TypeStep
  <1>2. CASE UNCHANGED vars
    <2>1. /\ UNCHANGED <<connectionState, generation, socket, attempt, peerData, dialers, strand>>
          /\ disconnectedEventSent' = disconnectedEventSent
          /\ running' = running /\ writing' = writing /\ appThread' = appThread
      BY <1>2 DEF vars, conn, told, peer, coroutines, offStrand
    <2>2. OnlyOldOnesLeave /\ (connectionState = "CONNECTED" => Roles \X {generation} \subseteq running')
      BY <2>1 DEF OnlyOldOnesLeave, IInv, GenerationsInOrder, SomeoneDrives
    <2>3. QED
      BY <1>1, <2>1, <2>2, QuietStep DEF IInv, Rest
  <1>3. CASE Next
    <2>1. Rest'
      BY <1>3, DisconnectingStep, DialingStep, SessionStep, OffStrandStep DEF Next
    <2>2. QED
      BY <1>1, <2>1 DEF IInv, Rest
  <1>4. QED
    BY <1>2, <1>3

(* The inductive invariant holds in every reachable state. *)
THEOREM Invariance == Spec => []IInv
  BY InitIInv, IInvStep, PTL DEF Spec

(* TypeOK, for every bound and every size of package: in particular the byte *)
(* counter of PrimaryConnection stays a word and every package that is       *)
(* queued came with a known size.                                            *)
THEOREM TypeCorrect == Spec => []TypeOK
  <1>1. IInv => TypeOK
    BY DEF IInv
  <1>2. QED
    BY <1>1, Invariance, PTL

(* A session that reports CONNECTED always has its socket and its four       *)
(* coroutines, one that reports CONNECTING a coroutine at work on it.        *)
THEOREM SomeoneAlwaysDrives == Spec => []SomeoneDrives
  <1>1. IInv => SomeoneDrives
    BY DEF IInv
  <1>2. QED
    BY <1>1, Invariance, PTL

(* m_peerData names the connected peer whenever the strand is at rest. *)
THEOREM PeerIsAlwaysTheSessions == Spec => []PeerIsTheSessions
  <1>1. IInv => PeerIsTheSessions
    BY DEF IInv
  <1>2. QED
    BY <1>1, Invariance, PTL

-------------------------------------------------------------------------------
(* How many bytes the package queue holds *)

(* Packages CoReceive may queue. *)
Parcels == [size : {n \in Sizes : n <= MAX_PACKAGE_SIZE}, session : Nat]

LEMMA ParcelSize ==
  ASSUME NEW p \in Parcels
  PROVE  p.size \in Nat /\ p.size <= MAX_PACKAGE_SIZE
  <1>1. p.size \in Sizes /\ p.size <= MAX_PACKAGE_SIZE
    BY DEF Parcels
  <1>2. QED
    BY <1>1, SizeAssumption

LEMMA BytesOfMember ==
  ASSUME NEW s \in Seq(Parcels)
  PROVE  \A x : x \in BytesOf(s) <=> \E i \in 1 .. Len(s) : \E b \in 1 .. s[i].size : x = <<i, b>>
  BY LenProperties DEF BytesOf

LEMMA BytesOfFinite ==
  ASSUME NEW s \in Seq(Parcels)
  PROVE  IsFiniteSet(BytesOf(s)) /\ SumOfSizes(s) \in Nat
  <1> DEFINE Places == 1 .. Len(s)
             Offsets == 1 .. MAX_PACKAGE_SIZE
  <1>1. Len(s) \in Int /\ MAX_PACKAGE_SIZE \in Int
    BY LenProperties, SizeAssumption
  <1>2. IsFiniteSet(Places) /\ IsFiniteSet(Offsets)
    BY <1>1, FS_Interval
  <1>3. BytesOf(s) \subseteq Places \X Offsets
    <2>1. ASSUME NEW i \in 1 .. Len(s), NEW b, b \in 1 .. s[i].size
          PROVE  b \in Offsets
      <3>1. s[i].size \in Int /\ s[i].size <= MAX_PACKAGE_SIZE
        BY ElementOfSeq, ParcelSize
      <3>2. QED
        BY <1>1, <2>1, <3>1
    <2>2. QED
      BY <2>1, BytesOfMember
  <1> HIDE DEF Places, Offsets
  <1>4. IsFiniteSet(Places \X Offsets)
    BY <1>2, FS_Product
  <1>5. IsFiniteSet(BytesOf(s))
    BY <1>3, <1>4, FS_Subset
  <1>6. QED
    BY <1>5, FS_CardinalityType DEF SumOfSizes

(* The bytes of one package. *)
LEMMA OnePackage ==
  ASSUME NEW i, NEW n \in Nat
  PROVE  IsFiniteSet({i} \X (1 .. n)) /\ Cardinality({i} \X (1 .. n)) = n
  <1>1. IsFiniteSet({i}) /\ Cardinality({i}) = 1
    BY FS_Singleton
  <1>2. IsFiniteSet(1 .. n) /\ Cardinality(1 .. n) = n
    BY FS_Interval
  <1>3. Cardinality({i} \X (1 .. n)) = Cardinality({i}) * Cardinality(1 .. n)
    BY <1>1, <1>2, FS_Product
  <1>4. IsFiniteSet({i} \X (1 .. n))
    BY <1>1, <1>2, FS_Product
  <1>5. QED
    BY <1>1, <1>2, <1>3, <1>4

LEMMA SumOfNone == SumOfSizes(<<>>) = 0
  <1>1. BytesOf(<<>>) = {}
    <2>1. <<>> \in Seq(Parcels) /\ Len(<<>>) = 0
      BY EmptySeq
    <2>2. ASSUME NEW i \in 1 .. Len(<<>>) PROVE FALSE
      BY <2>1
    <2>3. QED
      BY <2>1, <2>2, BytesOfMember
  <1>2. QED
    BY <1>1, FS_EmptySet DEF SumOfSizes

LEMMA SumOfAppend ==
  ASSUME NEW s \in Seq(Parcels), NEW p \in Parcels
  PROVE  SumOfSizes(Append(s, p)) = SumOfSizes(s) + p.size
  <1> DEFINE t == Append(s, p)
             new == {Len(s) + 1} \X (1 .. p.size)
  <1>1. /\ t \in Seq(Parcels) /\ Len(t) = Len(s) + 1 /\ Len(s) \in Nat
        /\ \A i \in 1 .. Len(s) : t[i] = s[i]
        /\ t[Len(s) + 1] = p
    BY AppendProperties, LenProperties
  <1>2. p.size \in Nat
    BY ParcelSize, SizeAssumption
  <1> HIDE DEF t
  <1>3. 1 .. Len(t) = (1 .. Len(s)) \cup {Len(s) + 1}
    BY <1>1
  <1>4. BytesOf(t) = BytesOf(s) \cup new
    <2>1. ASSUME NEW x PROVE x \in BytesOf(t) <=> x \in BytesOf(s) \cup new
      <3>1. x \in BytesOf(t) <=> \E i \in 1 .. Len(t) : \E b \in 1 .. t[i].size : x = <<i, b>>
        BY <1>1, BytesOfMember
      <3>2. @ <=> \/ \E i \in 1 .. Len(s) : \E b \in 1 .. t[i].size : x = <<i, b>>
                  \/ \E b \in 1 .. t[Len(s) + 1].size : x = <<Len(s) + 1, b>>
        BY <1>3
      <3>3. @ <=> \/ \E i \in 1 .. Len(s) : \E b \in 1 .. s[i].size : x = <<i, b>>
                  \/ x \in new
        BY <1>1
      <3>4. QED
        BY <3>1, <3>2, <3>3, BytesOfMember
    <2>2. QED
      BY <2>1
  <1>5. BytesOf(s) \cap new = {}
    BY <1>1, BytesOfMember
  <1>6. IsFiniteSet(new) /\ Cardinality(new) = p.size
    BY <1>2, OnePackage
  <1> HIDE DEF new
  <1>7. Cardinality(BytesOf(t)) = Cardinality(BytesOf(s)) + Cardinality(new) - Cardinality({})
    BY <1>4, <1>5, <1>6, BytesOfFinite, FS_Union
  <1>8. Cardinality(BytesOf(s)) \in Nat
    BY BytesOfFinite DEF SumOfSizes
  <1>9. QED
    BY <1>2, <1>6, <1>7, <1>8, FS_EmptySet DEF SumOfSizes, t

(* What RemoveAt leaves, place by place. *)
LEMMA RemoveAtElements ==
  ASSUME NEW S, NEW s \in Seq(S), NEW i \in 1 .. Len(s)
  PROVE  \A j \in 1 .. Len(s) - 1 : RemoveAt(s, i)[j] = s[IF j < i THEN j ELSE j + 1]
  <1>1. Len(s) \in Nat /\ \A k \in 1 .. Len(s) : s[k] \in S
    BY LenProperties, ElementOfSeq
  <1> DEFINE front == SubSeq(s, 1, i - 1)
             back  == SubSeq(s, i + 1, Len(s))
  <1>2. /\ front \in Seq(S) /\ Len(front) = i - 1
        /\ \A j \in 1 .. i - 1 : front[j] = s[j]
    <2>1. i - 1 \in Int /\ \A k \in 1 .. i - 1 : s[k] \in S
      BY <1>1
    <2>2. /\ front \in Seq(S) /\ Len(front) = IF 1 <= i - 1 THEN (i - 1) - 1 + 1 ELSE 0
          /\ \A j \in 1 .. (i - 1) - 1 + 1 : front[j] = s[1 + j - 1]
      BY <2>1, SubSeqProperties
    <2> HIDE DEF front
    <2>3. ASSUME NEW j \in 1 .. i - 1 PROVE front[j] = s[j]
      <3>1. j \in 1 .. (i - 1) - 1 + 1 /\ 1 + j - 1 = j
        BY <1>1
      <3>2. QED
        BY <2>2, <3>1
    <2>4. Len(front) = i - 1
      BY <1>1, <2>2
    <2>5. QED
      BY <2>2, <2>3, <2>4
  <1>3. /\ back \in Seq(S) /\ Len(back) = Len(s) - i
        /\ \A j \in 1 .. Len(s) - i : back[j] = s[i + j]
    <2>1. i + 1 \in Int /\ \A k \in i + 1 .. Len(s) : s[k] \in S
      BY <1>1
    <2>2. /\ back \in Seq(S)
          /\ Len(back) = IF i + 1 <= Len(s) THEN Len(s) - (i + 1) + 1 ELSE 0
          /\ \A j \in 1 .. Len(s) - (i + 1) + 1 : back[j] = s[(i + 1) + j - 1]
      BY <1>1, <2>1, SubSeqProperties
    <2> HIDE DEF back
    <2>3. ASSUME NEW j \in 1 .. Len(s) - i PROVE back[j] = s[i + j]
      <3>1. j \in 1 .. Len(s) - (i + 1) + 1 /\ (i + 1) + j - 1 = i + j
        BY <1>1
      <3>2. QED
        BY <2>2, <3>1
    <2>4. Len(back) = Len(s) - i
      BY <1>1, <2>2
    <2>5. QED
      BY <2>2, <2>3, <2>4
  <1>4. RemoveAt(s, i) = front \o back
    BY DEF RemoveAt
  <1> HIDE DEF front, back
  <1>5. \A j \in 1 .. Len(front) + Len(back) :
          (front \o back)[j] = IF j <= Len(front) THEN front[j] ELSE back[j - Len(front)]
    BY <1>2, <1>3, ConcatProperties
  <1>6. ASSUME NEW j \in 1 .. Len(s) - 1
        PROVE  RemoveAt(s, i)[j] = s[IF j < i THEN j ELSE j + 1]
    <2>1. RemoveAt(s, i)[j] = IF j <= i - 1 THEN front[j] ELSE back[j - (i - 1)]
      BY <1>1, <1>2, <1>3, <1>4, <1>5
    <2>2. CASE j < i
      <3>1. j \in 1 .. i - 1
        BY <1>1, <2>2
      <3>2. QED
        BY <1>2, <2>1, <2>2, <3>1
    <2>3. CASE ~(j < i)
      <3>1. j - (i - 1) \in 1 .. Len(s) - i /\ i + (j - (i - 1)) = j + 1 /\ ~(j <= i - 1)
        BY <1>1, <2>3
      <3>2. back[j - (i - 1)] = s[j + 1]
        BY <1>3, <3>1
      <3>3. QED
        BY <2>1, <2>3, <3>1, <3>2
    <2>4. QED
      BY <2>2, <2>3
  <1>7. QED
    BY <1>6

LEMMA SumOfRemoveAt ==
  ASSUME NEW s \in Seq(Parcels), NEW i \in 1 .. Len(s)
  PROVE  SumOfSizes(RemoveAt(s, i)) = SumOfSizes(s) - s[i].size
  <1> DEFINE r == RemoveAt(s, i)
             old == {i} \X (1 .. s[i].size)
             rest == BytesOf(s) \ old
             Was(j) == IF j < i THEN j ELSE j + 1
             F == [x \in BytesOf(r) |-> <<Was(x[1]), x[2]>>]
  <1>1. Len(s) \in Nat /\ s[i].size \in Nat
    BY LenProperties, ElementOfSeq, ParcelSize, SizeAssumption
  <1>2. /\ r \in Seq(Parcels) /\ Len(r) = Len(s) - 1
        /\ \A j \in 1 .. Len(s) - 1 : r[j] = s[Was(j)]
    BY RemoveAtProperties, RemoveAtElements
  <1> HIDE DEF r
  <1>3. \A j \in 1 .. Len(r) : Was(j) \in (1 .. Len(s)) \ {i}
    BY <1>1, <1>2
  <1>4. \A k \in (1 .. Len(s)) \ {i} : \E j \in 1 .. Len(r) : Was(j) = k
    <2> SUFFICES ASSUME NEW k \in (1 .. Len(s)) \ {i}
                 PROVE  \E j \in 1 .. Len(r) : Was(j) = k
      OBVIOUS
    <2>1. CASE k < i
      <3>1. k \in 1 .. Len(r) /\ Was(k) = k
        BY <1>1, <1>2, <2>1
      <3>2. QED
        BY <3>1
    <2>2. CASE ~(k < i)
      <3>1. k - 1 \in 1 .. Len(r) /\ Was(k - 1) = k
        BY <1>1, <1>2, <2>2
      <3>2. QED
        BY <3>1
    <2>3. QED
      BY <2>1, <2>2
  <1>5. \A j, k \in 1 .. Len(r) : Was(j) = Was(k) => j = k
    BY <1>1, <1>2
  <1>6. \A j \in 1 .. Len(r) : r[j].size = s[Was(j)].size
    BY <1>2
  <1> HIDE DEF Was
  <1>7. \A x \in BytesOf(r) : \E j \in 1 .. Len(r) : \E b \in 1 .. r[j].size : x = <<j, b>>
    BY <1>2, BytesOfMember
  <1>8. \A x \in BytesOf(r) : F[x] \in rest
    <2> SUFFICES ASSUME NEW x \in BytesOf(r) PROVE F[x] \in rest
      OBVIOUS
    <2>1. PICK j \in 1 .. Len(r) : \E b \in 1 .. r[j].size : x = <<j, b>>
      BY <1>7
    <2>2. PICK b \in 1 .. r[j].size : x = <<j, b>>
      BY <2>1
    <2>3. F[x] = <<Was(j), b>>
      BY <2>2
    <2>4. Was(j) \in 1 .. Len(s) /\ Was(j) # i /\ b \in 1 .. s[Was(j)].size
      BY <1>3, <1>6, <2>2
    <2>5. QED
      BY <2>3, <2>4, BytesOfMember
  <1>9. \A x, y \in BytesOf(r) : F[x] = F[y] => x = y
    <2> SUFFICES ASSUME NEW x \in BytesOf(r), NEW y \in BytesOf(r), F[x] = F[y]
                 PROVE  x = y
      OBVIOUS
    <2>1. PICK j \in 1 .. Len(r) : \E b \in 1 .. r[j].size : x = <<j, b>>
      BY <1>7
    <2>2. PICK b \in 1 .. r[j].size : x = <<j, b>>
      BY <2>1
    <2>3. PICK k \in 1 .. Len(r) : \E c \in 1 .. r[k].size : y = <<k, c>>
      BY <1>7
    <2>4. PICK c \in 1 .. r[k].size : y = <<k, c>>
      BY <2>3
    <2>5. F[x] = <<Was(j), b>> /\ F[y] = <<Was(k), c>>
      BY <2>2, <2>4
    <2>6. Was(j) = Was(k) /\ b = c
      BY <2>5
    <2>7. QED
      BY <1>5, <2>2, <2>4, <2>6
  <1>10. \A y \in rest : \E x \in BytesOf(r) : F[x] = y
    <2> SUFFICES ASSUME NEW y \in rest PROVE \E x \in BytesOf(r) : F[x] = y
      OBVIOUS
    <2>1. PICK k \in 1 .. Len(s) : \E c \in 1 .. s[k].size : y = <<k, c>>
      BY BytesOfMember
    <2>2. PICK c \in 1 .. s[k].size : y = <<k, c>>
      BY <2>1
    <2>3. k # i
      <3>1. y \notin old
        OBVIOUS
      <3>2. k = i => y \in old
        BY <2>2
      <3>3. QED
        BY <3>1, <3>2
    <2>4. PICK j \in 1 .. Len(r) : Was(j) = k
      BY <1>4, <2>3
    <2>5. c \in 1 .. r[j].size
      BY <1>6, <2>2, <2>4
    <2>6. <<j, c>> \in BytesOf(r)
      BY <1>2, <2>5, BytesOfMember
    <2>7. F[<<j, c>>] = y
      BY <2>2, <2>4, <2>6
    <2>8. QED
      BY <2>6, <2>7
  <1>11. F \in [BytesOf(r) -> rest]
    BY <1>8
  <1>12. old \subseteq BytesOf(s)
    BY BytesOfMember
  <1>13. IsFiniteSet(old) /\ Cardinality(old) = s[i].size
    BY <1>1, OnePackage
  <1> HIDE DEF old, F
  <1>14. IsFiniteSet(rest) /\ Cardinality(rest) = Cardinality(BytesOf(s)) - Cardinality(old)
    <2>1. BytesOf(s) \cap old = old
      BY <1>12
    <2>2. QED
      BY <2>1, BytesOfFinite, FS_Difference
  <1> HIDE DEF rest
  <1>15. ExistsBijection(BytesOf(r), rest)
    <2>1. F \in Bijection(BytesOf(r), rest)
      BY <1>9, <1>10, <1>11, Fun_IsBij
    <2>2. QED
      BY <2>1, Fun_ExistsBij
  <1>16. Cardinality(rest) = Cardinality(BytesOf(r))
    BY <1>2, <1>15, BytesOfFinite, FS_Bijection
  <1>17. QED
    BY <1>13, <1>14, <1>16 DEF SumOfSizes, r

(* Taking the first package out is RemoveAt(s, 1). *)
LEMMA SumOfTail ==
  ASSUME NEW s \in Seq(Parcels), s # <<>>
  PROVE  /\ Tail(s) \in Seq(Parcels)
         /\ SumOfSizes(Tail(s)) <= SumOfSizes(s)
  <1>1. /\ Tail(s) \in Seq(Parcels) /\ Len(Tail(s)) = Len(s) - 1
        /\ \A j \in 1 .. Len(Tail(s)) : Tail(s)[j] = s[j + 1]
    BY HeadTailProperties
  <1>2. Len(s) \in Nat \ {0}
    BY EmptySeq
  <1>3. 1 \in 1 .. Len(s)
    BY <1>2
  <1>4. RemoveAt(s, 1) \in Seq(Parcels) /\ Len(RemoveAt(s, 1)) = Len(s) - 1
    BY <1>3, RemoveAtProperties
  <1>5. \A j \in 1 .. Len(s) - 1 : RemoveAt(s, 1)[j] = s[j + 1]
    <2>1. \A j \in 1 .. Len(s) - 1 : RemoveAt(s, 1)[j] = s[IF j < 1 THEN j ELSE j + 1]
      BY <1>3, RemoveAtElements
    <2>2. QED
      BY <1>2, <2>1
  <1>6. Tail(s) = RemoveAt(s, 1)
    BY <1>1, <1>4, <1>5, SeqEqual
  <1>7. s[1].size \in Nat
    BY <1>3, ElementOfSeq, ParcelSize, SizeAssumption
  <1>8. SumOfSizes(Tail(s)) = SumOfSizes(s) - s[1].size
    BY <1>3, <1>6, SumOfRemoveAt
  <1>9. SumOfSizes(s) \in Nat
    BY BytesOfFinite
  <1>10. QED
    BY <1>1, <1>7, <1>8, <1>9

Held == SumOfSizes(packageIn) + consumer.size

Clearing == {"clearOut", "clearIn", "resetBytes"}

(* Where `bytes` counts `held` bytes as a word that may be behind by `lag`. *)
Counts(bytes, held, lag) == bytes = held - lag \/ bytes = held - lag + Word

(* The counter agrees with the bytes queued and in the hands of the consumer *)
(* but for one package: the one GetPackage had dequeued and not subtracted   *)
(* when ClearQueuedPackages last stored zero.                                *)
BytesAreCounted ==
    /\ packageIn \in Seq(Parcels)
    /\ consumer.size \in 0 .. MAX_PACKAGE_SIZE
    /\ consumer.at # "settle" => consumer.size = 0
    /\ strand = "resetBytes" => packageIn = <<>>
    /\ Held <= MAX_INBOUND_QUEUED_BYTES + MAX_PACKAGE_SIZE
    /\ strand \notin Clearing =>
         \E lag \in 0 .. MAX_PACKAGE_SIZE : Counts(inboundQueuedBytes, Held, lag)

(* Arithmetic modulo Word, at most one turn away. *)
LEMMA ModOneTurn ==
  ASSUME NEW n \in Int
  PROVE  /\ n \in 0 .. Word - 1 => n % Word = n
         /\ n \in -Word .. -1 => n % Word = n + Word
         /\ n \in Word .. 2 * Word - 1 => n % Word = n - Word
  BY SizeAssumption

LEMMA CountUp ==
  ASSUME NEW bytes \in 0 .. Word - 1, NEW held \in Nat,
         held <= MAX_INBOUND_QUEUED_BYTES + MAX_PACKAGE_SIZE,
         NEW lag \in 0 .. MAX_PACKAGE_SIZE, NEW size \in 0 .. MAX_PACKAGE_SIZE,
         Counts(bytes, held, lag)
  PROVE  /\ Counts((bytes + size) % Word, held + size, lag)
         /\ (bytes + size) % Word <= MAX_INBOUND_QUEUED_BYTES =>
              held + size <= MAX_INBOUND_QUEUED_BYTES + MAX_PACKAGE_SIZE
  <1>1. /\ bytes \in Int /\ 0 <= bytes /\ bytes < Word
        /\ lag \in Int /\ 0 <= lag /\ lag <= MAX_PACKAGE_SIZE
        /\ size \in Int /\ 0 <= size /\ size <= MAX_PACKAGE_SIZE
        /\ MAX_PACKAGE_SIZE \in Int /\ MAX_INBOUND_QUEUED_BYTES \in Int /\ Word \in Int
        /\ MAX_INBOUND_QUEUED_BYTES + 2 * MAX_PACKAGE_SIZE < Word
        /\ 0 <= MAX_INBOUND_QUEUED_BYTES
    BY SizeAssumption
  <1>2. bytes = held - lag \/ bytes = held - lag + Word
    BY DEF Counts
  <1>3. CASE bytes = held - lag
    <2>1. bytes + size \in 0 .. Word - 1 /\ bytes + size = held + size - lag
      BY <1>1, <1>3
    <2>2. (bytes + size) % Word = held + size - lag
      BY <2>1, ModOneTurn
    <2>3. held + size - lag <= MAX_INBOUND_QUEUED_BYTES =>
            held + size <= MAX_INBOUND_QUEUED_BYTES + MAX_PACKAGE_SIZE
      BY <1>1
    <2>4. QED
      BY <2>2, <2>3 DEF Counts
  <1>4. CASE bytes = held - lag + Word
    <2>1. CASE held + size < lag
      <3>1. bytes + size \in 0 .. Word - 1 /\ bytes + size = held + size - lag + Word
        BY <1>1, <1>4, <2>1
      <3>2. (bytes + size) % Word = held + size - lag + Word
        BY <1>1, <3>1, ModOneTurn
      <3>3. held + size <= MAX_INBOUND_QUEUED_BYTES + MAX_PACKAGE_SIZE
        BY <1>1, <2>1
      <3>4. QED
        BY <3>2, <3>3 DEF Counts
    <2>2. CASE ~(held + size < lag)
      <3>1. /\ bytes + size \in Word .. 2 * Word - 1
            /\ bytes + size - Word = held + size - lag
        BY <1>1, <1>4, <2>2
      <3>2. (bytes + size) % Word = held + size - lag
        BY <1>1, <3>1, ModOneTurn
      <3>3. held + size - lag <= MAX_INBOUND_QUEUED_BYTES =>
              held + size <= MAX_INBOUND_QUEUED_BYTES + MAX_PACKAGE_SIZE
        BY <1>1
      <3>4. QED
        BY <3>2, <3>3 DEF Counts
    <2>3. QED
      BY <2>1, <2>2
  <1>5. QED
    BY <1>2, <1>3, <1>4

LEMMA CountDown ==
  ASSUME NEW bytes \in 0 .. Word - 1, NEW held \in Nat, NEW left \in Nat,
         held <= MAX_INBOUND_QUEUED_BYTES + MAX_PACKAGE_SIZE,
         NEW lag \in 0 .. MAX_PACKAGE_SIZE, NEW size \in 0 .. MAX_PACKAGE_SIZE,
         held = left + size, Counts(bytes, held, lag)
  PROVE  Counts(Minus(bytes, size), left, lag)
  <1>1. /\ bytes \in Int /\ 0 <= bytes /\ bytes < Word
        /\ lag \in Int /\ 0 <= lag /\ lag <= MAX_PACKAGE_SIZE
        /\ size \in Int /\ 0 <= size /\ size <= MAX_PACKAGE_SIZE
        /\ MAX_PACKAGE_SIZE \in Int /\ MAX_INBOUND_QUEUED_BYTES \in Int /\ Word \in Int
        /\ MAX_INBOUND_QUEUED_BYTES + 2 * MAX_PACKAGE_SIZE < Word
        /\ 0 <= MAX_INBOUND_QUEUED_BYTES
    BY SizeAssumption
  <1>2. Minus(bytes, size) = (bytes - size) % Word
    BY DEF Minus
  <1>3. bytes = held - lag \/ bytes = held - lag + Word
    BY DEF Counts
  <1>4. CASE left < lag
    <2>1. \/ bytes - size \in 0 .. Word - 1 /\ bytes - size = left - lag + Word
          \/ bytes - size \in -Word .. -1 /\ bytes - size + Word = left - lag + Word
      BY <1>1, <1>3, <1>4
    <2>2. (bytes - size) % Word = left - lag + Word
      BY <1>1, <2>1, ModOneTurn
    <2>3. QED
      BY <1>2, <2>2 DEF Counts
  <1>5. CASE ~(left < lag)
    <2>1. bytes - size \in 0 .. Word - 1 /\ bytes - size = left - lag
      BY <1>1, <1>3, <1>5
    <2>2. (bytes - size) % Word = left - lag
      BY <1>1, <2>1, ModOneTurn
    <2>3. QED
      BY <1>2, <2>2 DEF Counts
  <1>6. QED
    BY <1>4, <1>5

(* Steps that leave the queue, its counter and the consumer alone. *)
LEMMA BytesUntouched ==
  ASSUME BytesAreCounted,
         packageIn' = packageIn, inboundQueuedBytes' = inboundQueuedBytes, consumer' = consumer,
         \/ strand' = strand
         \/ strand' \in Clearing \ {"resetBytes"}
         \/ strand \notin Clearing /\ strand' # "resetBytes"
  PROVE  BytesAreCounted'
  <1>1. Held' = Held
    BY DEF Held
  <1>2. strand' \notin Clearing => strand \notin Clearing
    OBVIOUS
  <1>3. strand' = "resetBytes" => strand = "resetBytes"
    OBVIOUS
  <1>4. QED
    BY <1>1, <1>2, <1>3 DEF BytesAreCounted

LEMMA DisconnectLeavesBytes ==
  ASSUME CoDisconnect
  PROVE  packageIn' = packageIn /\ strand' \in {strand, "clearOut"}
  BY DEF CoDisconnect, conn

LEMMA DisconnectingBytes == IInv /\ BytesAreCounted /\ Disconnecting => BytesAreCounted'
  <1> SUFFICES ASSUME IInv, BytesAreCounted, Disconnecting PROVE BytesAreCounted'
    OBVIOUS
  <1>1. CASE ClearOutbound
    BY <1>1, BytesUntouched DEF ClearOutbound, inbound, offStrand, Clearing
  <1>2. CASE ClearInbound
    <2>1. /\ strand = "clearIn" /\ consumer' = consumer
          /\ inboundQueuedBytes' = inboundQueuedBytes
      BY <1>2 DEF ClearInbound, offStrand
    <2>2. CASE packageIn = <<>>
      <3>1. packageIn' = packageIn /\ strand' = "resetBytes"
        BY <1>2, <2>2 DEF ClearInbound
      <3>2. Held' = Held
        BY <2>1, <3>1 DEF Held
      <3>3. strand' \in Clearing
        BY <3>1 DEF Clearing
      <3>4. QED
        BY <2>1, <2>2, <3>1, <3>2, <3>3 DEF BytesAreCounted
    <2>3. CASE packageIn # <<>>
      <3>1. packageIn' = Tail(packageIn) /\ strand' = "clearIn"
        BY <1>2, <2>1, <2>3 DEF ClearInbound
      <3>2. packageIn \in Seq(Parcels)
        BY DEF BytesAreCounted
      <3>3. /\ Tail(packageIn) \in Seq(Parcels)
            /\ SumOfSizes(Tail(packageIn)) <= SumOfSizes(packageIn)
        BY <2>3, <3>2, SumOfTail
      <3>4. SumOfSizes(packageIn') <= SumOfSizes(packageIn)
        BY <3>1, <3>3
      <3>5. SumOfSizes(packageIn) \in Nat /\ SumOfSizes(packageIn') \in Nat
        BY <3>1, <3>2, <3>3, BytesOfFinite
      <3>6. /\ consumer.size \in Int /\ MAX_INBOUND_QUEUED_BYTES \in Int
            /\ MAX_PACKAGE_SIZE \in Int
        BY SizeAssumption DEF BytesAreCounted
      <3>7. SumOfSizes(packageIn) + consumer.size
              <= MAX_INBOUND_QUEUED_BYTES + MAX_PACKAGE_SIZE
        BY DEF BytesAreCounted, Held
      <3>8. SumOfSizes(packageIn') + consumer'.size
              <= MAX_INBOUND_QUEUED_BYTES + MAX_PACKAGE_SIZE
        BY <2>1, <3>4, <3>5, <3>6, <3>7
      <3>9. strand' # "resetBytes" /\ strand' \in Clearing
        BY <3>1 DEF Clearing
      <3>10. QED
        BY <2>1, <3>1, <3>3, <3>8, <3>9 DEF BytesAreCounted, Held
    <2>4. QED
      BY <2>2, <2>3
  <1>3. CASE ResetInboundBytes
    <2>1. /\ strand = "resetBytes" /\ strand' = "finish"
          /\ inboundQueuedBytes' = 0
          /\ packageIn' = packageIn /\ consumer' = consumer
      BY <1>3 DEF ResetInboundBytes, offStrand
    <2>2. SumOfSizes(packageIn') = 0
      BY <2>1, SumOfNone DEF BytesAreCounted
    <2>3. consumer.size \in 0 .. MAX_PACKAGE_SIZE /\ consumer.size \in Int
      BY DEF BytesAreCounted
    <2>4. Held' = consumer.size
      BY <2>1, <2>2, <2>3 DEF Held
    <2>5. Counts(0, consumer.size, consumer.size)
      BY <2>3 DEF Counts
    <2>6. Held' = Held
      BY <2>1 DEF Held
    <2>7. QED
      BY <2>1, <2>3, <2>4, <2>5, <2>6 DEF BytesAreCounted
  <1>4. CASE FinishDisconnect
    BY <1>4, BytesUntouched DEF FinishDisconnect, inbound, offStrand, Clearing
  <1>5. CASE ReportFailure
    BY <1>5, BytesUntouched DEF ReportFailure, inbound, offStrand, Clearing
  <1>6. CASE PostedDisconnect
    BY <1>6, BytesUntouched, DisconnectLeavesBytes DEF PostedDisconnect, Clearing
  <1>7. QED
    BY <1>1, <1>2, <1>3, <1>4, <1>5, <1>6 DEF Disconnecting

LEMMA DialingBytes == BytesAreCounted /\ Dialing => BytesAreCounted'
  <1> SUFFICES ASSUME BytesAreCounted, Dialing PROVE BytesAreCounted'
    OBVIOUS
  <1>1. ASSUME NEW mode \in Modes, StartAttempt(mode) PROVE BytesAreCounted'
    BY <1>1, BytesUntouched DEF StartAttempt, inbound, offStrand
  <1>2. CASE NamePeer
    BY <1>2, BytesUntouched DEF NamePeer, inbound, offStrand, Clearing
  <1>3. ASSUME NEW d \in dialers, SocketOpened(d) PROVE BytesAreCounted'
    BY <1>3, BytesUntouched DEF SocketOpened, inbound, offStrand
  <1>4. ASSUME NEW d \in dialers, Establish(d) PROVE BytesAreCounted'
    <2>1. strand' = strand \/ (strand \notin Clearing /\ strand' # "resetBytes")
      BY <1>4 DEF Establish, Free, Clearing
    <2>2. QED
      BY <1>4, <2>1, BytesUntouched DEF Establish, inbound, offStrand
  <1>5. ASSUME NEW d \in dialers, AttemptFails(d) PROVE BytesAreCounted'
    BY <1>5, BytesUntouched, DisconnectLeavesBytes DEF AttemptFails, offStrand, Clearing
  <1>6. ASSUME NEW d \in dialers, AttemptEnds(d) PROVE BytesAreCounted'
    BY <1>6, BytesUntouched DEF AttemptEnds, inbound, offStrand
  <1>7. QED
    BY <1>1, <1>2, <1>3, <1>4, <1>5, <1>6 DEF Dialing

(* CoReceive counts a package and queues it, or goes over the limit. *)
LEMMA EnqueueBytes ==
  ASSUME IInv, BytesAreCounted, NEW g \in Generations, NEW size \in Sizes,
         CoReceiveEnqueues(g, size)
  PROVE  BytesAreCounted'
  <1> DEFINE parcel == [size |-> size, session |-> g]
  <1>1. /\ strand = "free" /\ strand' = strand /\ consumer' = consumer
        /\ size <= MAX_PACKAGE_SIZE
        /\ inboundQueuedBytes' = (inboundQueuedBytes + size) % Word
        /\ inboundQueuedBytes' <= MAX_INBOUND_QUEUED_BYTES
        /\ packageIn' = Append(packageIn, parcel)
    BY DEF CoReceiveEnqueues, Receives, Free, offStrand
  <1>2. size \in Nat /\ size \in 0 .. MAX_PACKAGE_SIZE
    BY <1>1, SizeAssumption
  <1>3. g \in Nat
    BY BoundAssumption DEF Generations
  <1>4. parcel \in Parcels /\ parcel.size = size
    BY <1>1, <1>3 DEF Parcels
  <1>5. packageIn \in Seq(Parcels)
    BY DEF BytesAreCounted
  <1> HIDE DEF parcel
  <1>6. /\ packageIn' \in Seq(Parcels)
        /\ SumOfSizes(packageIn') = SumOfSizes(packageIn) + size
    BY <1>1, <1>4, <1>5, AppendProperties, SumOfAppend
  <1>7. consumer.size \in Nat /\ SumOfSizes(packageIn) \in Nat
    BY <1>5, BytesOfFinite DEF BytesAreCounted
  <1>8. Held' = Held + size /\ Held \in Nat
    BY <1>1, <1>2, <1>6, <1>7 DEF Held
  <1>9. PICK lag \in 0 .. MAX_PACKAGE_SIZE : Counts(inboundQueuedBytes, Held, lag)
    BY <1>1 DEF BytesAreCounted, Clearing
  <1>10. inboundQueuedBytes \in 0 .. Word - 1
    BY DEF IInv, TypeOK
  <1>11. Held <= MAX_INBOUND_QUEUED_BYTES + MAX_PACKAGE_SIZE
    BY DEF BytesAreCounted
  <1>12. /\ Counts((inboundQueuedBytes + size) % Word, Held + size, lag)
         /\ (inboundQueuedBytes + size) % Word <= MAX_INBOUND_QUEUED_BYTES =>
              Held + size <= MAX_INBOUND_QUEUED_BYTES + MAX_PACKAGE_SIZE
    BY <1>2, <1>8, <1>9, <1>10, <1>11, CountUp
  <1>13. /\ Counts(inboundQueuedBytes', Held', lag)
         /\ Held' <= MAX_INBOUND_QUEUED_BYTES + MAX_PACKAGE_SIZE
    BY <1>1, <1>8, <1>12
  <1>14. /\ consumer'.size \in 0 .. MAX_PACKAGE_SIZE
         /\ consumer'.at # "settle" => consumer'.size = 0
         /\ strand' # "resetBytes"
    BY <1>1 DEF BytesAreCounted
  <1>15. QED
    BY <1>6, <1>13, <1>14 DEF BytesAreCounted

LEMMA OverLimitBytes ==
  ASSUME BytesAreCounted, NEW g \in Generations, NEW size \in Sizes,
         CoReceiveOverLimit(g, size)
  PROVE  BytesAreCounted'
  <1>1. strand' = "clearOut" /\ packageIn' = packageIn /\ consumer' = consumer
    BY DEF CoReceiveOverLimit, CoDisconnect, Receives, IsCurrent, offStrand
  <1>2. Held' = Held
    BY <1>1 DEF Held
  <1>3. strand' \in Clearing
    BY <1>1 DEF Clearing
  <1>4. QED
    BY <1>1, <1>2, <1>3 DEF BytesAreCounted

LEMMA SessionBytes ==
  ASSUME IInv, BytesAreCounted, NEW g \in Generations, Session(g)
  PROVE  BytesAreCounted'
  <1>1. CASE \/ CoSendWakes(g) \/ CoSendWritten(g) \/ CoReceiveHeartbeat(g)
             \/ HeartbeatDue(g) \/ MonitorChecks(g)
             \/ \E role \in Roles : CoroutineEnds(role, g)
    BY <1>1, BytesUntouched
       DEF CoSendWakes, CoSendWritten, CoReceiveHeartbeat, HeartbeatDue, MonitorChecks,
           CoroutineEnds, inbound, offStrand
  <1>2. CASE CoSendFails(g)
    <2>1. packageIn' = packageIn /\ strand' \in {strand, "clearOut"}
      BY <1>2, DisconnectLeavesBytes DEF CoSendFails
    <2>2. QED
      BY <1>2, <2>1, BytesUntouched DEF CoSendFails, offStrand, Clearing
  <1>3. CASE CoReceiveFails(g) \/ MonitorTimesOut(g)
    BY <1>3, BytesUntouched, DisconnectLeavesBytes
       DEF CoReceiveFails, MonitorTimesOut, offStrand, Clearing
  <1>4. CASE \E size \in Sizes : CoReceiveEnqueues(g, size) \/ CoReceiveOverLimit(g, size)
    BY <1>4, EnqueueBytes, OverLimitBytes
  <1>5. QED
    BY <1>1, <1>2, <1>3, <1>4 DEF Session

(* Between the dequeue and the subtraction the consumer holds the package. *)
LEMMA DequeueBytes ==
  ASSUME BytesAreCounted, GetPackageDequeues
  PROVE  BytesAreCounted'
  <1>1. /\ consumer.at = "drain" /\ strand' = strand
        /\ inboundQueuedBytes' = inboundQueuedBytes
    BY DEF GetPackageDequeues, OnConsumer
  <1>2. PICK i \in 1 .. Len(packageIn) :
          /\ packageIn' = RemoveAt(packageIn, i)
          /\ consumer' = [at |-> "settle", size |-> packageIn[i].size]
    BY DEF GetPackageDequeues
  <1>3. packageIn \in Seq(Parcels)
    BY DEF BytesAreCounted
  <1>4. packageIn[i] \in Parcels
    BY <1>3, ElementOfSeq
  <1>5. packageIn[i].size \in Nat /\ packageIn[i].size \in 0 .. MAX_PACKAGE_SIZE
    <2>1. packageIn[i].size \in Nat /\ packageIn[i].size <= MAX_PACKAGE_SIZE
      BY <1>4, ParcelSize
    <2>2. QED
      BY <2>1, SizeAssumption
  <1>6. /\ packageIn' \in Seq(Parcels) /\ Len(packageIn') = Len(packageIn) - 1
        /\ SumOfSizes(packageIn') = SumOfSizes(packageIn) - packageIn[i].size
    BY <1>2, <1>3, RemoveAtProperties, SumOfRemoveAt
  <1>7. SumOfSizes(packageIn) \in Nat
    BY <1>3, BytesOfFinite
  <1>8. consumer.size = 0 /\ consumer'.size = packageIn[i].size /\ consumer'.at = "settle"
    BY <1>1, <1>2 DEF BytesAreCounted
  <1>9. Held' = Held
    BY <1>5, <1>6, <1>7, <1>8 DEF Held
  <1>10. strand' # "resetBytes"
    <2>1. Len(packageIn) # 0
      BY <1>3, LenProperties
    <2>2. packageIn # <<>>
      BY <2>1, EmptySeq
    <2>3. QED
      BY <1>1, <2>2 DEF BytesAreCounted
  <1>11. QED
    BY <1>1, <1>5, <1>6, <1>8, <1>9, <1>10 DEF BytesAreCounted

LEMMA SettleBytes ==
  ASSUME IInv, BytesAreCounted, GetPackageSettles
  PROVE  BytesAreCounted'
  <1>1. /\ strand' = strand /\ packageIn' = packageIn
        /\ inboundQueuedBytes' = Minus(inboundQueuedBytes, consumer.size)
        /\ consumer'.size = 0
    BY DEF GetPackageSettles, OnConsumer, Idle
  <1>2. /\ packageIn \in Seq(Parcels)
        /\ consumer.size \in 0 .. MAX_PACKAGE_SIZE /\ consumer.size \in Nat
        /\ Held <= MAX_INBOUND_QUEUED_BYTES + MAX_PACKAGE_SIZE
    BY DEF BytesAreCounted
  <1>3. SumOfSizes(packageIn) \in Nat
    BY <1>2, BytesOfFinite
  <1>4. Held = Held' + consumer.size /\ Held \in Nat /\ Held' \in Nat
    BY <1>1, <1>2, <1>3 DEF Held
  <1>5. Held' <= MAX_INBOUND_QUEUED_BYTES + MAX_PACKAGE_SIZE
    <2>1. MAX_INBOUND_QUEUED_BYTES \in Nat /\ MAX_PACKAGE_SIZE \in Nat
      BY SizeAssumption
    <2>2. QED
      BY <1>2, <1>4, <2>1
  <1>6. inboundQueuedBytes \in 0 .. Word - 1
    BY DEF IInv, TypeOK
  <1>7. ASSUME strand' \notin Clearing
        PROVE  \E lag \in 0 .. MAX_PACKAGE_SIZE : Counts(inboundQueuedBytes', Held', lag)
    <2>1. PICK lag \in 0 .. MAX_PACKAGE_SIZE : Counts(inboundQueuedBytes, Held, lag)
      BY <1>1, <1>7 DEF BytesAreCounted
    <2>2. Counts(Minus(inboundQueuedBytes, consumer.size), Held', lag)
      BY <1>2, <1>4, <1>6, <2>1, CountDown
    <2>3. QED
      BY <1>1, <2>2
  <1>8. consumer'.size \in 0 .. MAX_PACKAGE_SIZE
    BY <1>1, SizeAssumption
  <1>9. strand' = "resetBytes" => packageIn' = <<>>
    BY <1>1 DEF BytesAreCounted
  <1>10. QED
    BY <1>1, <1>2, <1>5, <1>7, <1>8, <1>9 DEF BytesAreCounted

LEMMA OffStrandBytes == IInv /\ BytesAreCounted /\ OffStrand => BytesAreCounted'
  <1> SUFFICES ASSUME IInv, BytesAreCounted, OffStrand PROVE BytesAreCounted'
    OBVIOUS
  <1>1. CASE PostDisconnect \/ SendChecks \/ SendEnqueues
    BY <1>1, BytesUntouched DEF PostDisconnect, SendChecks, SendEnqueues, inbound
  <1>2. CASE ConsumerWakes \/ ConsumerRests
    <2>1. /\ strand' = strand /\ packageIn' = packageIn
          /\ inboundQueuedBytes' = inboundQueuedBytes
          /\ consumer.at # "settle" /\ consumer'.size = 0
      BY <1>2 DEF ConsumerWakes, ConsumerRests, OnConsumer, Idle, inbound
    <2>2. consumer.size = 0
      BY <2>1 DEF BytesAreCounted
    <2>3. Held' = Held
      BY <2>1, <2>2 DEF Held
    <2>4. QED
      BY <2>1, <2>2, <2>3 DEF BytesAreCounted
  <1>3. CASE GetPackageDequeues
    BY <1>3, DequeueBytes
  <1>4. CASE GetPackageSettles
    BY <1>4, SettleBytes
  <1>5. QED
    BY <1>1, <1>2, <1>3, <1>4 DEF OffStrand

LEMMA BytesStep == IInv /\ BytesAreCounted /\ [Next]_vars => BytesAreCounted'
  <1> SUFFICES ASSUME IInv, BytesAreCounted, [Next]_vars PROVE BytesAreCounted'
    OBVIOUS
  <1>1. CASE UNCHANGED vars
    BY <1>1, BytesUntouched DEF vars, inbound, offStrand
  <1>2. CASE Next
    BY <1>2, DisconnectingBytes, DialingBytes, SessionBytes, OffStrandBytes DEF Next
  <1>3. QED
    BY <1>1, <1>2

LEMMA BytesInit == Init => BytesAreCounted
  <1> SUFFICES ASSUME Init PROVE BytesAreCounted
    OBVIOUS
  <1>1. /\ packageIn = <<>> /\ inboundQueuedBytes = 0 /\ strand = "free"
        /\ consumer.size = 0
    BY DEF Init, Idle
  <1>2. packageIn \in Seq(Parcels)
    BY <1>1, EmptySeq
  <1>3. Held = 0
    BY <1>1, SumOfNone DEF Held
  <1>4. 0 \in 0 .. MAX_PACKAGE_SIZE /\ 0 <= MAX_INBOUND_QUEUED_BYTES + MAX_PACKAGE_SIZE
    BY SizeAssumption
  <1>5. Counts(0, 0, 0)
    BY DEF Counts
  <1>6. QED
    BY <1>1, <1>2, <1>3, <1>4, <1>5 DEF BytesAreCounted

(* The counter of queued bytes is never off by more than the one package     *)
(* that was on its way out when the queue was last cleared.                  *)
THEOREM TheCounterIsCloseEnough == Spec => []BytesAreCounted
  <1>1. IInv /\ BytesAreCounted /\ [Next]_vars => BytesAreCounted'
    BY BytesStep
  <1>2. QED
    BY <1>1, BytesInit, Invariance, PTL DEF Spec

(* However GetPackage races ClearQueuedPackages, and though the counter      *)
(* underflows when it loses, m_packageIn never holds more than the limit and *)
(* one package.                                                              *)
THEOREM InboundStaysBounded == Spec => []InboundIsBounded
  <1>1. BytesAreCounted => InboundIsBounded
    <2> SUFFICES ASSUME BytesAreCounted PROVE InboundIsBounded
      OBVIOUS
    <2>1. SumOfSizes(packageIn) \in Nat /\ consumer.size \in Nat
      BY BytesOfFinite DEF BytesAreCounted
    <2>2. SumOfSizes(packageIn) + consumer.size
            <= MAX_INBOUND_QUEUED_BYTES + MAX_PACKAGE_SIZE
      BY DEF BytesAreCounted, Held
    <2>3. MAX_INBOUND_QUEUED_BYTES \in Nat /\ MAX_PACKAGE_SIZE \in Nat
      BY SizeAssumption
    <2>4. QED
      BY <2>1, <2>2, <2>3 DEF InboundIsBounded
  <1>2. QED
    BY <1>1, TheCounterIsCloseEnough, PTL

-------------------------------------------------------------------------------
(* The event stream implements ConnectionContract *)

USE DEF Contract!contractVars

(* Steps the application does not see. *)
LEMMA UnseenStep ==
  ASSUME UNCHANGED <<connectionState, attempt, events>>,
         FailedDialers' = FailedDialers \/ connectionState # "DISCONNECTING",
         strand' = "report" <=> strand = "report"
  PROVE  UNCHANGED Contract!contractVars
  BY DEF ContractPhase

LEMMA ContractDisconnect ==
  ASSUME IInv, Free, CoDisconnect,
         \/ dialers' = dialers
         \/ \E d \in dialers : /\ d.generation = generation
                              /\ dialers' = (dialers \ {d}) \cup {Failed(d)}
  PROVE  Contract!Next \/ UNCHANGED Contract!contractVars
  <1> USE DEF IInv
  <1>1. attempt' = attempt /\ events' = events
    BY DEF CoDisconnect, told
  <1>2. FailedDialers = {} /\ strand # "report"
    BY DEF DialersInOrder, Free, Closing
  <1>3. CASE connectionState \in {"DISCONNECTED", "DISCONNECTING"}
    <2>1. connectionState' = connectionState /\ strand' = strand /\ connectionState # "CONNECTING"
      BY <1>3 DEF CoDisconnect, conn
    <2>2. dialers' = dialers
      BY <2>1 DEF DialersInOrder
    <2>3. QED
      BY <1>1, <2>1, <2>2, UnseenStep DEF FailedDialers
  <1>4. CASE connectionState \notin {"DISCONNECTED", "DISCONNECTING"}
    <2>1. connectionState' = "DISCONNECTING"
      BY <1>4 DEF CoDisconnect
    <2>2. connectionState \in {"CONNECTING", "CONNECTED"}
      BY <1>4 DEF TypeOK, States
    <2>3. ContractPhase \in {"trying", "up"} /\ (connectionState = "CONNECTING" <=> ContractPhase = "trying")
      BY <2>2 DEF ContractPhase
    <2>4. CASE dialers' = dialers
      <3>1. ContractPhase' = "ending"
        BY <1>2, <2>1, <2>4 DEF ContractPhase, FailedDialers
      <3>2. QED
        BY <1>1, <2>3, <3>1 DEF Contract!Next, Contract!StartEnding
    <2>5. CASE \E d \in dialers : /\ d.generation = generation
                                 /\ dialers' = (dialers \ {d}) \cup {Failed(d)}
      <3>1. PICK d \in dialers : /\ d.generation = generation
                               /\ dialers' = (dialers \ {d}) \cup {Failed(d)}
        BY <2>5
      <3>2. Failed(d).stage = "failed"
        BY DEF Failed, TypeOK
      <3>3. ContractPhase' = "failing"
        BY <2>1, <3>1, <3>2 DEF ContractPhase, FailedDialers
      <3>4. ContractPhase = "trying"
        BY <2>3, <3>1 DEF DialersInOrder
      <3>5. QED
        BY <1>1, <3>3, <3>4 DEF Contract!Next, Contract!StartFailing
    <2>6. QED
      BY <2>4, <2>5
  <1>5. QED
    BY <1>3, <1>4

LEMMA ContractDisconnecting ==
  ASSUME IInv, Disconnecting
  PROVE  Contract!Next \/ UNCHANGED Contract!contractVars
  <1> USE DEF IInv
  <1>1. CASE ClearOutbound \/ ClearInbound \/ ResetInboundBytes
    <2>1. /\ connectionState' = connectionState /\ attempt' = attempt /\ events' = events
          /\ dialers' = dialers
          /\ strand # "report" /\ strand' # "report"
      BY <1>1 DEF ClearOutbound, ClearInbound, ResetInboundBytes, conn, told, coroutines
    <2>2. QED
      BY <2>1, UnseenStep DEF FailedDialers
  <1>2. CASE FinishDisconnect
    <2>1. connectionState = "DISCONNECTING" /\ ~disconnectedEventSent
      BY <1>2 DEF FinishDisconnect, StrandMatchesState, EventPending, Closing
    <2>2. /\ connectionState' = "DISCONNECTED" /\ attempt' = attempt
          /\ Post("DISCONNECTED")
          /\ strand' = IF FailedDialers = {} THEN "free" ELSE "report"
      BY <1>2, <2>1 DEF FinishDisconnect
    <2>3. CASE FailedDialers = {}
      BY <2>1, <2>2, <2>3 DEF ContractPhase, Post, Contract!Next, Contract!Ended, Contract!Tell
    <2>4. CASE FailedDialers # {}
      BY <2>1, <2>2, <2>4 DEF ContractPhase, Post, Contract!Next, Contract!TornDown, Contract!Tell
    <2>5. QED
      BY <2>3, <2>4
  <1>3. CASE ReportFailure
    <2>1. connectionState = "DISCONNECTED" /\ strand = "report"
      BY <1>3 DEF ReportFailure, StrandMatchesState
    <2>2. /\ connectionState' = connectionState /\ attempt' = attempt
          /\ Post("FAILURE") /\ strand' = "free"
      BY <1>3 DEF ReportFailure, conn
    <2>3. QED
      BY <2>1, <2>2 DEF ContractPhase, Post, Contract!Next, Contract!ReportFailure, Contract!Tell
  <1>4. CASE PostedDisconnect
    BY <1>4, ContractDisconnect DEF PostedDisconnect, coroutines
  <1>5. QED
    BY <1>1, <1>2, <1>3, <1>4 DEF Disconnecting

LEMMA ContractDialing ==
  ASSUME IInv, Dialing
  PROVE  Contract!Next \/ UNCHANGED Contract!contractVars
  <1> USE DEF IInv
  <1>0. generation \in Nat /\ attempt \in Nat /\ attempt <= generation
    BY DEF TypeOK, GenerationsInOrder
  <1>1. CASE \E mode \in Modes : StartAttempt(mode)
    <2>1. /\ Free /\ attempt' = generation + 1
          /\ connectionState' = "CONNECTING" /\ events' = events
      BY <1>1 DEF StartAttempt
    <2>2. ContractPhase \in {"idle", "trying", "up"} /\ ContractPhase' = "trying"
      BY <2>1 DEF ContractPhase, StrandMatchesState, Free, Closing
    <2>3. attempt' \in Nat /\ attempt' > attempt
      BY <1>0, <2>1
    <2>4. QED
      BY <2>1, <2>2, <2>3 DEF Contract!Next, Contract!Begin
  <1>2. CASE NamePeer
    <2>1. /\ connectionState' = connectionState /\ attempt' = attempt /\ events' = events
          /\ dialers' = dialers /\ strand # "report" /\ strand' # "report"
      BY <1>2 DEF NamePeer, conn, told, coroutines
    <2>2. QED
      BY <2>1, UnseenStep DEF FailedDialers
  <1>3. CASE \E d \in dialers : SocketOpened(d) \/ AttemptEnds(d)
    <2>1. /\ connectionState' = connectionState /\ attempt' = attempt /\ events' = events
          /\ Free /\ strand' = strand
      BY <1>3 DEF SocketOpened, AttemptEnds, conn, told
    <2>2. connectionState # "DISCONNECTING"
      BY <2>1 DEF StrandMatchesState, Free, Closing
    <2>3. QED
      BY <2>1, <2>2, UnseenStep
  <1>4. CASE \E d \in dialers : Establish(d)
    <2>1. PICK d \in dialers : Establish(d)
      BY <1>4
    <2>2. /\ d.generation = generation /\ connectionState' = "CONNECTED"
          /\ attempt' = attempt /\ Post("SUCCESS")
      BY <2>1 DEF Establish
    <2>3. connectionState = "CONNECTING"
      BY <2>2 DEF DialersInOrder
    <2>4. QED
      BY <2>2, <2>3 DEF ContractPhase, Post, Contract!Next, Contract!Succeed, Contract!Tell
  <1>5. CASE \E d \in dialers : AttemptFails(d)
    <2>1. PICK d \in dialers : AttemptFails(d)
      BY <1>5
    <2>2. /\ Free /\ CoDisconnect /\ d.generation = generation
          /\ dialers' = (dialers \ {d}) \cup {Failed(d)}
      BY <2>1 DEF AttemptFails, Failed
    <2>3. QED
      BY <2>2, ContractDisconnect
  <1>6. QED
    BY <1>1, <1>2, <1>3, <1>4, <1>5 DEF Dialing

LEMMA ContractSession ==
  ASSUME IInv, NEW g \in Generations, Session(g)
  PROVE  Contract!Next \/ UNCHANGED Contract!contractVars
  <1>1. dialers' = dialers
    BY DEF Session, CoSendWakes, CoSendWritten, CoSendFails, CoReceiveHeartbeat, CoReceiveFails,
           CoReceiveEnqueues, CoReceiveOverLimit, HeartbeatDue, MonitorChecks, MonitorTimesOut,
           CoroutineEnds, coroutines
  <1>2. Free
    BY DEF Session, CoSendWakes, CoSendWritten, CoSendFails, CoReceiveHeartbeat, CoReceiveFails,
           CoReceiveEnqueues, CoReceiveOverLimit, HeartbeatDue, MonitorChecks, MonitorTimesOut,
           CoroutineEnds, Receives
  <1>3. \/ CoDisconnect
        \/ /\ connectionState' = connectionState /\ attempt' = attempt /\ events' = events
           /\ strand' = strand
    BY DEF Session, CoSendWakes, CoSendWritten, CoSendFails, CoReceiveHeartbeat, CoReceiveFails,
           CoReceiveEnqueues, CoReceiveOverLimit, HeartbeatDue, MonitorChecks, MonitorTimesOut,
           CoroutineEnds, conn, told
  <1>4. CASE CoDisconnect
    BY <1>1, <1>2, <1>4, ContractDisconnect
  <1>5. CASE /\ connectionState' = connectionState /\ attempt' = attempt /\ events' = events
             /\ strand' = strand
    BY <1>1, <1>5, UnseenStep DEF FailedDialers
  <1>6. QED
    BY <1>3, <1>4, <1>5

LEMMA ContractStep == IInv /\ [Next]_vars => [Contract!Next]_(Contract!contractVars)
  <1> SUFFICES ASSUME IInv, [Next]_vars
               PROVE  Contract!Next \/ UNCHANGED Contract!contractVars
    OBVIOUS
  <1>1. CASE OffStrand \/ UNCHANGED vars
    <2>1. /\ connectionState' = connectionState /\ attempt' = attempt /\ events' = events
          /\ dialers' = dialers /\ strand' = strand
      BY <1>1 DEF OffStrand, PostDisconnect, SendChecks, SendEnqueues, ConsumerWakes,
                  ConsumerRests, GetPackageDequeues, GetPackageSettles, OnConsumer,
                  vars, conn, told, coroutines
    <2>2. QED
      BY <2>1, UnseenStep DEF FailedDialers
  <1>2. CASE Disconnecting
    BY <1>2, ContractDisconnecting
  <1>3. CASE Dialing
    BY <1>3, ContractDialing
  <1>4. CASE \E g \in Generations : Session(g)
    BY <1>4, ContractSession
  <1>5. QED
    BY <1>1, <1>2, <1>3, <1>4 DEF Next

LEMMA ContractInit == Init => Contract!Init
  BY DEF Init, Contract!Init, ContractPhase

(* PrimaryConnection implements ConnectionContract: whatever interleaving of *)
(* attempts, failures and disconnects, what SendEvent is given is the event  *)
(* protocol the application relies on.                                       *)
THEOREM EventsKeepTheContract == Spec => EventContract
  BY ContractInit, ContractStep, Invariance, PTL DEF Spec, EventContract

===============================================================================
