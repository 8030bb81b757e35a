------------------------- MODULE TransferChannelsProofs -------------------------
(***************************************************************************)
(* Theorems about TransferChannels for any number of jobs, channels and    *)
(* sessions: the type invariant, that reservations and guards agree, that  *)
(* two handlers of a device never hold one channel, and that jobs which    *)
(* come one after the other read only what is their own.                   *)
(***************************************************************************)
EXTENDS TransferChannels, SequenceTheorems, TLAPS

(* What a handler or a half works on is a channel. *)
Placed ==
    \A j \in Jobs :
        /\ asker[j].at = "idle" => server[j] = NoServer
        /\ server[j].at \in {"reserve", "recheck", "serve"} => server[j].on \in Objects
        /\ \A x \in Directions :
             half[j][x].at \in Running \cup {"posted"} => half[j][x].on \in Objects

(* No guard is newer than the pool of its device: the guards of a session    *)
(* are told from older ones.                                                 *)
GuardsInOrder == \A j \in Jobs : server[j].since <= pool[Serves(j)]

(* GuardsMatchReservations, index by index. *)
GuardsMatch ==
    \A d \in Devices :
        /\ \A i \in reserved[d] : \E j \in Holders(d) : server[j].on[2] = i
        /\ \A j \in Holders(d) : server[j].on[2] \in reserved[d] \cup stale[d]

ServerStates == [at : {"none", "begun", "scan", "reserve", "recheck", "serve"},
                 on : Objects \cup {None}, since : 0 .. MaxSession + 1]

IInv == TypeOK /\ Placed /\ GuardsInOrder /\ GuardsMatch /\ OneBorrower

USE DEF link, channels, job, ghosts, Devices, Directions, None, NoServer, NoHalf, HalfOver, Running

LEMMA DeviceTypes ==
  ASSUME NEW j \in Jobs
  PROVE  /\ Asks(j) \in Devices /\ Serves(j) \in Devices /\ Sends(j) \in Devices
         /\ Other(Sends(j)) \in Devices
         /\ \A x \in Directions : At(j, x) \in Devices
         /\ \A d \in Devices : DirectionOn(j, d) \in Directions
  BY DEF Asks, Serves, Sends, Other, At, DirectionOn

(* An object is a session's number of the pool and an index. *)
LEMMA ObjectIndex ==
  ASSUME NEW c \in Objects
  PROVE  c[2] \in Channels
  BY DEF Objects

LEMMA CurrentObjects ==
  ASSUME TypeOK, NEW d \in Devices
  PROVE  /\ Current(d) \subseteq Objects
         /\ \A i \in Channels : <<pool[d], i>> \in Objects
  BY DEF TypeOK, Current, Objects

LEMMA SetsHalfType ==
  ASSUME TypeOK, Placed, NEW j \in Jobs, NEW x \in Directions,
         NEW where \in {"posted", "head", "body"}, NEW c \in Objects,
         SetsHalf(j, x, where, c)
  PROVE  /\ half' \in [Jobs -> [Directions -> [at : {"none", "posted", "over"} \cup Running,
                                               on : Objects \cup {None}]]]
         /\ \A k \in Jobs, y \in Directions :
              half'[k][y].at \in Running \cup {"posted"} => half'[k][y].on \in Objects
  BY DEF TypeOK, Placed, SetsHalf

LEMMA EndsHalfType ==
  ASSUME TypeOK, Placed, NEW j \in Jobs, NEW x \in Directions, EndsHalf(j, x)
  PROVE  /\ half' \in [Jobs -> [Directions -> [at : {"none", "posted", "over"} \cup Running,
                                               on : Objects \cup {None}]]]
         /\ \A k \in Jobs, y \in Directions :
              half'[k][y].at \in Running \cup {"posted"} => half'[k][y].on \in Objects
  BY DEF TypeOK, Placed, EndsHalf

LEMMA AdvancesType ==
  ASSUME TypeOK, Placed, NEW j \in Jobs, NEW x \in Directions,
         half[j][x].at \in Running, Advances(j, x)
  PROVE  /\ half' \in [Jobs -> [Directions -> [at : {"none", "posted", "over"} \cup Running,
                                               on : Objects \cup {None}]]]
         /\ \A k \in Jobs, y \in Directions :
              half'[k][y].at \in Running \cup {"posted"} => half'[k][y].on \in Objects
  <1>1. half[j][x].on \in Objects
    BY DEF Placed
  <1>2. CASE half[j][x].at = "head"
    BY <1>1, <1>2, SetsHalfType DEF Advances
  <1>3. CASE half[j][x].at # "head"
    BY <1>3, EndsHalfType DEF Advances
  <1>4. QED
    BY <1>2, <1>3

LEMMA DisconnectsType ==
  ASSUME TypeOK, NEW d \in Devices, NEW c \in Objects, Disconnects(d, c)
  PROVE  /\ connected' \in [Devices -> SUBSET Objects]
         /\ wire' \in [Devices -> [Objects -> Seq(Parts)]]
  <1>1. connected' \in [Devices -> SUBSET Objects]
    BY DEF TypeOK, Disconnects
  <1>2. <<>> \in Seq(Parts)
    BY EmptySeq
  <1>3. wire' \in [Devices -> [Objects -> Seq(Parts)]]
    BY <1>2 DEF TypeOK, Disconnects
  <1>4. QED
    BY <1>1, <1>3

LEMMA AskerType ==
  ASSUME TypeOK, NEW j \in Jobs, NEW where \in {"asked", "moving", "over"},
         asker' = [asker EXCEPT ![j].at = where]
  PROVE  /\ asker' \in [Jobs -> [at : {"idle", "asked", "moving", "over"},
                                  kind : Kinds \cup {"none"}]]
         /\ \A k \in Jobs : asker'[k].kind = asker[k].kind
  <1>1. asker \in [Jobs -> [at : {"idle", "asked", "moving", "over"}, kind : Kinds \cup {"none"}]]
    BY DEF TypeOK
  <1>2. [asker[j] EXCEPT !.at = where] \in [at : {"idle", "asked", "moving", "over"},
                                            kind : Kinds \cup {"none"}]
    BY <1>1
  <1>3. asker' = [asker EXCEPT ![j] = [asker[j] EXCEPT !.at = where]]
    OBVIOUS
  <1>4. QED
    BY <1>1, <1>2, <1>3

(* Whoever does not touch the pool, its reservations and its guards. *)
LEMMA QuietGuards ==
  ASSUME IInv, UNCHANGED <<pool, reserved, stale, server>>,
         \A j \in Jobs : asker'[j].kind = asker[j].kind
  PROVE  GuardsInOrder' /\ GuardsMatch' /\ OneBorrower'
  <1>1. \A j \in Jobs : Serves(j)' = Serves(j)
    BY DEF Serves, Asks, Other
  <1>2. \A d \in Devices : Holders(d)' = Holders(d)
    BY <1>1 DEF Holders
  <1>3. GuardsInOrder'
    BY <1>1 DEF IInv, GuardsInOrder
  <1>4. GuardsMatch'
    BY <1>2 DEF IInv, GuardsMatch
  <1>5. OneBorrower'
    BY <1>2 DEF IInv, OneBorrower
  <1>6. QED
    BY <1>3, <1>4, <1>5

(* The coroutine that asks *)

LEMMA AskStep ==
  ASSUME IInv, NEW j \in Jobs, Ask(j)
  PROVE  IInv'
  <1> PICK kind \in Kinds : asker' = [asker EXCEPT ![j] = [at |-> "asked", kind |-> kind]]
    BY DEF Ask
  <1>1. server[j] = NoServer
    BY DEF IInv, Placed, Ask
  <1>2. TypeOK'
    <2>1. asker' \in [Jobs -> [at : {"idle", "asked", "moving", "over"}, kind : Kinds \cup {"none"}]]
      BY DEF IInv, TypeOK
    <2>2. server' \in [Jobs -> [at : {"none", "begun", "scan", "reserve", "recheck", "serve"},
                                on : Objects \cup {None}, since : 0 .. MaxSession + 1]]
      BY <1>1 DEF IInv, TypeOK, Ask
    <2>3. alone' \in BOOLEAN
      BY DEF Ask
    <2>4. QED
      BY <2>1, <2>2, <2>3 DEF IInv, TypeOK, Ask
  <1>3. Placed'
    BY DEF IInv, TypeOK, Placed, Ask
  <1>4. \A k \in Jobs \ {j} : Serves(k)' = Serves(k) /\ server'[k] = server[k]
    BY DEF IInv, TypeOK, Serves, Asks, Other, Ask
  <1>5. server'[j].at = "begun" /\ server'[j].since = 0
    BY <1>1 DEF IInv, TypeOK, Ask
  <1>6. \A d \in Devices : Holders(d)' = Holders(d)
    BY <1>1, <1>4, <1>5 DEF Holders, Ask
  <1>7. GuardsInOrder'
    <2>1. 0 <= pool[Serves(j)']
      <3>1. Serves(j)' \in Devices
        BY DEF Serves, Asks, Other
      <3>2. QED
        BY <3>1 DEF IInv, TypeOK
    <2>2. QED
      BY <1>4, <1>5, <2>1 DEF IInv, GuardsInOrder, Ask
  <1>8. GuardsMatch'
    <2>1. \A k \in Jobs : server'[k].on = server[k].on
      BY <1>1 DEF IInv, TypeOK, Ask
    <2>2. QED
      BY <1>6, <2>1 DEF IInv, GuardsMatch, Holders, Ask
  <1>9. OneBorrower'
    <2>1. \A k \in Jobs : server'[k].on = server[k].on
      BY <1>1 DEF IInv, TypeOK, Ask
    <2>2. QED
      BY <1>6, <2>1 DEF IInv, OneBorrower, Holders, Ask
  <1>10. QED
    BY <1>2, <1>3, <1>7, <1>8, <1>9 DEF IInv

LEMMA GivesUpStep ==
  ASSUME IInv, NEW j \in Jobs, GivesUp(j)
  PROVE  IInv'
  <1>1. TypeOK'
    <2>1. asker' \in [Jobs -> [at : {"idle", "asked", "moving", "over"}, kind : Kinds \cup {"none"}]]
      BY AskerType DEF IInv, GivesUp
    <2>2. QED
      BY <2>1 DEF IInv, TypeOK, GivesUp
  <1>2. Placed'
    BY DEF IInv, TypeOK, Placed, GivesUp
  <1>3. GuardsInOrder' /\ GuardsMatch' /\ OneBorrower'
    BY QuietGuards DEF IInv, TypeOK, GivesUp
  <1>4. QED
    BY <1>1, <1>2, <1>3 DEF IInv

(* The channel an answer names is one. *)
LEMMA NamedObject ==
  ASSUME TypeOK, NEW j \in Jobs, Answered(j)
  PROVE  Named(j) \in Objects
  BY DeviceTypes, CurrentObjects DEF TypeOK, Answered, Named

LEMMA StartsOwnHalfStep ==
  ASSUME IInv, NEW j \in Jobs, StartsOwnHalf(j)
  PROVE  IInv'
  <1>1. /\ half' \in [Jobs -> [Directions -> [at : {"none", "posted", "over"} \cup Running,
                                               on : Objects \cup {None}]]]
        /\ \A k \in Jobs, y \in Directions :
             half'[k][y].at \in Running \cup {"posted"} => half'[k][y].on \in Objects
    <2>1. Named(j) \in Objects
      BY NamedObject DEF IInv, StartsOwnHalf
    <2>2. DirectionOn(j, Asks(j)) \in Directions
      BY DEF DirectionOn
    <2>3. QED
      BY <2>1, <2>2, SetsHalfType DEF IInv, StartsOwnHalf
  <1>2. TypeOK'
    <2>1. asker' \in [Jobs -> [at : {"idle", "asked", "moving", "over"}, kind : Kinds \cup {"none"}]]
      BY AskerType DEF IInv, StartsOwnHalf
    <2>2. QED
      BY <1>1, <2>1 DEF IInv, TypeOK, StartsOwnHalf
  <1>3. Placed'
    BY <1>1 DEF IInv, TypeOK, Placed, StartsOwnHalf
  <1>4. GuardsInOrder' /\ GuardsMatch' /\ OneBorrower'
    BY QuietGuards DEF IInv, TypeOK, StartsOwnHalf
  <1>5. QED
    BY <1>2, <1>3, <1>4 DEF IInv

LEMMA FindsItClosedStep ==
  ASSUME IInv, NEW j \in Jobs, FindsItClosed(j)
  PROVE  IInv'
  <1>1. TypeOK'
    <2>1. asker' \in [Jobs -> [at : {"idle", "asked", "moving", "over"}, kind : Kinds \cup {"none"}]]
      BY AskerType DEF IInv, FindsItClosed, Over
    <2>2. QED
      BY <2>1 DEF IInv, TypeOK, FindsItClosed, Over
  <1>2. Placed'
    BY DEF IInv, TypeOK, Placed, FindsItClosed, Over
  <1>3. GuardsInOrder' /\ GuardsMatch' /\ OneBorrower'
    BY QuietGuards DEF IInv, TypeOK, FindsItClosed, Over
  <1>4. QED
    BY <1>1, <1>2, <1>3 DEF IInv

LEMMA FindsItInUseStep ==
  ASSUME IInv, NEW j \in Jobs, FindsItInUse(j)
  PROVE  IInv'
  <1>1. TypeOK'
    <2>1. asker' \in [Jobs -> [at : {"idle", "asked", "moving", "over"}, kind : Kinds \cup {"none"}]]
      BY AskerType DEF IInv, FindsItInUse, Over
    <2>2. QED
      BY <2>1 DEF IInv, TypeOK, FindsItInUse, Over
  <1>2. Placed'
    BY DEF IInv, TypeOK, Placed, FindsItInUse, Over
  <1>3. GuardsInOrder' /\ GuardsMatch' /\ OneBorrower'
    BY QuietGuards DEF IInv, TypeOK, FindsItInUse, Over
  <1>4. QED
    BY <1>1, <1>2, <1>3 DEF IInv

LEMMA RefusesExportStep ==
  ASSUME IInv, NEW j \in Jobs, RefusesExport(j)
  PROVE  IInv'
  <1>1. TypeOK'
    <2>1. asker' \in [Jobs -> [at : {"idle", "asked", "moving", "over"}, kind : Kinds \cup {"none"}]]
      BY AskerType DEF IInv, RefusesExport, Over
    <2>2. QED
      BY DeviceTypes, <2>1 DEF IInv, TypeOK, RefusesExport, Over
  <1>2. Placed'
    BY DEF IInv, TypeOK, Placed, RefusesExport, Over
  <1>3. GuardsInOrder' /\ GuardsMatch' /\ OneBorrower'
    BY QuietGuards DEF IInv, TypeOK, RefusesExport, Over
  <1>4. QED
    BY <1>1, <1>2, <1>3 DEF IInv

LEMMA CancelsExportStep ==
  ASSUME IInv, NEW j \in Jobs, CancelsExport(j)
  PROVE  IInv'
  <1>1. TypeOK'
    BY DEF IInv, TypeOK, CancelsExport
  <1>2. Placed'
    BY DEF IInv, TypeOK, Placed, CancelsExport
  <1>3. GuardsInOrder' /\ GuardsMatch' /\ OneBorrower'
    BY QuietGuards DEF IInv, TypeOK, CancelsExport
  <1>4. QED
    BY <1>1, <1>2, <1>3 DEF IInv

LEMMA AskerEndsStep ==
  ASSUME IInv, NEW j \in Jobs, AskerEnds(j)
  PROVE  IInv'
  <1>1. TypeOK'
    <2>1. asker' \in [Jobs -> [at : {"idle", "asked", "moving", "over"}, kind : Kinds \cup {"none"}]]
      BY AskerType DEF IInv, AskerEnds
    <2>2. QED
      BY <2>1 DEF IInv, TypeOK, AskerEnds
  <1>2. Placed'
    BY DEF IInv, TypeOK, Placed, AskerEnds
  <1>3. GuardsInOrder' /\ GuardsMatch' /\ OneBorrower'
    BY QuietGuards DEF IInv, TypeOK, AskerEnds
  <1>4. QED
    BY <1>1, <1>2, <1>3 DEF IInv

(* The session *)

LEMMA PrimaryDropsStep ==
  ASSUME IInv, PrimaryDrops
  PROVE  IInv'
  <1>1. TypeOK'
    BY DEF IInv, TypeOK, PrimaryDrops
  <1>2. Placed'
    BY DEF IInv, TypeOK, Placed, PrimaryDrops
  <1>3. GuardsInOrder' /\ GuardsMatch' /\ OneBorrower'
    BY QuietGuards DEF IInv, TypeOK, PrimaryDrops
  <1>4. QED
    BY <1>1, <1>2, <1>3 DEF IInv

LEMMA ChannelClosesStep ==
  ASSUME IInv, NEW d \in Devices, NEW c \in Objects, ChannelCloses(d, c)
  PROVE  IInv'
  <1>1. TypeOK'
    <2>1. connected' \in [Devices -> SUBSET Objects] /\ wire' \in [Devices -> [Objects -> Seq(Parts)]]
      BY DisconnectsType DEF IInv, ChannelCloses
    <2>2. QED
      BY <2>1 DEF IInv, TypeOK, ChannelCloses
  <1>2. Placed'
    BY DEF IInv, Placed, ChannelCloses
  <1>3. GuardsInOrder' /\ GuardsMatch' /\ OneBorrower'
    BY QuietGuards DEF IInv, ChannelCloses
  <1>4. QED
    BY <1>1, <1>2, <1>3 DEF IInv

LEMMA SetUpStep ==
  ASSUME IInv, SetUp
  PROVE  IInv'
  <1>1. TypeOK'
    <2>1. connected' \in [Devices -> SUBSET Objects]
      BY CurrentObjects DEF IInv, TypeOK, SetUp
    <2>2. QED
      BY <2>1, ChannelBounds DEF IInv, TypeOK, SetUp
  <1>2. Placed'
    BY DEF IInv, Placed, SetUp
  <1>3. GuardsInOrder' /\ GuardsMatch' /\ OneBorrower'
    BY QuietGuards DEF IInv, SetUp
  <1>4. QED
    BY <1>1, <1>2, <1>3 DEF IInv

(* A pool of its own: no guard is of the new one yet. *)
LEMMA ResetStep ==
  ASSUME IInv, NEW d \in Devices, Reset(d)
  PROVE  IInv'
  <1>1. pool'[d] = session + 1 /\ \A e \in Devices \ {d} : pool'[e] = pool[e]
    BY DEF IInv, TypeOK, Reset
  <1>2. \A j \in Jobs : Serves(j)' = Serves(j) /\ Serves(j) \in Devices
    BY DEF Serves, Asks, Other, Reset
  <1>3. \A j \in Jobs : Serves(j) = d => server[j].since < pool'[d]
    BY <1>1 DEF IInv, TypeOK, GuardsInOrder, Reset
  <1>4. TypeOK'
    <2>1. Current(d) \subseteq Objects
      BY CurrentObjects DEF IInv
    <2>2. session + 1 \in 1 .. MaxSession + 1
      BY ChannelBounds DEF IInv, TypeOK
    <2>3. QED
      BY <2>1, <2>2 DEF IInv, TypeOK, Reset
  <1>5. Placed'
    BY DEF IInv, Placed, Reset
  <1>6. GuardsInOrder'
    <2> SUFFICES \A j \in Jobs : server'[j].since <= pool'[Serves(j)']
      BY DEF GuardsInOrder
    <2> TAKE j \in Jobs
    <2>1. server'[j].since = server[j].since
      BY DEF Reset
    <2>2. CASE Serves(j) = d
      <3>1. server[j].since \in Int /\ pool'[d] \in Int
        BY <1>1 DEF IInv, TypeOK
      <3>2. QED
        BY <1>2, <1>3, <2>1, <2>2, <3>1
    <2>3. CASE Serves(j) # d
      BY <1>1, <1>2, <2>1, <2>3 DEF IInv, GuardsInOrder
    <2>4. QED
      BY <2>2, <2>3
  <1>7. Holders(d)' = {}
    BY <1>2, <1>3 DEF IInv, TypeOK, Holders, Reset
  <1>8. \A e \in Devices \ {d} :
           /\ Holders(e)' = Holders(e)
           /\ reserved'[e] = reserved[e] /\ stale'[e] = stale[e]
    BY <1>1, <1>2 DEF IInv, TypeOK, Holders, Reset
  <1>9. GuardsMatch'
    <2>1. reserved'[d] = {}
      BY DEF IInv, TypeOK, Reset
    <2>2. QED
      BY <1>7, <1>8, <2>1 DEF IInv, GuardsMatch, Reset
  <1>10. OneBorrower'
    BY <1>7, <1>8 DEF IInv, OneBorrower, Reset
  <1>11. QED
    BY <1>4, <1>5, <1>6, <1>9, <1>10 DEF IInv

(* BorrowTransferChannel, and the handlers that call it *)

(* A handler of j that holds no guard of the pool, and holds none afterwards. *)
LEMMA ServerMoves ==
  ASSUME IInv, NEW j \in Jobs, UNCHANGED <<pool, reserved, stale, asker>>,
         NEW s, server' = [server EXCEPT ![j] = s],
         s.since = 0, s.at \in {"none", "scan", "reserve"},
         server[j].at \in {"begun", "scan", "reserve"}
  PROVE  GuardsInOrder' /\ GuardsMatch' /\ OneBorrower'
  <1>1. server'[j] = s /\ \A k \in Jobs \ {j} : server'[k] = server[k]
    BY DEF IInv, TypeOK
  <1>2. \A k \in Jobs : Serves(k)' = Serves(k) /\ Serves(k) \in Devices
    BY DEF Serves, Asks, Other
  <1>3. \A d \in Devices : Holders(d)' = Holders(d) /\ j \notin Holders(d)
    BY <1>1, <1>2 DEF Holders
  <1>4. GuardsInOrder'
    <2>1. 0 <= pool[Serves(j)]
      BY <1>2 DEF IInv, TypeOK
    <2>2. QED
      BY <1>1, <1>2, <2>1 DEF IInv, GuardsInOrder
  <1>5. GuardsMatch'
    BY <1>1, <1>3 DEF IInv, GuardsMatch, Holders
  <1>6. OneBorrower'
    BY <1>1, <1>3 DEF IInv, OneBorrower, Holders
  <1>7. QED
    BY <1>4, <1>5, <1>6

LEMMA ServerType ==
  ASSUME TypeOK, NEW j \in Jobs, NEW s \in ServerStates, server' = [server EXCEPT ![j] = s]
  PROVE  /\ server' \in [Jobs -> ServerStates]
         /\ server'[j] = s
         /\ \A k \in Jobs \ {j} : server'[k] = server[k]
  BY DEF TypeOK, ServerStates

LEMMA ScanThrowsStep ==
  ASSUME IInv, NEW j \in Jobs, ScanThrows(j)
  PROVE  IInv'
  <1>1. NoServer \in ServerStates
    BY ChannelBounds DEF ServerStates
  <1>2. server' = [server EXCEPT ![j] = NoServer]
    BY DEF ScanThrows, ServerIsOver
  <1>3. server' \in [Jobs -> ServerStates]
    BY <1>1, <1>2, ServerType DEF IInv
  <1>4. TypeOK'
    BY <1>3 DEF IInv, TypeOK, ScanThrows, ServerStates
  <1>5. Placed'
    BY DEF IInv, TypeOK, Placed, ScanThrows, ServerIsOver
  <1>6. GuardsInOrder' /\ GuardsMatch' /\ OneBorrower'
    <2> DEFINE s == NoServer
    <2>1. s.since = 0 /\ s.at = "none"
      OBVIOUS
    <2>2. UNCHANGED <<pool, reserved, stale, asker>> /\ server[j].at \in {"begun", "scan"}
      BY DEF ScanThrows, Scans
    <2>3. server' = [server EXCEPT ![j] = s]
      BY <1>2
    <2> HIDE DEF s
    <2>4. QED
      BY <2>1, <2>2, <2>3, ServerMoves
  <1>7. QED
    BY <1>4, <1>5, <1>6 DEF IInv

LEMMA FailsToPrepareStep ==
  ASSUME IInv, NEW j \in Jobs, FailsToPrepare(j)
  PROVE  IInv'
  <1>1. NoServer \in ServerStates
    BY ChannelBounds DEF ServerStates
  <1>2. server' = [server EXCEPT ![j] = NoServer] /\ server[j].at = "begun"
    BY DEF FailsToPrepare, ServerIsOver
  <1>3. server' \in [Jobs -> ServerStates]
    BY <1>1, <1>2, ServerType DEF IInv
  <1>4. answer' \in [Jobs -> Channels \cup {0}]
    BY DEF FailsToPrepare, IInv, TypeOK
  <1>5. UNCHANGED <<link, channels, asker, half, ghosts>>
    BY DEF FailsToPrepare
  <1>6. TypeOK'
    BY <1>3, <1>4, <1>5 DEF IInv, TypeOK, ServerStates
  <1>7. Placed'
    BY <1>2, <1>5 DEF IInv, TypeOK, Placed
  <1>8. GuardsInOrder' /\ GuardsMatch' /\ OneBorrower'
    <2> DEFINE s == NoServer
    <2>1. s.since = 0 /\ s.at = "none"
      OBVIOUS
    <2>2. server' = [server EXCEPT ![j] = s]
      BY <1>2
    <2> HIDE DEF s
    <2>3. QED
      BY <1>2, <1>5, <2>1, <2>2, ServerMoves
  <1>9. QED
    BY <1>6, <1>7, <1>8 DEF IInv

LEMMA ScanStep ==
  ASSUME IInv, NEW j \in Jobs, Scan(j)
  PROVE  IInv'
  <1> PICK i \in Channels :
        server' = [server EXCEPT ![j] = [at |-> "reserve", since |-> 0,
                                         on |-> <<pool[Serves(j)], i>>]]
    BY DEF Scan
  <1> DEFINE s == [at |-> "reserve", since |-> 0, on |-> <<pool[Serves(j)], i>>]
  <1>1. s.on \in Objects /\ s.at = "reserve" /\ s.since = 0
    BY DeviceTypes, CurrentObjects DEF IInv
  <1>2. server[j].at \in {"begun", "scan"} /\ asker[j].at # "idle"
    BY DEF IInv, Placed, Scan, Scans
  <1>3. s \in ServerStates
    BY <1>1, ChannelBounds DEF ServerStates
  <1>4. server' = [server EXCEPT ![j] = s]
    OBVIOUS
  <1>5. UNCHANGED <<link, channels, asker, answer, half, ghosts>>
    BY DEF Scan
  <1> HIDE DEF s
  <1>6. server' \in [Jobs -> ServerStates] /\ server'[j] = s
        /\ \A k \in Jobs \ {j} : server'[k] = server[k]
    BY <1>3, <1>4, ServerType DEF IInv
  <1>7. TypeOK'
    BY <1>5, <1>6 DEF IInv, TypeOK, ServerStates
  <1>8. Placed'
    BY <1>1, <1>2, <1>5, <1>6 DEF IInv, Placed
  <1>9. GuardsInOrder' /\ GuardsMatch' /\ OneBorrower'
    BY <1>1, <1>2, <1>4, <1>5, ServerMoves
  <1>10. QED
    BY <1>7, <1>8, <1>9 DEF IInv

LEMMA GuardTaken ==
  ASSUME NEW r \in ServerStates, NEW n
  PROVE  [r EXCEPT !.at = "recheck", !.since = n] = [at |-> "recheck", on |-> r.on, since |-> n]
  <1>1. r = [at |-> r.at, on |-> r.on, since |-> r.since]
    BY DEF ServerStates
  <1>2. [r EXCEPT !.at = "recheck"] = [at |-> "recheck", on |-> r.on, since |-> r.since]
    BY <1>1
  <1>3. [[at |-> "recheck", on |-> r.on, since |-> r.since] EXCEPT !.since = n]
          = [at |-> "recheck", on |-> r.on, since |-> n]
    OBVIOUS
  <1>4. QED
    BY <1>2, <1>3

(* The reservation is taken by a handler that held none, for an index nobody *)
(* has, unless its guard is one a stale deleter erased.                      *)
LEMMA ReservesStep ==
  ASSUME IInv, NEW j \in Jobs, TryReserve(j), server[j].on[2] \notin reserved[Serves(j)]
  PROVE  IInv'
  <1> PICK d \in Devices : d = Serves(j)
    BY DeviceTypes
  <1> PICK i : i = server[j].on[2]
    OBVIOUS
  <1> PICK s : s = [at |-> "recheck", on |-> server[j].on, since |-> pool[d]]
    OBVIOUS
  <1>1. server' = [server EXCEPT ![j] = s]
    <2>1. server' = [server EXCEPT ![j].at = "recheck", ![j].since = pool[d]]
      BY DEF TryReserve
    <2>2. server[j] \in ServerStates
      BY DEF IInv, TypeOK, ServerStates
    <2>3. [server[j] EXCEPT !.at = "recheck", !.since = pool[d]] = s
      BY <2>2, GuardTaken
    <2>4. server' = [server EXCEPT ![j] = [server[j] EXCEPT !.at = "recheck", !.since = pool[d]]]
      BY <2>1
    <2>5. QED
      BY <2>3, <2>4
  <1>2. /\ reserved' = [reserved EXCEPT ![d] = @ \cup {i}]
        /\ UNCHANGED <<link, pool, connected, closing, wire, asker, answer, half, ghosts>>
    BY DEF TryReserve
  <1>3. server[j].at = "reserve" /\ server[j].on \in Objects /\ asker[j].at # "idle"
    BY DEF IInv, Placed, TryReserve
  <1>4. i \in Channels
    BY <1>3, ObjectIndex
  <1>5. \A k \in Jobs : Serves(k)' = Serves(k) /\ Serves(k) \in Devices
    BY <1>2 DEF Serves, Asks, Other
  <1>6. d \in Devices /\ pool[d] \in 1 .. MaxSession + 1
    BY <1>5 DEF IInv, TypeOK
  <1>7. s \in ServerStates
    BY <1>3, <1>6 DEF ServerStates
  <1>8. server' \in [Jobs -> ServerStates] /\ server'[j] = s
        /\ \A k \in Jobs \ {j} : server'[k] = server[k]
    BY <1>1, <1>7, ServerType DEF IInv
  <1>9. \A k \in Jobs : server'[k].on = server[k].on
    BY <1>8
  <1>10. /\ reserved'[d] = reserved[d] \cup {i}
         /\ \A e \in Devices \ {d} : reserved'[e] = reserved[e]
         /\ reserved' \in [Devices -> SUBSET Channels]
    BY <1>2, <1>4, <1>6 DEF IInv, TypeOK
  <1>11. /\ Holders(d)' = Holders(d) \cup {j}
         /\ \A e \in Devices : j \notin Holders(e)
         /\ \A e \in Devices \ {d} : Holders(e)' = Holders(e)
    BY <1>2, <1>3, <1>5, <1>8 DEF Holders
  <1>12. \A k \in Holders(d) : server[k].on[2] = i => i \in stale[d]
    BY <1>6 DEF IInv, GuardsMatch
  <1>13. \A e \in Devices : \A k \in Holders(e) : k \in Jobs
    BY DEF Holders
  <1>14. i = server[j].on[2]
    OBVIOUS
  <1>15. d = Serves(j) /\ s.since = pool[d] /\ s.at = "recheck" /\ s.on = server[j].on
    OBVIOUS
  <1>16. TypeOK'
    BY <1>2, <1>8, <1>10 DEF IInv, TypeOK, ServerStates
  <1>17. Placed'
    BY <1>2, <1>3, <1>8, <1>15 DEF IInv, Placed
  <1>18. GuardsInOrder'
    <2>1. pool[d] <= pool[d]
      BY <1>6
    <2>2. QED
      BY <1>2, <1>5, <1>8, <1>15, <2>1 DEF IInv, GuardsInOrder
  <1>19. GuardsMatch'
    <2> SUFFICES ASSUME NEW e \in Devices
                 PROVE  /\ \A x \in reserved'[e] : \E k \in Holders(e)' : server'[k].on[2] = x
                        /\ \A k \in Holders(e)' : server'[k].on[2] \in reserved'[e] \cup stale'[e]
      BY DEF GuardsMatch
    <2>1. /\ \A x \in reserved[e] : \E k \in Holders(e) : server[k].on[2] = x
          /\ \A k \in Holders(e) : server[k].on[2] \in reserved[e] \cup stale[e]
      BY DEF IInv, GuardsMatch
    <2>2. CASE e = d
      <3>1. \A x \in reserved[d] : \E k \in Holders(d)' : server'[k].on[2] = x
        BY <1>9, <1>11, <1>13, <2>1, <2>2
      <3>2. j \in Holders(d)' /\ server'[j].on[2] = i
        BY <1>9, <1>11, <1>14
      <3>3. \A k \in Holders(d) : server'[k].on[2] \in reserved'[d] \cup stale'[d]
        BY <1>2, <1>9, <1>10, <1>13, <2>1, <2>2
      <3>4. QED
        BY <1>10, <1>11, <2>2, <3>1, <3>2, <3>3
    <2>3. CASE e # d
      BY <1>2, <1>9, <1>10, <1>11, <1>13, <2>1, <2>3
    <2>4. QED
      BY <2>2, <2>3
  <1>20. OneBorrower'
    <2> SUFFICES ASSUME NEW e \in Devices, NEW k \in Holders(e)', NEW l \in Holders(e)',
                        k # l, server'[k].on[2] = server'[l].on[2]
                 PROVE  server'[k].on[2] \in stale'[e]
      BY DEF OneBorrower
    <2>1. \/ k \in Holders(e) /\ l \in Holders(e)
          \/ e = d /\ k = j /\ l \in Holders(d)
          \/ e = d /\ l = j /\ k \in Holders(d)
      <3>1. CASE e = d
        <4>1. k \in Holders(d) \cup {j} /\ l \in Holders(d) \cup {j}
          BY <1>11, <3>1
        <4>2. QED
          BY <3>1, <4>1
      <3>2. CASE e # d
        BY <1>11, <3>2
      <3>3. QED
        BY <3>1, <3>2
    <2>2. k \in Jobs /\ l \in Jobs
      BY <1>6, <1>13, <2>1
    <2>3. server[k].on[2] = server[l].on[2]
      BY <1>9, <2>2
    <2>4. CASE k \in Holders(e) /\ l \in Holders(e)
      BY <1>2, <1>9, <2>2, <2>3, <2>4 DEF IInv, OneBorrower
    <2>5. CASE e = d /\ k = j /\ l \in Holders(d)
      BY <1>2, <1>9, <1>12, <1>14, <2>2, <2>3, <2>5
    <2>6. CASE e = d /\ l = j /\ k \in Holders(d)
      BY <1>2, <1>9, <1>12, <1>14, <2>2, <2>3, <2>6
    <2>7. QED
      BY <2>1, <2>4, <2>5, <2>6
  <1>21. QED
    BY <1>16, <1>17, <1>18, <1>19, <1>20 DEF IInv

LEMMA TryReserveStep ==
  ASSUME IInv, NEW j \in Jobs, TryReserve(j)
  PROVE  IInv'
  <1>1. CASE server[j].on[2] \notin reserved[Serves(j)]
    BY <1>1, ReservesStep
  <1>2. CASE server[j].on[2] \in reserved[Serves(j)]
    <2> PICK s : s = [NoServer EXCEPT !.at = "scan"]
      OBVIOUS
    <2>1. s = [at |-> "scan", on |-> None, since |-> 0]
      OBVIOUS
    <2>2. /\ server' = [server EXCEPT ![j] = s]
          /\ UNCHANGED <<link, channels, asker, answer, half, ghosts>>
      BY <1>2 DEF TryReserve, Rescan
    <2>3. server[j].at = "reserve" /\ asker[j].at # "idle"
      BY DEF IInv, Placed, TryReserve
    <2>4. s \in ServerStates
      BY <2>1, ChannelBounds DEF ServerStates
    <2>5. server' \in [Jobs -> ServerStates] /\ server'[j] = s
          /\ \A k \in Jobs \ {j} : server'[k] = server[k]
      BY <2>2, <2>4, ServerType DEF IInv
    <2>6. TypeOK'
      BY <2>2, <2>5 DEF IInv, TypeOK, ServerStates
    <2>7. Placed'
      BY <2>1, <2>2, <2>3, <2>5 DEF IInv, Placed
    <2>8. GuardsInOrder' /\ GuardsMatch' /\ OneBorrower'
      <3>1. s.since = 0 /\ s.at = "scan"
        BY <2>1
      <3>2. QED
        BY <2>2, <2>3, <3>1, ServerMoves
    <2>9. QED
      BY <2>6, <2>7, <2>8 DEF IInv
  <1>3. QED
    BY <1>1, <1>2

(* A guard goes: another handler of its index is one a stale deleter left    *)
(* without its reservation, and the guard of an old session leaves one so.   *)
LEMMA GuardGoes ==
  ASSUME IInv, NEW j \in Jobs, Releases(j), UNCHANGED <<asker, link, answer, half, mixed, alone>>,
         NEW s \in ServerStates, s.since = 0, s.at \in {"none", "scan"},
         server' = [server EXCEPT ![j] = s],
         server[j].at \in {"recheck", "serve"}
  PROVE  IInv'
  <1> PICK d \in Devices : d = Serves(j)
    BY DeviceTypes
  <1> PICK i : i = server[j].on[2]
    OBVIOUS
  <1>1. /\ reserved' = [reserved EXCEPT ![d] = @ \ {i}]
        /\ stale' = [stale EXCEPT ![d] = IF server[j].since # pool[d]
                                         THEN @ \cup ({i} \cap reserved[d]) ELSE @]
        /\ UNCHANGED <<pool, connected, closing, wire>>
    BY DEF Releases
  <1>2. \A k \in Jobs : Serves(k)' = Serves(k) /\ Serves(k) \in Devices
    BY DEF Serves, Asks, Other
  <1>3. server' \in [Jobs -> ServerStates] /\ server'[j] = s
        /\ \A k \in Jobs \ {j} : server'[k] = server[k]
    BY ServerType DEF IInv
  <1>4. /\ reserved' \in [Devices -> SUBSET Channels]
        /\ reserved'[d] = reserved[d] \ {i}
        /\ \A e \in Devices \ {d} : reserved'[e] = reserved[e]
    BY <1>1 DEF IInv, TypeOK
  <1>5. /\ stale' \in [Devices -> SUBSET Channels]
        /\ stale[d] \subseteq stale'[d]
        /\ server[j].since # pool[d] /\ i \in reserved[d] => i \in stale'[d]
        /\ \A e \in Devices \ {d} : stale'[e] = stale[e]
    BY <1>1 DEF IInv, TypeOK
  <1>6. \A e \in Devices : \A k \in Holders(e) : k \in Jobs
    BY DEF Holders
  <1>7. \A e \in Devices : Holders(e)' = Holders(e) \ {j}
    BY <1>1, <1>2, <1>3 DEF Holders
  <1>8. j \in Holders(d) <=> server[j].since = pool[d]
    BY DEF Holders
  <1>9. \A e \in Devices \ {d} : j \notin Holders(e)
    BY DEF Holders
  <1>10. TypeOK'
    BY <1>1, <1>3, <1>4, <1>5 DEF IInv, TypeOK, ServerStates
  <1>11. Placed'
    <2>1. asker[j].at # "idle"
      BY DEF IInv, Placed
    <2>2. QED
      BY <1>3, <2>1 DEF IInv, Placed
  <1>12. GuardsInOrder'
    <2>1. 0 <= pool[d]
      BY DEF IInv, TypeOK
    <2>2. QED
      BY <1>1, <1>2, <1>3, <2>1 DEF IInv, GuardsInOrder
  <1>13. GuardsMatch'
    <2> SUFFICES ASSUME NEW e \in Devices
                 PROVE  /\ \A x \in reserved'[e] : \E k \in Holders(e)' : server'[k].on[2] = x
                        /\ \A k \in Holders(e)' : server'[k].on[2] \in reserved'[e] \cup stale'[e]
      BY DEF GuardsMatch
    <2>1. /\ \A x \in reserved[e] : \E k \in Holders(e) : server[k].on[2] = x
          /\ \A k \in Holders(e) : server[k].on[2] \in reserved[e] \cup stale[e]
      BY DEF IInv, GuardsMatch
    <2>2. CASE e = d
      <3>1. \A x \in reserved'[d] : \E k \in Holders(d)' : server'[k].on[2] = x
        BY <1>3, <1>4, <1>6, <1>7, <2>1, <2>2
      <3>2. ASSUME NEW k \in Holders(d) \ {j}
            PROVE  server[k].on[2] \in reserved'[d] \cup stale'[d]
        <4>1. CASE server[k].on[2] # i
          BY <1>4, <1>5, <2>1, <2>2, <3>2, <4>1
        <4>2. CASE server[k].on[2] = i /\ j \in Holders(d)
          BY <1>5, <3>2, <4>2 DEF IInv, OneBorrower
        <4>3. CASE server[k].on[2] = i /\ j \notin Holders(d)
          BY <1>5, <1>8, <2>1, <2>2, <3>2, <4>3
        <4>4. QED
          BY <4>1, <4>2, <4>3
      <3>3. QED
        BY <1>3, <1>6, <1>7, <2>2, <3>1, <3>2
    <2>3. CASE e # d
      BY <1>3, <1>4, <1>5, <1>6, <1>7, <1>9, <2>1, <2>3
    <2>4. QED
      BY <2>2, <2>3
  <1>14. OneBorrower'
    <2> SUFFICES ASSUME NEW e \in Devices, NEW k \in Holders(e)', NEW l \in Holders(e)',
                        k # l, server'[k].on[2] = server'[l].on[2]
                 PROVE  server'[k].on[2] \in stale'[e]
      BY DEF OneBorrower
    <2>1. k \in Holders(e) \ {j} /\ l \in Holders(e) \ {j}
      BY <1>7
    <2>2. server'[k] = server[k] /\ server'[l] = server[l]
      BY <1>3, <1>6, <2>1
    <2>3. server[k].on[2] \in stale[e]
      BY <2>1, <2>2 DEF IInv, OneBorrower
    <2>4. QED
      BY <1>5, <2>2, <2>3
  <1>15. QED
    BY <1>10, <1>11, <1>12, <1>13, <1>14 DEF IInv

LEMMA DropsGuardStep ==
  ASSUME IInv, NEW j \in Jobs, DropsGuard(j)
  PROVE  IInv'
  <1> PICK s : s = [NoServer EXCEPT !.at = "scan"]
    OBVIOUS
  <1>1. s = [at |-> "scan", on |-> None, since |-> 0]
    OBVIOUS
  <1>2. s \in ServerStates /\ s.since = 0 /\ s.at = "scan"
    BY <1>1, ChannelBounds DEF ServerStates
  <1>3. /\ server' = [server EXCEPT ![j] = s] /\ Releases(j) /\ server[j].at = "recheck"
        /\ UNCHANGED <<asker, link, answer, half, mixed, alone>>
    BY DEF DropsGuard, Rescan
  <1>4. QED
    BY <1>2, <1>3, GuardGoes

LEMMA ServerEndsStep ==
  ASSUME IInv, NEW j \in Jobs, ServerEnds(j)
  PROVE  IInv'
  <1> PICK s : s = NoServer
    OBVIOUS
  <1>1. s \in ServerStates /\ s.since = 0 /\ s.at = "none"
    BY ChannelBounds DEF ServerStates
  <1>2. /\ server' = [server EXCEPT ![j] = s] /\ Releases(j) /\ server[j].at = "serve"
        /\ UNCHANGED <<asker, link, answer, half, mixed, alone>>
    BY DEF ServerEnds, ServerIsOver
  <1>3. QED
    BY <1>1, <1>2, GuardGoes

(* The guard and its index are kept while the channel is used. *)
LEMMA GrantsStep ==
  ASSUME IInv, NEW j \in Jobs, Grants(j)
  PROVE  IInv'
  <1> PICK s : s = [server[j] EXCEPT !.at = "serve"]
    OBVIOUS
  <1>1. server[j] \in ServerStates
    BY DEF IInv, TypeOK, ServerStates
  <1>2. s \in ServerStates /\ s.at = "serve" /\ s.on = server[j].on /\ s.since = server[j].since
    BY <1>1 DEF ServerStates
  <1>3. /\ server' = [server EXCEPT ![j] = s]
        /\ UNCHANGED <<link, channels, asker, ghosts>>
        /\ server[j].at = "recheck"
    BY DEF Grants
  <1>4. server' \in [Jobs -> ServerStates] /\ server'[j] = s
        /\ \A k \in Jobs \ {j} : server'[k] = server[k]
    BY <1>2, <1>3, ServerType DEF IInv
  <1>5. server[j].on \in Objects /\ asker[j].at # "idle"
    BY <1>3 DEF IInv, Placed
  <1>6. /\ half' \in [Jobs -> [Directions -> [at : {"none", "posted", "over"} \cup Running,
                                               on : Objects \cup {None}]]]
        /\ \A k \in Jobs, y \in Directions :
             half'[k][y].at \in Running \cup {"posted"} => half'[k][y].on \in Objects
    <2>1. DirectionOn(j, Serves(j)) \in Directions
      BY DEF DirectionOn
    <2>2. SetsHalf(j, DirectionOn(j, Serves(j)), "posted", server[j].on)
      BY DEF Grants
    <2>3. QED
      BY <1>5, <2>1, <2>2, SetsHalfType DEF IInv
  <1>7. answer' \in [Jobs -> Channels \cup {0}]
    <2>1. server[j].on[2] \in Channels
      BY <1>5, ObjectIndex
    <2>2. QED
      BY <2>1 DEF IInv, TypeOK, Grants
  <1>8. TypeOK'
    BY <1>3, <1>4, <1>6, <1>7 DEF IInv, TypeOK, ServerStates
  <1>9. Placed'
    BY <1>2, <1>3, <1>4, <1>5, <1>6 DEF IInv, Placed
  <1>10. \A k \in Jobs : /\ Serves(k)' = Serves(k)
                         /\ server'[k].on = server[k].on /\ server'[k].since = server[k].since
    BY <1>2, <1>3, <1>4 DEF Serves, Asks, Other
  <1>11. \A e \in Devices : Holders(e)' = Holders(e)
    <2>1. \A k \in Jobs : server'[k].at \in {"recheck", "serve"} <=> server[k].at \in {"recheck", "serve"}
      BY <1>2, <1>3, <1>4
    <2>2. QED
      BY <1>3, <1>10, <2>1 DEF Holders
  <1>12. \A e \in Devices : \A k \in Holders(e) : k \in Jobs
    BY DEF Holders
  <1>13. GuardsInOrder'
    BY <1>3, <1>10 DEF IInv, GuardsInOrder
  <1>14. GuardsMatch'
    <2> SUFFICES ASSUME NEW e \in Devices
                 PROVE  /\ \A x \in reserved'[e] : \E k \in Holders(e)' : server'[k].on[2] = x
                        /\ \A k \in Holders(e)' : server'[k].on[2] \in reserved'[e] \cup stale'[e]
      BY DEF GuardsMatch
    <2>1. /\ \A x \in reserved[e] : \E k \in Holders(e) : server[k].on[2] = x
          /\ \A k \in Holders(e) : server[k].on[2] \in reserved[e] \cup stale[e]
      BY DEF IInv, GuardsMatch
    <2>2. QED
      BY <1>3, <1>10, <1>11, <1>12, <2>1
  <1>15. OneBorrower'
    BY <1>3, <1>10, <1>11, <1>12 DEF IInv, OneBorrower
  <1>16. QED
    BY <1>8, <1>9, <1>13, <1>14, <1>15 DEF IInv

(* The halves, on the strand of their channel *)

(* A half moves data and channels, never a guard. *)
LEMMA HalfMoves ==
  ASSUME IInv, Kept, mixed' \in SUBSET Jobs,
         connected' \in [Devices -> SUBSET Objects],
         wire' \in [Devices -> [Objects -> Seq(Parts)]],
         half' \in [Jobs -> [Directions -> [at : {"none", "posted", "over"} \cup Running,
                                            on : Objects \cup {None}]]],
         \A k \in Jobs, y \in Directions :
           half'[k][y].at \in Running \cup {"posted"} => half'[k][y].on \in Objects
  PROVE  IInv'
  <1>1. TypeOK'
    BY DEF IInv, TypeOK, Kept
  <1>2. Placed'
    BY DEF IInv, Placed, Kept
  <1>3. GuardsInOrder' /\ GuardsMatch' /\ OneBorrower'
    BY QuietGuards DEF IInv, Kept
  <1>4. QED
    BY <1>1, <1>2, <1>3 DEF IInv

LEMMA DataTypes ==
  ASSUME IInv
  PROVE  /\ mixed \in SUBSET Jobs
         /\ connected \in [Devices -> SUBSET Objects]
         /\ wire \in [Devices -> [Objects -> Seq(Parts)]]
  BY DEF IInv, TypeOK

LEMMA StartsStep ==
  ASSUME IInv, NEW j \in Jobs, NEW x \in Directions, Starts(j, x)
  PROVE  IInv'
  <1>1. half[j][x].on \in Objects
    BY DEF IInv, Placed, Starts
  <1>2. SetsHalf(j, x, "head", half[j][x].on) \/ EndsHalf(j, x)
    BY DEF Starts
  <1>3. /\ half' \in [Jobs -> [Directions -> [at : {"none", "posted", "over"} \cup Running,
                                               on : Objects \cup {None}]]]
        /\ \A k \in Jobs, y \in Directions :
             half'[k][y].at \in Running \cup {"posted"} => half'[k][y].on \in Objects
    BY <1>1, <1>2, SetsHalfType, EndsHalfType DEF IInv
  <1>4. UNCHANGED <<connected, wire, mixed>> /\ Kept
    BY DEF Starts
  <1>5. QED
    BY <1>3, <1>4, DataTypes, HalfMoves

LEMMA WritesStep ==
  ASSUME IInv, NEW j \in Jobs, Writes(j)
  PROVE  IInv'
  <1> DEFINE h == half[j]["send"]
             e == Other(Sends(j))
  <1>1. h.at \in Running /\ h.on \in Objects /\ e \in Devices
    BY DeviceTypes DEF IInv, Placed, Writes
  <1>2. /\ half' \in [Jobs -> [Directions -> [at : {"none", "posted", "over"} \cup Running,
                                               on : Objects \cup {None}]]]
        /\ \A k \in Jobs, y \in Directions :
             half'[k][y].at \in Running \cup {"posted"} => half'[k][y].on \in Objects
    BY <1>1, AdvancesType DEF IInv, Writes
  <1>3. wire' \in [Devices -> [Objects -> Seq(Parts)]]
    <2>1. <<j, h.at>> \in Parts
      BY <1>1 DEF Parts
    <2>2. wire[e][h.on] \in Seq(Parts)
      BY <1>1, DataTypes
    <2>3. Append(wire[e][h.on], <<j, h.at>>) \in Seq(Parts)
      BY <2>1, <2>2, AppendProperties
    <2>4. wire' = [wire EXCEPT ![e][h.on] = Append(wire[e][h.on], <<j, h.at>>)]
      BY DEF Writes
    <2> HIDE DEF h, e
    <2>5. QED
      BY <1>1, <2>3, <2>4, DataTypes
  <1>4. UNCHANGED <<connected, mixed>> /\ Kept
    BY DEF Writes
  <1>5. QED
    BY <1>2, <1>3, <1>4, DataTypes, HalfMoves

(* A half that is over, its channel closed or left open. *)
LEMMA FailsStep ==
  ASSUME IInv, NEW j \in Jobs, NEW x \in Directions, half[j][x].at \in Running,
         Fails(j, x), DisconnectsOwn(j, x) \/ LeavesOpen
  PROVE  IInv'
  <1>1. half[j][x].on \in Objects /\ At(j, x) \in Devices
    BY DeviceTypes DEF IInv, Placed
  <1>2. /\ half' \in [Jobs -> [Directions -> [at : {"none", "posted", "over"} \cup Running,
                                               on : Objects \cup {None}]]]
        /\ \A k \in Jobs, y \in Directions :
             half'[k][y].at \in Running \cup {"posted"} => half'[k][y].on \in Objects
    BY EndsHalfType DEF IInv, Fails
  <1>3. connected' \in [Devices -> SUBSET Objects] /\ wire' \in [Devices -> [Objects -> Seq(Parts)]]
    <2>1. CASE DisconnectsOwn(j, x)
      BY <1>1, <2>1, DisconnectsType DEF IInv, DisconnectsOwn
    <2>2. CASE LeavesOpen
      BY <2>2, DataTypes DEF LeavesOpen
    <2>3. QED
      BY <2>1, <2>2
  <1>4. UNCHANGED mixed /\ Kept
    BY DEF Fails
  <1>5. QED
    BY <1>2, <1>3, <1>4, DataTypes, HalfMoves

LEMMA WriteFailsStep ==
  ASSUME IInv, NEW j \in Jobs, WriteFails(j)
  PROVE  IInv'
  BY FailsStep DEF WriteFails

LEMMA SourceFailsStep ==
  ASSUME IInv, NEW j \in Jobs, SourceFails(j)
  PROVE  IInv'
  BY FailsStep DEF SourceFails

LEMMA SinkFailsStep ==
  ASSUME IInv, NEW j \in Jobs, SinkFails(j)
  PROVE  IInv'
  BY FailsStep DEF SinkFails

LEMMA ReadFailsStep ==
  ASSUME IInv, NEW j \in Jobs, ReadFails(j)
  PROVE  IInv'
  BY FailsStep DEF ReadFails

LEMMA ReadsStep ==
  ASSUME IInv, NEW j \in Jobs, Reads(j)
  PROVE  IInv'
  <1> DEFINE h == half[j]["receive"]
             d == Other(Sends(j))
  <1>1. h.at \in Running /\ h.on \in Objects /\ d \in Devices /\ wire[d][h.on] # <<>>
    BY DeviceTypes DEF IInv, Placed, Reads
  <1>2. mixed' \in SUBSET Jobs /\ Kept
    BY DataTypes DEF Reads
  <1>3. Advances(j, "receive") \/ EndsHalf(j, "receive")
    BY DEF Reads
  <1>4. /\ half' \in [Jobs -> [Directions -> [at : {"none", "posted", "over"} \cup Running,
                                               on : Objects \cup {None}]]]
        /\ \A k \in Jobs, y \in Directions :
             half'[k][y].at \in Running \cup {"posted"} => half'[k][y].on \in Objects
    BY <1>1, <1>3, AdvancesType, EndsHalfType DEF IInv
  <1>5. \/ wire' = [wire EXCEPT ![d][h.on] = Tail(wire[d][h.on])] /\ UNCHANGED connected
        \/ Disconnects(d, h.on)
    BY DEF Reads
  <1> HIDE DEF h, d
  <1>6. connected' \in [Devices -> SUBSET Objects] /\ wire' \in [Devices -> [Objects -> Seq(Parts)]]
    <2>1. CASE wire' = [wire EXCEPT ![d][h.on] = Tail(wire[d][h.on])] /\ UNCHANGED connected
      <3>1. Tail(wire[d][h.on]) \in Seq(Parts)
        BY <1>1, DataTypes, HeadTailProperties
      <3>2. QED
        BY <1>1, <2>1, <3>1, DataTypes
    <2>2. CASE Disconnects(d, h.on)
      BY <1>1, <2>2, DisconnectsType DEF IInv
    <2>3. QED
      BY <1>5, <2>1, <2>2
  <1>7. QED
    BY <1>2, <1>4, <1>6, HalfMoves

LEMMA RefusesHeaderStep ==
  ASSUME IInv, NEW j \in Jobs, RefusesHeader(j)
  PROVE  IInv'
  <1> PICK c : c = half[j]["receive"].on
    OBVIOUS
  <1> PICK d : d = Other(Sends(j))
    OBVIOUS
  <1>1. c \in Objects /\ d \in Devices /\ wire[d][c] # <<>>
    BY DeviceTypes DEF IInv, Placed, RefusesHeader
  <1>2. /\ half' \in [Jobs -> [Directions -> [at : {"none", "posted", "over"} \cup Running,
                                               on : Objects \cup {None}]]]
        /\ \A k \in Jobs, y \in Directions :
             half'[k][y].at \in Running \cup {"posted"} => half'[k][y].on \in Objects
    BY EndsHalfType DEF IInv, RefusesHeader
  <1>3. wire' \in [Devices -> [Objects -> Seq(Parts)]]
    <2>1. wire' = [wire EXCEPT ![d][c] = Tail(wire[d][c])]
      BY DEF RefusesHeader
    <2>2. Tail(wire[d][c]) \in Seq(Parts)
      BY <1>1, DataTypes, HeadTailProperties
    <2> QED
      BY <1>1, <2>1, <2>2, DataTypes
  <1>4. mixed' \in SUBSET Jobs /\ alone' \in BOOLEAN
    BY DataTypes DEF RefusesHeader
  <1>5. UNCHANGED <<link, pool, connected, closing, reserved, job, stale>>
    BY DEF RefusesHeader
  <1>6. TypeOK'
    BY <1>2, <1>3, <1>4, <1>5 DEF IInv, TypeOK
  <1>7. Placed'
    BY <1>2, <1>5 DEF IInv, Placed
  <1>8. GuardsInOrder' /\ GuardsMatch' /\ OneBorrower'
    BY <1>5, QuietGuards
  <1>9. QED
    BY <1>6, <1>7, <1>8 DEF IInv
-------------------------------------------------------------------------------

LEMMA InitStep == Init => IInv
  <1> SUFFICES ASSUME Init PROVE IInv
    OBVIOUS
  <1>1. TypeOK
    <2>1. 1 \in 1 .. MaxSession /\ 1 \in 1 .. MaxSession + 1 /\ 0 \in 0 .. MaxSession + 1
      BY ChannelBounds
    <2>2. pool \in [Devices -> 1 .. MaxSession + 1]
      BY <2>1 DEF Init
    <2>3. connected \in [Devices -> SUBSET Objects]
      BY <2>1 DEF Init, Current, Objects
    <2>4. wire \in [Devices -> [Objects -> Seq(Parts)]]
      <3>1. <<>> \in Seq(Parts)
        BY EmptySeq
      <3>2. [c \in Objects |-> <<>>] \in [Objects -> Seq(Parts)]
        BY <3>1
      <3>3. QED
        BY <3>2 DEF Init
    <2>5. server \in [Jobs -> [at : {"none", "begun", "scan", "reserve", "recheck", "serve"},
                               on : Objects \cup {None}, since : 0 .. MaxSession + 1]]
      BY <2>1 DEF Init
    <2>6. half \in [Jobs -> [Directions -> [at : {"none", "posted", "over"} \cup Running,
                                            on : Objects \cup {None}]]]
      BY DEF Init
    <2>7. asker \in [Jobs -> [at : {"idle", "asked", "moving", "over"}, kind : Kinds \cup {"none"}]]
      BY DEF Init
    <2>8. /\ closing \in [Devices -> SUBSET Objects] /\ reserved \in [Devices -> SUBSET Channels]
          /\ stale \in [Devices -> SUBSET Channels]
      BY DEF Init
    <2>9. answer \in [Jobs -> Channels \cup {0}]
      BY DEF Init
    <2>10. primary \in BOOLEAN /\ session \in 1 .. MaxSession /\ mixed \in SUBSET Jobs /\ alone \in BOOLEAN
      BY <2>1 DEF Init
    <2>11. QED
      BY <2>2, <2>3, <2>4, <2>5, <2>6, <2>7, <2>8, <2>9, <2>10 DEF TypeOK
  <1>2. Placed
    BY DEF Init, Placed
  <1>3. GuardsInOrder
    <2>1. \A j \in Jobs : Serves(j) \in Devices
      BY DeviceTypes
    <2>2. QED
      BY <2>1 DEF Init, GuardsInOrder
  <1>4. \A d \in Devices : Holders(d) = {} /\ reserved[d] = {}
    BY DEF Init, Holders
  <1>5. GuardsMatch /\ OneBorrower
    BY <1>4 DEF GuardsMatch, OneBorrower
  <1>6. QED
    BY <1>1, <1>2, <1>3, <1>5 DEF IInv

LEMMA StutterStep ==
  ASSUME IInv, UNCHANGED vars
  PROVE  IInv'
  <1>1. TypeOK'
    BY DEF IInv, TypeOK, vars
  <1>2. Placed'
    BY DEF IInv, Placed, vars
  <1>3. GuardsInOrder' /\ GuardsMatch' /\ OneBorrower'
    BY QuietGuards DEF IInv, vars
  <1>4. QED
    BY <1>1, <1>2, <1>3 DEF IInv

LEMMA NextStep == IInv /\ [Next]_vars => IInv'
  <1> SUFFICES ASSUME IInv, [Next]_vars
               PROVE  IInv'
    OBVIOUS
  <1>1. ASSUME NEW j \in Jobs, AskerStep(j)
        PROVE  IInv'
    BY <1>1, AskStep, GivesUpStep, StartsOwnHalfStep, FindsItClosedStep, FindsItInUseStep,
       RefusesExportStep, CancelsExportStep, AskerEndsStep, Zenon DEF AskerStep
  <1>2. ASSUME NEW j \in Jobs, ServerStep(j)
        PROVE  IInv'
    BY <1>2, FailsToPrepareStep, ScanThrowsStep, ScanStep, TryReserveStep, DropsGuardStep, GrantsStep, ServerEndsStep,
       Zenon DEF ServerStep
  <1>3. ASSUME NEW j \in Jobs, Moves(j)
        PROVE  IInv'
    BY <1>3, StartsStep, WritesStep, WriteFailsStep, ReadsStep, ReadFailsStep, Zenon DEF Moves
  <1>4. CASE UNCHANGED vars
    BY <1>4, StutterStep
  <1>5. CASE Next
    BY <1>1, <1>2, <1>3, <1>5, SourceFailsStep, SinkFailsStep, RefusesHeaderStep, ResetStep,
       ChannelClosesStep, PrimaryDropsStep, SetUpStep, Zenon DEF Next
  <1>6. QED
    BY <1>4, <1>5

(* The invariant holds of every behaviour, however many jobs, channels and   *)
(* sessions there are.                                                       *)
THEOREM TransfersInvariance == Spec => []IInv
  BY InitStep, NextStep, PTL DEF Spec

(* Every variable keeps its type.                                            *)
THEOREM TransfersTypeCorrect == Spec => []TypeOK
  <1>1. IInv => TypeOK
    BY DEF IInv
  <1>2. QED
    BY <1>1, TransfersInvariance, PTL

(* An index of the pool is reserved exactly while a handler of the session   *)
(* holds its guard, but for those a guard of an old session erased: no       *)
(* channel is lost to the pool by a reservation nobody will release.         *)
THEOREM GuardsAlwaysMatch == Spec => []GuardsMatchReservations
  <1>1. IInv => GuardsMatchReservations
    <2> SUFFICES ASSUME IInv, NEW d \in Devices
                 PROVE  LET held == {server[j].on[2] : j \in Holders(d)}
                        IN  reserved[d] \subseteq held /\ held \subseteq reserved[d] \cup stale[d]
      BY DEF GuardsMatchReservations
    <2>1. /\ \A i \in reserved[d] : \E j \in Holders(d) : server[j].on[2] = i
          /\ \A j \in Holders(d) : server[j].on[2] \in reserved[d] \cup stale[d]
      BY DEF IInv, GuardsMatch
    <2>2. QED
      BY <2>1
  <1>2. QED
    BY <1>1, TransfersInvariance, PTL

(* BorrowTransferChannel never lends one channel of the session to two       *)
(* handlers, unless the first's reservation was erased by a stale guard:     *)
(* the scan without a lock is safe because the reservation decides.          *)
THEOREM ChannelsHaveOneBorrower == Spec => []OneBorrower
  <1>1. IInv => OneBorrower
    BY DEF IInv
  <1>2. QED
    BY <1>1, TransfersInvariance, PTL

-------------------------------------------------------------------------------
(***************************************************************************)
(* What the channels carry.                                                *)
(*                                                                         *)
(* AloneReadsItsOwn for any number of jobs, channels and sessions: as long *)
(* as jobs come one after the other, a receiver reads only what was sent   *)
(* for it.  What has to be carried is what may lie in a channel: nothing,  *)
(* what the one open job has sent and its receiver has not read, or what a *)
(* job left behind in a channel that will be closed before it is used.     *)
(***************************************************************************)

Receiver(j) == Other(Sends(j))

ReadsOn(j, d, c) ==
    Receiver(j) = d /\ half[j]["receive"].at \in {"head", "body"} /\ half[j]["receive"].on = c

(* The receiver of j is on c, or will be when the answer comes. *)
AwaitsOn(j, c) ==
    \/ half[j]["receive"].at \in {"posted", "head", "body"} /\ half[j]["receive"].on = c
    \/ /\ half[j]["receive"].at = "none" /\ asker[j].at = "asked"
       /\ answer[j] \in {0, c[2]} /\ c[1] = session

(* Nobody reads on c any more, nor will: its Disconnect is posted. *)
Doomed(d, c) == c \in closing[d] /\ \A j \in Jobs : ~ReadsOn(j, d, c)

Before(j) == half[j]["receive"].at \in {"none", "posted", "head"}
InBody(j) == half[j]["receive"].at = "body"
Sent(j)   == half[j]["send"].at = "over"
SendsOn(j, c, where) == half[j]["send"].at \in where /\ half[j]["send"].on = c

HeadOf(j) == <<j, "head">>
BodyOf(j) == <<j, "body">>

(* The parts on their way to c are the next that the receiver of j expects. *)
Carries(j, d, c) ==
    /\ Receiver(j) = d /\ AwaitsOn(j, c)
    /\ \/ wire[d][c] = <<HeadOf(j)>> /\ Before(j) /\ (SendsOn(j, c, {"body"}) \/ Sent(j))
       \/ wire[d][c] = <<HeadOf(j), BodyOf(j)>> /\ Before(j) /\ Sent(j)
       \/ wire[d][c] = <<BodyOf(j)>> /\ InBody(j) /\ Sent(j)

WireHolds == \A d \in Devices, c \in Objects :
    wire[d][c] # <<>> => Doomed(d, c) \/ \E j \in Jobs : Carries(j, d, c)

BothConnected(c) == \A d \in Devices : c \in connected[d]

(* What the sender of j sends next on c is what its receiver expects next. *)
Ready(j, c) ==
    /\ AwaitsOn(j, c)
    /\ half[j]["send"].at # "body" => wire[Receiver(j)][c] = <<>> /\ Before(j)
    /\ half[j]["send"].at = "body" =>
          \/ wire[Receiver(j)][c] = <<HeadOf(j)>> /\ Before(j)
          \/ wire[Receiver(j)][c] = <<>> /\ InBody(j)

SenderHolds == \A j \in Jobs, c \in Objects :
    SendsOn(j, c, {"posted", "head", "body"}) /\ BothConnected(c)
        => Doomed(Receiver(j), c) \/ Ready(j, c)

(* When the one that asks is to send, the other is ready, or never will be. *)
AnswerOf(j) == \A c \in Objects :
    /\ asker[j].at = "asked" /\ answer[j] = c[2] /\ c[1] = session /\ Sends(j) = Asks(j)
    /\ BothConnected(c)
    => half[j]["receive"].at \in {"posted", "head"} /\ half[j]["receive"].on = c

(* A handler that has not granted yet, and where it will. *)
ServerOf(j) ==
    /\ server[j].at \in {"begun", "scan", "reserve", "recheck"} =>
          /\ asker[j].at = "asked" /\ answer[j] = 0
          /\ \A x \in Directions : half[j][x].at = "none"
    /\ server[j].at \in {"reserve", "recheck"} => server[j].on[1] = session

OneOpen == \A j, k \in Jobs : Open(j) /\ Open(k) => j = k

AloneHolds ==
    /\ OneOpen /\ \A j \in Jobs : ServerOf(j) /\ AnswerOf(j)
    /\ WireHolds /\ SenderHolds /\ mixed = {}

(* Sessions and pools: what is left of an old pool is being closed. *)
PoolsHold ==
    /\ \A d \in Devices : pool[d] \in {session, session + 1}
    /\ \A d \in Devices : \A c \in connected[d] :
          c[1] <= session /\ (c[1] < pool[d] => c \in closing[d])
    /\ \A d \in Devices, c \in Objects : c \notin connected[d] => wire[d][c] = <<>>

(* What a job has not begun. *)
NotBegun == \A j \in Jobs :
    /\ asker[j].at = "idle" =>
          server[j].at = "none" /\ answer[j] = 0 /\ \A x \in Directions : half[j][x].at = "none"
    /\ asker[j].at = "asked" => half[j][DirectionOn(j, Asks(j))].at = "none"

CInv == PoolsHold /\ NotBegun /\ (alone => AloneHolds)

USE DEF link, channels, job, ghosts, Devices, Directions, None, NoServer, NoHalf, HalfOver, Running

-------------------------------------------------------------------------------
(* Sessions and pools *)

LEMMA PoolsAsTheyAre ==
  ASSUME PoolsHold, UNCHANGED <<session, pool, connected, wire>>,
         \A d \in Devices : closing[d] \subseteq closing'[d]
  PROVE  PoolsHold'
  BY DEF PoolsHold

LEMMA PoolsDisconnect ==
  ASSUME TypeOK, PoolsHold, NEW d \in Devices, NEW c \in Objects, Disconnects(d, c),
         UNCHANGED <<session, pool>>,
         \A e \in Devices : closing[e] \subseteq closing'[e] \cup (IF e = d THEN {c} ELSE {})
  PROVE  PoolsHold'
  <1>1. \A e \in Devices : connected'[e] = IF e = d THEN connected[e] \ {c} ELSE connected[e]
    BY DEF TypeOK, Disconnects
  <1>2. \A e \in Devices, b \in Objects : wire'[e][b] = IF e = d /\ b = c THEN <<>> ELSE wire[e][b]
    BY DEF TypeOK, Disconnects
  <1> QED
    BY <1>1, <1>2 DEF PoolsHold

LEMMA OpenOrDisconnected ==
  ASSUME TypeOK, Placed, PoolsHold, NEW j \in Jobs, NEW x \in Directions, half[j][x].at \in Running,
         DisconnectsOwn(j, x) \/ LeavesOpen, Kept
  PROVE  PoolsHold'
  <1>1. half[j][x].on \in Objects /\ At(j, x) \in Devices
    BY DeviceTypes DEF Placed
  <1>2. CASE DisconnectsOwn(j, x)
    BY <1>1, <1>2, PoolsDisconnect DEF DisconnectsOwn, Kept
  <1>3. CASE LeavesOpen
    BY <1>3, PoolsAsTheyAre DEF LeavesOpen, Kept
  <1> QED
    BY <1>2, <1>3

LEMMA PoolsStep ==
  ASSUME IInv, PoolsHold, Next
  PROVE  PoolsHold'
  <1> USE DEF IInv
  <1>1. ASSUME NEW j \in Jobs, AskerStep(j) PROVE PoolsHold'
    <2>1. UNCHANGED <<session, pool, connected, wire>>
      BY <1>1 DEF AskerStep, Ask, GivesUp, StartsOwnHalf, FindsItClosed, FindsItInUse, RefusesExport,
                  CancelsExport, AskerEnds
    <2>2. CASE RefusesExport(j)
      BY <2>1, <2>2, PoolsAsTheyAre DEF RefusesExport, TypeOK
    <2>3. CASE CancelsExport(j)
      BY <2>1, <2>3, PoolsAsTheyAre DEF CancelsExport, TypeOK
    <2>4. CASE ~RefusesExport(j) /\ ~CancelsExport(j)
      <3>1. UNCHANGED closing
        BY <1>1, <2>4 DEF AskerStep, Ask, GivesUp, StartsOwnHalf, FindsItClosed, FindsItInUse, AskerEnds
      <3> QED
        BY <2>1, <3>1, PoolsAsTheyAre
    <2> QED
      BY <2>2, <2>3, <2>4
  <1>2. ASSUME NEW j \in Jobs, ServerStep(j) PROVE PoolsHold'
    <2>1. UNCHANGED <<session, pool, connected, wire, closing>>
      BY <1>2 DEF ServerStep, FailsToPrepare, ScanThrows, Scan, TryReserve, DropsGuard, Grants, ServerEnds,
                  Releases
    <2> QED
      BY <2>1, PoolsAsTheyAre
  <1>3. ASSUME NEW j \in Jobs, NEW x \in Directions, Starts(j, x) PROVE PoolsHold'
    BY <1>3, PoolsAsTheyAre DEF Starts, Kept
  <1>4. ASSUME NEW j \in Jobs, Writes(j) PROVE PoolsHold'
    <2> DEFINE c == half[j]["send"].on
               e == Other(Sends(j))
    <2>1. c \in Objects /\ e \in Devices /\ c \in connected[e]
      BY <1>4, DeviceTypes DEF Writes, Placed, Other, Sends
    <2>2. UNCHANGED <<session, pool, connected, closing>>
      BY <1>4 DEF Writes, Kept
    <2>3. wire' = [wire EXCEPT ![e][c] = Append(wire[e][c], <<j, half[j]["send"].at>>)]
      BY <1>4 DEF Writes
    <2> HIDE DEF c, e
    <2>4. \A d \in Devices, b \in Objects : (d # e \/ b # c) => wire'[d][b] = wire[d][b]
      BY <2>1, <2>3 DEF TypeOK
    <2> QED
      BY <2>1, <2>2, <2>4 DEF PoolsHold
  <1>5. ASSUME NEW j \in Jobs, WriteFails(j) \/ SourceFails(j) PROVE PoolsHold'
    BY <1>5, OpenOrDisconnected DEF WriteFails, SourceFails, Fails
  <1>6. ASSUME NEW j \in Jobs, SinkFails(j) \/ ReadFails(j) PROVE PoolsHold'
    BY <1>6, OpenOrDisconnected DEF SinkFails, ReadFails, Fails
  <1>7. ASSUME NEW j \in Jobs, Reads(j) \/ RefusesHeader(j) PROVE PoolsHold'
    <2> DEFINE c == half[j]["receive"].on
               d == Other(Sends(j))
    <2>1. c \in Objects /\ d \in Devices /\ c \in connected[d]
      BY <1>7, DeviceTypes DEF Reads, RefusesHeader, Placed
    <2>2. UNCHANGED <<session, pool, closing>>
      BY <1>7 DEF Reads, RefusesHeader, Kept
    <2>3. CASE Disconnects(d, c)
      <3> HIDE DEF c, d
      <3> QED
        BY <2>1, <2>2, <2>3, PoolsDisconnect
    <2>4. CASE wire' = [wire EXCEPT ![d][c] = Tail(wire[d][c])] /\ UNCHANGED connected
      <3> HIDE DEF c, d
      <3>1. \A e \in Devices, b \in Objects : (e # d \/ b # c) => wire'[e][b] = wire[e][b]
        BY <2>1, <2>4 DEF TypeOK
      <3> QED
        BY <2>1, <2>2, <2>4, <3>1 DEF PoolsHold
    <2> QED
      BY <1>7, <2>3, <2>4 DEF Reads, RefusesHeader
  <1>8. ASSUME NEW d \in Devices, NEW c \in Objects, ChannelCloses(d, c) PROVE PoolsHold'
    <2>1. \A e \in Devices : closing[e] \subseteq closing'[e] \cup (IF e = d THEN {c} ELSE {})
      BY <1>8 DEF ChannelCloses, TypeOK
    <2> QED
      BY <1>8, <2>1, PoolsDisconnect DEF ChannelCloses
  <1>9. ASSUME NEW d \in Devices, Reset(d) PROVE PoolsHold'
    <2>1. /\ pool'[d] = session + 1 /\ pool[d] = session /\ \A e \in Devices \ {d} : pool'[e] = pool[e]
          /\ \A e \in Devices : closing[e] \subseteq closing'[e]
          /\ \A c \in connected[d] : c \in Current(d) => c \in closing'[d]
          /\ UNCHANGED <<session, connected, wire>>
      BY <1>9 DEF Reset, TypeOK
    <2>2. \A c \in connected[d] : c[1] = session => c \in Current(d)
      BY <2>1 DEF TypeOK, Objects, Current
    <2>3. \A e \in Devices : \A c \in connected[e] : c[1] \in Nat
      BY ChannelBounds DEF TypeOK, Objects
    <2>4. session \in Nat
      BY ChannelBounds DEF TypeOK
    <2>5. \A e \in Devices : \A c \in connected'[e] :
             c[1] <= session' /\ (c[1] < pool'[e] => c \in closing'[e])
      <3> TAKE e \in Devices
      <3> TAKE c \in connected'[e]
      <3>1. c \in connected[e] /\ c[1] \in Nat /\ c[1] <= session /\ (c[1] < pool[e] => c \in closing[e])
        BY <2>1, <2>3 DEF PoolsHold
      <3>2. CASE e = d
        BY <3>1, <3>2, <2>1, <2>2, <2>4
      <3>3. CASE e # d
        BY <3>1, <3>3, <2>1
      <3> QED
        BY <3>2, <3>3
    <2> QED
      BY <2>1, <2>5 DEF PoolsHold
  <1>10. CASE PrimaryDrops
    BY <1>10, PoolsAsTheyAre DEF PrimaryDrops
  <1>11. CASE SetUp
    <2>1. /\ session' = session + 1 /\ \A d \in Devices : pool'[d] = session + 1 /\ pool[d] = session + 1
          /\ \A d \in Devices : connected'[d] = connected[d] \cup Current(d)
          /\ UNCHANGED <<closing, wire>>
      BY <1>11 DEF SetUp
    <2>2. \A d \in Devices : \A c \in Current(d) : c[1] = session + 1
      BY <2>1 DEF Current
    <2>3. \A d \in Devices : \A c \in connected[d] : c[1] \in Nat
      BY ChannelBounds DEF TypeOK, Objects
    <2>4. session \in Nat
      BY ChannelBounds DEF TypeOK
    <2>5. \A d \in Devices : \A c \in connected'[d] :
             c[1] <= session' /\ (c[1] < pool'[d] => c \in closing'[d])
      <3> TAKE d \in Devices
      <3> TAKE c \in connected'[d]
      <3>1. CASE c \in connected[d]
        BY <3>1, <2>1, <2>3, <2>4 DEF PoolsHold
      <3>2. CASE c \in Current(d)
        BY <3>2, <2>1, <2>2, <2>4
      <3> QED
        BY <3>1, <3>2, <2>1
    <2> QED
      BY <2>1, <2>5 DEF PoolsHold
  <1> QED
    BY <1>1, <1>2, <1>3, <1>4, <1>5, <1>6, <1>7, <1>8, <1>9, <1>10, <1>11 DEF Next, Moves

-------------------------------------------------------------------------------
(* Who has not begun *)

(* What a job's coroutines do leaves the other jobs alone. *)
OthersStay(j) == \A k \in Jobs \ {j} :
    asker'[k] = asker[k] /\ server'[k] = server[k] /\ answer'[k] = answer[k] /\ half'[k] = half[k]

LEMMA SetsHalfFacts ==
  ASSUME TypeOK, NEW j \in Jobs, NEW x \in Directions, NEW where, NEW c, SetsHalf(j, x, where, c)
  PROVE  /\ half'[j][x] = [at |-> where, on |-> c]
         /\ \A y \in Directions \ {x} : half'[j][y] = half[j][y]
         /\ \A k \in Jobs \ {j} : half'[k] = half[k]
  BY DEF TypeOK, SetsHalf

LEMMA EndsHalfFacts ==
  ASSUME TypeOK, NEW j \in Jobs, NEW x \in Directions, EndsHalf(j, x)
  PROVE  /\ half'[j][x] = HalfOver
         /\ \A y \in Directions \ {x} : half'[j][y] = half[j][y]
         /\ \A k \in Jobs \ {j} : half'[k] = half[k]
  BY DEF TypeOK, EndsHalf

(* A half that is posted or running goes on or ends, on its channel. *)
LEMMA HalfFacts ==
  ASSUME IInv, NEW j \in Jobs, NEW x \in Directions,
         Starts(j, x) \/ (half[j][x].at \in Running /\ (Advances(j, x) \/ EndsHalf(j, x)))
  PROVE  /\ half[j][x].at \in {"posted", "head", "body"} /\ half[j][x].on \in Objects
         /\ half'[j][x] \in {[at |-> "head", on |-> half[j][x].on], [at |-> "body", on |-> half[j][x].on], HalfOver}
         /\ \A y \in Directions \ {x} : half'[j][y] = half[j][y]
         /\ \A k \in Jobs \ {j} : half'[k] = half[k]
  <1>1. TypeOK /\ half[j][x].at \in {"posted", "head", "body"} /\ half[j][x].on \in Objects
    BY DEF IInv, Placed, Starts
  <1>2. \/ SetsHalf(j, x, "head", half[j][x].on) \/ SetsHalf(j, x, "body", half[j][x].on)
        \/ EndsHalf(j, x)
    BY DEF Starts, Advances
  <1>3. CASE EndsHalf(j, x)
    BY <1>1, <1>3, EndsHalfFacts
  <1>4. CASE SetsHalf(j, x, "head", half[j][x].on)
    <2>1. /\ half'[j][x] = [at |-> "head", on |-> half[j][x].on]
          /\ \A y \in Directions \ {x} : half'[j][y] = half[j][y]
          /\ \A k \in Jobs \ {j} : half'[k] = half[k]
      BY <1>1, <1>4, SetsHalfFacts
    <2> QED
      BY <1>1, <2>1
  <1>5. CASE SetsHalf(j, x, "body", half[j][x].on)
    <2>1. /\ half'[j][x] = [at |-> "body", on |-> half[j][x].on]
          /\ \A y \in Directions \ {x} : half'[j][y] = half[j][y]
          /\ \A k \in Jobs \ {j} : half'[k] = half[k]
      BY <1>1, <1>5, SetsHalfFacts
    <2> QED
      BY <1>1, <2>1
  <1> QED
    BY <1>2, <1>3, <1>4, <1>5

(* Every step of the halves is one of those. *)
LEMMA HalfSteps ==
  ASSUME IInv, NEW j \in Jobs, Moves(j) \/ SourceFails(j) \/ SinkFails(j) \/ RefusesHeader(j)
  PROVE  /\ UNCHANGED job /\ (RefusesHeader(j) \/ Kept)
         /\ \E x \in Directions :
              Starts(j, x) \/ (half[j][x].at \in Running /\ (Advances(j, x) \/ EndsHalf(j, x)))
  <1>1. CASE RefusesHeader(j)
    BY <1>1 DEF RefusesHeader
  <1>2. CASE ~RefusesHeader(j)
    BY <1>2 DEF Moves, Starts, Writes, WriteFails, Reads, ReadFails, SourceFails, SinkFails, Fails, Kept
  <1> QED
    BY <1>1, <1>2

LEMMA NotBegunOf ==
  ASSUME NotBegun, NEW j \in Jobs, OthersStay(j),
         asker'[j].at = "idle" =>
             server'[j].at = "none" /\ answer'[j] = 0 /\ \A x \in Directions : half'[j][x].at = "none",
         asker'[j].at = "asked" => half'[j][DirectionOn(j, Asks(j))'].at = "none"
  PROVE  NotBegun'
  <1>1. \A k \in Jobs \ {j} : DirectionOn(k, Asks(k))' = DirectionOn(k, Asks(k))
    BY DEF OthersStay, DirectionOn, Asks, Sends
  <1>2. ASSUME NEW k \in Jobs
        PROVE  /\ asker'[k].at = "idle" =>
                     server'[k].at = "none" /\ answer'[k] = 0 /\ \A x \in Directions : half'[k][x].at = "none"
               /\ asker'[k].at = "asked" => half'[k][DirectionOn(k, Asks(k))'].at = "none"
    BY <1>1 DEF NotBegun, OthersStay
  <1> QED
    BY <1>2 DEF NotBegun

LEMMA NotBegunStep ==
  ASSUME IInv, NotBegun, Next
  PROVE  NotBegun'
  <1> USE DEF IInv
  <1>1. ASSUME NEW j \in Jobs, AskerStep(j) PROVE NotBegun'
    <2>1. CASE Ask(j)
      <3>1. OthersStay(j)
        BY <2>1 DEF Ask, OthersStay, TypeOK
      <3>2. asker'[j].at = "asked" /\ \A x \in Directions : half'[j][x].at = "none"
        BY <2>1 DEF Ask, TypeOK, NotBegun
      <3>3. DirectionOn(j, Asks(j))' \in Directions
        BY DEF DirectionOn
      <3> QED
        BY <3>1, <3>2, <3>3, NotBegunOf
    <2>2. CASE StartsOwnHalf(j)
      <3>1. \A k \in Jobs \ {j} : half'[k] = half[k]
        BY <2>2, SetsHalfFacts DEF StartsOwnHalf, DirectionOn
      <3>2. OthersStay(j) /\ asker'[j].at = "moving"
        BY <2>2, <3>1 DEF StartsOwnHalf, OthersStay, TypeOK
      <3> QED
        BY <3>2, NotBegunOf
    <2>3. CASE GivesUp(j) \/ FindsItClosed(j) \/ FindsItInUse(j) \/ RefusesExport(j) \/ AskerEnds(j)
      <3>1. asker'[j].at = "over" /\ \A k \in Jobs \ {j} : asker'[k] = asker[k] /\ answer'[k] = answer[k]
        BY <2>3 DEF GivesUp, FindsItClosed, FindsItInUse, RefusesExport, AskerEnds, Over, TypeOK
      <3>2. UNCHANGED <<half, server>>
        BY <2>3 DEF GivesUp, FindsItClosed, FindsItInUse, RefusesExport, AskerEnds, Over
      <3>3. OthersStay(j)
        BY <3>1, <3>2 DEF OthersStay
      <3> QED
        BY <3>1, <3>3, NotBegunOf
    <2>4. CASE CancelsExport(j)
      BY <2>4 DEF CancelsExport, NotBegun, DirectionOn, Asks, Sends
    <2> QED
      BY <1>1, <2>1, <2>2, <2>3, <2>4 DEF AskerStep
  <1>2. ASSUME NEW j \in Jobs, ServerStep(j) PROVE NotBegun'
    <2>1. server[j].at # "none" /\ asker[j].at # "idle" /\ UNCHANGED asker
      BY <1>2 DEF ServerStep, FailsToPrepare, ScanThrows, Scan, Scans, TryReserve, DropsGuard, Grants,
                  ServerEnds, NotBegun
    <2>2. \A k \in Jobs \ {j} : server'[k] = server[k] /\ answer'[k] = answer[k]
      BY <1>2 DEF ServerStep, FailsToPrepare, ScanThrows, Scan, TryReserve, DropsGuard, Grants, ServerEnds,
                  ServerIsOver, Rescan, TypeOK
    <2>3. CASE Grants(j)
      <3> DEFINE x == DirectionOn(j, Serves(j))
      <3>1. x \in Directions /\ DirectionOn(j, Asks(j)) \in Directions \ {x}
        BY DEF DirectionOn, Serves, Asks, Sends, Other
      <3>2. DirectionOn(j, Asks(j))' = DirectionOn(j, Asks(j))
        BY <2>1 DEF DirectionOn, Asks, Sends
      <3>3. /\ \A y \in Directions \ {x} : half'[j][y] = half[j][y]
            /\ \A k \in Jobs \ {j} : half'[k] = half[k]
        BY <2>3, <3>1, SetsHalfFacts DEF Grants
      <3>4. half'[j][DirectionOn(j, Asks(j))] = half[j][DirectionOn(j, Asks(j))]
        BY <3>1, <3>3
      <3>5. OthersStay(j)
        BY <2>1, <2>2, <3>3 DEF OthersStay
      <3> HIDE DEF x
      <3> QED
        BY <2>1, <3>2, <3>4, <3>5, NotBegunOf DEF NotBegun
    <2>4. CASE ~Grants(j)
      <3>1. UNCHANGED half
        BY <1>2, <2>4 DEF ServerStep, FailsToPrepare, ScanThrows, Scan, TryReserve, DropsGuard, ServerEnds
      <3>2. DirectionOn(j, Asks(j))' = DirectionOn(j, Asks(j))
        BY <2>1 DEF DirectionOn, Asks, Sends
      <3>3. OthersStay(j)
        BY <2>1, <2>2, <3>1 DEF OthersStay
      <3> QED
        BY <2>1, <3>1, <3>2, <3>3, NotBegunOf DEF NotBegun
    <2> QED
      BY <2>3, <2>4
  <1>3. ASSUME NEW j \in Jobs, Moves(j) \/ SourceFails(j) \/ SinkFails(j) \/ RefusesHeader(j)
        PROVE  NotBegun'
    <2>1. PICK x \in Directions :
             Starts(j, x) \/ (half[j][x].at \in Running /\ (Advances(j, x) \/ EndsHalf(j, x)))
      BY <1>3, HalfSteps
    <2>2. UNCHANGED <<asker, server, answer>>
      BY <1>3, HalfSteps
    <2>3. /\ half[j][x].at # "none"
          /\ \A y \in Directions \ {x} : half'[j][y] = half[j][y]
          /\ \A k \in Jobs \ {j} : half'[k] = half[k]
      BY <2>1, HalfFacts
    <2>4. DirectionOn(j, Asks(j))' = DirectionOn(j, Asks(j)) /\ DirectionOn(j, Asks(j)) \in Directions
      BY <2>2 DEF DirectionOn, Asks, Sends
    <2>5. asker[j].at # "idle"
      BY <2>3 DEF NotBegun
    <2>6. asker[j].at = "asked" => DirectionOn(j, Asks(j)) # x
      BY <2>3 DEF NotBegun
    <2>7. OthersStay(j)
      BY <2>2, <2>3 DEF OthersStay
    <2> QED
      BY <2>2, <2>3, <2>4, <2>5, <2>6, <2>7, NotBegunOf DEF NotBegun
  <1>4. CASE \/ \E d \in Devices : Reset(d) \/ \E c \in Objects : ChannelCloses(d, c)
             \/ PrimaryDrops \/ SetUp
    <2>1. UNCHANGED <<asker, server, answer, half>>
      BY <1>4 DEF Reset, ChannelCloses, PrimaryDrops, SetUp
    <2> QED
      BY <2>1 DEF NotBegun, DirectionOn, Asks, Sends
  <1> QED
    BY <1>1, <1>2, <1>3, <1>4 DEF Next

-------------------------------------------------------------------------------
(* The one job that is open *)

OnlyOne(j) == \A k \in Jobs \ {j} : ~Open(k)

(* The invariant, for the one job. *)
DoomedBut(j, d, c) == c \in closing[d] /\ ~ReadsOn(j, d, c)

WireOf(j) == \A d \in Devices, c \in Objects :
    wire[d][c] # <<>> => DoomedBut(j, d, c) \/ Carries(j, d, c)

SenderOf(j) == \A c \in Objects :
    SendsOn(j, c, {"posted", "head", "body"}) /\ BothConnected(c)
        => DoomedBut(j, Receiver(j), c) \/ Ready(j, c)

JobHolds(j) == ServerOf(j) /\ AnswerOf(j) /\ WireOf(j) /\ SenderOf(j)

LEMMA OpenMeans ==
  ASSUME NEW j \in Jobs
  PROVE  /\ asker[j].at \notin {"idle", "over"} => Open(j)
         /\ server[j].at # "none" => Open(j)
         /\ \A x \in Directions : half[j][x].at \in {"posted", "head", "body"} => Open(j)
         /\ \A c : AwaitsOn(j, c) => Open(j)
         /\ \A d, c : ReadsOn(j, d, c) => Open(j)
  BY DEF Open, AwaitsOn, ReadsOn

LEMMA JobView ==
  ASSUME AloneHolds, NEW j \in Jobs, OnlyOne(j)
  PROVE  JobHolds(j)
  <1>1. \A k \in Jobs, d \in Devices, c \in Objects : Carries(k, d, c) => k = j
    BY OpenMeans DEF Carries, OnlyOne
  <1>2. \A d, c : Doomed(d, c) => DoomedBut(j, d, c)
    BY DEF Doomed, DoomedBut
  <1>3. WireOf(j)
    BY <1>1, <1>2 DEF AloneHolds, WireHolds, WireOf
  <1>4. SenderOf(j)
    BY <1>2 DEF AloneHolds, SenderHolds, SenderOf
  <1> QED
    BY <1>3, <1>4 DEF AloneHolds, JobHolds

LEMMA TheOneOpen ==
  ASSUME OneOpen, NEW j \in Jobs, Open(j)
  PROVE  OnlyOne(j)
  BY DEF OneOpen, OnlyOne

(* What holds of the one job after its step holds of all. *)
LEMMA FromJobView ==
  ASSUME NEW j \in Jobs, OnlyOne(j), OthersStay(j), JobHolds(j)', mixed' = {}
  PROVE  AloneHolds'
  <1>1. \A k \in Jobs \ {j} :
           /\ asker'[k].at \in {"idle", "over"} \/ asker'[k].at = asker[k].at
           /\ ~Open(k)' /\ ~Open(k)
           /\ asker'[k] = asker[k] /\ server'[k] = server[k] /\ half'[k] = half[k]
    BY DEF OnlyOne, OthersStay, Open
  <1>2. OneOpen'
    BY <1>1 DEF OneOpen
  <1>3. \A k \in Jobs \ {j} :
           /\ asker'[k].at \in {"idle", "over"} /\ server'[k].at = "none"
           /\ \A x \in Directions : half'[k][x].at \notin {"posted", "head", "body"}
    BY <1>1 DEF Open
  <1>4. \A k \in Jobs : ServerOf(k)' /\ AnswerOf(k)'
    <2> TAKE k \in Jobs
    <2>1. CASE k = j
      BY <2>1 DEF JobHolds
    <2>2. CASE k # j
      BY <1>3, <2>2 DEF ServerOf, AnswerOf
    <2> QED
      BY <2>1, <2>2
  <1>5. \A k \in Jobs \ {j} : \A d, c : ~ReadsOn(k, d, c)'
    BY <1>3 DEF ReadsOn
  <1>6. \A d \in Devices, c \in Objects : DoomedBut(j, d, c)' => Doomed(d, c)'
    BY <1>5 DEF DoomedBut, Doomed
  <1>7. WireHolds'
    BY <1>6 DEF JobHolds, WireOf, WireHolds
  <1>8. SenderHolds'
    <2> SUFFICES ASSUME NEW k \in Jobs, NEW c \in Objects,
                        SendsOn(k, c, {"posted", "head", "body"})', BothConnected(c)'
                 PROVE  Doomed(Receiver(k), c)' \/ Ready(k, c)'
      BY DEF SenderHolds
    <2>1. k = j
      BY <1>3 DEF SendsOn
    <2>2. Receiver(j)' \in Devices
      BY DEF Receiver, Other
    <2>3. DoomedBut(j, Receiver(j), c)' \/ Ready(j, c)'
      BY <2>1 DEF JobHolds, SenderOf
    <2>4. Doomed(Receiver(j), c)' \/ Ready(j, c)'
      BY <2>3, <2>2, <1>6 DEF DoomedBut, Doomed
    <2> QED
      BY <2>1, <2>4
  <1> QED
    BY <1>2, <1>4, <1>7, <1>8 DEF AloneHolds

(* Sides do not change while the kind does not. *)
LEMMA SameSides ==
  ASSUME NEW j \in Jobs, asker'[j].kind = asker[j].kind
  PROVE  /\ Asks(j)' = Asks(j) /\ Serves(j)' = Serves(j) /\ Sends(j)' = Sends(j) /\ Receiver(j)' = Receiver(j)
  BY DEF Asks, Serves, Sends, Receiver, Other

-------------------------------------------------------------------------------
(* The steps of a handler, but the grant *)

LEMMA AloneServer ==
  ASSUME IInv, AloneHolds, NEW j \in Jobs,
         ScanThrows(j) \/ Scan(j) \/ TryReserve(j) \/ DropsGuard(j) \/ ServerEnds(j)
  PROVE  AloneHolds'
  <1>1. /\ server[j].at # "none"
        /\ UNCHANGED <<session, connected, closing, wire, asker, answer, half, mixed>>
        /\ \A k \in Jobs \ {j} : server'[k] = server[k]
    BY DEF ScanThrows, Scan, Scans, TryReserve, DropsGuard, ServerEnds, ServerIsOver, Rescan, Releases,
           IInv, TypeOK
  <1>2. OnlyOne(j)
    BY <1>1, OpenMeans, TheOneOpen DEF AloneHolds
  <1>3. JobHolds(j)
    BY <1>2, JobView
  <1>4. OthersStay(j)
    BY <1>1 DEF OthersStay
  <1>5. ServerOf(j)'
    <2>1. CASE ScanThrows(j) \/ ServerEnds(j)
      <3>1. server'[j].at = "none"
        BY <2>1 DEF ScanThrows, ServerEnds, ServerIsOver, IInv, TypeOK
      <3> QED
        BY <3>1 DEF ServerOf
    <2>2. CASE server'[j].at = "scan" /\ server[j].at \in {"begun", "scan", "reserve", "recheck"}
      BY <2>2, <1>1, <1>3 DEF JobHolds, ServerOf
    <2>3. CASE Scan(j)
      <3>1. PICK i \in Channels :
              server' = [server EXCEPT ![j] = [at |-> "reserve", since |-> 0, on |-> <<pool[Serves(j)], i>>]]
        BY <2>3 DEF Scan
      <3>2. server'[j].at = "reserve" /\ server'[j].on[1] = session
        BY <2>3, <3>1 DEF Scan, PoolIsConnected, IInv, TypeOK
      <3> QED
        BY <2>3, <3>2, <1>1, <1>3 DEF JobHolds, ServerOf, Scan, Scans
    <2>4. CASE server'[j].at = "recheck" /\ server[j].at = "reserve" /\ server'[j].on = server[j].on
      BY <2>4, <1>1, <1>3 DEF JobHolds, ServerOf
    <2>5. CASE TryReserve(j)
      <3>1. \/ server'[j].at = "scan" /\ server[j].at = "reserve"
            \/ server'[j].at = "recheck" /\ server[j].at = "reserve" /\ server'[j].on = server[j].on
        BY <2>5 DEF TryReserve, Rescan, IInv, TypeOK
      <3> QED
        BY <3>1, <2>2, <2>4
    <2>6. CASE DropsGuard(j)
      <3>1. server'[j].at = "scan" /\ server[j].at = "recheck"
        BY <2>6 DEF DropsGuard, Rescan, IInv, TypeOK
      <3> QED
        BY <3>1, <2>2
    <2> QED
      BY <2>1, <2>3, <2>5, <2>6
  <1>6. AnswerOf(j)' /\ WireOf(j)' /\ SenderOf(j)'
    <2>1. AnswerOf(j)'
      BY <1>1, <1>3 DEF JobHolds, AnswerOf, BothConnected, Asks, Sends
    <2>2. WireOf(j)'
      BY <1>1, <1>3 DEF JobHolds, WireOf, DoomedBut, Carries, ReadsOn, AwaitsOn, Receiver, Other, Sends,
                        Before, InBody, Sent, SendsOn
    <2>3. SenderOf(j)'
      BY <1>1, <1>3 DEF JobHolds, SenderOf, DoomedBut, Ready, ReadsOn, AwaitsOn, Receiver, Other, Sends,
                        Before, InBody, SendsOn, BothConnected
    <2> QED
      BY <2>1, <2>2, <2>3
  <1> QED
    BY <1>1, <1>2, <1>4, <1>5, <1>6, FromJobView DEF JobHolds, AloneHolds

(* The answer to a listing that could not be had names a channel on which     *)
(* nobody sends.                                                             *)
LEMMA AloneFailsToPrepare ==
  ASSUME IInv, AloneHolds, NEW j \in Jobs, FailsToPrepare(j)
  PROVE  AloneHolds'
  <1>1. /\ server[j].at = "begun" /\ server'[j].at = "none"
        /\ UNCHANGED <<session, connected, closing, wire, asker, half, mixed>>
        /\ \A k \in Jobs \ {j} : server'[k] = server[k] /\ answer'[k] = answer[k]
    BY DEF FailsToPrepare, ServerIsOver, IInv, TypeOK
  <1>2. OnlyOne(j)
    BY <1>1, OpenMeans, TheOneOpen DEF AloneHolds
  <1>3. JobHolds(j)
    BY <1>2, JobView
  <1>4. OthersStay(j)
    BY <1>1 DEF OthersStay
  <1>5. ServerOf(j)'
    BY <1>1 DEF ServerOf
  <1>6. answer[j] = 0 /\ \A x \in Directions : half[j][x].at = "none"
    BY <1>1, <1>3 DEF JobHolds, ServerOf
  <1>7. AnswerOf(j)'
    <2>1. CASE asker[j].kind = "list"
      <3>1. Sends(j) # Asks(j)
        BY <2>1 DEF Sends, Asks
      <3> QED
        BY <1>1, <3>1 DEF AnswerOf, Sends, Asks
    <2>2. CASE asker[j].kind # "list"
      <3>1. UNCHANGED answer
        BY <2>2 DEF FailsToPrepare
      <3> QED
        BY <1>1, <1>3, <3>1 DEF JobHolds, AnswerOf, BothConnected, Asks, Sends
    <2> QED
      BY <2>1, <2>2
  <1>8. WireOf(j)'
    <2>1. \A d, c : ~ReadsOn(j, d, c)' /\ ~ReadsOn(j, d, c)
      BY <1>1, <1>6 DEF ReadsOn
    <2>2. \A d, c : ~Carries(j, d, c)
      BY <1>6 DEF Carries, Sent, SendsOn
    <2> QED
      BY <1>1, <1>3, <2>1, <2>2 DEF JobHolds, WireOf, DoomedBut
  <1>9. SenderOf(j)'
    BY <1>1, <1>6 DEF SenderOf, SendsOn
  <1> QED
    BY <1>1, <1>2, <1>4, <1>5, <1>7, <1>8, <1>9, FromJobView DEF JobHolds, AloneHolds

-------------------------------------------------------------------------------
(* The session *)

(* Nothing but the Disconnects that are posted, of which there may be more. *)
LEMMA AloneClosingGrows ==
  ASSUME AloneHolds, UNCHANGED <<session, connected, wire, asker, server, answer, half, mixed>>,
         \A d \in Devices : closing[d] \subseteq closing'[d]
  PROVE  AloneHolds'
  <1>1. /\ \A j \in Jobs : Open(j)' = Open(j)
        /\ \A j \in Jobs : Receiver(j)' = Receiver(j) /\ Receiver(j) \in Devices
        /\ \A j \in Jobs, d \in Devices, c \in Objects : Carries(j, d, c)' = Carries(j, d, c)
        /\ \A j \in Jobs, c \in Objects : Ready(j, c)' = Ready(j, c)
        /\ \A c \in Objects : BothConnected(c)' = BothConnected(c)
    BY DEF Open, Receiver, Other, Sends, Carries, Ready, AwaitsOn, Before, InBody, Sent, SendsOn, BothConnected
  <1>2. \A d \in Devices, c \in Objects : Doomed(d, c) => Doomed(d, c)'
    BY DEF Doomed, ReadsOn, Receiver, Other, Sends
  <1>3. OneOpen' /\ \A j \in Jobs : ServerOf(j)' /\ AnswerOf(j)'
    BY <1>1 DEF AloneHolds, OneOpen, ServerOf, AnswerOf, Asks, Sends
  <1>4. WireHolds'
    BY <1>1, <1>2 DEF AloneHolds, WireHolds
  <1>5. SenderHolds'
    BY <1>1, <1>2 DEF AloneHolds, SenderHolds, SendsOn
  <1> QED
    BY <1>3, <1>4, <1>5 DEF AloneHolds

LEMMA AloneReset ==
  ASSUME IInv, AloneHolds, NEW d \in Devices, Reset(d)
  PROVE  AloneHolds'
  <1>1. \A e \in Devices : closing[e] \subseteq closing'[e]
    BY DEF Reset, IInv, TypeOK
  <1> QED
    BY <1>1, AloneClosingGrows DEF Reset

LEMMA AloneCancelsExport ==
  ASSUME IInv, AloneHolds, NEW j \in Jobs, CancelsExport(j)
  PROVE  AloneHolds'
  <1>1. \A e \in Devices : closing[e] \subseteq closing'[e]
    BY DEF CancelsExport, IInv, TypeOK
  <1> QED
    BY <1>1, AloneClosingGrows DEF CancelsExport

(* A channel that is closed has nothing in it, and nobody can send on it. *)
LEMMA AloneChannelCloses ==
  ASSUME IInv, AloneHolds, NEW d \in Devices, NEW c \in Objects, ChannelCloses(d, c)
  PROVE  AloneHolds'
  <1>1. UNCHANGED <<session, asker, server, answer, half, mixed>>
    BY DEF ChannelCloses
  <1>2. \A e \in Devices, b \in Objects :
          /\ wire'[e][b] = IF e = d /\ b = c THEN <<>> ELSE wire[e][b]
          /\ b \in connected'[e] <=> b \in connected[e] /\ ~(e = d /\ b = c)
          /\ b \in closing'[e] <=> b \in closing[e] /\ ~(e = d /\ b = c)
    BY DEF ChannelCloses, Disconnects, IInv, TypeOK
  <1>3. /\ \A j \in Jobs : Open(j)' = Open(j)
        /\ \A j \in Jobs : Receiver(j)' = Receiver(j) /\ Receiver(j) \in Devices
        /\ \A j \in Jobs : \A b : AwaitsOn(j, b)' = AwaitsOn(j, b)
        /\ \A j \in Jobs : Before(j)' = Before(j) /\ InBody(j)' = InBody(j) /\ Sent(j)' = Sent(j)
        /\ \A j \in Jobs : \A b, where : SendsOn(j, b, where)' = SendsOn(j, b, where)
    BY <1>1 DEF Open, Receiver, Other, Sends, AwaitsOn, Before, InBody, Sent, SendsOn
  <1>4. \A e \in Devices, b \in Objects : ~(e = d /\ b = c) => (Doomed(e, b) => Doomed(e, b)')
    BY <1>1, <1>2 DEF Doomed, ReadsOn, Receiver, Other, Sends
  <1>5. \A b \in Objects : BothConnected(b)' => BothConnected(b) /\ b # c
    BY <1>2 DEF BothConnected
  <1>6. OneOpen' /\ \A j \in Jobs : ServerOf(j)' /\ AnswerOf(j)'
    BY <1>1, <1>3, <1>5 DEF AloneHolds, OneOpen, ServerOf, AnswerOf, Asks, Sends
  <1>7. WireHolds'
    <2> SUFFICES ASSUME NEW e \in Devices, NEW b \in Objects, wire'[e][b] # <<>>
                 PROVE  Doomed(e, b)' \/ \E j \in Jobs : Carries(j, e, b)'
      BY DEF WireHolds
    <2>1. ~(e = d /\ b = c) /\ wire'[e][b] = wire[e][b]
      BY <1>2
    <2>2. \A j \in Jobs : Carries(j, e, b) => Carries(j, e, b)'
      BY <1>3, <2>1 DEF Carries, HeadOf, BodyOf
    <2> QED
      BY <1>4, <2>1, <2>2 DEF AloneHolds, WireHolds
  <1>8. SenderHolds'
    <2> SUFFICES ASSUME NEW j \in Jobs, NEW b \in Objects,
                        SendsOn(j, b, {"posted", "head", "body"})', BothConnected(b)'
                 PROVE  Doomed(Receiver(j), b)' \/ Ready(j, b)'
      BY DEF SenderHolds
    <2>1. b # c /\ (Doomed(Receiver(j), b) \/ Ready(j, b))
      BY <1>3, <1>5 DEF AloneHolds, SenderHolds
    <2>2. Doomed(Receiver(j), b) => Doomed(Receiver(j), b)'
      BY <1>3, <1>4, <2>1 DEF Doomed
    <2>3. wire'[Receiver(j)][b] = wire[Receiver(j)][b]
      BY <1>2, <1>3, <2>1
    <2>4. Ready(j, b) => Ready(j, b)'
      BY <1>1, <1>3, <2>3 DEF Ready, HeadOf
    <2> QED
      BY <2>1, <2>2, <2>4
  <1> QED
    BY <1>1, <1>6, <1>7, <1>8 DEF AloneHolds

(* A session that begins while no job is open. *)
LEMMA AloneSetUp ==
  ASSUME IInv, AloneHolds, SetUp, alone'
  PROVE  AloneHolds'
  <1>1. \A j \in Jobs : ~Open(j)
    BY DEF SetUp
  <1>2. UNCHANGED <<closing, wire, asker, server, answer, half, mixed>>
    BY DEF SetUp
  <1>3. \A j \in Jobs : ~Open(j)'
    BY <1>1, <1>2 DEF Open
  <1>4. \A j \in Jobs :
           /\ asker'[j].at \in {"idle", "over"} \/ asker'[j].at \notin {"asked"}
           /\ server'[j].at = "none"
           /\ \A x \in Directions : half'[j][x].at \notin {"posted", "head", "body"}
    BY <1>3 DEF Open
  <1>5. OneOpen' /\ \A j \in Jobs : ServerOf(j)' /\ AnswerOf(j)'
    <2>1. \A j \in Jobs : asker'[j].at # "asked"
      BY <1>3 DEF Open
    <2> QED
      BY <1>3, <1>4, <2>1 DEF OneOpen, ServerOf, AnswerOf
  <1>6. WireHolds'
    <2> SUFFICES ASSUME NEW e \in Devices, NEW b \in Objects, wire'[e][b] # <<>>
                 PROVE  Doomed(e, b)'
      BY DEF WireHolds
    <2>1. Doomed(e, b)
      BY <1>1, <1>2, OpenMeans DEF AloneHolds, WireHolds, Carries
    <2> QED
      BY <2>1, <1>2 DEF Doomed, ReadsOn, Receiver, Other, Sends
  <1>7. SenderHolds'
    BY <1>4 DEF SenderHolds, SendsOn
  <1> QED
    BY <1>2, <1>5, <1>6, <1>7 DEF AloneHolds

-------------------------------------------------------------------------------
(* The steps of the coroutine that asks, and the grant *)

(* A job that begins while no other is open. *)
LEMMA AloneAsk ==
  ASSUME IInv, NotBegun, AloneHolds, NEW j \in Jobs, Ask(j), alone'
  PROVE  AloneHolds'
  <1>1. OnlyOne(j)
    BY DEF Ask, OpenBeside, OnlyOne
  <1>2. JobHolds(j)
    BY <1>1, JobView
  <1>3. /\ UNCHANGED <<session, connected, closing, wire, answer, half, mixed>>
        /\ asker'[j].at = "asked" /\ server'[j].at = "begun"
        /\ \A k \in Jobs \ {j} : asker'[k] = asker[k] /\ server'[k] = server[k]
    BY DEF Ask, IInv, TypeOK
  <1>4. answer[j] = 0 /\ \A x \in Directions : half[j][x].at = "none"
    BY DEF NotBegun, Ask
  <1>5. OthersStay(j)
    BY <1>3 DEF OthersStay
  <1>6. ServerOf(j)'
    BY <1>3, <1>4 DEF ServerOf
  <1>7. AnswerOf(j)'
    <2>1. \A c \in Objects : c[2] # 0
      BY ChannelBounds DEF Objects
    <2> QED
      BY <1>3, <1>4, <2>1 DEF AnswerOf
  <1>8. WireOf(j)'
    <2>1. \A d, c : ~ReadsOn(j, d, c)' /\ ~ReadsOn(j, d, c)
      BY <1>3, <1>4 DEF ReadsOn
    <2>2. \A d, c : ~Carries(j, d, c)
      BY <1>4 DEF Carries, Sent, SendsOn
    <2> QED
      BY <1>2, <1>3, <2>1, <2>2 DEF JobHolds, WireOf, DoomedBut
  <1>9. SenderOf(j)'
    BY <1>3, <1>4 DEF SenderOf, SendsOn
  <1> QED
    BY <1>1, <1>3, <1>5, <1>6, <1>7, <1>8, <1>9, FromJobView DEF JobHolds, AloneHolds

(* The channel that the answer names is the one the parts are on, or the     *)
(* latter is of an old pool.                                                 *)
LEMMA NamedOrOld ==
  ASSUME IInv, PoolsHold, NEW j \in Jobs, NEW c \in Objects, answer[j] = c[2], c[1] = session,
         c \in connected[Asks(j)], c \notin closing[Asks(j)]
  PROVE  c = Named(j)
  <1>1. Asks(j) \in Devices
    BY DeviceTypes
  <1>2. pool[Asks(j)] \in {session, session + 1} /\ ~(session < pool[Asks(j)])
    BY <1>1 DEF PoolsHold
  <1>3. session \in Nat
    BY ChannelBounds DEF IInv, TypeOK
  <1>4. pool[Asks(j)] = session
    BY <1>2, <1>3
  <1>5. c = <<c[1], c[2]>>
    BY DEF Objects
  <1> QED
    BY <1>4, <1>5 DEF Named

(* A job whose answer comes. *)
LEMMA AnsweredFacts ==
  ASSUME IInv, NotBegun, AloneHolds, NEW j \in Jobs, Answered(j)
  PROVE  /\ OnlyOne(j) /\ JobHolds(j)
         /\ server[j].at \notin {"begun", "scan", "reserve", "recheck"}
         /\ answer[j] # 0 /\ asker[j].at = "asked"
         /\ Sends(j) = Asks(j) => half[j]["send"].at = "none"
         /\ Sends(j) # Asks(j) => half[j]["receive"].at = "none" /\ Receiver(j) = Asks(j)
  <1>1. Open(j)
    BY OpenMeans DEF Answered
  <1>2. OnlyOne(j) /\ JobHolds(j)
    BY <1>1, TheOneOpen, JobView DEF AloneHolds
  <1>3. server[j].at \notin {"begun", "scan", "reserve", "recheck"}
    BY <1>2 DEF JobHolds, ServerOf, Answered
  <1>4. half[j][DirectionOn(j, Asks(j))].at = "none"
    BY DEF NotBegun, Answered
  <1>5. Sends(j) # Asks(j) => Receiver(j) = Asks(j)
    BY DEF Receiver, Other, Sends, Asks
  <1> QED
    BY <1>2, <1>3, <1>4, <1>5 DEF DirectionOn, Answered

(* The coroutine that asks ends without a half: its channel is not connected *)
(* or will be closed, if it was to receive on it.                            *)
LEMMA AloneOver ==
  ASSUME IInv, PoolsHold, NotBegun, AloneHolds, NEW j \in Jobs, Answered(j), Over(j),
         UNCHANGED <<session, connected, wire, server, half, mixed>>,
         \A d \in Devices : closing[d] \subseteq closing'[d],
         Receiver(j) = Asks(j) => Named(j) \notin connected[Asks(j)] \/ Named(j) \in closing'[Asks(j)]
  PROVE  AloneHolds'
  <1>1. /\ OnlyOne(j) /\ JobHolds(j)
        /\ server[j].at \notin {"begun", "scan", "reserve", "recheck"}
        /\ answer[j] # 0 /\ asker[j].at = "asked"
        /\ Sends(j) = Asks(j) => half[j]["send"].at = "none"
        /\ Sends(j) # Asks(j) => half[j]["receive"].at = "none" /\ Receiver(j) = Asks(j)
    BY AnsweredFacts
  <1>2. /\ asker'[j].at = "over" /\ asker'[j].kind = asker[j].kind
        /\ \A k \in Jobs \ {j} : asker'[k] = asker[k] /\ answer'[k] = answer[k]
    BY DEF Over, IInv, TypeOK
  <1>3. OthersStay(j)
    BY <1>2 DEF OthersStay
  <1>4. Sends(j)' = Sends(j) /\ Receiver(j)' = Receiver(j) /\ Receiver(j) \in Devices /\ Asks(j) \in Devices
    BY <1>2, SameSides, DeviceTypes DEF Receiver
  <1>5. ServerOf(j)' /\ AnswerOf(j)'
    BY <1>1, <1>2 DEF ServerOf, AnswerOf
  <1>6. \A d, c : ReadsOn(j, d, c)' = ReadsOn(j, d, c)
    BY <1>4 DEF ReadsOn
  (* It was the receiver, and its channel is not used any more. *)
  <1>7. ASSUME NEW c \in Objects, Sends(j) # Asks(j), AwaitsOn(j, c), c \in connected[Receiver(j)]
        PROVE  DoomedBut(j, Receiver(j), c)'
    <2>1. half[j]["receive"].at = "none" /\ answer[j] = c[2] /\ c[1] = session /\ Receiver(j) = Asks(j)
      BY <1>1, <1>7 DEF AwaitsOn
    <2>2. ~ReadsOn(j, Receiver(j), c)
      BY <2>1 DEF ReadsOn
    <2>3. c \in closing'[Receiver(j)]
      <3>1. CASE c \in closing[Receiver(j)]
        BY <3>1, <1>4
      <3>2. CASE c \notin closing[Receiver(j)]
        <4>1. c = Named(j)
          BY <3>2, <2>1, <1>7, NamedOrOld
        <4> QED
          BY <4>1, <2>1, <1>7
      <3> QED
        BY <3>1, <3>2
    <2> QED
      BY <2>2, <2>3, <1>4, <1>6 DEF DoomedBut
  <1>8. WireOf(j)'
    <2> SUFFICES ASSUME NEW d \in Devices, NEW c \in Objects, wire'[d][c] # <<>>
                 PROVE  DoomedBut(j, d, c)'
      BY DEF WireOf
    <2>1. wire[d][c] # <<>> /\ c \in connected[d]
      BY DEF PoolsHold
    <2>2. CASE DoomedBut(j, d, c)
      BY <2>2, <1>6 DEF DoomedBut
    <2>3. CASE Carries(j, d, c)
      <3>1. Sends(j) # Asks(j) /\ Receiver(j) = d /\ AwaitsOn(j, c)
        BY <2>3, <1>1 DEF Carries, Sent, SendsOn
      <3> QED
        BY <3>1, <2>1, <1>4, <1>7 DEF DoomedBut
    <2> QED
      BY <2>1, <2>2, <2>3, <1>1 DEF JobHolds, WireOf
  <1>9. SenderOf(j)'
    <2> SUFFICES ASSUME NEW c \in Objects, SendsOn(j, c, {"posted", "head", "body"})', BothConnected(c)'
                 PROVE  DoomedBut(j, Receiver(j), c)'
      BY <1>4 DEF SenderOf, DoomedBut
    <2>1. SendsOn(j, c, {"posted", "head", "body"}) /\ BothConnected(c) /\ Sends(j) # Asks(j)
      BY <1>1 DEF SendsOn, BothConnected
    <2>2. CASE DoomedBut(j, Receiver(j), c)
      BY <2>2, <1>4, <1>6 DEF DoomedBut
    <2>3. CASE Ready(j, c)
      BY <2>1, <2>3, <1>4, <1>7 DEF Ready, BothConnected
    <2> QED
      BY <2>1, <2>2, <2>3, <1>1 DEF JobHolds, SenderOf
  <1> QED
    BY <1>1, <1>3, <1>5, <1>8, <1>9, FromJobView DEF JobHolds, AloneHolds

LEMMA AloneFindsItClosed ==
  ASSUME IInv, PoolsHold, NotBegun, AloneHolds, NEW j \in Jobs, FindsItClosed(j)
  PROVE  AloneHolds'
  BY AloneOver DEF FindsItClosed

LEMMA AloneRefusesExport ==
  ASSUME IInv, PoolsHold, NotBegun, AloneHolds, NEW j \in Jobs, RefusesExport(j)
  PROVE  AloneHolds'
  <1>1. Asks(j) \in Devices
    BY DeviceTypes
  <1>2. /\ \A d \in Devices : closing[d] \subseteq closing'[d]
        /\ Named(j) \in connected[Asks(j)] => Named(j) \in closing'[Asks(j)]
    BY <1>1 DEF RefusesExport, IInv, TypeOK
  <1> QED
    BY <1>2, AloneOver DEF RefusesExport

(* A job that is alone finds no other in its channel. *)
LEMMA AloneFindsItFree ==
  ASSUME IInv, NotBegun, AloneHolds, NEW j \in Jobs, FindsItInUse(j)
  PROVE  FALSE
  <1>1. PICK k \in Jobs : At(k, "receive") = Asks(j) /\ half[k]["receive"].at \in Running
    BY DEF FindsItInUse, IsUsed
  <1>2. OnlyOne(j)
    BY AnsweredFacts DEF FindsItInUse
  <1>3. k = j
    BY <1>1, <1>2, OpenMeans DEF OnlyOne
  <1>4. asker[j].kind = "fetch"
    BY DEF FindsItInUse
  <1>5. Sends(j) # Asks(j)
    BY <1>4 DEF Sends, Asks
  <1>6. half[j]["receive"].at = "none"
    BY <1>5, AnsweredFacts DEF FindsItInUse
  <1> QED
    BY <1>1, <1>3, <1>6

LEMMA AloneAskerEnds ==
  ASSUME IInv, AloneHolds, NEW j \in Jobs, AskerEnds(j)
  PROVE  AloneHolds'
  <1>1. /\ asker[j].at = "moving" /\ asker'[j].at = "over" /\ asker'[j].kind = asker[j].kind
        /\ \A k \in Jobs \ {j} : asker'[k] = asker[k]
        /\ UNCHANGED <<session, connected, closing, wire, server, answer, half, mixed>>
    BY DEF AskerEnds, IInv, TypeOK
  <1>2. OnlyOne(j) /\ JobHolds(j)
    BY <1>1, OpenMeans, TheOneOpen, JobView DEF AloneHolds
  <1>3. OthersStay(j)
    BY <1>1 DEF OthersStay
  <1>4. Sends(j)' = Sends(j) /\ Receiver(j)' = Receiver(j)
    BY <1>1, SameSides
  <1>5. /\ \A c : AwaitsOn(j, c)' = AwaitsOn(j, c)
        /\ \A d, c : ReadsOn(j, d, c)' = ReadsOn(j, d, c)
    BY <1>1, <1>4 DEF AwaitsOn, ReadsOn
  <1>6. ServerOf(j)' /\ AnswerOf(j)'
    BY <1>1, <1>2 DEF JobHolds, ServerOf, AnswerOf
  <1>7. WireOf(j)'
    BY <1>1, <1>2, <1>4, <1>5 DEF JobHolds, WireOf, DoomedBut, Carries, Before, InBody, Sent, SendsOn
  <1>8. SenderOf(j)'
    BY <1>1, <1>2, <1>4, <1>5 DEF JobHolds, SenderOf, DoomedBut, Ready, Before, InBody, SendsOn, BothConnected
  <1> QED
    BY <1>1, <1>2, <1>3, <1>6, <1>7, <1>8, FromJobView DEF JobHolds, AloneHolds

(* The answer names the channel: the half that is started is on it. *)
LEMMA AloneStartsOwnHalf ==
  ASSUME IInv, PoolsHold, NotBegun, AloneHolds, NEW j \in Jobs, StartsOwnHalf(j)
  PROVE  AloneHolds'
  <1>1. /\ OnlyOne(j) /\ JobHolds(j)
        /\ server[j].at \notin {"begun", "scan", "reserve", "recheck"}
        /\ answer[j] # 0 /\ asker[j].at = "asked"
        /\ Sends(j) = Asks(j) => half[j]["send"].at = "none"
        /\ Sends(j) # Asks(j) => half[j]["receive"].at = "none" /\ Receiver(j) = Asks(j)
    BY AnsweredFacts DEF StartsOwnHalf
  <1> DEFINE x == DirectionOn(j, Asks(j))
  <1>2. /\ x \in Directions /\ half'[j][x] = [at |-> "posted", on |-> Named(j)]
        /\ \A y \in Directions \ {x} : half'[j][y] = half[j][y]
        /\ \A k \in Jobs \ {j} : half'[k] = half[k]
    BY SetsHalfFacts DEF StartsOwnHalf, IInv, DirectionOn
  <1>3. /\ asker'[j].at = "moving" /\ asker'[j].kind = asker[j].kind
        /\ \A k \in Jobs \ {j} : asker'[k] = asker[k] /\ answer'[k] = answer[k]
        /\ UNCHANGED <<session, connected, closing, wire, server, mixed>>
    BY DEF StartsOwnHalf, IInv, TypeOK
  <1>4. OthersStay(j)
    BY <1>2, <1>3 DEF OthersStay
  <1>5. /\ Sends(j)' = Sends(j) /\ Receiver(j)' = Receiver(j)
        /\ Receiver(j) \in Devices /\ Asks(j) \in Devices /\ Named(j) \in Objects
    BY <1>3, SameSides, DeviceTypes, NamedObject DEF Receiver, IInv, StartsOwnHalf
  <1>6. ServerOf(j)' /\ AnswerOf(j)'
    BY <1>1, <1>3 DEF ServerOf, AnswerOf
  <1>7. CASE Sends(j) = Asks(j)
    <2>1. /\ half'[j]["send"] = [at |-> "posted", on |-> Named(j)] /\ half'[j]["receive"] = half[j]["receive"]
          /\ half[j]["send"].at = "none"
      BY <1>1, <1>2, <1>7 DEF DirectionOn
    <2>2. \A d, c : ReadsOn(j, d, c)' = ReadsOn(j, d, c)
      BY <2>1, <1>5 DEF ReadsOn
    <2>3. \A d, c : ~Carries(j, d, c)
      BY <2>1 DEF Carries, Sent, SendsOn
    <2>4. WireOf(j)'
      BY <1>1, <1>3, <2>2, <2>3 DEF JobHolds, WireOf, DoomedBut
    <2>5. SenderOf(j)'
      <3> SUFFICES ASSUME NEW c \in Objects, SendsOn(j, c, {"posted", "head", "body"})', BothConnected(c)'
                   PROVE  DoomedBut(j, Receiver(j), c)' \/ Ready(j, c)'
        BY DEF SenderOf
      <3>1. c = Named(j) /\ BothConnected(c)
        BY <1>3, <2>1 DEF SendsOn, BothConnected
      <3>2. pool[Asks(j)] = session
        <4>1. c[1] <= session /\ c[1] = pool[Asks(j)]
          BY <3>1, <1>5 DEF PoolsHold, BothConnected, Named
        <4>2. session \in Nat /\ pool[Asks(j)] \in {session, session + 1}
          BY <1>5, ChannelBounds DEF PoolsHold, IInv, TypeOK
        <4> QED
          BY <4>1, <4>2
      <3>3. c[1] = session /\ answer[j] = c[2]
        BY <3>1, <3>2 DEF Named
      <3>4. half[j]["receive"].at \in {"posted", "head"} /\ half[j]["receive"].on = c
        BY <3>1, <3>3, <1>1, <1>7 DEF JobHolds, AnswerOf
      <3>5. AwaitsOn(j, c)' /\ Before(j)' /\ half'[j]["send"].at = "posted"
        BY <3>4, <2>1 DEF AwaitsOn, Before
      <3>6. CASE wire[Receiver(j)][c] = <<>>
        BY <3>5, <3>6, <1>3, <1>5 DEF Ready
      <3>7. CASE wire[Receiver(j)][c] # <<>>
        <4>1. DoomedBut(j, Receiver(j), c)
          BY <3>7, <2>3, <1>1, <1>5 DEF JobHolds, WireOf
        <4> QED
          BY <4>1, <2>2, <1>3, <1>5 DEF DoomedBut
      <3> QED
        BY <3>6, <3>7
    <2> QED
      BY <1>1, <1>3, <1>4, <1>6, <2>4, <2>5, FromJobView DEF JobHolds, AloneHolds
  <1>8. CASE Sends(j) # Asks(j)
    <2>1. /\ half'[j]["receive"] = [at |-> "posted", on |-> Named(j)] /\ half'[j]["send"] = half[j]["send"]
          /\ half[j]["receive"].at = "none" /\ Receiver(j) = Asks(j)
      BY <1>1, <1>2, <1>8 DEF DirectionOn
    <2>2. \A d, c : ~ReadsOn(j, d, c)' /\ ~ReadsOn(j, d, c)
      BY <2>1 DEF ReadsOn
    <2>3. ASSUME NEW c \in Objects, AwaitsOn(j, c), c \in connected[Receiver(j)],
                 ~DoomedBut(j, Receiver(j), c)'
          PROVE  AwaitsOn(j, c)'
      <3>1. answer[j] = c[2] /\ c[1] = session
        BY <2>1, <2>3, <1>1 DEF AwaitsOn
      <3>2. c \notin closing[Receiver(j)]
        BY <2>2, <2>3, <1>3, <1>5 DEF DoomedBut
      <3>3. c = Named(j)
        BY <3>1, <3>2, <2>1, <2>3, NamedOrOld
      <3> QED
        BY <3>3, <2>1 DEF AwaitsOn
    <2>4. Before(j) /\ Before(j)' /\ ~InBody(j) /\ Sent(j)' = Sent(j)
          /\ \A c, where : SendsOn(j, c, where)' = SendsOn(j, c, where)
      BY <2>1 DEF Before, InBody, Sent, SendsOn
    <2>5. WireOf(j)'
      <3> SUFFICES ASSUME NEW d \in Devices, NEW c \in Objects, wire'[d][c] # <<>>, ~DoomedBut(j, d, c)'
                   PROVE  Carries(j, d, c)'
        BY DEF WireOf
      <3>1. wire'[d][c] = wire[d][c] /\ c \in connected[d]
        BY <1>3 DEF PoolsHold
      <3>2. ~DoomedBut(j, d, c)
        BY <2>2, <1>3 DEF DoomedBut
      <3>3. Carries(j, d, c)
        BY <3>1, <3>2, <1>1 DEF JobHolds, WireOf
      <3>4. AwaitsOn(j, c)'
        BY <3>1, <3>3, <1>5, <2>3 DEF Carries, DoomedBut
      <3> QED
        BY <3>1, <3>3, <3>4, <2>4, <1>5 DEF Carries
    <2>6. SenderOf(j)'
      <3> SUFFICES ASSUME NEW c \in Objects, SendsOn(j, c, {"posted", "head", "body"})', BothConnected(c)',
                          ~DoomedBut(j, Receiver(j), c)'
                   PROVE  Ready(j, c)'
        BY DEF SenderOf
      <3>1. SendsOn(j, c, {"posted", "head", "body"}) /\ BothConnected(c) /\ c \in connected[Receiver(j)]
        BY <1>3, <1>5, <2>4 DEF BothConnected
      <3>2. ~DoomedBut(j, Receiver(j), c)
        BY <2>2, <1>3, <1>5 DEF DoomedBut
      <3>3. Ready(j, c)
        BY <3>1, <3>2, <1>1 DEF JobHolds, SenderOf
      <3>4. AwaitsOn(j, c)'
        BY <3>1, <3>3, <2>3, <1>5 DEF Ready
      <3> QED
        BY <3>3, <3>4, <2>1, <2>4, <1>3, <1>5 DEF Ready
    <2> QED
      BY <1>1, <1>3, <1>4, <1>6, <2>5, <2>6, FromJobView DEF JobHolds, AloneHolds
  <1> QED
    BY <1>7, <1>8

(* The half that is started is on the channel the answer will name. *)
LEMMA AloneGrants ==
  ASSUME IInv, AloneHolds, NEW j \in Jobs, Grants(j)
  PROVE  AloneHolds'
  <1> DEFINE x == DirectionOn(j, Serves(j))
             on == server[j].on
  <1>1. OnlyOne(j) /\ JobHolds(j)
    BY OpenMeans, TheOneOpen, JobView DEF Grants, AloneHolds
  <1>2. /\ asker[j].at = "asked" /\ answer[j] = 0 /\ on[1] = session /\ on \in Objects
        /\ \A y \in Directions : half[j][y].at = "none"
    BY <1>1 DEF JobHolds, ServerOf, Grants, IInv, Placed
  <1>3. /\ x \in Directions /\ half'[j][x] = [at |-> "posted", on |-> on]
        /\ \A y \in Directions \ {x} : half'[j][y] = half[j][y]
        /\ \A k \in Jobs \ {j} : half'[k] = half[k]
    BY SetsHalfFacts DEF Grants, IInv, DirectionOn
  <1>4. /\ server'[j].at = "serve" /\ answer'[j] \in {0, on[2]}
        /\ \A k \in Jobs \ {j} : server'[k] = server[k] /\ answer'[k] = answer[k]
        /\ UNCHANGED <<session, connected, closing, wire, asker, mixed>>
    BY DEF Grants, IInv, TypeOK
  <1> HIDE DEF on
  <1>5. OthersStay(j)
    BY <1>3, <1>4 DEF OthersStay
  <1>6. /\ Sends(j)' = Sends(j) /\ Receiver(j)' = Receiver(j) /\ Asks(j)' = Asks(j) /\ Receiver(j) \in Devices
        /\ Sends(j) = Serves(j) \/ Sends(j) = Asks(j)
        /\ Serves(j) # Asks(j)
    BY <1>4, SameSides DEF Receiver, Serves, Asks, Sends, Other
  <1>7. ServerOf(j)'
    BY <1>4 DEF ServerOf
  <1>8. half'[j]["receive"].at \in {"none", "posted"}
    BY <1>2, <1>3
  <1>9. \A d, c : ~ReadsOn(j, d, c)' /\ ~ReadsOn(j, d, c) /\ ~Carries(j, d, c)
    BY <1>2, <1>8 DEF ReadsOn, Carries, Sent, SendsOn
  <1>10. WireOf(j)'
    BY <1>1, <1>4, <1>9 DEF JobHolds, WireOf, DoomedBut
  <1>11. CASE Sends(j) = Serves(j)
    <2>1. half'[j]["send"] = [at |-> "posted", on |-> on] /\ half'[j]["receive"] = half[j]["receive"]
      BY <1>3, <1>11 DEF DirectionOn
    <2>2. AnswerOf(j)'
      BY <1>6, <1>11 DEF AnswerOf
    <2>3. SenderOf(j)'
      <3> SUFFICES ASSUME NEW c \in Objects, SendsOn(j, c, {"posted", "head", "body"})'
                   PROVE  DoomedBut(j, Receiver(j), c)' \/ Ready(j, c)'
        BY DEF SenderOf
      <3>1. c = on
        BY <2>1 DEF SendsOn
      <3>2. AwaitsOn(j, c)' /\ Before(j)' /\ half'[j]["send"].at = "posted"
        BY <3>1, <2>1, <1>2, <1>4 DEF AwaitsOn, Before
      <3>3. CASE wire[Receiver(j)][c] = <<>>
        BY <3>2, <3>3, <1>4, <1>6 DEF Ready
      <3>4. CASE wire[Receiver(j)][c] # <<>>
        BY <3>4, <1>1, <1>4, <1>6, <1>9 DEF JobHolds, WireOf, DoomedBut
      <3> QED
        BY <3>3, <3>4
    <2> QED
      BY <1>1, <1>4, <1>5, <1>7, <1>10, <2>2, <2>3, FromJobView DEF JobHolds, AloneHolds
  <1>12. CASE Sends(j) = Asks(j)
    <2>1. half'[j]["receive"] = [at |-> "posted", on |-> on] /\ half'[j]["send"] = half[j]["send"]
      BY <1>3, <1>6, <1>12 DEF DirectionOn
    <2>2. AnswerOf(j)'
      <3> SUFFICES ASSUME NEW c \in Objects, answer'[j] = c[2], c[1] = session
                   PROVE  c = on
        BY <2>1, <1>4 DEF AnswerOf
      <3>1. c[2] # 0 /\ c = <<c[1], c[2]>> /\ on = <<on[1], on[2]>>
        BY <1>2, ChannelBounds DEF Objects
      <3> QED
        BY <3>1, <1>2, <1>4
    <2>3. SenderOf(j)'
      BY <2>1, <1>2 DEF SenderOf, SendsOn
    <2> QED
      BY <1>1, <1>4, <1>5, <1>7, <1>10, <2>2, <2>3, FromJobView DEF JobHolds, AloneHolds
  <1> QED
    BY <1>6, <1>11, <1>12

-------------------------------------------------------------------------------
(* The steps of the halves *)

(* Whoever's half is at work is the only one. *)
LEMMA AloneHalf ==
  ASSUME IInv, AloneHolds, NEW j \in Jobs, Kept, \A k \in Jobs \ {j} : half'[k] = half[k],
         NEW x \in Directions, half[j][x].at \in {"posted", "head", "body"}
  PROVE  /\ OnlyOne(j) /\ JobHolds(j) /\ OthersStay(j) /\ ServerOf(j)'
         /\ Sends(j)' = Sends(j) /\ Asks(j)' = Asks(j) /\ Receiver(j)' = Receiver(j)
         /\ Receiver(j) \in Devices /\ Sends(j) \in Devices /\ Receiver(j) # Sends(j)
  <1>1. OnlyOne(j) /\ JobHolds(j)
    BY OpenMeans, TheOneOpen, JobView DEF AloneHolds
  <1>2. UNCHANGED <<asker, server, answer>>
    BY DEF Kept
  <1>3. OthersStay(j)
    BY <1>2 DEF OthersStay
  <1>4. server[j].at \notin {"begun", "scan", "reserve", "recheck"}
    BY <1>1 DEF JobHolds, ServerOf
  <1>5. ServerOf(j)'
    BY <1>2, <1>4 DEF ServerOf
  <1> QED
    BY <1>1, <1>2, <1>3, <1>5, SameSides DEF Receiver, Sends, Other

(* The sender is over: what it has sent is still on its way. *)
LEMMA SenderStops ==
  ASSUME IInv, AloneHolds, NEW j \in Jobs, Kept, UNCHANGED mixed,
         half[j]["send"].at \in {"posted", "head", "body"},
         half'[j]["send"] = HalfOver, half'[j]["receive"] = half[j]["receive"],
         \A k \in Jobs \ {j} : half'[k] = half[k],
         \A d \in Devices : connected'[d] \subseteq connected[d],
         \A d \in Devices, c \in Objects : wire'[d][c] \in {<<>>, wire[d][c]}
  PROVE  AloneHolds'
  <1>1. /\ OnlyOne(j) /\ JobHolds(j) /\ OthersStay(j) /\ ServerOf(j)'
        /\ Sends(j)' = Sends(j) /\ Asks(j)' = Asks(j) /\ Receiver(j)' = Receiver(j)
    BY AloneHalf
  <1>2. UNCHANGED <<session, closing, asker, answer>>
    BY DEF Kept
  <1>3. /\ \A c : AwaitsOn(j, c)' = AwaitsOn(j, c)
        /\ \A d, c : ReadsOn(j, d, c)' = ReadsOn(j, d, c)
        /\ Before(j)' = Before(j) /\ InBody(j)' = InBody(j) /\ Sent(j)'
    BY <1>1, <1>2 DEF AwaitsOn, ReadsOn, Before, InBody, Sent
  <1>4. \A c : BothConnected(c)' => BothConnected(c)
    BY DEF BothConnected
  <1>5. AnswerOf(j)'
    BY <1>1, <1>2, <1>4 DEF JobHolds, AnswerOf
  <1>6. WireOf(j)'
    <2> SUFFICES ASSUME NEW d \in Devices, NEW c \in Objects, wire'[d][c] # <<>>
                 PROVE  DoomedBut(j, d, c)' \/ Carries(j, d, c)'
      BY DEF WireOf
    <2>1. wire'[d][c] = wire[d][c]
      OBVIOUS
    <2>2. DoomedBut(j, d, c) \/ Carries(j, d, c)
      BY <1>1, <2>1 DEF JobHolds, WireOf
    <2>3. DoomedBut(j, d, c) => DoomedBut(j, d, c)'
      BY <1>2, <1>3 DEF DoomedBut
    <2>4. Carries(j, d, c) => Carries(j, d, c)'
      BY <1>1, <1>3, <2>1 DEF Carries
    <2> QED
      BY <2>2, <2>3, <2>4
  <1>7. SenderOf(j)'
    BY DEF SenderOf, SendsOn
  <1> QED
    BY <1>1, <1>5, <1>6, <1>7, FromJobView DEF JobHolds, AloneHolds

(* The receiver is over: its channel is empty, and no more comes. *)
LEMMA ReceiverStops ==
  ASSUME IInv, AloneHolds, NEW j \in Jobs, Kept, UNCHANGED mixed,
         NEW c, half[j]["receive"].at \in {"posted", "head", "body"}, half[j]["receive"].on = c,
         half'[j]["receive"] = HalfOver, half'[j]["send"] = half[j]["send"],
         \A k \in Jobs \ {j} : half'[k] = half[k],
         \A d \in Devices : connected'[d] \subseteq connected[d],
         \A d \in Devices, b \in Objects : wire'[d][b] \in {<<>>, wire[d][b]},
         wire'[Receiver(j)][c] = <<>>, ~BothConnected(c)'
  PROVE  AloneHolds'
  <1>1. /\ OnlyOne(j) /\ JobHolds(j) /\ OthersStay(j) /\ ServerOf(j)'
        /\ Sends(j)' = Sends(j) /\ Asks(j)' = Asks(j) /\ Receiver(j)' = Receiver(j)
    BY AloneHalf
  <1>2. UNCHANGED <<session, closing, asker, answer>>
    BY DEF Kept
  <1>3. \A b : AwaitsOn(j, b) => b = c
    BY DEF AwaitsOn
  <1>4. \A d, b : ~ReadsOn(j, d, b)'
    BY DEF ReadsOn
  <1>5. \A b : BothConnected(b)' => BothConnected(b) /\ b # c
    BY DEF BothConnected
  <1>6. AnswerOf(j)'
    BY <1>1, <1>2, <1>5 DEF JobHolds, AnswerOf
  <1>7. WireOf(j)'
    <2> SUFFICES ASSUME NEW d \in Devices, NEW b \in Objects, wire'[d][b] # <<>>
                 PROVE  DoomedBut(j, d, b)'
      BY DEF WireOf
    <2>1. wire'[d][b] = wire[d][b] /\ ~(d = Receiver(j) /\ b = c)
      OBVIOUS
    <2>2. DoomedBut(j, d, b) \/ Carries(j, d, b)
      BY <1>1, <2>1 DEF JobHolds, WireOf
    <2>3. ~Carries(j, d, b)
      BY <2>1, <1>3 DEF Carries
    <2> QED
      BY <2>2, <2>3, <1>2, <1>4 DEF DoomedBut
  <1>8. SenderOf(j)'
    <2> SUFFICES ASSUME NEW b \in Objects, SendsOn(j, b, {"posted", "head", "body"})', BothConnected(b)'
                 PROVE  DoomedBut(j, Receiver(j), b)'
      BY <1>1 DEF SenderOf, DoomedBut
    <2>1. DoomedBut(j, Receiver(j), b) \/ Ready(j, b)
      BY <1>1, <1>5 DEF JobHolds, SenderOf, SendsOn
    <2>2. ~Ready(j, b)
      BY <1>3, <1>5 DEF Ready
    <2> QED
      BY <2>1, <2>2, <1>1, <1>2, <1>4 DEF DoomedBut
  <1> QED
    BY <1>1, <1>6, <1>7, <1>8, FromJobView DEF JobHolds, AloneHolds

(* What a half that fails leaves of the channels. *)
LEMMA ChannelsAfter ==
  ASSUME IInv, NEW j \in Jobs, NEW x \in Directions, half[j][x].at \in Running,
         DisconnectsOwn(j, x) \/ LeavesOpen
  PROVE  /\ \A d \in Devices : connected'[d] \subseteq connected[d]
         /\ \A d \in Devices, c \in Objects : wire'[d][c] \in {<<>>, wire[d][c]}
         /\ DisconnectsOwn(j, x) => /\ half[j][x].on \notin connected'[At(j, x)]
                                    /\ wire'[At(j, x)][half[j][x].on] = <<>>
  <1>1. half[j][x].on \in Objects /\ At(j, x) \in Devices
    BY DeviceTypes DEF IInv, Placed
  <1>2. CASE LeavesOpen /\ ~DisconnectsOwn(j, x)
    BY <1>2 DEF LeavesOpen
  <1>3. CASE DisconnectsOwn(j, x)
    <2> DEFINE c == half[j][x].on
               d == At(j, x)
    <2>1. connected' = [connected EXCEPT ![d] = connected[d] \ {c}] /\ wire' = [wire EXCEPT ![d][c] = <<>>]
      BY <1>3 DEF DisconnectsOwn, Disconnects
    <2>2. c \in Objects /\ d \in Devices
      BY <1>1
    <2> HIDE DEF c, d
    <2>3. /\ \A e \in Devices : connected'[e] \subseteq connected[e]
          /\ \A e \in Devices, b \in Objects : wire'[e][b] \in {<<>>, wire[e][b]}
          /\ c \notin connected'[d] /\ wire'[d][c] = <<>>
      BY <2>1, <2>2 DEF IInv, TypeOK
    <2> QED
      BY <2>3 DEF c, d
  <1> QED
    BY <1>2, <1>3

LEMMA AloneSenderFails ==
  ASSUME IInv, AloneHolds, NEW j \in Jobs, WriteFails(j) \/ SourceFails(j)
  PROVE  AloneHolds'
  <1>1. /\ half[j]["send"].at \in Running /\ Fails(j, "send")
        /\ DisconnectsOwn(j, "send") \/ LeavesOpen
    BY DEF WriteFails, SourceFails
  <1>2. /\ half'[j]["send"] = HalfOver /\ half'[j]["receive"] = half[j]["receive"]
        /\ \A k \in Jobs \ {j} : half'[k] = half[k]
    BY <1>1, EndsHalfFacts DEF Fails, IInv
  <1>3. /\ \A d \in Devices : connected'[d] \subseteq connected[d]
        /\ \A d \in Devices, c \in Objects : wire'[d][c] \in {<<>>, wire[d][c]}
    BY <1>1, ChannelsAfter
  <1> QED
    BY <1>1, <1>2, <1>3, SenderStops DEF Fails

LEMMA AloneReceiverFails ==
  ASSUME IInv, PoolsHold, AloneHolds, NEW j \in Jobs, SinkFails(j) \/ ReadFails(j)
  PROVE  AloneHolds'
  <1> PICK c : c = half[j]["receive"].on
    OBVIOUS
  <1>1. /\ half[j]["receive"].at \in Running /\ Fails(j, "receive")
        /\ DisconnectsOwn(j, "receive") \/ LeavesOpen
    BY DEF SinkFails, ReadFails
  <1>2. /\ half'[j]["receive"] = HalfOver /\ half'[j]["send"] = half[j]["send"]
        /\ \A k \in Jobs \ {j} : half'[k] = half[k]
    BY <1>1, EndsHalfFacts DEF Fails, IInv
  <1>3. /\ \A d \in Devices : connected'[d] \subseteq connected[d]
        /\ \A d \in Devices, b \in Objects : wire'[d][b] \in {<<>>, wire[d][b]}
        /\ DisconnectsOwn(j, "receive") => c \notin connected'[At(j, "receive")] /\ wire'[At(j, "receive")][c] = <<>>
    BY <1>1, ChannelsAfter
  <1>4. At(j, "receive") = Receiver(j) /\ Receiver(j) \in Devices /\ Sends(j) \in Devices /\ c \in Objects
        /\ Other(Receiver(j)) = Sends(j)
    BY <1>1, DeviceTypes DEF At, Receiver, Other, Sends, IInv, Placed
  <1>5. wire'[Receiver(j)][c] = <<>> /\ ~BothConnected(c)'
    <2>1. CASE DisconnectsOwn(j, "receive")
      BY <2>1, <1>3, <1>4 DEF BothConnected
    <2>2. CASE ReadFails(j) /\ ~DisconnectsOwn(j, "receive")
      <3>1. \/ c \notin connected[Receiver(j)]
            \/ c \notin connected[Other(Receiver(j))] /\ wire[Receiver(j)][c] = <<>>
        BY <2>2 DEF ReadFails, Receiver
      <3>2. ~BothConnected(c)
        BY <3>1, <1>4 DEF BothConnected
      <3>3. wire[Receiver(j)][c] = <<>>
        BY <3>1, <1>4 DEF PoolsHold
      <3> QED
        BY <3>2, <3>3, <1>3, <1>4 DEF BothConnected
    <2> QED
      BY <2>1, <2>2 DEF SinkFails
  <1> QED
    BY <1>1, <1>2, <1>3, <1>5, ReceiverStops DEF Fails

(* A half that starts runs on the channel it was posted to. *)
LEMMA AloneSenderStarts ==
  ASSUME IInv, AloneHolds, NEW j \in Jobs, Starts(j, "send")
  PROVE  AloneHolds'
  <1> PICK c : c = half[j]["send"].on
    OBVIOUS
  <1>1. /\ half[j]["send"].at = "posted" /\ UNCHANGED <<connected, wire, mixed>> /\ Kept
        /\ SetsHalf(j, "send", "head", c) \/ EndsHalf(j, "send")
    BY DEF Starts
  <1>2. CASE EndsHalf(j, "send")
    <2>1. /\ half'[j]["send"] = HalfOver /\ half'[j]["receive"] = half[j]["receive"]
          /\ \A k \in Jobs \ {j} : half'[k] = half[k]
      BY <1>2, EndsHalfFacts DEF IInv
    <2> QED
      BY <1>1, <2>1, SenderStops
  <1>3. CASE SetsHalf(j, "send", "head", c)
    <2>1. /\ half'[j]["send"] = [at |-> "head", on |-> c] /\ half'[j]["receive"] = half[j]["receive"]
          /\ \A k \in Jobs \ {j} : half'[k] = half[k]
      BY <1>3, SetsHalfFacts DEF IInv
    <2>2. /\ OnlyOne(j) /\ JobHolds(j) /\ OthersStay(j) /\ ServerOf(j)'
          /\ Sends(j)' = Sends(j) /\ Asks(j)' = Asks(j) /\ Receiver(j)' = Receiver(j)
      BY <1>1, <2>1, AloneHalf
    <2>3. UNCHANGED <<session, closing, connected, wire, asker, answer, mixed>>
      BY <1>1 DEF Kept
    <2>4. /\ \A b : AwaitsOn(j, b)' = AwaitsOn(j, b)
          /\ \A d, b : ReadsOn(j, d, b)' = ReadsOn(j, d, b)
          /\ Before(j)' = Before(j)
          /\ \A b : SendsOn(j, b, {"posted", "head", "body"})' = SendsOn(j, b, {"posted", "head", "body"})
          /\ \A d, b : ~Carries(j, d, b)
      BY <1>1, <2>1, <2>2, <2>3 DEF AwaitsOn, ReadsOn, Before, InBody, Sent, SendsOn, Carries
    <2>5. AnswerOf(j)' /\ WireOf(j)'
      BY <2>1, <2>2, <2>3, <2>4 DEF JobHolds, AnswerOf, WireOf, DoomedBut, BothConnected
    <2>6. \A b : Ready(j, b) => Ready(j, b)'
      BY <1>1, <2>1, <2>2, <2>3, <2>4 DEF Ready
    <2>7. SenderOf(j)'
      BY <2>2, <2>3, <2>4, <2>6 DEF JobHolds, SenderOf, DoomedBut, BothConnected
    <2> QED
      BY <2>2, <2>3, <2>5, <2>7, FromJobView DEF JobHolds, AloneHolds
  <1> QED
    BY <1>1, <1>2, <1>3

LEMMA AloneReceiverStarts ==
  ASSUME IInv, PoolsHold, AloneHolds, NEW j \in Jobs, Starts(j, "receive")
  PROVE  AloneHolds'
  <1> PICK c : c = half[j]["receive"].on
    OBVIOUS
  <1>1. /\ half[j]["receive"].at = "posted" /\ UNCHANGED <<connected, wire, mixed>> /\ Kept
        /\ c \notin closing[Receiver(j)] /\ c \in Objects
        /\ \/ SetsHalf(j, "receive", "head", c)
           \/ EndsHalf(j, "receive") /\ (c \notin connected[Receiver(j)] \/ IsUsed(Receiver(j), c, "receive"))
    BY DEF Starts, At, Receiver, IInv, Placed
  <1>2. /\ OnlyOne(j) /\ Receiver(j) \in Devices
    BY OpenMeans, TheOneOpen, DeviceTypes, <1>1 DEF AloneHolds, Receiver
  <1>3. CASE EndsHalf(j, "receive") /\ (c \notin connected[Receiver(j)] \/ IsUsed(Receiver(j), c, "receive"))
    <2>1. /\ half'[j]["receive"] = HalfOver /\ half'[j]["send"] = half[j]["send"]
          /\ \A k \in Jobs \ {j} : half'[k] = half[k]
      BY <1>3, EndsHalfFacts DEF IInv
    <2>2. ~IsUsed(Receiver(j), c, "receive")
      BY <1>1, <1>2, OpenMeans DEF IsUsed, OnlyOne
    <2>3. wire[Receiver(j)][c] = <<>> /\ ~BothConnected(c)
      BY <1>1, <1>2, <1>3, <2>2 DEF PoolsHold, BothConnected
    <2>4. wire'[Receiver(j)][c] = <<>> /\ ~BothConnected(c)'
      BY <1>1, <2>3 DEF BothConnected
    <2>5. /\ \A d \in Devices : connected'[d] \subseteq connected[d]
          /\ \A d \in Devices, b \in Objects : wire'[d][b] \in {<<>>, wire[d][b]}
      BY <1>1
    <2> QED
      BY <1>1, <2>1, <2>4, <2>5, ReceiverStops
  <1>4. CASE SetsHalf(j, "receive", "head", c)
    <2>1. /\ half'[j]["receive"] = [at |-> "head", on |-> c] /\ half'[j]["send"] = half[j]["send"]
          /\ \A k \in Jobs \ {j} : half'[k] = half[k]
      BY <1>4, SetsHalfFacts DEF IInv
    <2>2. /\ OnlyOne(j) /\ JobHolds(j) /\ OthersStay(j) /\ ServerOf(j)'
          /\ Sends(j)' = Sends(j) /\ Asks(j)' = Asks(j) /\ Receiver(j)' = Receiver(j)
      BY <1>1, <2>1, AloneHalf
    <2>3. UNCHANGED <<session, closing, connected, wire, asker, answer, mixed>>
      BY <1>1 DEF Kept
    <2>4. /\ \A b : AwaitsOn(j, b)' = AwaitsOn(j, b)
          /\ Before(j) /\ Before(j)' /\ ~InBody(j) /\ Sent(j)' = Sent(j)
          /\ \A b, where : SendsOn(j, b, where)' = SendsOn(j, b, where)
      BY <1>1, <2>1, <2>3 DEF AwaitsOn, Before, InBody, Sent, SendsOn
    <2>5. \A d, b : DoomedBut(j, d, b) => DoomedBut(j, d, b)'
      BY <1>1, <2>1, <2>2, <2>3 DEF DoomedBut, ReadsOn
    <2>6. AnswerOf(j)'
      BY <1>1, <2>1, <2>2, <2>3 DEF JobHolds, AnswerOf, BothConnected
    <2>7. \A d, b : Carries(j, d, b) => Carries(j, d, b)'
      BY <2>2, <2>3, <2>4 DEF Carries
    <2>8. \A b : Ready(j, b) => Ready(j, b)'
      BY <2>1, <2>2, <2>3, <2>4 DEF Ready
    <2>9. WireOf(j)'
      BY <2>2, <2>3, <2>5, <2>7 DEF JobHolds, WireOf
    <2>10. SenderOf(j)'
      <3> SUFFICES ASSUME NEW b \in Objects, SendsOn(j, b, {"posted", "head", "body"})', BothConnected(b)'
                   PROVE  DoomedBut(j, Receiver(j), b)' \/ Ready(j, b)'
        BY DEF SenderOf
      <3>1. SendsOn(j, b, {"posted", "head", "body"}) /\ BothConnected(b)
        BY <2>3, <2>4 DEF BothConnected
      <3>2. DoomedBut(j, Receiver(j), b) \/ Ready(j, b)
        BY <3>1, <2>2 DEF JobHolds, SenderOf
      <3> QED
        BY <3>2, <2>2, <2>5, <2>8 DEF DoomedBut
    <2> QED
      BY <2>2, <2>3, <2>6, <2>9, <2>10, FromJobView DEF JobHolds, AloneHolds
  <1> QED
    BY <1>1, <1>3, <1>4

LEMMA ShortSequences ==
  ASSUME NEW P, NEW x \in P, NEW y \in P
  PROVE  /\ Append(<<x>>, y) = <<x, y>>
         /\ Tail(<<x>>) = <<>> /\ Tail(<<x, y>>) = <<y>>
  <1>1. /\ <<x>> \in Seq(P) /\ Len(<<x>>) = 1 /\ <<x>>[1] = x
        /\ <<x, y>> \in Seq(P) /\ Len(<<x, y>>) = 2
    OBVIOUS
  <1>2. Append(<<x>>, y) = <<x, y>>
    <2> DEFINE s == Append(<<x>>, y)
    <2>1. s \in Seq(P) /\ Len(s) = 2 /\ s[2] = y /\ s[1] = x
      BY <1>1
    <2>2. s = [i \in 1 .. 2 |-> s[i]]
      BY <2>1
    <2>3. <<x, y>> = [i \in 1 .. 2 |-> <<x, y>>[i]]
      OBVIOUS
    <2> HIDE DEF s
    <2>4. \A i \in 1 .. 2 : i = 1 \/ i = 2
      OBVIOUS
    <2>5. \A i \in 1 .. 2 : s[i] = <<x, y>>[i]
      BY <2>1, <2>4
    <2>6. s = <<x, y>>
      BY <2>2, <2>3, <2>5
    <2> QED
      BY <2>6 DEF s
  <1>3. Tail(<<x>>) = <<>>
    BY <1>1
  <1>4. Tail(<<x, y>>) = <<y>>
    BY <1>1
  <1> QED
    BY <1>2, <1>3, <1>4

(* What is written is what is expected next. *)
LEMMA AloneWrites ==
  ASSUME IInv, AloneHolds, NEW j \in Jobs, Writes(j)
  PROVE  AloneHolds'
  <1> PICK c : c = half[j]["send"].on
    OBVIOUS
  <1> PICK e : e = Receiver(j)
    OBVIOUS
  <1> PICK part : part = <<j, half[j]["send"].at>>
    OBVIOUS
  <1>1. /\ half[j]["send"].at \in Running /\ c \in Objects /\ e \in Devices /\ Kept
        /\ UNCHANGED <<connected, mixed>> /\ Advances(j, "send")
        /\ wire' = [wire EXCEPT ![e][c] = Append(wire[e][c], part)]
    BY DeviceTypes DEF Writes, Receiver, IInv, Placed
  <1>2. BothConnected(c)
    BY DEF Writes, BothConnected, Other, Sends
  <1>3. /\ half'[j]["receive"] = half[j]["receive"] /\ \A k \in Jobs \ {j} : half'[k] = half[k]
        /\ half[j]["send"].at = "head" => half'[j]["send"] = [at |-> "body", on |-> c]
        /\ half[j]["send"].at = "body" => half'[j]["send"] = HalfOver
    <2>1. CASE half[j]["send"].at = "head"
      <3>1. SetsHalf(j, "send", "body", c)
        BY <1>1, <2>1 DEF Advances
      <3> QED
        BY <2>1, <3>1, SetsHalfFacts DEF IInv
    <2>2. CASE half[j]["send"].at = "body"
      <3>1. EndsHalf(j, "send")
        BY <1>1, <2>2 DEF Advances
      <3> QED
        BY <2>2, <3>1, EndsHalfFacts DEF IInv
    <2> QED
      BY <1>1, <2>1, <2>2
  <1>4. /\ OnlyOne(j) /\ JobHolds(j) /\ OthersStay(j) /\ ServerOf(j)'
        /\ Sends(j)' = Sends(j) /\ Asks(j)' = Asks(j) /\ Receiver(j)' = Receiver(j)
    BY <1>1, <1>3, AloneHalf
  <1>5. UNCHANGED <<session, closing, connected, asker, answer, mixed>>
    BY <1>1 DEF Kept
  <1>6. /\ wire'[e][c] = Append(wire[e][c], part)
        /\ \A d \in Devices, b \in Objects : (d # e \/ b # c) => wire'[d][b] = wire[d][b]
    <2>1. wire \in [Devices -> [Objects -> Seq(Parts)]]
      BY DEF IInv, TypeOK
    <2>2. PICK w : w = Append(wire[e][c], part)
      OBVIOUS
    <2>3. wire' = [wire EXCEPT ![e][c] = w]
      BY <1>1, <2>2
    <2>4. e \in Devices /\ c \in Objects
      BY <1>1
    <2>5. /\ wire'[e][c] = w
          /\ \A d \in Devices, b \in Objects : (d # e \/ b # c) => wire'[d][b] = wire[d][b]
      BY <2>1, <2>3, <2>4
    <2> QED
      BY <2>2, <2>5
  <1>7. /\ \A b : AwaitsOn(j, b)' = AwaitsOn(j, b)
        /\ \A d, b : ReadsOn(j, d, b)' = ReadsOn(j, d, b)
        /\ Before(j)' = Before(j) /\ InBody(j)' = InBody(j)
    BY <1>3, <1>4, <1>5 DEF AwaitsOn, ReadsOn, Before, InBody
  <1>8. \A d, b : DoomedBut(j, d, b)' = DoomedBut(j, d, b)
    BY <1>5, <1>7 DEF DoomedBut
  <1>9. AnswerOf(j)'
    BY <1>3, <1>4, <1>5 DEF JobHolds, AnswerOf, BothConnected
  <1>10. SendsOn(j, c, {"posted", "head", "body"})
    BY <1>1 DEF SendsOn
  <1>11. DoomedBut(j, e, c) \/ Ready(j, c)
    BY <1>1, <1>2, <1>4, <1>10 DEF JobHolds, SenderOf
  <1>12. ASSUME ~DoomedBut(j, e, c)
         PROVE  Carries(j, e, c)' /\ (half'[j]["send"].at = "body" => Ready(j, c)')
    <2>1. Ready(j, c)
      BY <1>11, <1>12
    <2>2. CASE half[j]["send"].at = "head"
      <3>1. wire[e][c] = <<>> /\ Before(j) /\ part = HeadOf(j)
        BY <2>1, <2>2 DEF Ready, HeadOf
      <3>2. wire'[e][c] = <<HeadOf(j)>>
        BY <3>1, <1>6
      <3>3. SendsOn(j, c, {"body"})' /\ half'[j]["send"].at = "body"
        BY <2>2, <1>3 DEF SendsOn
      <3>4. AwaitsOn(j, c)' /\ Before(j)' /\ Receiver(j)' = e
        BY <2>1, <3>1, <1>4, <1>7 DEF Ready
      <3>5. wire'[Receiver(j)'][c] = <<HeadOf(j)>>
        BY <3>2, <3>4
      <3> QED
        BY <3>2, <3>3, <3>4, <3>5 DEF Carries, Ready, HeadOf
    <2>3. CASE half[j]["send"].at = "body"
      <3>1. part = BodyOf(j) /\ Sent(j)' /\ half'[j]["send"].at # "body"
        BY <2>3, <1>3 DEF BodyOf, Sent
      <3>2. AwaitsOn(j, c)' /\ Receiver(j)' = e
        BY <2>1, <1>4, <1>7 DEF Ready
      <3>3. CASE wire[e][c] = <<HeadOf(j)>> /\ Before(j)
        <4>1. wire'[e][c] = <<HeadOf(j), BodyOf(j)>>
          <5>1. HeadOf(j) \in Parts /\ BodyOf(j) \in Parts
            BY DEF HeadOf, BodyOf, Parts
          <5>2. Append(<<HeadOf(j)>>, BodyOf(j)) = <<HeadOf(j), BodyOf(j)>>
            BY <5>1, ShortSequences
          <5> QED
            BY <5>2, <3>1, <3>3, <1>6
        <4> QED
          BY <4>1, <3>1, <3>2, <3>3, <1>7 DEF Carries, HeadOf, BodyOf
      <3>4. CASE wire[e][c] = <<>> /\ InBody(j)
        <4>1. wire'[e][c] = <<BodyOf(j)>>
          BY <3>1, <3>4, <1>6
        <4> QED
          BY <4>1, <3>1, <3>2, <3>4, <1>7 DEF Carries, HeadOf, BodyOf
      <3> QED
        BY <2>1, <2>3, <3>3, <3>4 DEF Ready
    <2> QED
      BY <1>1, <2>2, <2>3
  <1>13. WireOf(j)'
    <2> SUFFICES ASSUME NEW d \in Devices, NEW b \in Objects, wire'[d][b] # <<>>, ~DoomedBut(j, d, b)'
                 PROVE  Carries(j, d, b)'
      BY DEF WireOf
    <2>1. CASE d = e /\ b = c
      BY <2>1, <1>8, <1>12
    <2>2. CASE d # e \/ b # c
      <3>1. wire'[d][b] = wire[d][b] /\ Carries(j, d, b)
        BY <2>2, <1>4, <1>6, <1>8 DEF JobHolds, WireOf
      <3>2. CASE d # e
        BY <3>1, <3>2 DEF Carries
      <3>3. CASE d = e
        <4>1. b # c
          BY <2>2, <3>3
        <4>2. half[j]["send"].at # "over" /\ half[j]["send"].on = c
          BY <1>1
        <4> QED
          BY <3>1, <4>1, <4>2 DEF Carries, Sent, SendsOn
      <3> QED
        BY <3>2, <3>3
    <2> QED
      BY <2>1, <2>2
  <1>14. SenderOf(j)'
    <2> SUFFICES ASSUME NEW b \in Objects, SendsOn(j, b, {"posted", "head", "body"})'
                 PROVE  DoomedBut(j, Receiver(j), b)' \/ Ready(j, b)'
      BY DEF SenderOf
    <2>1. b = c /\ half'[j]["send"].at = "body"
      BY <1>1, <1>3 DEF SendsOn
    <2> QED
      BY <2>1, <1>4, <1>8, <1>12 DEF DoomedBut
  <1> QED
    BY <1>4, <1>5, <1>9, <1>13, <1>14, FromJobView DEF JobHolds, AloneHolds

(* What is read is the job's own. *)
LEMMA AloneReads ==
  ASSUME IInv, NotBegun, AloneHolds, NEW j \in Jobs, Reads(j)
  PROVE  AloneHolds'
  <1> PICK c : c = half[j]["receive"].on
    OBVIOUS
  <1> PICK e : e = Receiver(j)
    OBVIOUS
  <1>1. /\ half[j]["receive"].at \in Running /\ c \in Objects /\ e \in Devices /\ Kept /\ wire[e][c] # <<>>
    BY DeviceTypes DEF Reads, Receiver, IInv, Placed
  <1>2. OnlyOne(j) /\ JobHolds(j)
    BY <1>1, OpenMeans, TheOneOpen, JobView DEF AloneHolds
  <1>3. ReadsOn(j, e, c)
    BY <1>1 DEF ReadsOn
  <1>4. Carries(j, e, c)
    BY <1>1, <1>2, <1>3 DEF JobHolds, WireOf, DoomedBut
  <1>5. /\ half[j]["receive"].at = "head" =>
              \/ wire[e][c] = <<HeadOf(j)>> /\ (SendsOn(j, c, {"body"}) \/ Sent(j))
              \/ wire[e][c] = <<HeadOf(j), BodyOf(j)>> /\ Sent(j)
        /\ half[j]["receive"].at = "body" => wire[e][c] = <<BodyOf(j)>> /\ Sent(j)
    BY <1>4 DEF Carries, Before, InBody
  <1>6. Head(wire[e][c]) = <<j, half[j]["receive"].at>>
    BY <1>1, <1>5 DEF HeadOf, BodyOf
  <1>7. /\ Advances(j, "receive") /\ UNCHANGED connected
        /\ wire' = [wire EXCEPT ![e][c] = Tail(wire[e][c])]
        /\ mixed' = mixed \cup {k \in {j} : Head(wire[e][c])[1] # j}
    BY <1>6 DEF Reads, Receiver
  <1>8. mixed' = {}
    <2>1. Head(wire[e][c])[1] = j
      BY <1>6
    <2> QED
      BY <2>1, <1>7 DEF AloneHolds
  <1>9. /\ half'[j]["send"] = half[j]["send"] /\ \A k \in Jobs \ {j} : half'[k] = half[k]
        /\ half[j]["receive"].at = "head" => half'[j]["receive"] = [at |-> "body", on |-> c]
        /\ half[j]["receive"].at = "body" => half'[j]["receive"] = HalfOver
    <2>1. CASE half[j]["receive"].at = "head"
      <3>1. SetsHalf(j, "receive", "body", c)
        BY <1>7, <2>1 DEF Advances
      <3> QED
        BY <2>1, <3>1, SetsHalfFacts DEF IInv
    <2>2. CASE half[j]["receive"].at = "body"
      <3>1. EndsHalf(j, "receive")
        BY <1>7, <2>2 DEF Advances
      <3> QED
        BY <2>2, <3>1, EndsHalfFacts DEF IInv
    <2> QED
      BY <1>1, <2>1, <2>2
  <1>10. /\ OthersStay(j) /\ ServerOf(j)'
         /\ Sends(j)' = Sends(j) /\ Asks(j)' = Asks(j) /\ Receiver(j)' = Receiver(j)
    BY <1>1, <1>9, AloneHalf
  <1>11. UNCHANGED <<session, closing, connected, asker, answer>>
    BY <1>1, <1>7 DEF Kept
  <1>12. /\ wire'[e][c] = Tail(wire[e][c])
         /\ \A d \in Devices, b \in Objects : (d # e \/ b # c) => wire'[d][b] = wire[d][b]
    BY <1>1, <1>7 DEF IInv, TypeOK
  <1>13. /\ Sent(j)' = Sent(j) /\ \A b, where : SendsOn(j, b, where)' = SendsOn(j, b, where)
         /\ \A b : AwaitsOn(j, b) => b = c
    BY <1>1, <1>9 DEF Sent, SendsOn, AwaitsOn
  <1>14. \A d, b : DoomedBut(j, d, b) => DoomedBut(j, d, b)'
    BY <1>3, <1>9, <1>10, <1>11 DEF DoomedBut, ReadsOn
  <1>15. HeadOf(j) \in Parts /\ BodyOf(j) \in Parts
    BY DEF HeadOf, BodyOf, Parts
  <1>18. AnswerOf(j)'
    <2> SUFFICES ASSUME NEW b \in Objects, asker[j].at = "asked", answer[j] = b[2], b[1] = session,
                        Sends(j) = Asks(j), BothConnected(b)
                 PROVE  FALSE
      BY <1>10, <1>11 DEF AnswerOf, BothConnected
    <2>1. half[j]["receive"].at = "head"
      BY <1>1, <1>2 DEF JobHolds, AnswerOf
    <2>2. half[j]["send"].at \in {"body", "over"}
      BY <2>1, <1>5 DEF SendsOn, Sent
    <2>3. half[j]["send"].at = "none"
      BY DEF NotBegun, DirectionOn
    <2> QED
      BY <2>2, <2>3
  <1>16. WireOf(j)'
    <2> SUFFICES ASSUME NEW d \in Devices, NEW b \in Objects, wire'[d][b] # <<>>, ~DoomedBut(j, d, b)'
                 PROVE  Carries(j, d, b)'
      BY DEF WireOf
    <2>3. /\ Tail(<<HeadOf(j)>>) = <<>> /\ Tail(<<BodyOf(j)>>) = <<>>
          /\ Tail(<<HeadOf(j), BodyOf(j)>>) = <<BodyOf(j)>>
      BY <1>15, ShortSequences
    <2>1. CASE d # e \/ b # c
      <3>1. wire[d][b] # <<>>
        BY <2>1, <1>12
      <3>2. Carries(j, d, b)
        BY <3>1, <1>2, <1>14 DEF JobHolds, WireOf
      <3> QED
        BY <2>1, <3>2, <1>13 DEF Carries
    <2>2. CASE d = e /\ b = c
      <3>1. wire'[e][c] # <<>> /\ wire'[e][c] = Tail(wire[e][c])
        BY <2>2, <1>12
      <3>2. \/ wire[e][c] = <<HeadOf(j)>> \/ wire[e][c] = <<BodyOf(j)>>
            \/ half[j]["receive"].at = "head" /\ wire[e][c] = <<HeadOf(j), BodyOf(j)>> /\ Sent(j)
        BY <1>1, <1>5
      <3>3. half[j]["receive"].at = "head" /\ wire[e][c] = <<HeadOf(j), BodyOf(j)>> /\ Sent(j)
        BY <3>1, <3>2, <2>3
      <3>4. wire'[e][c] = <<BodyOf(j)>>
        BY <3>1, <3>3, <2>3
      <3>5. InBody(j)' /\ AwaitsOn(j, c)' /\ Sent(j)' /\ Receiver(j)' = e
        BY <3>3, <1>9, <1>10, <1>13 DEF InBody, AwaitsOn
      <3> QED
        BY <2>2, <3>4, <3>5 DEF Carries, BodyOf
    <2> QED
      BY <2>1, <2>2
  <1>17. SenderOf(j)'
    <2> SUFFICES ASSUME NEW b \in Objects, SendsOn(j, b, {"posted", "head", "body"})', BothConnected(b)'
                 PROVE  DoomedBut(j, Receiver(j), b)' \/ Ready(j, b)'
      BY DEF SenderOf
    <2>1. SendsOn(j, b, {"posted", "head", "body"}) /\ BothConnected(b)
      BY <1>11, <1>13 DEF BothConnected
    <2>2. DoomedBut(j, e, b) \/ Ready(j, b)
      BY <2>1, <1>2 DEF JobHolds, SenderOf
    <2>3. CASE DoomedBut(j, e, b)
      BY <2>3, <1>10, <1>14 DEF DoomedBut
    <2>4. CASE Ready(j, b)
      <3>1. b = c
        BY <2>4, <1>13 DEF Ready
      <3>2. wire[e][c] # <<>>
        BY <1>1
      <3>3. half[j]["send"].at = "body" /\ wire[e][c] = <<HeadOf(j)>> /\ Before(j)
        BY <2>4, <3>1, <3>2 DEF Ready
      <3>4. half[j]["receive"].at = "head"
        BY <3>3, <1>1 DEF Before
      <3>5. wire'[e][c] = <<>>
        BY <3>3, <1>12
      <3>6. InBody(j)' /\ AwaitsOn(j, c)' /\ half'[j]["send"].at = "body" /\ Receiver(j)' = e
        BY <3>3, <3>4, <1>9, <1>10 DEF InBody, AwaitsOn
      <3> QED
        BY <3>1, <3>5, <3>6 DEF Ready
    <2> QED
      BY <2>2, <2>3, <2>4
  <1> QED
    BY <1>2, <1>8, <1>10, <1>16, <1>17, <1>18, FromJobView DEF JobHolds

-------------------------------------------------------------------------------
(* All steps *)

LEMMA AloneAskerStep ==
  ASSUME IInv, PoolsHold, NotBegun, AloneHolds, NEW j \in Jobs, AskerStep(j), alone'
  PROVE  AloneHolds'
  <1>1. ~GivesUp(j)
    BY DEF GivesUp
  <1> QED
    BY <1>1, AloneAsk, AloneStartsOwnHalf, AloneFindsItClosed, AloneFindsItFree, AloneRefusesExport,
       AloneCancelsExport, AloneAskerEnds, Zenon DEF AskerStep

LEMMA AloneHalfStep ==
  ASSUME IInv, PoolsHold, NotBegun, AloneHolds, NEW j \in Jobs, Moves(j) \/ SourceFails(j) \/ SinkFails(j)
  PROVE  AloneHolds'
  <1>1. ASSUME NEW x \in Directions, Starts(j, x) PROVE AloneHolds'
    <2>1. CASE x = "send"
      BY <1>1, <2>1, AloneSenderStarts
    <2>2. CASE x = "receive"
      BY <1>1, <2>2, AloneReceiverStarts
    <2> QED
      BY <2>1, <2>2
  <1> QED
    BY <1>1, AloneWrites, AloneReads, AloneSenderFails, AloneReceiverFails, Zenon DEF Moves

(* What was alone after a step was alone before it. *)
LEMMA AloneWasAlone ==
  ASSUME IInv, Next, alone'
  PROVE  alone
  <1>1. ASSUME NEW j \in Jobs, AskerStep(j) PROVE alone
    BY <1>1 DEF AskerStep, Ask, GivesUp, StartsOwnHalf, FindsItClosed, FindsItInUse, RefusesExport,
                CancelsExport, AskerEnds
  <1>2. ASSUME NEW j \in Jobs, ServerStep(j) PROVE alone
    BY <1>2 DEF ServerStep, FailsToPrepare, ScanThrows, Scan, TryReserve, DropsGuard, Grants, ServerEnds
  <1>3. ASSUME NEW j \in Jobs, Moves(j) \/ SourceFails(j) \/ SinkFails(j) \/ RefusesHeader(j)
        PROVE  alone
    BY <1>3, HalfSteps DEF Kept, RefusesHeader
  <1>4. CASE \/ \E d \in Devices : Reset(d) \/ \E c \in Objects : ChannelCloses(d, c)
             \/ PrimaryDrops \/ SetUp
    BY <1>4 DEF Reset, ChannelCloses, PrimaryDrops, SetUp
  <1> QED
    BY <1>1, <1>2, <1>3, <1>4 DEF Next

LEMMA AloneStep ==
  ASSUME IInv, PoolsHold, NotBegun, AloneHolds, Next, alone'
  PROVE  AloneHolds'
  <1>1. ASSUME NEW j \in Jobs, AskerStep(j) PROVE AloneHolds'
    BY <1>1, AloneAskerStep
  <1>2. ASSUME NEW j \in Jobs, ServerStep(j) PROVE AloneHolds'
    BY <1>2, AloneFailsToPrepare, AloneServer, AloneGrants, Zenon DEF ServerStep
  <1>3. ASSUME NEW j \in Jobs, Moves(j) \/ SourceFails(j) \/ SinkFails(j) \/ RefusesHeader(j)
        PROVE  AloneHolds'
    BY <1>3, AloneHalfStep DEF RefusesHeader
  <1>4. CASE PrimaryDrops
    <2>1. /\ UNCHANGED <<session, connected, wire, asker, server, answer, half, mixed>>
          /\ \A d \in Devices : closing[d] \subseteq closing'[d]
      BY <1>4 DEF PrimaryDrops
    <2> QED
      BY <2>1, AloneClosingGrows
  <1> QED
    BY <1>1, <1>2, <1>3, <1>4, AloneReset, AloneChannelCloses, AloneSetUp, Zenon DEF Next

LEMMA ContentInit == Init => CInv
  <1> SUFFICES ASSUME Init
               PROVE  CInv
    OBVIOUS
  <1>1. PoolsHold
    <2>1. \A d \in Devices : \A c \in connected[d] : c[1] = 1
      BY DEF Init, Current
    <2> QED
      BY <2>1 DEF Init, PoolsHold
  <1>2. \A j \in Jobs : /\ asker[j].at = "idle" /\ server[j].at = "none" /\ answer[j] = 0
                        /\ \A x \in Directions : half[j][x].at = "none"
    BY DEF Init
  <1>3. \A d \in Devices, c \in Objects : wire[d][c] = <<>>
    BY DEF Init
  <1>4. NotBegun
    BY <1>2 DEF NotBegun
  <1>5. OneOpen /\ WireHolds
    BY <1>2, <1>3 DEF OneOpen, Open, WireHolds
  <1>6. SenderHolds
    BY <1>2 DEF SenderHolds, SendsOn
  <1>7. \A j \in Jobs : ServerOf(j) /\ AnswerOf(j)
    BY <1>2 DEF ServerOf, AnswerOf
  <1>8. mixed = {}
    BY DEF Init
  <1> QED
    BY <1>1, <1>4, <1>5, <1>6, <1>7, <1>8 DEF CInv, AloneHolds

LEMMA ContentStep == IInv /\ CInv /\ [Next]_vars => CInv'
  <1> SUFFICES ASSUME IInv, CInv, [Next]_vars
               PROVE  CInv'
    OBVIOUS
  <1>1. CASE Next
    <2>1. PoolsHold' /\ NotBegun'
      BY <1>1, PoolsStep, NotBegunStep DEF CInv
    <2>2. alone' => AloneHolds'
      BY <1>1, AloneWasAlone, AloneStep DEF CInv
    <2> QED
      BY <2>1, <2>2 DEF CInv
  <1>2. CASE UNCHANGED vars
    <2>1. PoolsHold'
      BY <1>2, PoolsAsTheyAre DEF vars, CInv
    <2>2. NotBegun'
      BY <1>2 DEF vars, CInv, NotBegun, DirectionOn, Asks, Sends
    <2>3. alone' => AloneHolds'
      BY <1>2, AloneClosingGrows DEF vars, CInv
    <2> QED
      BY <2>1, <2>2, <2>3 DEF CInv
  <1> QED
    BY <1>1, <1>2

(* Whatever jobs and channels there are, and however many sessions: what     *)
(* lies in a channel while jobs come one after the other belongs to the one  *)
(* that is open, in the order its receiver expects it, or to a channel whose *)
(* Disconnect is posted and that nobody reads (the strand runs it first).    *)
THEOREM ContentInvariance == Spec => [](IInv /\ CInv)
  <1>1. Init => IInv /\ CInv
    BY InitStep, ContentInit
  <1>2. IInv /\ CInv /\ [Next]_vars => (IInv /\ CInv)'
    BY NextStep, ContentStep
  <1> QED
    BY <1>1, <1>2, PTL DEF Spec

(* As long as jobs come one after the other, each to its end, a receiver     *)
(* reads only what was sent for it, whatever failed before: every half that  *)
(* stops in the middle of a frame disconnects its channel (but for the       *)
(* directory's header that is too long, see alone), and the answer           *)
(* that names a channel never names one that is left with a frame in it      *)
(* (TransferChannel.cpp, the coroutines of both FileShareModules).           *)
THEOREM ReceiversReadTheirOwn == Spec => []AloneReadsItsOwn
  <1>1. CInv => AloneReadsItsOwn
    BY DEF CInv, AloneHolds, AloneReadsItsOwn
  <1> QED
    BY <1>1, ContentInvariance, PTL

================================================================================
