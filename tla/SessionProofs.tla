----------------------------- MODULE SessionProofs ------------------------------
(***************************************************************************)
(* Proofs about the components of a session: SessionLeavesNothing, for any *)
(* number of toggles, sessions, channels and OnEnables under way           *)
(* (ModuleLifecycle.tla); ConnectedPoolsMatch, for any set of indices and  *)
(* any number of sessions, retries and listeners that fail                 *)
(* (ChannelSetUp.tla); and the composite of a session's three components   *)
(* (MCSession.tla), whose behaviours are those of its parts.               *)
(***************************************************************************)
EXTENDS MCSession, NotificationSyncProofs, SequenceTheorems, TLAPS

(* What sending adds to a bag. *)
LEMMA AfterBag ==
  ASSUME NEW bag, IsABag(bag), NEW d, NEW ps
  PROVE  /\ IsABag(After(bag, d, ps))
         /\ BagToSet(bag) \subseteq BagToSet(After(bag, d, ps))
         /\ BagToSet(After(bag, d, ps)) \subseteq BagToSet(bag) \cup ps
         /\ ~linked => After(bag, d, ps) = bag
         /\ \A x \in BagToSet(bag) \ ps : After(bag, d, ps)[x] = bag[x]
         /\ \A x \in BagToSet(After(bag, d, ps)) \ BagToSet(bag) : After(bag, d, ps)[x] = 1
<1>1. CASE ~linked
  BY <1>1 DEF After, BagToSet
<1>2. CASE linked
  <2> DEFINE new == After(bag, d, ps)
  <2>1. new = [e \in (DOMAIN bag) \cup ps |->
                 (IF e \in DOMAIN bag THEN bag[e] ELSE 0) + (IF e \in ps THEN 1 ELSE 0)]
    BY <1>2 DEF After, Bagged, SetToBag, (+)
  <2>2. \A x \in DOMAIN bag : bag[x] \in Nat /\ bag[x] > 0
    BY DEF IsABag
  <2>3. \A x \in (DOMAIN bag) \cup ps : new[x] \in {n \in Nat : n > 0}
    BY <2>1, <2>2
  <2>4. IsABag(new)
    BY <2>1, <2>3 DEF IsABag
  <2> QED
    BY <1>2, <2>1, <2>2, <2>4 DEF BagToSet
<1> QED
  BY <1>1, <1>2

(* What receiving takes out of it. *)
LEMMA RestBag ==
  ASSUME NEW bag, IsABag(bag), NEW p \in BagToSet(bag),
         NEW rest, rest = bag (-) Bagged({p})
  PROVE  /\ IsABag(rest)
         /\ BagToSet(rest) \subseteq BagToSet(bag)
         /\ \A x \in BagToSet(rest) : x # p => rest[x] = bag[x]
         /\ bag[p] = 1 => p \notin BagToSet(rest)
<1> DEFINE less == [e \in DOMAIN bag |-> IF e = p THEN bag[e] - 1 ELSE bag[e]]
<1>1. rest = [e \in {x \in DOMAIN bag : less[x] > 0} |-> less[e]]
  BY DEF Bagged, SetToBag, (-)
<1>2. \A x \in DOMAIN bag : bag[x] \in Nat /\ bag[x] > 0
  BY DEF IsABag
<1>3. \A x \in DOMAIN bag : less[x] \in Nat
  BY <1>2
<1>4. DOMAIN rest = {x \in DOMAIN bag : less[x] > 0}
  BY <1>1
<1>5. \A x \in DOMAIN rest : rest[x] \in {n \in Nat : n > 0}
  BY <1>1, <1>3
<1>6. IsABag(rest)
  BY <1>1, <1>4, <1>5 DEF IsABag
<1>7. \A x \in DOMAIN rest : x # p => rest[x] = bag[x]
  BY <1>1
<1>8. ASSUME bag[p] = 1 PROVE p \notin DOMAIN rest
  <2>1. less[p] = 0
    BY <1>8 DEF BagToSet
  <2> HIDE DEF less
  <2> QED
    BY <1>4, <2>1
<1> QED
  BY <1>4, <1>6, <1>7, <1>8 DEF BagToSet

-------------------------------------------------------------------------------
(* What is posted to a strand, by operation. *)
Has(q, op)  == \E i \in 1 .. Len(q) : q[i].op = op
Once(q, op) == \A i, j \in 1 .. Len(q) : q[i].op = op /\ q[j].op = op => i = j

(* Running the first operation. *)
LEMMA PopOps ==
  ASSUME NEW q \in Seq(Operations), q # <<>>
  PROVE  /\ Has(q, Head(q).op)
         /\ \A o : Has(Tail(q), o) => Has(q, o)
         /\ \A o : o # Head(q).op /\ Has(q, o) => Has(Tail(q), o)
         /\ \A o : Once(q, o) => Once(Tail(q), o)
         /\ Once(q, Head(q).op) => ~Has(Tail(q), Head(q).op)
<1>1. Len(q) \in Nat /\ Len(q) > 0 /\ Head(q) = q[1] /\ Len(Tail(q)) = Len(q) - 1
  BY EmptySeq, HeadTailProperties
<1>2. \A i \in 1 .. Len(Tail(q)) : Tail(q)[i] = q[i + 1] /\ i + 1 \in 1 .. Len(q)
  BY <1>1, HeadTailProperties
<1>3. \A i \in 1 .. Len(q) : i # 1 => i - 1 \in 1 .. Len(Tail(q)) /\ q[i] = Tail(q)[i - 1]
  BY <1>1, <1>2
<1>4. Has(q, Head(q).op)
  BY <1>1 DEF Has
<1>5. \A o : Has(Tail(q), o) => Has(q, o)
  BY <1>1, <1>2 DEF Has
<1>6. \A o : o # Head(q).op /\ Has(q, o) => Has(Tail(q), o)
  BY <1>1, <1>3 DEF Has
<1>7. \A o : Once(q, o) => Once(Tail(q), o)
  BY <1>1, <1>2 DEF Once
<1>8. Once(q, Head(q).op) => ~Has(Tail(q), Head(q).op)
  BY <1>1, <1>2 DEF Once, Has
<1> QED
  BY <1>4, <1>5, <1>6, <1>7, <1>8

(* Posting another one. *)
LEMMA PostOps ==
  ASSUME NEW q \in Seq(Operations), NEW e \in Operations
  PROVE  /\ \A o : Has(Append(q, e), o) <=> Has(q, o) \/ o = e.op
         /\ \A o : Once(q, o) /\ (o = e.op => ~Has(q, o)) => Once(Append(q, e), o)
<1>1. /\ Len(q) \in Nat /\ Len(Append(q, e)) = Len(q) + 1
      /\ Append(q, e)[Len(q) + 1] = e
      /\ \A i \in 1 .. Len(q) : Append(q, e)[i] = q[i]
  BY AppendProperties
<1>2. \A i \in 1 .. Len(q) + 1 : i = Len(q) + 1 \/ i \in 1 .. Len(q)
  BY <1>1
<1>3. 1 .. Len(q) \subseteq 1 .. Len(q) + 1 /\ Len(q) + 1 \in 1 .. Len(q) + 1
  BY <1>1
<1>4. \A o : Has(Append(q, e), o) <=> Has(q, o) \/ o = e.op
  BY <1>1, <1>2, <1>3 DEF Has
<1>5. ASSUME NEW o, Once(q, o), o = e.op => ~Has(q, o)
      PROVE  Once(Append(q, e), o)
  BY <1>1, <1>2, <1>5 DEF Once, Has
<1> QED
  BY <1>4, <1>5

-------------------------------------------------------------------------------
(* Types. *)

LEMMA NumbersAreNaturals ==
  /\ MaxChannels \in Nat /\ MaxEnables \in Nat /\ MaxLinks \in Nat /\ MaxToggles \in Nat
  /\ NoChannel \in 0 .. MaxChannels /\ Channels \subseteq 0 .. MaxChannels
BY LifeBounds DEF NoChannel, Channels

ChannelsTyped ==
  /\ channel \in [Devices -> 0 .. MaxChannels]
  /\ deskChannel \in [Channels -> {"none", "listening", "connected", "closed"}]
  /\ phoneChannel \in [Channels -> {"none", "connecting", "connected", "closed"}]

PackagesTyped == IsABag(packages) /\ BagToSet(packages) \subseteq Packages

LEMMA TypedPackage ==
  ASSUME NEW d \in Devices, NEW n \in 0 .. MaxChannels,
         NEW kind \in {"ENABLE", "DISABLE", "STATE_ON", "STATE_OFF", "PORT_INFO"}
  PROVE  Package(d, kind, n) \in Packages
BY DEF Package, Packages, Peer, Devices

LEMMA TypedAfter ==
  ASSUME NEW bag, IsABag(bag), BagToSet(bag) \subseteq Packages, NEW d,
         NEW ps, ps \subseteq Packages, packages' = After(bag, d, ps)
  PROVE  PackagesTyped'
BY AfterBag DEF PackagesTyped

LEMMA TypedPosts ==
  ASSUME LifeTypeOK, NEW d \in Devices, NEW op \in {"enable", "disable", "shutdown"},
         NEW was \in States \cup {"nothing"}
  PROVE  /\ [op |-> op, was |-> was] \in Operations
         /\ Posts(d, op, was) \in [Devices -> Seq(Operations)]
<1>1. [op |-> op, was |-> was] \in Operations
  BY DEF Operations
<1>2. strand[d] \in Seq(Operations)
  BY DEF LifeTypeOK
<1>3. Append(strand[d], [op |-> op, was |-> was]) \in Seq(Operations)
  BY <1>1, <1>2, AppendProperties
<1> QED
  BY <1>1, <1>3 DEF Posts, LifeTypeOK

LEMMA TypedRuns ==
  ASSUME LifeTypeOK, NEW d \in Devices, NEW op, Runs(d, op)
  PROVE  strand' \in [Devices -> Seq(Operations)] /\ seen' \in [Devices -> States \cup {"nothing"}]
<1>1. strand[d] \in Seq(Operations) /\ strand[d] # <<>>
  BY DEF LifeTypeOK, Runs
<1>2. Tail(strand[d]) \in Seq(Operations)
  BY <1>1, HeadTailProperties
<1> QED
  BY <1>2 DEF Runs, LifeTypeOK

LEMMA TypedLeaves ==
  ASSUME LifeTypeOK, NEW d \in Devices, NEW s \in Slots,
         \/ Leaves(d, s)
         \/ \E at \in {"idle", "listen", "accept", "peer", "fetch", "dialog", "flag", "store"} : Goes(d, s, at)
         \/ Returns(d, s)
  PROVE  enabling' \in [Devices -> [Slots -> Coroutines]]
<1>1. Idle \in Coroutines
  BY NumbersAreNaturals DEF Idle, Coroutines
<1>2. enabling[d] \in [Slots -> Coroutines] /\ enabling[d][s] \in Coroutines
  BY DEF LifeTypeOK
<1>3. CASE Leaves(d, s)
  BY <1>1, <1>2, <1>3 DEF Leaves, LifeTypeOK
<1>4. ASSUME NEW at \in {"idle", "listen", "accept", "peer", "fetch", "dialog", "flag", "store"},
             Goes(d, s, at)
      PROVE  enabling' \in [Devices -> [Slots -> Coroutines]]
  <2>1. [enabling[d][s] EXCEPT !.at = at] \in Coroutines
    BY <1>2 DEF Coroutines
  <2>2. enabling' = [enabling EXCEPT ![d] = [enabling[d] EXCEPT ![s] = [enabling[d][s] EXCEPT !.at = at]]]
    BY <1>4 DEF Goes
  <2> QED
    BY <1>2, <2>1, <2>2 DEF LifeTypeOK
<1> QED
  BY <1>3, <1>4 DEF Returns

LEMMA TypedDrops ==
  ASSUME LifeTypeOK, NEW d \in Devices, DropsChannel(d)
  PROVE  ChannelsTyped'
<1>1. channel' \in [Devices -> 0 .. MaxChannels]
  BY NumbersAreNaturals DEF DropsChannel, LifeTypeOK
<1>2. channel[d] # NoChannel => channel[d] \in Channels
  BY NumbersAreNaturals DEF LifeTypeOK, NoChannel, Channels
<1>3. deskChannel' \in [Channels -> {"none", "listening", "connected", "closed"}]
  BY <1>2 DEF DropsChannel, LifeTypeOK
<1>4. phoneChannel' \in [Channels -> {"none", "connecting", "connected", "closed"}]
  BY <1>2 DEF DropsChannel, LifeTypeOK
<1> QED
  BY <1>1, <1>3, <1>4 DEF ChannelsTyped

LEMMA TypedOnDisable ==
  ASSUME LifeTypeOK, NEW d \in Devices, OnDisable(d, packages)
  PROVE  /\ ChannelsTyped' /\ PackagesTyped'
         /\ peerEnabled' \in [Devices -> BOOLEAN] /\ connectedFlag' \in BOOLEAN
<1>1. ChannelsTyped'
  BY TypedDrops DEF OnDisable
<1>2. {Package(d, "STATE_OFF", NoChannel), Package(d, "DISABLE", NoChannel)} \subseteq Packages
  BY TypedPackage, NumbersAreNaturals
<1>3. packages' = After(packages, d, {Package(d, "STATE_OFF", NoChannel), Package(d, "DISABLE", NoChannel)})
  BY DEF OnDisable
<1>4. IsABag(packages) /\ BagToSet(packages) \subseteq Packages
  BY DEF LifeTypeOK
<1>5. PackagesTyped'
  BY <1>2, <1>3, <1>4, TypedAfter
<1>6. peerEnabled' \in [Devices -> BOOLEAN] /\ connectedFlag' \in BOOLEAN
  BY DEF OnDisable, LifeTypeOK
<1> QED
  BY <1>1, <1>5, <1>6

LEMMA TypedPart ==
  ASSUME LifeTypeOK
  PROVE  /\ ChannelsTyped /\ PackagesTyped
         /\ UNCHANGED <<channel, deskChannel, phoneChannel>> => ChannelsTyped'
         /\ UNCHANGED packages => PackagesTyped'
         /\ \A d \in Devices : Peer(d) \in Devices
BY DEF LifeTypeOK, ChannelsTyped, PackagesTyped, Peer, Devices

-------------------------------------------------------------------------------
(* Every step keeps the types. *)

LEMMA TypedReadsState ==
  ASSUME LifeTypeOK, NEW d \in Devices, ReadsState(d) PROVE LifeTypeOK'
BY DEF LifeTypeOK, ReadsState, module, channelVars, session

LEMMA TypedFreeSlot ==
  ASSUME NEW d \in Devices, HasFreeSlot(d)
  PROVE  FreeSlot(d) \in Slots /\ enabling[d][FreeSlot(d)] = Idle
BY DEF HasFreeSlot, FreeSlot

LEMMA TypedRunEnable ==
  ASSUME LifeTypeOK, NEW d \in Devices, RunEnable(d) PROVE LifeTypeOK'
<1>1. strand' \in [Devices -> Seq(Operations)] /\ seen' \in [Devices -> States \cup {"nothing"}]
  BY TypedRuns DEF RunEnable
<1>2. UNCHANGED <<events, linked, sessions, toggles>>
  BY DEF RunEnable, session
<1>3. CASE Saw(d) \notin {"Uninitialized", "Disabled"}
  <2>1. UNCHANGED <<state, registered, peerEnabled, enabling, channel, deskChannel, phoneChannel,
                    connectedFlag, packages, channels, late>>
    BY <1>3 DEF RunEnable, module, channelVars
  <2> QED
    BY <1>1, <1>2, <2>1 DEF LifeTypeOK
<1>4. CASE Saw(d) \in {"Uninitialized", "Disabled"}
  <2>1. /\ HasFreeSlot(d) /\ channels < MaxChannels
        /\ state' = [state EXCEPT ![d] = "Enabling"]
        /\ registered' = [registered EXCEPT ![d] = registered[d] \/ Saw(d) = "Uninitialized"]
        /\ late' = (late \/ state[d] # Saw(d) \/ Saw(d) = "Uninitialized")
        /\ peerEnabled' = [peerEnabled EXCEPT ![d] = FALSE]
    BY <1>4 DEF RunEnable
  <2>2. /\ state' \in [Devices -> States] /\ registered' \in [Devices -> BOOLEAN]
        /\ peerEnabled' \in [Devices -> BOOLEAN] /\ late' \in BOOLEAN
    BY <2>1 DEF LifeTypeOK, States
  <2>3. FreeSlot(d) \in Slots
    BY <2>1, TypedFreeSlot
  <2>4. channels + 1 \in 1 .. MaxChannels /\ channels + 1 \in 0 .. MaxChannels
    BY <2>1, NumbersAreNaturals DEF LifeTypeOK
  <2>5. ASSUME NEW x \in Coroutines, enabling' = [enabling EXCEPT ![d][FreeSlot(d)] = x]
        PROVE  enabling' \in [Devices -> [Slots -> Coroutines]]
    <3>1. enabling[d] \in [Slots -> Coroutines]
      BY DEF LifeTypeOK
    <3>2. [enabling[d] EXCEPT ![FreeSlot(d)] = x] \in [Slots -> Coroutines]
      BY <2>3, <3>1
    <3>3. enabling' = [enabling EXCEPT ![d] = [enabling[d] EXCEPT ![FreeSlot(d)] = x]]
      BY <2>5
    <3> QED
      BY <3>2, <3>3 DEF LifeTypeOK
  <2>6. CASE d = "desktop"
    <3>1. /\ channels' = channels + 1
          /\ enabling' = [enabling EXCEPT ![d][FreeSlot(d)] = [at |-> "listen", channel |-> channels + 1]]
          /\ packages' = After(packages, d, {Package(d, "ENABLE", NoChannel)})
          /\ channel' = [channel EXCEPT ![d] = channels + 1]
          /\ deskChannel' = IF channel[d] = NoChannel \/ deskChannel[channel[d]] = "none"
                            THEN deskChannel
                            ELSE [deskChannel EXCEPT ![channel[d]] = "closed"]
          /\ UNCHANGED <<phoneChannel, connectedFlag>>
      BY <1>4, <2>6 DEF RunEnable
    <3>2. [at |-> "listen", channel |-> channels + 1] \in Coroutines
      BY <2>4 DEF Coroutines
    <3>3. enabling' \in [Devices -> [Slots -> Coroutines]]
      BY <2>5, <3>1, <3>2
    <3>4. {Package(d, "ENABLE", NoChannel)} \subseteq Packages
      BY TypedPackage, NumbersAreNaturals
    <3>5. PackagesTyped'
      BY <3>1, <3>4, TypedPart, TypedAfter DEF PackagesTyped
    <3>6. channel' \in [Devices -> 0 .. MaxChannels] /\ channels' \in 0 .. MaxChannels
      BY <2>4, <3>1 DEF LifeTypeOK
    <3>7. deskChannel' \in [Channels -> {"none", "listening", "connected", "closed"}]
      BY <3>1 DEF LifeTypeOK
    <3> QED
      BY <1>1, <1>2, <2>2, <3>1, <3>3, <3>5, <3>6, <3>7 DEF LifeTypeOK, PackagesTyped
  <2>7. CASE d # "desktop"
    <3>1. /\ enabling' = [enabling EXCEPT ![d][FreeSlot(d)] = [at |-> "dialog", channel |-> NoChannel]]
          /\ UNCHANGED <<channels, packages, channel, deskChannel, phoneChannel, connectedFlag>>
      BY <1>4, <2>7 DEF RunEnable, channelVars
    <3>2. [at |-> "dialog", channel |-> NoChannel] \in Coroutines
      BY NumbersAreNaturals DEF Coroutines
    <3>3. enabling' \in [Devices -> [Slots -> Coroutines]]
      BY <2>5, <3>1, <3>2
    <3> QED
      BY <1>1, <1>2, <2>2, <3>1, <3>3 DEF LifeTypeOK
  <2> QED
    BY <2>6, <2>7
<1> QED
  BY <1>3, <1>4

LEMMA TypedRunDisable ==
  ASSUME LifeTypeOK, NEW d \in Devices, RunDisable(d) PROVE LifeTypeOK'
<1>1. strand' \in [Devices -> Seq(Operations)] /\ seen' \in [Devices -> States \cup {"nothing"}]
  BY TypedRuns DEF RunDisable
<1>2. UNCHANGED <<registered, enabling, events, linked, sessions, toggles, channels>>
  BY DEF RunDisable, session
<1>3. CASE Saw(d) \notin {"Enabled", "Enabling"}
  BY <1>1, <1>2, <1>3 DEF RunDisable, LifeTypeOK, channelVars
<1>4. CASE Saw(d) \in {"Enabled", "Enabling"}
  <2>1. /\ state' = [state EXCEPT ![d] = "Disabled"]
        /\ late' = (late \/ state[d] # Saw(d))
        /\ OnDisable(d, packages)
    BY <1>4 DEF RunDisable
  <2>2. state' \in [Devices -> States] /\ late' \in BOOLEAN
    BY <2>1 DEF LifeTypeOK, States
  <2> QED
    BY <1>1, <1>2, <2>1, <2>2, TypedOnDisable DEF LifeTypeOK, ChannelsTyped, PackagesTyped
<1> QED
  BY <1>3, <1>4

LEMMA TypedRunShutdown ==
  ASSUME LifeTypeOK, NEW d \in Devices, RunShutdown(d) PROVE LifeTypeOK'
<1>1. strand' \in [Devices -> Seq(Operations)] /\ seen' \in [Devices -> States \cup {"nothing"}]
  BY TypedRuns DEF RunShutdown
<1>2. UNCHANGED <<state, registered, enabling, events, linked, sessions, toggles, channels, late>>
  BY DEF RunShutdown, session
<1>3. \/ OnDisable(d, packages)
      \/ DropsChannel(d) /\ UNCHANGED <<peerEnabled, packages, connectedFlag>>
  BY DEF RunShutdown
<1>4. /\ ChannelsTyped' /\ PackagesTyped'
      /\ peerEnabled' \in [Devices -> BOOLEAN] /\ connectedFlag' \in BOOLEAN
  BY <1>3, TypedOnDisable, TypedDrops, TypedPart DEF LifeTypeOK
<1> QED
  BY <1>1, <1>2, <1>4 DEF LifeTypeOK, ChannelsTyped, PackagesTyped

LEMMA ChannelOfSlot ==
  ASSUME LifeTypeOK, NEW d \in Devices, NEW s \in Slots
  PROVE  enabling[d][s].channel \in 0 .. MaxChannels /\ enabling[d][s] \in Coroutines
BY DEF LifeTypeOK, Coroutines

LEMMA TypedTellsPort ==
  ASSUME LifeTypeOK, NEW s \in Slots, TellsPort(s) PROVE LifeTypeOK'
<1>1. "desktop" \in Devices
  BY DEF Devices
<1>2. UNCHANGED <<state, registered, peerEnabled, strand, seen, channel, phoneChannel, connectedFlag,
                  events, linked, sessions, toggles, channels, late>>
  BY DEF TellsPort, module, session
<1>3. enabling' \in [Devices -> [Slots -> Coroutines]]
  BY <1>1, TypedLeaves DEF TellsPort
<1>4. deskChannel' \in [Channels -> {"none", "listening", "connected", "closed"}]
  BY DEF TellsPort, LifeTypeOK
<1>5. Package("desktop", "PORT_INFO", enabling["desktop"][s].channel) \in Packages
  BY <1>1, ChannelOfSlot, TypedPackage
<1>6. \/ UNCHANGED packages
      \/ packages' = After(packages, "desktop", {Package("desktop", "PORT_INFO", enabling["desktop"][s].channel)})
  BY DEF TellsPort
<1>7. PackagesTyped'
  BY <1>5, <1>6, TypedPart, TypedAfter DEF PackagesTyped
<1> QED
  BY <1>2, <1>3, <1>4, <1>7 DEF LifeTypeOK, PackagesTyped

LEMMA TypedAwaits ==
  ASSUME LifeTypeOK, NEW d \in Devices, NEW s \in Slots,
         (d = "desktop" /\ AwaitsConnection(s)) \/ AwaitsPeer(d, s)
  PROVE  LifeTypeOK'
<1>1. UNCHANGED <<state, registered, peerEnabled, strand, seen, channel, deskChannel, phoneChannel,
                  connectedFlag, packages, events, linked, sessions, toggles, channels, late>>
  BY DEF AwaitsConnection, AwaitsPeer, module, channelVars, session
<1>2. enabling' \in [Devices -> [Slots -> Coroutines]]
  BY TypedLeaves DEF AwaitsConnection, AwaitsPeer
<1> QED
  BY <1>1, <1>2 DEF LifeTypeOK

LEMMA TypedDisablesItself ==
  ASSUME LifeTypeOK, NEW d \in Devices, DisablesItself(d)
  PROVE  /\ state' \in [Devices -> States] /\ peerEnabled' \in [Devices -> BOOLEAN]
         /\ ChannelsTyped' /\ PackagesTyped' /\ connectedFlag' \in BOOLEAN
<1>1. state' \in [Devices -> States]
  BY DEF DisablesItself, LifeTypeOK, States
<1> QED
  BY <1>1, TypedOnDisable DEF DisablesItself

LEMMA TypedSays ==
  ASSUME LifeTypeOK, NEW d \in Devices,
         NEW kind \in {"ENABLE", "DISABLE", "STATE_ON", "STATE_OFF", "PORT_INFO"},
         packages' = After(packages, d, {Package(d, kind, NoChannel)})
  PROVE  PackagesTyped'
<1>1. {Package(d, kind, NoChannel)} \subseteq Packages
  BY TypedPackage, NumbersAreNaturals
<1> QED
  BY <1>1, TypedPart, TypedAfter DEF PackagesTyped

LEMMA TypedFetches ==
  ASSUME LifeTypeOK, NEW s \in Slots, Fetches(s) PROVE LifeTypeOK'
<1>1. "desktop" \in Devices
  BY DEF Devices
<1>2. UNCHANGED <<strand, seen, events, linked, sessions, toggles, channels, late, registered>>
  BY DEF Fetches, session, module
<1>3. enabling' \in [Devices -> [Slots -> Coroutines]]
  BY <1>1, TypedLeaves DEF Fetches
<1>4. \/ /\ \/ UNCHANGED packages
            \/ packages' = After(packages, "desktop", {Package("desktop", "STATE_ON", NoChannel)})
         /\ UNCHANGED <<state, peerEnabled, channel, deskChannel, phoneChannel, connectedFlag>>
      \/ DisablesItself("desktop")
  BY DEF Fetches, module, channelVars
<1>5. /\ state' \in [Devices -> States] /\ peerEnabled' \in [Devices -> BOOLEAN]
      /\ ChannelsTyped' /\ PackagesTyped' /\ connectedFlag' \in BOOLEAN
  <2>1. CASE DisablesItself("desktop")
    BY <1>1, <2>1, TypedDisablesItself
  <2>2. CASE UNCHANGED <<state, peerEnabled, channel, deskChannel, phoneChannel, connectedFlag>>
    BY <1>1, <1>4, <2>1, <2>2, TypedSays, TypedPart DEF LifeTypeOK
  <2> QED
    BY <1>4, <2>1, <2>2
<1> QED
  BY <1>2, <1>3, <1>5 DEF LifeTypeOK, ChannelsTyped, PackagesTyped

LEMMA TypedPhoneSlot ==
  ASSUME LifeTypeOK, NEW s \in Slots, Answers(s) \/ AwaitsFlag(s) \/ FlagTimesOut(s) PROVE LifeTypeOK'
<1>1. "phone" \in Devices
  BY DEF Devices
<1>2. UNCHANGED <<strand, seen, events, linked, sessions, toggles, channels, late, registered>>
  BY DEF Answers, AwaitsFlag, FlagTimesOut, session, module
<1>3. enabling' \in [Devices -> [Slots -> Coroutines]]
  BY <1>1, TypedLeaves DEF Answers, AwaitsFlag, FlagTimesOut
<1>4. \/ /\ \/ UNCHANGED packages
            \/ packages' = After(packages, "phone", {Package("phone", "ENABLE", NoChannel)})
            \/ packages' = After(packages, "phone", {Package("phone", "STATE_ON", NoChannel)})
         /\ UNCHANGED <<state, peerEnabled, channel, deskChannel, phoneChannel>>
         /\ connectedFlag' \in {connectedFlag, FALSE}
      \/ DisablesItself("phone")
  BY DEF Answers, AwaitsFlag, FlagTimesOut, module, channelVars
<1>5. /\ state' \in [Devices -> States] /\ peerEnabled' \in [Devices -> BOOLEAN]
      /\ ChannelsTyped' /\ PackagesTyped' /\ connectedFlag' \in BOOLEAN
  <2>1. CASE DisablesItself("phone")
    BY <1>1, <2>1, TypedDisablesItself
  <2>2. CASE ~DisablesItself("phone")
    <3>1. PackagesTyped'
      BY <1>1, <1>4, <2>2, TypedSays, TypedPart
    <3> QED
      BY <1>4, <2>2, <3>1, TypedPart DEF LifeTypeOK
  <2> QED
    BY <2>1, <2>2
<1> QED
  BY <1>2, <1>3, <1>5 DEF LifeTypeOK, ChannelsTyped, PackagesTyped

LEMMA TypedBecomesEnabled ==
  ASSUME LifeTypeOK, NEW d \in Devices, NEW s \in Slots, BecomesEnabled(d, s) PROVE LifeTypeOK'
<1>1. enabling' \in [Devices -> [Slots -> Coroutines]]
  BY TypedLeaves DEF BecomesEnabled
<1>2. state' \in [Devices -> States] /\ late' \in BOOLEAN
  BY DEF BecomesEnabled, LifeTypeOK, States
<1> QED
  BY <1>1, <1>2 DEF BecomesEnabled, LifeTypeOK, channelVars, session

LEMMA TypedConnects ==
  ASSUME LifeTypeOK, NEW c \in Channels, ChannelConnects(c) PROVE LifeTypeOK'
<1>1. /\ deskChannel' \in [Channels -> {"none", "listening", "connected", "closed"}]
      /\ phoneChannel' \in [Channels -> {"none", "connecting", "connected", "closed"}]
      /\ connectedFlag' \in BOOLEAN
  BY DEF ChannelConnects, LifeTypeOK
<1> QED
  BY <1>1 DEF ChannelConnects, LifeTypeOK, module, work, session

LEMMA TypedReceives ==
  ASSUME LifeTypeOK, NEW p \in BagToSet(packages), Receives(p) PROVE LifeTypeOK'
<1> DEFINE rest == packages (-) Bagged({p})
           d == p.to
<1>1. p \in Packages /\ d \in Devices
  BY DEF LifeTypeOK, Packages
<1>2. IsABag(rest) /\ BagToSet(rest) \subseteq Packages
  BY RestBag DEF LifeTypeOK
<1>3. UNCHANGED <<state, registered, seen, enabling, deskChannel, connectedFlag,
                  events, linked, sessions, toggles, channels, late>>
  BY DEF Receives, session
<1>4. \/ Handles(d, p, rest)
      \/ packages' = rest /\ UNCHANGED <<peerEnabled, strand, channel, phoneChannel>>
  BY DEF Receives
<1> HIDE DEF rest
<1>5. PackagesTyped'
  <2>1. {Package(d, "STATE_ON", NoChannel)} \subseteq Packages /\ {Package(d, "STATE_OFF", NoChannel)} \subseteq Packages
    BY <1>1, TypedPackage, NumbersAreNaturals
  <2>2. \/ packages' = rest
        \/ packages' = After(rest, d, {Package(d, "STATE_ON", NoChannel)})
        \/ packages' = After(rest, d, {Package(d, "STATE_OFF", NoChannel)})
    BY <1>4 DEF Handles
  <2> HIDE DEF d
  <2>3. packages' = rest => PackagesTyped'
    BY <1>2 DEF PackagesTyped
  <2> QED
    BY <1>2, <2>1, <2>2, <2>3, TypedAfter
<1>6. strand' \in [Devices -> Seq(Operations)]
  <2>1. UNCHANGED strand \/ strand' = Posts(d, "enable", "nothing") \/ strand' = Posts(d, "disable", "nothing")
    BY <1>4 DEF Handles
  <2> HIDE DEF d
  <2>2. "nothing" \in States \cup {"nothing"}
    OBVIOUS
  <2>3. /\ Posts(d, "enable", "nothing") \in [Devices -> Seq(Operations)]
        /\ Posts(d, "disable", "nothing") \in [Devices -> Seq(Operations)]
    BY <1>1, <2>2, TypedPosts
  <2>4. strand \in [Devices -> Seq(Operations)]
    BY DEF LifeTypeOK
  <2> QED
    BY <2>1, <2>3, <2>4
<1>7. peerEnabled' \in [Devices -> BOOLEAN]
  BY <1>4 DEF Handles, LifeTypeOK
<1>8. channel' \in [Devices -> 0 .. MaxChannels]
  BY <1>1, <1>4 DEF Handles, LifeTypeOK, Packages
<1>9. phoneChannel' \in [Channels -> {"none", "connecting", "connected", "closed"}]
  BY <1>4 DEF Handles, LifeTypeOK
<1> QED
  BY <1>3, <1>5, <1>6, <1>7, <1>8, <1>9 DEF LifeTypeOK, PackagesTyped

LEMMA TypedToggle ==
  ASSUME LifeTypeOK, NEW d \in Devices, Toggle(d) PROVE LifeTypeOK'
<1>1. strand' \in [Devices -> Seq(Operations)]
  BY TypedPosts DEF Toggle
<1>2. toggles' \in 0 .. MaxToggles
  BY NumbersAreNaturals DEF Toggle, LifeTypeOK
<1> QED
  BY <1>1, <1>2 DEF Toggle, LifeTypeOK, module, channelVars, session

LEMMA TypedLink ==
  ASSUME LifeTypeOK, LinkBegins \/ LinkEnds PROVE LifeTypeOK'
<1>1. events' \in [Devices -> Seq({"connected", "disconnected"})]
  <2>1. \A d \in Devices : events[d] \in Seq({"connected", "disconnected"})
    BY DEF LifeTypeOK
  <2>2. \A d \in Devices : /\ Append(events[d], "connected") \in Seq({"connected", "disconnected"})
                           /\ Append(events[d], "disconnected") \in Seq({"connected", "disconnected"})
    BY <2>1, AppendProperties
  <2>3. \/ events' = [d \in Devices |-> Append(events[d], "connected")]
        \/ events' = [d \in Devices |-> Append(events[d], "disconnected")]
    BY DEF LinkBegins, LinkEnds, Tells
  <2> QED
    BY <2>2, <2>3
<1>2. sessions' \in 0 .. MaxLinks /\ linked' \in BOOLEAN
  <2>1. sessions \in 0 .. MaxLinks /\ MaxLinks \in Nat
    BY NumbersAreNaturals DEF LifeTypeOK
  <2>2. sessions' = sessions \/ (sessions < MaxLinks /\ sessions' = sessions + 1)
    BY DEF LinkBegins, LinkEnds
  <2>3. linked' \in BOOLEAN
    BY DEF LinkBegins, LinkEnds
  <2> QED
    BY <2>1, <2>2, <2>3
<1>3. PackagesTyped'
  <2>1. IsABag(EmptyBag) /\ BagToSet(EmptyBag) = {}
    BY DEF IsABag, EmptyBag, SetToBag, BagToSet
  <2> QED
    BY <2>1, TypedPart DEF LinkBegins, LinkEnds, PackagesTyped
<1> QED
  BY <1>1, <1>2, <1>3 DEF LinkBegins, LinkEnds, LifeTypeOK, PackagesTyped, module, work, channelVars

LEMMA TypedQtEvent ==
  ASSUME LifeTypeOK, NEW d \in Devices, QtEvent(d) PROVE LifeTypeOK'
<1>1. events' \in [Devices -> Seq({"connected", "disconnected"})]
  <2>1. events[d] \in Seq({"connected", "disconnected"}) /\ events[d] # <<>>
    BY DEF LifeTypeOK, QtEvent
  <2>2. Tail(events[d]) \in Seq({"connected", "disconnected"})
    BY <2>1, HeadTailProperties
  <2> QED
    BY <2>2 DEF QtEvent, LifeTypeOK
<1>2. /\ state' \in [Devices -> States] /\ registered' \in [Devices -> BOOLEAN]
  BY DEF QtEvent, QtShutdown, QtInitialize, LifeTypeOK, States
<1>3. strand' \in [Devices -> Seq(Operations)]
  <2>1. state[d] \in States \cup {"nothing"}
    BY DEF LifeTypeOK
  <2>2. UNCHANGED strand \/ strand' = Posts(d, "shutdown", state[d])
    BY DEF QtEvent, QtShutdown, QtInitialize
  <2>3. Posts(d, "shutdown", state[d]) \in [Devices -> Seq(Operations)]
    BY <2>1, TypedPosts
  <2>4. strand \in [Devices -> Seq(Operations)]
    BY DEF LifeTypeOK
  <2> QED
    BY <2>2, <2>3, <2>4
<1> QED
  BY <1>1, <1>2, <1>3 DEF QtEvent, LifeTypeOK, channelVars

LEMMA TypedStep == LifeTypeOK /\ [LifeNext]_lifeVars => LifeTypeOK'
<1> SUFFICES ASSUME LifeTypeOK, [LifeNext]_lifeVars PROVE LifeTypeOK'
  OBVIOUS
<1>1. CASE UNCHANGED lifeVars
  BY <1>1 DEF LifeTypeOK, lifeVars, module, work, channelVars, session
<1>2. CASE LifeNext
  <2>1. ASSUME NEW s \in Slots PROVE AwaitsConnection(s) => LifeTypeOK'
    BY TypedAwaits DEF Devices
  <2> HIDE DEF LifeTypeOK, LifeNext
  <2> QED
    BY <1>2, <2>1, TypedReadsState, TypedRunEnable, TypedRunDisable, TypedRunShutdown, TypedToggle,
       TypedQtEvent, TypedTellsPort, TypedFetches, TypedPhoneSlot, TypedAwaits, TypedBecomesEnabled,
       TypedConnects, TypedReceives, TypedLink
    DEF LifeNext, Strand, OnEnable
<1> QED
  BY <1>1, <1>2

-------------------------------------------------------------------------------
(* What holds between the steps, as long as no coroutine has changed a module that was shut *)
(* down meanwhile.                                                                           *)

Busy(d, s) == enabling[d][s].at # "idle"
Free(d)    == \A s \in Slots : ~Busy(d, s)
Fresh(d)   == Free(d) /\ channel[d] = NoChannel /\ strand[d] = <<>>

(* Only the desktop tells a port. *)
PackagesHold ==
  \A p \in BagToSet(packages) : p.kind = "PORT_INFO" => p.to = "phone" /\ p.number \in Channels

(* A module is Uninitialized from the end of a session to the next one, as its device's Qt *)
(* thread knows of them, and the coroutine of its shutdown has run before the next one.     *)
EventsHold ==
  \A d \in Devices :
    \/ events[d] = <<>> /\ ~linked /\ state[d] = "Uninitialized"
    \/ events[d] = <<>> /\ linked /\ state[d] # "Uninitialized" /\ ~Has(strand[d], "shutdown")
    \/ events[d] = <<"connected">> /\ linked /\ state[d] = "Uninitialized" /\ Fresh(d)
    \/ events[d] = <<"disconnected">> /\ ~linked /\ state[d] # "Uninitialized" /\ ~Has(strand[d], "shutdown")
    \/ events[d] = <<"connected", "disconnected">> /\ ~linked /\ state[d] = "Uninitialized" /\ Fresh(d)

RegisteredHolds == \A d \in Devices : registered[d] <=> state[d] # "Uninitialized"

(* A module that was shut down has its channel until its strand takes it. *)
ChannelHolds ==
  \A d \in Devices :
    channel[d] # NoChannel /\ state[d] = "Uninitialized" => Has(strand[d], "shutdown")

(* The request to enable the modules is in one place at a time: an ENABLE under way, an *)
(* operation posted to a strand, or the phone's dialog.                                 *)
Requests  == {p \in BagToSet(packages) : p.kind = "ENABLE"}
Dialog(s) == enabling["phone"][s].at = "dialog"
NotPosted == \A d \in Devices : ~Has(strand[d], "enable")
NotAsked  == Requests = {} /\ NotPosted /\ \A s \in Slots : ~Dialog(s)

OneAsk  == \A p, q \in Requests : p = q /\ packages[p] = 1
OnePost == /\ \A d \in Devices : Once(strand[d], "enable")
           /\ \A d, e \in Devices : Has(strand[d], "enable") /\ Has(strand[e], "enable") => d = e
OneRequest ==
  /\ OneAsk /\ OnePost
  /\ Requests # {} => NotPosted
  /\ \A s \in Slots : Dialog(s) => Requests = {} /\ NotPosted

(* It is not under way while the modules are being disabled, nor when an OnEnable of a     *)
(* module that is already disabled is.                                                      *)
Disables == \E p \in BagToSet(packages) : p.kind = "DISABLE"
DisablingHolds ==
  /\ \A d \in Devices : Has(strand[d], "disable") => NotAsked
  /\ Disables => NotAsked
SlotsHold ==
  \A d \in Devices :
    /\ \A s, t \in Slots : Busy(d, s) /\ Busy(d, t) => s = t
    /\ ~Free(d) /\ state[d] = "Disabled" => NotAsked

(* The desktop's OnEnable works on the channel that m_channel names, unless it was disabled. *)
DesktopHolds ==
  \A s \in Slots : Busy("desktop", s) =>
    /\ enabling["desktop"][s].channel \in 1 .. channels
    /\ enabling["desktop"][s].at = "listen" => deskChannel[enabling["desktop"][s].channel] = "none"
    /\ state["desktop"] \in {"Enabling", "Enabled"} =>
         /\ channel["desktop"] = enabling["desktop"][s].channel
         /\ enabling["desktop"][s].at \in {"peer", "fetch"} =>
              deskChannel[enabling["desktop"][s].channel] = "connected"

(* An end is connected only while m_channel names it. *)
Told(c) == \E p \in BagToSet(packages) : p.kind = "PORT_INFO" /\ p.number = c
EndHolds(c) ==
  /\ c > channels => deskChannel[c] = "none"
  /\ deskChannel[c] = "connected" => channel["desktop"] = c
  /\ deskChannel[c] = "listening" /\ (Told(c) \/ phoneChannel[c] = "connecting") => channel["desktop"] = c
  /\ Told(c) \/ phoneChannel[c] # "none" => deskChannel[c] # "none"
  /\ phoneChannel[c] = "connected" => channel["phone"] = c
ChannelEndsHold == \A c \in Channels : EndHolds(c)

Good == /\ PackagesHold /\ EventsHold /\ RegisteredHolds /\ ChannelHolds /\ OneRequest
        /\ DisablingHolds /\ SlotsHold /\ DesktopHolds /\ ChannelEndsHold

LifeIInv == LifeTypeOK /\ (~late => Good)

-------------------------------------------------------------------------------
(* What the pieces of a step do to the parts of the invariant. *)

LEMMA RunsFacts ==
  ASSUME LifeTypeOK, NEW d \in Devices, NEW op, Runs(d, op)
  PROVE  /\ strand[d] # <<>> /\ Has(strand[d], op)
         /\ \A e \in Devices : e # d => strand'[e] = strand[e]
         /\ \A e \in Devices : \A o : Has(strand'[e], o) => Has(strand[e], o)
         /\ \A e \in Devices : \A o : (e # d \/ o # op) /\ Has(strand[e], o) => Has(strand'[e], o)
         /\ \A e \in Devices : \A o : Once(strand[e], o) => Once(strand'[e], o)
         /\ Once(strand[d], op) => ~Has(strand'[d], op)
         /\ \A e \in Devices : strand[e] = <<>> => strand'[e] = strand[e]
<1>1. /\ strand[d] \in Seq(Operations) /\ strand[d] # <<>> /\ Head(strand[d]).op = op
      /\ \A e \in Devices : strand'[e] = IF e = d THEN Tail(strand[d]) ELSE strand[e]
  BY DEF Runs, LifeTypeOK
<1>2. /\ Has(strand[d], op)
      /\ \A o : Has(Tail(strand[d]), o) => Has(strand[d], o)
      /\ \A o : o # op /\ Has(strand[d], o) => Has(Tail(strand[d]), o)
      /\ \A o : Once(strand[d], o) => Once(Tail(strand[d]), o)
      /\ Once(strand[d], op) => ~Has(Tail(strand[d]), op)
  BY <1>1, PopOps
<1> QED
  BY <1>1, <1>2

LEMMA PostsFacts ==
  ASSUME LifeTypeOK, NEW d \in Devices, NEW op \in {"enable", "disable", "shutdown"},
         NEW was \in States \cup {"nothing"}, strand' = Posts(d, op, was)
  PROVE  /\ \A e \in Devices : \A o : Has(strand'[e], o) <=> (Has(strand[e], o) \/ (e = d /\ o = op))
         /\ \A e \in Devices : \A o : Once(strand[e], o) /\ (e = d /\ o = op => ~Has(strand[e], o))
                                        => Once(strand'[e], o)
         /\ \A e \in Devices : e # d => strand'[e] = strand[e]
<1> DEFINE x == [op |-> op, was |-> was]
<1>1. x \in Operations /\ x.op = op
  BY TypedPosts
<1>2. /\ strand[d] \in Seq(Operations)
      /\ \A e \in Devices : strand'[e] = IF e = d THEN Append(strand[d], x) ELSE strand[e]
  BY DEF Posts, LifeTypeOK
<1> HIDE DEF x
<1>3. /\ \A o : Has(Append(strand[d], x), o) <=> Has(strand[d], o) \/ o = op
      /\ \A o : Once(strand[d], o) /\ (o = op => ~Has(strand[d], o)) => Once(Append(strand[d], x), o)
  BY <1>1, <1>2, PostOps
<1> QED
  BY <1>2, <1>3

LEMMA HasNothing == \A o : ~Has(<<>>, o)
BY DEF Has

(* Sending packages that do not ask to enable. *)
LEMMA SendFacts ==
  ASSUME NEW bag, IsABag(bag), NEW d, NEW ps, packages' = After(bag, d, ps),
         \A x \in ps : x.kind # "ENABLE"
  PROVE  /\ Requests' = {p \in BagToSet(bag) : p.kind = "ENABLE"}
         /\ \A p \in Requests' : packages'[p] = bag[p]
<1>1. /\ BagToSet(bag) \subseteq BagToSet(packages')
      /\ BagToSet(packages') \subseteq BagToSet(bag) \cup ps
      /\ \A x \in BagToSet(bag) \ ps : packages'[x] = bag[x]
  BY AfterBag
<1>2. Requests' = {p \in BagToSet(packages') : p.kind = "ENABLE"}
  BY DEF Requests
<1> QED
  BY <1>1, <1>2

(* Sending one that does. *)
LEMMA AskFacts ==
  ASSUME LifeTypeOK, NEW d \in Devices, packages' = After(packages, d, {Package(d, "ENABLE", NoChannel)}),
         Requests = {}
  PROVE  OneAsk' /\ (Disables' => Disables) /\ \A c : Told(c)' => Told(c)
<1>1. /\ BagToSet(packages') \subseteq BagToSet(packages) \cup {Package(d, "ENABLE", NoChannel)}
      /\ \A x \in BagToSet(packages') \ BagToSet(packages) : packages'[x] = 1
  BY AfterBag DEF LifeTypeOK
<1>2. Package(d, "ENABLE", NoChannel).kind = "ENABLE"
  BY DEF Package
<1>3. \A x \in BagToSet(packages) : x.kind # "ENABLE"
  BY DEF Requests
<1>4. \A x \in Requests' : x = Package(d, "ENABLE", NoChannel) /\ x \notin BagToSet(packages) /\ x \in BagToSet(packages')
  BY <1>1, <1>2, <1>3 DEF Requests
<1>5. OneAsk'
  BY <1>1, <1>4 DEF OneAsk
<1> QED
  BY <1>1, <1>2, <1>5 DEF Disables, Told

(* The moves of an OnEnable. *)
LEMMA SlotFacts ==
  ASSUME LifeTypeOK, NEW d \in Devices, NEW s \in Slots,
         NEW at \in {"idle", "store", "accept", "peer", "fetch", "flag"},
         Leaves(d, s) \/ Returns(d, s) \/ Goes(d, s, at), Busy(d, s)
  PROVE  /\ \A e \in Devices, t \in Slots : (e # d \/ t # s) => enabling'[e][t] = enabling[e][t]
         /\ enabling'[d][s].at = "idle" \/ enabling'[d][s].channel = enabling[d][s].channel
         /\ enabling'[d][s].at \in {"idle", "store", at}
         /\ \A e \in Devices, t \in Slots : Busy(e, t)' => Busy(e, t)
         /\ \A e \in Devices : Free(e) => Free(e)'
         /\ \A t \in Slots : Dialog(t)' => Dialog(t)
         /\ Leaves(d, s) => ~Busy(d, s)'
<1>1. enabling[d] \in [Slots -> Coroutines] /\ enabling[d][s] \in Coroutines
  BY DEF LifeTypeOK
<1>2. CASE Leaves(d, s)
  BY <1>1, <1>2 DEF Leaves, Idle, Busy, Free, Dialog, LifeTypeOK
<1>3. ASSUME NEW a \in {"idle", "store", "accept", "peer", "fetch", "flag"}, Goes(d, s, a), a \in {"store", at}
      PROVE  /\ \A e \in Devices, t \in Slots : (e # d \/ t # s) => enabling'[e][t] = enabling[e][t]
             /\ enabling'[d][s].channel = enabling[d][s].channel
             /\ enabling'[d][s].at = a
  <2>1. enabling' = [enabling EXCEPT ![d] = [enabling[d] EXCEPT ![s] = [enabling[d][s] EXCEPT !.at = a]]]
    BY <1>3 DEF Goes
  <2>2. enabling'[d][s] = [enabling[d][s] EXCEPT !.at = a]
    BY <1>1, <2>1 DEF LifeTypeOK
  <2>3. enabling'[d][s].channel = enabling[d][s].channel /\ enabling'[d][s].at = a
    BY <1>1, <2>2 DEF Coroutines
  <2> QED
    BY <1>1, <2>1, <2>3 DEF LifeTypeOK
<1>4. ASSUME NEW a \in {"idle", "store", "accept", "peer", "fetch", "flag"}, Goes(d, s, a), a \in {"store", at}
      PROVE  /\ \A e \in Devices, t \in Slots : Busy(e, t)' => Busy(e, t)
             /\ \A e \in Devices : Free(e) => Free(e)'
             /\ \A t \in Slots : Dialog(t)' => Dialog(t)
  BY <1>3, <1>4 DEF Busy, Free, Dialog, Devices
<1>5. Leaves(d, s) \/ (Goes(d, s, "store") /\ ~Leaves(d, s)) \/ (Goes(d, s, at) /\ ~Leaves(d, s))
  BY DEF Returns
<1> QED
  BY <1>2, <1>3, <1>4, <1>5

(* Dropping a channel. *)
LEMMA DropFacts ==
  ASSUME LifeTypeOK, NEW d \in Devices, DropsChannel(d)
  PROVE  /\ \A e \in Devices : channel'[e] = IF e = d THEN NoChannel ELSE channel[e]
         /\ d = "phone" => deskChannel' = deskChannel
         /\ d = "desktop" => phoneChannel' = phoneChannel
         /\ \A c \in Channels :
              /\ deskChannel'[c] = "none" <=> deskChannel[c] = "none"
              /\ phoneChannel'[c] = "none" <=> phoneChannel[c] = "none"
              /\ deskChannel'[c] \in {deskChannel[c], "closed"}
              /\ phoneChannel'[c] \in {phoneChannel[c], "closed"}
              /\ d = "desktop" /\ channel[d] = c => deskChannel'[c] \in {"none", "closed"}
              /\ d = "phone" /\ channel[d] = c => phoneChannel'[c] \in {"none", "closed"}
<1>1. \A e \in Devices : channel'[e] = IF e = d THEN NoChannel ELSE channel[e]
  BY DEF DropsChannel, LifeTypeOK
<1>2. CASE channel[d] = NoChannel
  BY <1>1, <1>2 DEF DropsChannel, NoChannel, Channels
<1>3. CASE channel[d] # NoChannel
  <2>1. channel[d] \in Channels
    BY <1>3, NumbersAreNaturals DEF LifeTypeOK, NoChannel, Channels
  <2>2. CASE d = "desktop"
    BY <1>1, <1>3, <2>1, <2>2 DEF DropsChannel, LifeTypeOK
  <2>3. CASE d = "phone"
    BY <1>1, <1>3, <2>1, <2>3 DEF DropsChannel, LifeTypeOK
  <2> QED
    BY <2>2, <2>3 DEF Devices
<1> QED
  BY <1>2, <1>3

LEMMA EventsFrame ==
  ASSUME EventsHold, UNCHANGED <<events, linked>>,
         \A d \in Devices : state'[d] = "Uninitialized" <=> state[d] = "Uninitialized",
         \A d \in Devices : Has(strand'[d], "shutdown") => Has(strand[d], "shutdown"),
         \A d \in Devices : state[d] = "Uninitialized" /\ Fresh(d) => Fresh(d)'
  PROVE  EventsHold'
<1> SUFFICES ASSUME NEW d \in Devices
             PROVE
    \/ events[d] = <<>> /\ ~linked /\ state'[d] = "Uninitialized"
    \/ events[d] = <<>> /\ linked /\ state'[d] # "Uninitialized" /\ ~Has(strand'[d], "shutdown")
    \/ events[d] = <<"connected">> /\ linked /\ state'[d] = "Uninitialized" /\ Fresh(d)'
    \/ events[d] = <<"disconnected">> /\ ~linked /\ state'[d] # "Uninitialized" /\ ~Has(strand'[d], "shutdown")
    \/ events[d] = <<"connected", "disconnected">> /\ ~linked /\ state'[d] = "Uninitialized" /\ Fresh(d)'
  BY DEF EventsHold
<1> QED
  BY DEF EventsHold

LEMMA RegisteredFrame ==
  ASSUME RegisteredHolds,
         \A d \in Devices : registered'[d] = registered[d],
         \A d \in Devices : state'[d] = "Uninitialized" <=> state[d] = "Uninitialized"
  PROVE  RegisteredHolds'
BY DEF RegisteredHolds

LEMMA ChannelFrame ==
  ASSUME ChannelHolds,
         \A d \in Devices : state'[d] = "Uninitialized" /\ channel'[d] # NoChannel =>
                              /\ state[d] = "Uninitialized" /\ channel[d] # NoChannel
                              /\ Has(strand[d], "shutdown") => Has(strand'[d], "shutdown")
  PROVE  ChannelHolds'
BY DEF ChannelHolds

(* The request does not move: nothing is added to where it may be. *)
Stays == /\ Requests' \subseteq Requests /\ \A p \in Requests' : packages'[p] = packages[p]
         /\ \A d \in Devices : Has(strand'[d], "enable") => Has(strand[d], "enable")
         /\ \A d \in Devices : Once(strand[d], "enable") => Once(strand'[d], "enable")
         /\ \A s \in Slots : Dialog(s)' => Dialog(s)

LEMMA RequestFrame ==
  ASSUME OneRequest, Stays
  PROVE  OneRequest' /\ (NotAsked => NotAsked')
<1>1. NotPosted => NotPosted'
  BY DEF Stays, NotPosted
<1>2. Requests = {} => Requests' = {}
  BY DEF Stays
<1>3. OneAsk'
  BY DEF Stays, OneRequest, OneAsk
<1>4. OnePost'
  BY DEF Stays, OneRequest, OnePost
<1>5. Requests' # {} => NotPosted'
  BY <1>1, <1>2 DEF OneRequest
<1>6. \A s \in Slots : Dialog(s)' => Requests' = {} /\ NotPosted'
  BY <1>1, <1>2 DEF OneRequest, Stays
<1>7. NotAsked => NotAsked'
  BY <1>1, <1>2 DEF NotAsked, Stays
<1> QED
  BY <1>3, <1>4, <1>5, <1>6, <1>7 DEF OneRequest

LEMMA DisablingFrame ==
  ASSUME DisablingHolds, NotAsked => NotAsked',
         \A d \in Devices : Has(strand'[d], "disable") => Has(strand[d], "disable") \/ NotAsked',
         Disables' => Disables \/ NotAsked'
  PROVE  DisablingHolds'
BY DEF DisablingHolds

LEMMA SlotsFrame ==
  ASSUME SlotsHold, NotAsked => NotAsked',
         \A d \in Devices, s \in Slots : Busy(d, s)' => Busy(d, s),
         \A d \in Devices : state'[d] = "Disabled" => state[d] = "Disabled" \/ Free(d)' \/ NotAsked'
  PROVE  SlotsHold'
<1>1. \A d \in Devices : Free(d) => Free(d)'
  BY DEF Free
<1>2. ASSUME NEW d \in Devices PROVE \A s, t \in Slots : Busy(d, s)' /\ Busy(d, t)' => s = t
  BY DEF SlotsHold
<1>3. ASSUME NEW d \in Devices PROVE ~Free(d)' /\ state'[d] = "Disabled" => NotAsked'
  BY <1>1 DEF SlotsHold
<1> QED
  BY <1>2, <1>3 DEF SlotsHold

LEMMA DesktopFrame ==
  ASSUME DesktopHolds,
         UNCHANGED channels,
         \A s \in Slots : Busy("desktop", s)' => enabling'["desktop"][s] = enabling["desktop"][s],
         \A s \in Slots : Busy("desktop", s)' => LET c == enabling["desktop"][s].channel IN
            /\ deskChannel[c] = "none" => deskChannel'[c] = "none"
            /\ state'["desktop"] \in {"Enabling", "Enabled"} =>
                  /\ state["desktop"] \in {"Enabling", "Enabled"}
                  /\ channel'["desktop"] = channel["desktop"]
                  /\ deskChannel[c] = "connected" => deskChannel'[c] = "connected"
  PROVE  DesktopHolds'
BY DEF DesktopHolds, Busy

LEMMA EndsFrame ==
  ASSUME ChannelEndsHold, UNCHANGED <<channel, deskChannel, phoneChannel, channels>>,
         \A c \in Channels : Told(c)' => Told(c)
  PROVE  ChannelEndsHold'
<1>1. ASSUME NEW c \in Channels PROVE EndHolds(c)'
  <2>1. EndHolds(c)
    BY DEF ChannelEndsHold
  <2> QED
    BY <2>1 DEF EndHolds
<1> QED
  BY <1>1 DEF ChannelEndsHold

LEMMA EndsDrop ==
  ASSUME LifeTypeOK, ChannelEndsHold, NEW d \in Devices, DropsChannel(d), UNCHANGED channels,
         \A c \in Channels : Told(c)' => Told(c)
  PROVE  ChannelEndsHold'
<1>1. ASSUME NEW c \in Channels PROVE EndHolds(c)'
  <2>1. EndHolds(c)
    BY DEF ChannelEndsHold
  <2>2. channel'["desktop"] = IF "desktop" = d THEN NoChannel ELSE channel["desktop"]
    BY DropFacts DEF Devices
  <2>3. channel'["phone"] = IF "phone" = d THEN NoChannel ELSE channel["phone"]
    BY DropFacts DEF Devices
  <2>4. c # NoChannel
    BY DEF Channels, NoChannel
  <2>5. CASE d = "desktop"
    <3>1. phoneChannel' = phoneChannel
      BY <2>5, DropFacts
    <3>2. /\ deskChannel'[c] = "none" <=> deskChannel[c] = "none"
          /\ deskChannel'[c] \in {deskChannel[c], "closed"}
          /\ channel["desktop"] = c => deskChannel'[c] \in {"none", "closed"}
      BY <2>5, DropFacts
    <3> QED
      BY <2>1, <2>2, <2>3, <2>5, <3>1, <3>2 DEF EndHolds
  <2>6. CASE d = "phone"
    <3>1. deskChannel' = deskChannel
      BY <2>6, DropFacts
    <3>2. /\ phoneChannel'[c] = "none" <=> phoneChannel[c] = "none"
          /\ phoneChannel'[c] \in {phoneChannel[c], "closed"}
          /\ channel["phone"] = c => phoneChannel'[c] \in {"none", "closed"}
      BY <2>6, DropFacts
    <3> QED
      BY <2>1, <2>2, <2>3, <2>6, <3>1, <3>2 DEF EndHolds
  <2> QED
    BY <2>5, <2>6 DEF Devices
<1> QED
  BY <1>1 DEF ChannelEndsHold

LEMMA DesktopDrop ==
  ASSUME LifeTypeOK, DesktopHolds, NEW d \in Devices, DropsChannel(d), UNCHANGED channels,
         \A s \in Slots : Busy("desktop", s)' => enabling'["desktop"][s] = enabling["desktop"][s],
         d = "desktop" => state'["desktop"] \notin {"Enabling", "Enabled"},
         d # "desktop" => state'["desktop"] = state["desktop"]
  PROVE  DesktopHolds'
<1>1. ASSUME NEW s \in Slots, Busy("desktop", s)'
      PROVE  LET c == enabling["desktop"][s].channel IN
        /\ deskChannel[c] = "none" => deskChannel'[c] = "none"
        /\ state'["desktop"] \in {"Enabling", "Enabled"} =>
              /\ state["desktop"] \in {"Enabling", "Enabled"}
              /\ channel'["desktop"] = channel["desktop"]
              /\ deskChannel[c] = "connected" => deskChannel'[c] = "connected"
  <2> DEFINE c == enabling["desktop"][s].channel
  <2>1. Busy("desktop", s)
    BY <1>1 DEF Busy
  <2>2. c \in 1 .. channels
    BY <2>1 DEF DesktopHolds
  <2>3. c \in Channels
    BY <2>2, NumbersAreNaturals DEF LifeTypeOK, Channels
  <2> HIDE DEF c
  <2>4. deskChannel[c] = "none" => deskChannel'[c] = "none"
    BY <2>3, DropFacts
  <2>5. d # "desktop" => deskChannel' = deskChannel
    BY DropFacts DEF Devices
  <2>6. d # "desktop" => channel'["desktop"] = channel["desktop"]
    BY DropFacts DEF Devices
  <2> QED
    BY <2>4, <2>5, <2>6 DEF c
<1> QED
  BY <1>1, DesktopFrame

LEMMA PackagesFrame ==
  ASSUME PackagesHold, \A p \in BagToSet(packages') : p.kind = "PORT_INFO" => p \in BagToSet(packages)
  PROVE  PackagesHold' /\ \A c \in Channels : Told(c)' => Told(c)
BY DEF PackagesHold, Told

-------------------------------------------------------------------------------
(* The steps of a strand. *)

LEMMA GoodUnchanged ==
  ASSUME Good, UNCHANGED <<state, registered, strand, enabling, channel, deskChannel, phoneChannel,
                           packages, events, linked, channels>>
  PROVE  Good'
<1>1. PackagesHold' /\ EventsHold' /\ RegisteredHolds' /\ ChannelHolds'
  BY DEF Good, PackagesHold, EventsHold, RegisteredHolds, ChannelHolds, Fresh, Free, Busy
<1>2. Requests' = Requests /\ NotPosted' = NotPosted /\ NotAsked' = NotAsked /\ Disables' = Disables
  BY DEF Requests, NotPosted, NotAsked, Disables, Dialog
<1>3. OneRequest' /\ DisablingHolds'
  BY <1>2 DEF Good, OneRequest, DisablingHolds, OneAsk, OnePost, Dialog
<1>4. SlotsHold' /\ DesktopHolds'
  BY <1>2 DEF Good, SlotsHold, DesktopHolds, Busy, Free
<1>5. ChannelEndsHold'
  BY DEF Good, ChannelEndsHold, EndHolds, Told
<1> QED
  BY <1>1, <1>3, <1>4, <1>5 DEF Good

(* Running an operation that changes nothing else. *)
LEMMA GoodPops ==
  ASSUME LifeTypeOK, Good, NEW d \in Devices, NEW op \in {"enable", "disable"}, Runs(d, op),
         UNCHANGED <<state, registered, enabling, channel, deskChannel, phoneChannel,
                     packages, events, linked, channels>>
  PROVE  Good'
<1>1. PackagesHold' /\ \A c \in Channels : Told(c)' => Told(c)
  BY PackagesFrame DEF Good
<1>2. EventsHold'
  <2>1. \A e \in Devices : Fresh(e) => Fresh(e)'
    BY RunsFacts DEF Fresh, Free, Busy
  <2> QED
    BY <2>1, RunsFacts, EventsFrame DEF Good
<1>3. RegisteredHolds'
  BY RegisteredFrame DEF Good
<1>4. ChannelHolds'
  <2>1. \A e \in Devices : Has(strand[e], "shutdown") => Has(strand'[e], "shutdown")
    BY RunsFacts
  <2> QED
    BY <2>1, ChannelFrame DEF Good
<1>5. Stays
  <2>1. Requests' = Requests /\ \A s \in Slots : Dialog(s)' = Dialog(s)
    BY DEF Requests, Dialog
  <2> QED
    BY <2>1, RunsFacts DEF Stays
<1>6. OneRequest' /\ (NotAsked => NotAsked')
  BY <1>5, RequestFrame DEF Good
<1>7. DisablingHolds'
  <2>1. Disables' = Disables /\ \A e \in Devices : Has(strand'[e], "disable") => Has(strand[e], "disable")
    BY RunsFacts DEF Disables
  <2> QED
    BY <1>6, <2>1, DisablingFrame DEF Good
<1>8. SlotsHold'
  <2>1. \A e \in Devices, s \in Slots : Busy(e, s)' => Busy(e, s)
    BY DEF Busy
  <2> QED
    BY <1>6, <2>1, SlotsFrame DEF Good
<1>9. DesktopHolds'
  BY DesktopFrame DEF Good
<1>10. ChannelEndsHold'
  BY <1>1, EndsFrame DEF Good
<1> QED
  BY <1>1, <1>2, <1>3, <1>4, <1>6, <1>7, <1>8, <1>9, <1>10 DEF Good

(* OnDisable, by whoever: the request to enable is not under way, or the link is down. *)
LEMMA GoodOnDisable ==
  ASSUME LifeTypeOK, Good, NEW d \in Devices, OnDisable(d, packages)
  PROVE  /\ PackagesHold' /\ \A c \in Channels : Told(c)' => Told(c)
         /\ Requests' = Requests /\ \A p \in Requests' : packages'[p] = packages[p]
         /\ ~linked => Disables' = Disables
         /\ UNCHANGED channels => ChannelEndsHold'
         /\ DropsChannel(d)
<1> DEFINE off == {Package(d, "STATE_OFF", NoChannel), Package(d, "DISABLE", NoChannel)}
<1>1. packages' = After(packages, d, off) /\ DropsChannel(d)
  BY DEF OnDisable
<1>2. \A x \in off : x.kind \in {"STATE_OFF", "DISABLE"}
  BY DEF Package
<1> HIDE DEF off
<1>3. IsABag(packages)
  BY DEF LifeTypeOK
<1>4. BagToSet(packages') \subseteq BagToSet(packages) \cup off /\ (~linked => packages' = packages)
  BY <1>1, <1>3, AfterBag
<1>5. \A p \in BagToSet(packages') : p.kind = "PORT_INFO" => p \in BagToSet(packages)
  BY <1>2, <1>4
<1>6. PackagesHold' /\ \A c \in Channels : Told(c)' => Told(c)
  BY <1>5, PackagesFrame DEF Good
<1>7. Requests' = Requests /\ \A p \in Requests' : packages'[p] = packages[p]
  BY <1>1, <1>2, <1>3, SendFacts DEF Requests
<1>8. ~linked => Disables' = Disables
  BY <1>4 DEF Disables
<1>9. UNCHANGED channels => ChannelEndsHold'
  BY <1>1, <1>6, EndsDrop DEF Good
<1> QED
  BY <1>1, <1>6, <1>7, <1>8, <1>9

LEMMA GoodRunDisable ==
  ASSUME LifeTypeOK, Good, NEW d \in Devices, RunDisable(d), ~late'
  PROVE  Good'
<1>1. Runs(d, "disable") /\ UNCHANGED <<registered, enabling, events, linked, channels>>
  BY DEF RunDisable, session
<1>2. CASE Saw(d) \notin {"Enabled", "Enabling"}
  BY <1>1, <1>2, GoodPops DEF RunDisable, channelVars
<1>3. CASE Saw(d) \in {"Enabled", "Enabling"}
  <2>1. /\ state' = [state EXCEPT ![d] = "Disabled"] /\ state[d] \in {"Enabled", "Enabling"}
        /\ OnDisable(d, packages)
    BY <1>3 DEF RunDisable
  <2>2. /\ PackagesHold' /\ \A c \in Channels : Told(c)' => Told(c)
        /\ Requests' = Requests /\ \A p \in Requests' : packages'[p] = packages[p]
        /\ ChannelEndsHold' /\ DropsChannel(d)
    BY <1>1, <2>1, GoodOnDisable
  <2>3. \A e \in Devices : state'[e] = IF e = d THEN "Disabled" ELSE state[e]
    BY <2>1 DEF LifeTypeOK
  <2>4. \A e \in Devices : state'[e] = "Uninitialized" <=> state[e] = "Uninitialized"
    BY <2>1, <2>3
  <2>5. \A e \in Devices : channel'[e] = IF e = d THEN NoChannel ELSE channel[e]
    BY <2>2, DropFacts
  <2>6. EventsHold'
    <3>1. \A e \in Devices : state[e] = "Uninitialized" /\ Fresh(e) => Fresh(e)'
      BY <1>1, <2>1, <2>5, RunsFacts DEF Fresh, Free, Busy
    <3> QED
      BY <1>1, <2>4, <3>1, RunsFacts, EventsFrame DEF Good
  <2>7. RegisteredHolds'
    BY <1>1, <2>4, RegisteredFrame DEF Good
  <2>8. ChannelHolds'
    <3>1. \A e \in Devices : Has(strand[e], "shutdown") => Has(strand'[e], "shutdown")
      BY <1>1, RunsFacts
    <3> QED
      BY <2>3, <2>4, <2>5, <3>1, ChannelFrame DEF Good
  <2>9. Stays
    <3>1. \A s \in Slots : Dialog(s)' = Dialog(s)
      BY <1>1 DEF Dialog
    <3> QED
      BY <1>1, <2>2, <3>1, RunsFacts DEF Stays
  <2>10. OneRequest' /\ NotAsked'
    <3>1. Has(strand[d], "disable")
      BY <1>1, RunsFacts
    <3>2. NotAsked
      BY <3>1 DEF Good, DisablingHolds
    <3> QED
      BY <2>9, <3>2, RequestFrame DEF Good
  <2>11. DisablingHolds'
    BY <2>10, DisablingFrame DEF Good
  <2>12. SlotsHold'
    <3>1. \A e \in Devices, s \in Slots : Busy(e, s)' => Busy(e, s)
      BY <1>1 DEF Busy
    <3> QED
      BY <2>10, <3>1, SlotsFrame DEF Good
  <2>13. DesktopHolds'
    <3>1. \A s \in Slots : Busy("desktop", s)' => enabling'["desktop"][s] = enabling["desktop"][s]
      BY <1>1
    <3>2. /\ d = "desktop" => state'["desktop"] \notin {"Enabling", "Enabled"}
          /\ d # "desktop" => state'["desktop"] = state["desktop"]
      BY <2>3 DEF Devices
    <3> QED
      BY <1>1, <2>2, <3>1, <3>2, DesktopDrop DEF Good
  <2> QED
    BY <2>2, <2>6, <2>7, <2>8, <2>10, <2>11, <2>12, <2>13 DEF Good
<1> QED
  BY <1>2, <1>3

LEMMA GoodRunShutdown ==
  ASSUME LifeTypeOK, Good, NEW d \in Devices, RunShutdown(d)
  PROVE  Good'
<1>1. Runs(d, "shutdown") /\ UNCHANGED <<state, registered, enabling, events, linked, channels>>
  BY DEF RunShutdown, session
<1>2. Has(strand[d], "shutdown") /\ strand[d] # <<>>
  BY <1>1, RunsFacts
<1>3. ~linked /\ state[d] = "Uninitialized"
  BY <1>2 DEF Good, EventsHold, Fresh
<1>4. DropsChannel(d) /\ packages' = packages
  <2>1. IsABag(packages)
    BY DEF LifeTypeOK
  <2>2. OnDisable(d, packages) => packages' = packages /\ DropsChannel(d)
    BY <1>3, <2>1, AfterBag DEF OnDisable
  <2> QED
    BY <2>2 DEF RunShutdown
<1>5. \A e \in Devices : channel'[e] = IF e = d THEN NoChannel ELSE channel[e]
  BY <1>4, DropFacts
<1>6. PackagesHold' /\ \A c \in Channels : Told(c)' => Told(c)
  BY <1>4, PackagesFrame DEF Good
<1>7. EventsHold'
  <2>1. \A e \in Devices : Fresh(e) => Fresh(e)'
    BY <1>1, <1>5, RunsFacts DEF Fresh, Free, Busy
  <2> QED
    BY <1>1, <2>1, RunsFacts, EventsFrame DEF Good
<1>8. RegisteredHolds'
  BY <1>1, RegisteredFrame DEF Good
<1>9. ChannelHolds'
  <2>1. \A e \in Devices : e # d /\ Has(strand[e], "shutdown") => Has(strand'[e], "shutdown")
    BY <1>1, RunsFacts
  <2> QED
    BY <1>1, <1>5, <2>1, ChannelFrame DEF Good
<1>10. Stays
  <2>1. Requests' = Requests /\ \A s \in Slots : Dialog(s)' = Dialog(s)
    BY <1>1, <1>4 DEF Requests, Dialog
  <2> QED
    BY <1>1, <1>4, <2>1, RunsFacts DEF Stays
<1>11. OneRequest' /\ (NotAsked => NotAsked')
  BY <1>10, RequestFrame DEF Good
<1>12. DisablingHolds'
  <2>1. Disables' = Disables /\ \A e \in Devices : Has(strand'[e], "disable") => Has(strand[e], "disable")
    BY <1>1, <1>4, RunsFacts DEF Disables
  <2> QED
    BY <1>11, <2>1, DisablingFrame DEF Good
<1>13. SlotsHold'
  <2>1. \A e \in Devices, s \in Slots : Busy(e, s)' => Busy(e, s)
    BY <1>1 DEF Busy
  <2> QED
    BY <1>1, <1>11, <2>1, SlotsFrame DEF Good
<1>14. DesktopHolds'
  <2>1. \A s \in Slots : Busy("desktop", s)' => enabling'["desktop"][s] = enabling["desktop"][s]
    BY <1>1
  <2>2. d = "desktop" => state'["desktop"] \notin {"Enabling", "Enabled"}
    BY <1>1, <1>3
  <2> QED
    BY <1>1, <1>4, <2>1, <2>2, DesktopDrop DEF Good
<1>15. ChannelEndsHold'
  BY <1>1, <1>4, <1>6, EndsDrop DEF Good
<1> QED
  BY <1>6, <1>7, <1>8, <1>9, <1>11, <1>12, <1>13, <1>14, <1>15 DEF Good

LEMMA GoodRunEnable ==
  ASSUME LifeTypeOK, LifeTypeOK', Good, NEW d \in Devices, RunEnable(d), ~late'
  PROVE  Good'
<1>1. Runs(d, "enable") /\ UNCHANGED <<events, linked>>
  BY DEF RunEnable, session
<1>2. CASE Saw(d) \notin {"Uninitialized", "Disabled"}
  BY <1>1, <1>2, GoodPops DEF RunEnable, module, channelVars
<1>3. CASE Saw(d) \in {"Uninitialized", "Disabled"}
  <2>1. /\ HasFreeSlot(d) /\ channels < MaxChannels /\ state[d] = "Disabled"
        /\ state' = [state EXCEPT ![d] = "Enabling"]
        /\ \A e \in Devices : registered'[e] = registered[e]
    <3>1. state[d] = Saw(d) /\ Saw(d) = "Disabled"
      BY <1>3 DEF RunEnable
    <3>2. registered' = [registered EXCEPT ![d] = registered[d] \/ Saw(d) = "Uninitialized"]
      BY <1>3 DEF RunEnable
    <3>3. \A e \in Devices : registered'[e] = registered[e]
      BY <3>1, <3>2 DEF LifeTypeOK
    <3> QED
      BY <1>3, <3>1, <3>3 DEF RunEnable
  <2>2. \A e \in Devices : state'[e] = IF e = d THEN "Enabling" ELSE state[e]
    BY <2>1 DEF LifeTypeOK
  <2>3. \A e \in Devices : state'[e] = "Uninitialized" <=> state[e] = "Uninitialized"
    BY <2>1, <2>2
  <2> DEFINE slot == FreeSlot(d)
             c == IF d = "desktop" THEN channels + 1 ELSE NoChannel
  <2>4. slot \in Slots
    BY <2>1, TypedFreeSlot
  <2>5. enabling' = [enabling EXCEPT ![d][slot] = [at |-> IF d = "desktop" THEN "listen" ELSE "dialog", channel |-> c]]
    BY <1>3 DEF RunEnable
  <2> HIDE DEF slot, c
  <2>6. \A e \in Devices, s \in Slots :
          IF e = d /\ s = slot
          THEN enabling'[e][s].at = (IF d = "desktop" THEN "listen" ELSE "dialog") /\ enabling'[e][s].channel = c
          ELSE enabling'[e][s] = enabling[e][s]
    <3>1. enabling[d] \in [Slots -> Coroutines]
      BY DEF LifeTypeOK
    <3> QED
      BY <2>4, <2>5, <3>1 DEF LifeTypeOK
  <2>7. /\ Has(strand[d], "enable") /\ Requests = {} /\ \A s \in Slots : ~Dialog(s)
        /\ \A e \in Devices : ~Has(strand[e], "disable")
        /\ ~Disables /\ Free(d)
        /\ \A e \in Devices : ~Free(e) => state[e] # "Disabled"
    <3>1. Has(strand[d], "enable")
      BY <1>1, RunsFacts
    <3>2. ~NotPosted /\ ~NotAsked
      BY <3>1 DEF NotPosted, NotAsked
    <3>3. Requests = {} /\ \A s \in Slots : ~Dialog(s)
      BY <3>2 DEF Good, OneRequest
    <3>4. ~Disables /\ \A e \in Devices : ~Has(strand[e], "disable")
      BY <3>2 DEF Good, DisablingHolds
    <3>5. \A e \in Devices : ~Free(e) => state[e] # "Disabled"
      BY <3>2 DEF Good, SlotsHold
    <3> QED
      BY <2>1, <3>1, <3>3, <3>4, <3>5
  <2>8. NotPosted'
    <3>1. \A e \in Devices : Has(strand[e], "enable") => e = d
      BY <2>7 DEF Good, OneRequest, OnePost
    <3>2. Once(strand[d], "enable")
      BY DEF Good, OneRequest, OnePost
    <3> QED
      BY <1>1, <3>1, <3>2, RunsFacts DEF NotPosted
  <2>9. \A e \in Devices, s \in Slots : Busy(e, s)' => (e = d /\ s = slot) \/ (Busy(e, s) /\ e # d)
    BY <2>6, <2>7 DEF Busy, Free
  <2>10. \A s \in Slots : Dialog(s)' => d = "phone" /\ s = slot
    <3>1. "phone" \in Devices
      BY DEF Devices
    <3>2. \A s \in Slots : ~(d = "phone" /\ s = slot) => enabling'["phone"][s] = enabling["phone"][s]
      BY <2>6, <3>1
    <3> QED
      BY <2>7, <3>2 DEF Dialog
  <2>11. /\ \A p \in BagToSet(packages') : p.kind # "ENABLE" => p \in BagToSet(packages)
         /\ d = "phone" => packages' = packages
         /\ OneAsk' /\ ~Disables'
    <3>1. CASE d = "desktop"
      <4>1. packages' = After(packages, d, {Package(d, "ENABLE", NoChannel)})
        BY <1>3, <3>1 DEF RunEnable
      <4>2. BagToSet(packages') \subseteq BagToSet(packages) \cup {Package(d, "ENABLE", NoChannel)}
        BY <4>1, AfterBag DEF LifeTypeOK
      <4>3. Package(d, "ENABLE", NoChannel).kind = "ENABLE"
        BY DEF Package
      <4> QED
        BY <2>7, <3>1, <4>1, <4>2, <4>3, AskFacts
    <3>2. CASE d = "phone"
      <4>1. packages' = packages
        BY <1>3, <3>2 DEF RunEnable
      <4> QED
        BY <2>7, <4>1 DEF OneAsk, Requests, Disables
    <3> QED
      BY <3>1, <3>2 DEF Devices
  <2>12. PackagesHold' /\ \A x \in Channels : Told(x)' => Told(x)
    BY <2>11, PackagesFrame DEF Good
  <2>13. OneRequest'
    <3>1. OnePost'
      BY <2>8, <1>1, RunsFacts DEF OnePost, NotPosted, Good, OneRequest
    <3>2. \A s \in Slots : Dialog(s)' => Requests' = {}
      BY <2>7, <2>10, <2>11 DEF Requests
    <3> QED
      BY <2>8, <2>11, <3>1, <3>2 DEF OneRequest
  <2>14. DisablingHolds'
    BY <1>1, <2>7, <2>11, RunsFacts DEF DisablingHolds
  <2>15. SlotsHold'
    <3>1. \A e \in Devices : \A s, t \in Slots : Busy(e, s)' /\ Busy(e, t)' => s = t
      BY <2>9 DEF Good, SlotsHold
    <3>2. \A e \in Devices : ~Free(e)' => state'[e] # "Disabled"
      BY <2>2, <2>7, <2>9 DEF Free
    <3> QED
      BY <3>1, <3>2 DEF SlotsHold
  <2>16. \A e \in Devices : channel'[e] = IF e = d /\ d = "desktop" THEN c ELSE channel[e]
    BY <1>3 DEF RunEnable, channelVars, LifeTypeOK, c
  <2>17. EventsHold'
    <3>1. \A e \in Devices : state[e] = "Uninitialized" => e # d
      BY <2>1
    <3>2. \A e \in Devices : Free(e) /\ e # d => Free(e)'
      BY <2>9 DEF Free
    <3>3. \A e \in Devices : Fresh(e) /\ e # d => Fresh(e)'
      BY <1>1, <2>16, <3>2, RunsFacts DEF Fresh
    <3>4. \A e \in Devices : Has(strand'[e], "shutdown") => Has(strand[e], "shutdown")
      BY <1>1, RunsFacts
    <3> QED
      BY <1>1, <2>3, <3>1, <3>3, <3>4, EventsFrame DEF Good
  <2>18. RegisteredHolds'
    BY <2>1, <2>3, RegisteredFrame DEF Good
  <2>19. ChannelHolds'
    <3>1. \A e \in Devices : Has(strand[e], "shutdown") => Has(strand'[e], "shutdown")
      BY <1>1, RunsFacts
    <3> QED
      BY <2>1, <2>2, <2>16, <3>1, ChannelFrame DEF Good
  <2>20. CASE d = "phone"
    <3>1. UNCHANGED <<channels, channel, deskChannel, phoneChannel>>
      BY <1>3, <2>20 DEF RunEnable, channelVars
    <3>2. ChannelEndsHold'
      BY <2>12, <3>1, EndsFrame DEF Good
    <3>3. \A s \in Slots : enabling'["desktop"][s] = enabling["desktop"][s]
      BY <2>6, <2>20 DEF Devices
    <3>4. state'["desktop"] = state["desktop"]
      BY <2>2, <2>20 DEF Devices
    <3>5. DesktopHolds'
      BY <3>1, <3>3, <3>4, DesktopFrame DEF Good
    <3> QED
      BY <2>12, <2>13, <2>14, <2>15, <2>17, <2>18, <2>19, <3>2, <3>5 DEF Good
  <2>21. CASE d = "desktop"
    <3>1. /\ channels' = channels + 1 /\ c = channels + 1 /\ phoneChannel' = phoneChannel
          /\ deskChannel' = IF channel[d] = NoChannel \/ deskChannel[channel[d]] = "none" THEN deskChannel
                            ELSE [deskChannel EXCEPT ![channel[d]] = "closed"]
      BY <1>3, <2>21 DEF RunEnable, c
    <3>2. channels \in Nat /\ c \in Channels /\ c > channels /\ c \in 1 .. channels'
      BY <2>1, <3>1, NumbersAreNaturals DEF LifeTypeOK, Channels
    <3>3. /\ \A x \in Channels : x # channel[d] => deskChannel'[x] = deskChannel[x]
          /\ \A x \in Channels : deskChannel'[x] = "none" <=> deskChannel[x] = "none"
          /\ \A x \in Channels : x = channel[d] => deskChannel'[x] \in {"none", "closed"}
      BY <3>1 DEF LifeTypeOK, Channels, NoChannel
    <3>4. deskChannel[c] = "none"
      BY <3>2 DEF Good, ChannelEndsHold, EndHolds
    <3>5. DesktopHolds'
      <4>1. ASSUME NEW s \in Slots, Busy("desktop", s)'
            PROVE  s = slot /\ enabling'["desktop"][s].at = "listen" /\ enabling'["desktop"][s].channel = c
        BY <2>6, <2>9, <2>21, <4>1
      <4>2. deskChannel'[c] = "none" /\ channel'["desktop"] = c
        BY <2>16, <2>21, <3>2, <3>3, <3>4
      <4> QED
        BY <3>2, <4>1, <4>2 DEF DesktopHolds
    <3>6. ASSUME NEW x \in Channels PROVE EndHolds(x)'
      <4>1. EndHolds(x)
        BY DEF Good, ChannelEndsHold
      <4>2. channel'["desktop"] = c /\ channel'["phone"] = channel["phone"]
        BY <2>16, <2>21 DEF Devices
      <4>3. x > channels' => x > channels
        BY <3>1, <3>2 DEF Channels
      <4>4. Told(x)' => Told(x)
        BY <2>12
      <4>5. deskChannel'[x] = "none" <=> deskChannel[x] = "none"
        BY <3>3
      <4>6. deskChannel'[x] \in {"connected", "listening"} => x # channel[d] /\ deskChannel'[x] = deskChannel[x]
        BY <3>3
      <4> QED
        BY <2>21, <3>1, <4>1, <4>2, <4>3, <4>4, <4>5, <4>6 DEF EndHolds
    <3>7. ChannelEndsHold'
      BY <3>6 DEF ChannelEndsHold
    <3> QED
      BY <2>12, <2>13, <2>14, <2>15, <2>17, <2>18, <2>19, <3>5, <3>7 DEF Good
  <2> QED
    BY <2>20, <2>21 DEF Devices
<1> QED
  BY <1>2, <1>3

-------------------------------------------------------------------------------
(* The steps of an OnEnable. *)

Ats == {"idle", "store", "accept", "peer", "fetch", "flag"}
SlotMoves(d, s, at) == Busy(d, s) /\ (Leaves(d, s) \/ Returns(d, s) \/ Goes(d, s, at))

LEMMA MovesFacts ==
  ASSUME LifeTypeOK, NEW d \in Devices, NEW s \in Slots, NEW at \in Ats, SlotMoves(d, s, at)
  PROVE  /\ \A e \in Devices, t \in Slots : (e # d \/ t # s) => enabling'[e][t] = enabling[e][t]
         /\ enabling'[d][s].at = "idle" \/ enabling'[d][s].channel = enabling[d][s].channel
         /\ enabling'[d][s].at \in {"idle", "store", at}
         /\ \A e \in Devices, t \in Slots : Busy(e, t)' => Busy(e, t)
         /\ \A e \in Devices : Free(e) => Free(e)'
         /\ \A t \in Slots : Dialog(t)' => Dialog(t)
         /\ Leaves(d, s) => ~Busy(d, s)'
<1>1. Busy(d, s) /\ (Leaves(d, s) \/ Returns(d, s) \/ Goes(d, s, at))
  BY DEF SlotMoves
<1>2. at \in {"idle", "store", "accept", "peer", "fetch", "flag"}
  BY DEF Ats
<1> QED
  BY <1>1, <1>2, SlotFacts

(* A message that says how the sender's module is. *)
LEMMA SaysFacts ==
  ASSUME LifeTypeOK, NEW d, NEW kind \in {"STATE_ON", "STATE_OFF"},
         \/ packages' = packages
         \/ packages' = After(packages, d, {Package(d, kind, NoChannel)})
  PROVE  /\ Requests' = Requests /\ \A p \in Requests' : packages'[p] = packages[p]
         /\ Disables' => Disables
         /\ \A p \in BagToSet(packages') : p.kind = "PORT_INFO" => p \in BagToSet(packages)
<1>1. CASE packages' = packages
  BY <1>1 DEF Requests, Disables
<1>2. CASE packages' = After(packages, d, {Package(d, kind, NoChannel)})
  <2> DEFINE ps == {Package(d, kind, NoChannel)}
  <2>1. \A x \in ps : x.kind \in {"STATE_ON", "STATE_OFF"}
    BY DEF Package
  <2>2. packages' = After(packages, d, ps) /\ IsABag(packages)
    BY <1>2 DEF LifeTypeOK
  <2> HIDE DEF ps
  <2>3. BagToSet(packages') \subseteq BagToSet(packages) \cup ps
    BY <2>2, AfterBag
  <2>4. Requests' = Requests /\ \A p \in Requests' : packages'[p] = packages[p]
    BY <2>1, <2>2, SendFacts DEF Requests
  <2> QED
    BY <2>1, <2>3, <2>4 DEF Disables
<1> QED
  BY <1>1, <1>2

LEMMA MovesKeeps ==
  ASSUME LifeTypeOK, Good, NEW d \in Devices, NEW s \in Slots, NEW at \in Ats, SlotMoves(d, s, at),
         UNCHANGED <<state, registered, strand, channel, events, linked>>,
         Requests' = Requests, \A p \in Requests' : packages'[p] = packages[p], Disables' => Disables
  PROVE  /\ EventsHold' /\ RegisteredHolds' /\ ChannelHolds' /\ OneRequest'
         /\ DisablingHolds' /\ SlotsHold'
<1>1. /\ \A e \in Devices, t \in Slots : Busy(e, t)' => Busy(e, t)
      /\ \A e \in Devices : Free(e) => Free(e)'
      /\ \A t \in Slots : Dialog(t)' => Dialog(t)
  BY MovesFacts
<1>2. EventsHold'
  <2>1. \A e \in Devices : Fresh(e) => Fresh(e)'
    BY <1>1 DEF Fresh
  <2> QED
    BY <2>1, EventsFrame DEF Good
<1>3. RegisteredHolds' /\ ChannelHolds'
  BY RegisteredFrame, ChannelFrame DEF Good
<1>4. Stays
  BY <1>1 DEF Stays
<1>5. OneRequest' /\ (NotAsked => NotAsked')
  BY <1>4, RequestFrame DEF Good
<1>6. DisablingHolds'
  BY <1>5, DisablingFrame DEF Good
<1>7. SlotsHold'
  BY <1>1, <1>5, SlotsFrame DEF Good
<1> QED
  BY <1>2, <1>3, <1>5, <1>6, <1>7

LEMMA MovesOnDesktop ==
  ASSUME LifeTypeOK, DesktopHolds, NEW d \in Devices, NEW s \in Slots, NEW at \in Ats, SlotMoves(d, s, at),
         UNCHANGED <<state, channel, deskChannel, channels>>,
         d = "desktop" /\ enabling'[d][s].at = at /\ at \in {"peer", "fetch"}
           /\ state["desktop"] \in {"Enabling", "Enabled"} =>
             deskChannel[enabling[d][s].channel] = "connected"
  PROVE  DesktopHolds'
<1>1. /\ \A e \in Devices, t \in Slots : (e # d \/ t # s) => enabling'[e][t] = enabling[e][t]
      /\ enabling'[d][s].at = "idle" \/ enabling'[d][s].channel = enabling[d][s].channel
      /\ enabling'[d][s].at \in {"idle", "store", at}
      /\ \A e \in Devices, t \in Slots : Busy(e, t)' => Busy(e, t)
  BY MovesFacts
<1>2. "desktop" \in Devices
  BY DEF Devices
<1>3. ASSUME NEW t \in Slots, Busy("desktop", t)'
      PROVE  /\ enabling'["desktop"][t].channel \in 1 .. channels'
             /\ enabling'["desktop"][t].at = "listen" => deskChannel'[enabling'["desktop"][t].channel] = "none"
             /\ state'["desktop"] \in {"Enabling", "Enabled"} =>
                  /\ channel'["desktop"] = enabling'["desktop"][t].channel
                  /\ enabling'["desktop"][t].at \in {"peer", "fetch"} =>
                       deskChannel'[enabling'["desktop"][t].channel] = "connected"
  <2>1. Busy("desktop", t)
    BY <1>1, <1>2, <1>3
  <2>2. CASE d = "desktop" /\ t = s
    <3>1. enabling'["desktop"][t].channel = enabling["desktop"][t].channel
      BY <1>1, <1>3, <2>2 DEF Busy
    <3>2. enabling'["desktop"][t].at \in {"store", at} /\ at # "listen"
      BY <1>1, <1>3, <2>2 DEF Busy, Ats
    <3> QED
      BY <2>1, <2>2, <3>1, <3>2 DEF DesktopHolds
  <2>3. CASE ~(d = "desktop" /\ t = s)
    <3>1. enabling'["desktop"][t] = enabling["desktop"][t]
      BY <1>1, <1>2, <2>3
    <3> QED
      BY <2>1, <3>1 DEF DesktopHolds
  <2> QED
    BY <2>2, <2>3
<1> QED
  BY <1>3 DEF DesktopHolds

(* A move that changes nothing but what the peer is told of the module's state. *)
LEMMA GoodMoves ==
  ASSUME LifeTypeOK, Good, NEW d \in Devices, NEW s \in Slots, NEW at \in Ats, SlotMoves(d, s, at),
         UNCHANGED <<state, registered, strand, channel, deskChannel, phoneChannel, events, linked, channels>>,
         \/ packages' = packages
         \/ packages' = After(packages, d, {Package(d, "STATE_ON", NoChannel)}),
         d = "desktop" /\ enabling'[d][s].at = at /\ at \in {"peer", "fetch"}
           /\ state["desktop"] \in {"Enabling", "Enabled"} =>
             deskChannel[enabling[d][s].channel] = "connected"
  PROVE  Good'
<1>1. /\ Requests' = Requests /\ \A p \in Requests' : packages'[p] = packages[p]
      /\ Disables' => Disables
      /\ \A p \in BagToSet(packages') : p.kind = "PORT_INFO" => p \in BagToSet(packages)
  BY SaysFacts
<1>2. PackagesHold' /\ \A c \in Channels : Told(c)' => Told(c)
  BY <1>1, PackagesFrame DEF Good
<1>3. /\ EventsHold' /\ RegisteredHolds' /\ ChannelHolds' /\ OneRequest'
      /\ DisablingHolds' /\ SlotsHold'
  BY <1>1, MovesKeeps
<1>4. DesktopHolds'
  BY MovesOnDesktop DEF Good
<1>5. ChannelEndsHold'
  BY <1>2, EndsFrame DEF Good
<1> QED
  BY <1>2, <1>3, <1>4, <1>5 DEF Good

LEMMA GoodAwaitsConnection ==
  ASSUME LifeTypeOK, Good, NEW s \in Slots, AwaitsConnection(s) PROVE Good'
<1>1. "desktop" \in Devices /\ "peer" \in Ats
  BY DEF Devices, Ats
<1>2. SlotMoves("desktop", s, "peer")
  BY DEF AwaitsConnection, SlotMoves, Busy
<1>3. UNCHANGED <<state, registered, strand, channel, deskChannel, phoneChannel, events, linked,
                  channels, packages>>
  BY DEF AwaitsConnection, module, channelVars, session
<1>4. enabling'["desktop"][s].at = "peer" => deskChannel[enabling["desktop"][s].channel] = "connected"
  <2>1. CASE Returns("desktop", s)
    <3>1. SlotMoves("desktop", s, "idle") /\ "idle" \in Ats
      BY <1>2, <2>1 DEF SlotMoves, Ats
    <3> QED
      BY <1>1, <3>1, MovesFacts
  <2> QED
    BY <2>1 DEF AwaitsConnection
<1> QED
  BY <1>1, <1>2, <1>3, <1>4, GoodMoves

LEMMA GoodAwaitsPeer ==
  ASSUME LifeTypeOK, Good, NEW d \in Devices, NEW s \in Slots, AwaitsPeer(d, s) PROVE Good'
<1>1. "fetch" \in Ats
  BY DEF Ats
<1>2. SlotMoves(d, s, "fetch")
  BY DEF AwaitsPeer, SlotMoves, Busy
<1>3. UNCHANGED <<state, registered, strand, channel, deskChannel, phoneChannel, events, linked,
                  channels, packages>>
  BY DEF AwaitsPeer, module, channelVars, session
<1>4. d = "desktop" /\ state["desktop"] \in {"Enabling", "Enabled"} =>
        deskChannel[enabling[d][s].channel] = "connected"
  BY DEF AwaitsPeer, Good, DesktopHolds, Busy
<1> QED
  BY <1>1, <1>2, <1>3, <1>4, GoodMoves

LEMMA GoodAwaitsFlag ==
  ASSUME LifeTypeOK, Good, NEW s \in Slots, AwaitsFlag(s) PROVE Good'
<1>1. "phone" \in Devices /\ "peer" \in Ats
  BY DEF Devices, Ats
<1>2. SlotMoves("phone", s, "peer")
  BY DEF AwaitsFlag, SlotMoves, Busy
<1>3. UNCHANGED <<state, registered, strand, channel, deskChannel, phoneChannel, events, linked, channels>>
  BY DEF AwaitsFlag, module, session
<1>4. \/ packages' = packages
      \/ packages' = After(packages, "phone", {Package("phone", "STATE_ON", NoChannel)})
  BY DEF AwaitsFlag
<1> QED
  BY <1>1, <1>2, <1>3, <1>4, GoodMoves

(* An OnEnable that disables its own module leaves no other one of its device under way. *)
LEMMA GoodDisablesItself ==
  ASSUME LifeTypeOK, Good, NEW d \in Devices, NEW s \in Slots, Busy(d, s),
         state[d] \in {"Enabled", "Enabling"}, DisablesItself(d), Leaves(d, s),
         UNCHANGED <<registered, strand, events, linked, channels>>,
         ~linked \/ (d = "phone" /\ Requests = {} /\ NotPosted)
  PROVE  Good'
<1>1. OnDisable(d, packages) /\ state' = [state EXCEPT ![d] = "Disabled"]
  BY DEF DisablesItself
<1>2. /\ PackagesHold' /\ \A c \in Channels : Told(c)' => Told(c)
      /\ Requests' = Requests /\ \A p \in Requests' : packages'[p] = packages[p]
      /\ ~linked => Disables' = Disables
      /\ ChannelEndsHold' /\ DropsChannel(d)
  BY <1>1, GoodOnDisable
<1>3. \A e \in Devices : state'[e] = IF e = d THEN "Disabled" ELSE state[e]
  BY <1>1 DEF LifeTypeOK
<1>4. \A e \in Devices : state'[e] = "Uninitialized" <=> state[e] = "Uninitialized"
  BY <1>3
<1>5. \A e \in Devices : channel'[e] = IF e = d THEN NoChannel ELSE channel[e]
  BY <1>2, DropFacts
<1>6. SlotMoves(d, s, "idle") /\ "idle" \in Ats
  BY DEF SlotMoves, Ats
<1>7. /\ \A e \in Devices, t \in Slots : (e # d \/ t # s) => enabling'[e][t] = enabling[e][t]
      /\ \A e \in Devices, t \in Slots : Busy(e, t)' => Busy(e, t)
      /\ \A e \in Devices : Free(e) => Free(e)'
      /\ \A t \in Slots : Dialog(t)' => Dialog(t)
      /\ ~Busy(d, s)'
  BY <1>6, MovesFacts
<1>8. Free(d)'
  BY <1>7 DEF Good, SlotsHold, Free
<1>9. EventsHold'
  <2>1. \A e \in Devices : Fresh(e) => Fresh(e)'
    BY <1>5, <1>7 DEF Fresh
  <2> QED
    BY <1>4, <2>1, EventsFrame DEF Good
<1>10. RegisteredHolds' /\ ChannelHolds'
  BY <1>3, <1>4, <1>5, RegisteredFrame, ChannelFrame DEF Good
<1>11. Stays
  BY <1>2, <1>7 DEF Stays
<1>12. OneRequest' /\ (NotAsked => NotAsked')
  BY <1>11, RequestFrame DEF Good
<1>13. linked => NotAsked'
  <2>1. linked => d = "phone" /\ Requests' = {} /\ NotPosted'
    BY <1>2 DEF NotPosted
  <2>2. d = "phone" => \A t \in Slots : ~Dialog(t)'
    BY <1>8 DEF Free, Busy, Dialog
  <2> QED
    BY <2>1, <2>2 DEF NotAsked
<1>14. DisablingHolds'
  BY <1>2, <1>12, <1>13, DisablingFrame DEF Good
<1>15. SlotsHold'
  BY <1>3, <1>7, <1>8, <1>12, SlotsFrame DEF Good
<1>16. DesktopHolds'
  <2>1. \A t \in Slots : Busy("desktop", t)' => enabling'["desktop"][t] = enabling["desktop"][t]
    BY <1>7 DEF Devices
  <2>2. /\ d = "desktop" => state'["desktop"] \notin {"Enabling", "Enabled"}
        /\ d # "desktop" => state'["desktop"] = state["desktop"]
    BY <1>3 DEF Devices
  <2> QED
    BY <1>2, <2>1, <2>2, DesktopDrop DEF Good
<1> QED
  BY <1>2, <1>9, <1>10, <1>12, <1>14, <1>15, <1>16 DEF Good

LEMMA GoodFetches ==
  ASSUME LifeTypeOK, Good, NEW s \in Slots, Fetches(s) PROVE Good'
<1>1. "desktop" \in Devices /\ "idle" \in Ats
  BY DEF Devices, Ats
<1>2. UNCHANGED <<registered, strand, events, linked, channels>> /\ Busy("desktop", s)
  BY DEF Fetches, module, session, Busy
<1>3. CASE /\ Returns("desktop", s)
           /\ \/ packages' = packages
              \/ packages' = After(packages, "desktop", {Package("desktop", "STATE_ON", NoChannel)})
           /\ UNCHANGED <<module, channelVars>>
  <2>1. SlotMoves("desktop", s, "idle")
    BY <1>2, <1>3 DEF SlotMoves
  <2>2. UNCHANGED <<state, registered, strand, channel, deskChannel, phoneChannel, events, linked, channels>>
    BY <1>2, <1>3 DEF module, channelVars
  <2> QED
    BY <1>1, <1>3, <2>1, <2>2, GoodMoves
<1>4. CASE /\ Leaves("desktop", s) /\ state["desktop"] \notin {"Enabled", "Enabling"}
           /\ UNCHANGED <<state, peerEnabled, channelVars, packages>>
  <2>1. SlotMoves("desktop", s, "idle")
    BY <1>2, <1>4 DEF SlotMoves
  <2>2. UNCHANGED <<state, registered, strand, channel, deskChannel, phoneChannel, events, linked, channels>>
    BY <1>2, <1>4 DEF channelVars
  <2> QED
    BY <1>1, <1>4, <2>1, <2>2, GoodMoves
<1>5. CASE /\ Leaves("desktop", s) /\ state["desktop"] \in {"Enabled", "Enabling"}
           /\ DisablesItself("desktop")
           /\ \/ channel["desktop"] = NoChannel \/ deskChannel[channel["desktop"]] # "connected"
              \/ ~linked
  <2>1. enabling["desktop"][s].at = "fetch"
    BY DEF Fetches
  <2>2. /\ channel["desktop"] = enabling["desktop"][s].channel
        /\ enabling["desktop"][s].channel \in 1 .. channels
        /\ deskChannel[enabling["desktop"][s].channel] = "connected"
    BY <1>2, <1>5, <2>1 DEF Good, DesktopHolds
  <2>3. channel["desktop"] # NoChannel
    BY <2>2 DEF NoChannel
  <2>4. ~linked
    BY <1>5, <2>2, <2>3
  <2> QED
    BY <1>1, <1>2, <1>5, <2>4, GoodDisablesItself
<1> QED
  BY <1>3, <1>4, <1>5 DEF Fetches

LEMMA GoodAnswers ==
  ASSUME LifeTypeOK, Good, NEW s \in Slots, Answers(s) PROVE Good'
<1>1. "phone" \in Devices /\ "idle" \in Ats /\ "flag" \in Ats
  BY DEF Devices, Ats
<1>2. UNCHANGED <<registered, strand, events, linked, channels>> /\ Busy("phone", s) /\ Dialog(s)
  BY DEF Answers, session, Busy, Dialog
<1>3. Requests = {} /\ NotPosted /\ ~NotAsked
  BY <1>2 DEF Good, OneRequest, NotAsked
<1>4. CASE /\ state["phone"] \in {"Enabled", "Enabling"}
           /\ DisablesItself("phone") /\ Leaves("phone", s)
  BY <1>1, <1>2, <1>3, <1>4, GoodDisablesItself
<1>5. CASE Leaves("phone", s) /\ UNCHANGED <<packages, state, peerEnabled, channelVars>>
  <2>1. SlotMoves("phone", s, "idle")
    BY <1>2, <1>5 DEF SlotMoves
  <2>2. UNCHANGED <<state, registered, strand, channel, deskChannel, phoneChannel, events, linked, channels>>
    BY <1>2, <1>5 DEF channelVars
  <2> QED
    BY <1>1, <1>5, <2>1, <2>2, GoodMoves
<1>6. CASE /\ ~ShouldAbortEnable("phone") /\ Goes("phone", s, "flag")
           /\ packages' = After(packages, "phone", {Package("phone", "ENABLE", NoChannel)})
           /\ UNCHANGED <<state, peerEnabled, channelVars>>
  <2>1. SlotMoves("phone", s, "flag")
    BY <1>2, <1>6 DEF SlotMoves
  <2>2. UNCHANGED <<channel, deskChannel, phoneChannel>>
    BY <1>6 DEF channelVars
  <2>3. /\ \A e \in Devices, t \in Slots : (e # "phone" \/ t # s) => enabling'[e][t] = enabling[e][t]
        /\ enabling'["phone"][s].at \in {"idle", "store", "flag"}
        /\ \A e \in Devices, t \in Slots : Busy(e, t)' => Busy(e, t)
        /\ \A e \in Devices : Free(e) => Free(e)'
        /\ \A t \in Slots : Dialog(t)' => Dialog(t)
    BY <1>1, <2>1, MovesFacts
  <2>4. OneAsk' /\ (Disables' => Disables) /\ \A c : Told(c)' => Told(c)
    BY <1>1, <1>3, <1>6, AskFacts
  <2>5. \A p \in BagToSet(packages') : p.kind = "PORT_INFO" => p \in BagToSet(packages)
    <3>1. BagToSet(packages') \subseteq BagToSet(packages) \cup {Package("phone", "ENABLE", NoChannel)}
      BY <1>6, AfterBag DEF LifeTypeOK
    <3> QED
      BY <3>1 DEF Package
  <2>6. PackagesHold'
    BY <2>5, PackagesFrame DEF Good
  <2>7. EventsHold' /\ RegisteredHolds' /\ ChannelHolds'
    <3>1. \A e \in Devices : Fresh(e) => Fresh(e)'
      BY <1>2, <2>2, <2>3 DEF Fresh
    <3> QED
      BY <1>2, <1>6, <2>2, <3>1, EventsFrame, RegisteredFrame, ChannelFrame DEF Good
  <2>8. \A t \in Slots : ~Dialog(t)'
    <3>1. \A t \in Slots : Dialog(t) => t = s
      BY <1>1, <1>2 DEF Good, SlotsHold, Busy, Dialog
    <3>2. ~Dialog(s)'
      BY <2>3 DEF Dialog
    <3> QED
      BY <2>3, <3>1, <3>2
  <2>9. OneRequest'
    <3>1. NotPosted' /\ OnePost'
      BY <1>2, <1>3 DEF NotPosted, OnePost, Good, OneRequest
    <3> QED
      BY <2>4, <2>8, <3>1 DEF OneRequest
  <2>10. DisablingHolds'
    BY <1>2, <1>3, <2>4 DEF Good, DisablingHolds
  <2>11. SlotsHold'
    <3>1. \A e \in Devices : ~Free(e) => state[e] # "Disabled"
      BY <1>3 DEF Good, SlotsHold
    <3>2. \A e \in Devices : \A t, u \in Slots : Busy(e, t)' /\ Busy(e, u)' => t = u
      BY <2>3 DEF Good, SlotsHold
    <3>3. \A e \in Devices : ~Free(e)' => state'[e] # "Disabled"
      BY <1>6, <2>3, <3>1
    <3> QED
      BY <3>2, <3>3 DEF SlotsHold
  <2>12. DesktopHolds'
    BY <1>1, <1>2, <1>6, <2>1, <2>2, MovesOnDesktop DEF Good
  <2>13. ChannelEndsHold'
    BY <1>2, <2>2, <2>4, EndsFrame DEF Good
  <2> QED
    BY <2>6, <2>7, <2>9, <2>10, <2>11, <2>12, <2>13 DEF Good
<1> QED
  BY <1>4, <1>5, <1>6 DEF Answers

LEMMA GoodFlagTimesOut ==
  ASSUME LifeTypeOK, Good, NEW s \in Slots, FlagTimesOut(s) PROVE Good'
<1>1. "phone" \in Devices /\ "idle" \in Ats
  BY DEF Devices, Ats
<1>2. UNCHANGED <<registered, strand, events, linked, channels>> /\ Busy("phone", s) /\ Leaves("phone", s)
  BY DEF FlagTimesOut, session, Busy
<1>3. CASE ShouldAbortEnable("phone")
  <2>1. UNCHANGED <<state, peerEnabled, channelVars, packages>>
    BY <1>3 DEF FlagTimesOut
  <2>2. SlotMoves("phone", s, "idle")
    BY <1>2 DEF SlotMoves
  <2>3. UNCHANGED <<state, registered, strand, channel, deskChannel, phoneChannel, events, linked, channels>>
    BY <1>2, <2>1 DEF channelVars
  <2> QED
    BY <1>1, <2>1, <2>2, <2>3, GoodMoves
<1>4. CASE ~ShouldAbortEnable("phone")
  <2>1. DisablesItself("phone") /\ state["phone"] \in {"Enabled", "Enabling"}
    BY <1>4 DEF FlagTimesOut, ShouldAbortEnable
  <2>2. Requests = {}
    BY DEF FlagTimesOut, Requests, EmptyBag, SetToBag, BagToSet
  <2>3. NotPosted
    BY HasNothing DEF FlagTimesOut, NotPosted
  <2> QED
    BY <1>1, <1>2, <2>1, <2>2, <2>3, GoodDisablesItself
<1> QED
  BY <1>3, <1>4

LEMMA GoodBecomesEnabled ==
  ASSUME LifeTypeOK, Good, NEW d \in Devices, NEW s \in Slots, BecomesEnabled(d, s), ~late'
  PROVE  Good'
<1>1. /\ UNCHANGED <<registered, strand, channel, deskChannel, phoneChannel, packages, events, linked, channels>>
      /\ Leaves(d, s) /\ Busy(d, s)
  BY DEF BecomesEnabled, channelVars, session, Busy
<1>2. state[d] = "Enabling" /\ \A e \in Devices : state'[e] = IF e = d THEN "Enabled" ELSE state[e]
  BY DEF BecomesEnabled, LifeTypeOK
<1>3. \A e \in Devices : state'[e] = "Uninitialized" <=> state[e] = "Uninitialized"
  BY <1>2
<1>4. SlotMoves(d, s, "idle") /\ "idle" \in Ats
  BY <1>1 DEF SlotMoves, Ats
<1>5. /\ \A e \in Devices, t \in Slots : (e # d \/ t # s) => enabling'[e][t] = enabling[e][t]
      /\ \A e \in Devices, t \in Slots : Busy(e, t)' => Busy(e, t)
      /\ \A e \in Devices : Free(e) => Free(e)'
      /\ \A t \in Slots : Dialog(t)' => Dialog(t)
      /\ ~Busy(d, s)'
  BY <1>1, <1>4, MovesFacts
<1>6. PackagesHold' /\ \A c \in Channels : Told(c)' => Told(c)
  BY <1>1, PackagesFrame DEF Good
<1>7. EventsHold' /\ RegisteredHolds' /\ ChannelHolds'
  <2>1. \A e \in Devices : Fresh(e) => Fresh(e)'
    BY <1>1, <1>5 DEF Fresh
  <2> QED
    BY <1>1, <1>3, <2>1, EventsFrame, RegisteredFrame, ChannelFrame DEF Good
<1>8. Stays
  <2>1. Requests' = Requests
    BY <1>1 DEF Requests
  <2> QED
    BY <1>1, <1>5, <2>1 DEF Stays
<1>9. OneRequest' /\ (NotAsked => NotAsked')
  BY <1>8, RequestFrame DEF Good
<1>10. DisablingHolds'
  <2>1. Disables' = Disables
    BY <1>1 DEF Disables
  <2> QED
    BY <1>1, <1>9, <2>1, DisablingFrame DEF Good
<1>11. SlotsHold'
  BY <1>2, <1>5, <1>9, SlotsFrame DEF Good
<1>12. DesktopHolds'
  <2>1. \A t \in Slots : Busy("desktop", t)' => enabling'["desktop"][t] = enabling["desktop"][t]
    BY <1>5 DEF Devices
  <2>2. state'["desktop"] \in {"Enabling", "Enabled"} => state["desktop"] \in {"Enabling", "Enabled"}
    BY <1>2 DEF Devices
  <2> QED
    BY <1>1, <2>1, <2>2, DesktopFrame DEF Good
<1>13. ChannelEndsHold'
  BY <1>1, <1>6, EndsFrame DEF Good
<1> QED
  BY <1>6, <1>7, <1>9, <1>10, <1>11, <1>12, <1>13 DEF Good

LEMMA GoodTellsPort ==
  ASSUME LifeTypeOK, Good, NEW s \in Slots, TellsPort(s) PROVE Good'
<1> DEFINE c == enabling["desktop"][s].channel
           port == Package("desktop", "PORT_INFO", c)
<1>1. "desktop" \in Devices /\ "accept" \in Ats /\ IsABag(packages)
  BY DEF Devices, Ats, LifeTypeOK
<1>2. /\ UNCHANGED <<state, registered, strand, channel, phoneChannel, events, linked, channels>>
      /\ enabling["desktop"][s].at = "listen" /\ Busy("desktop", s)
  BY DEF TellsPort, module, session, Busy
<1>3. SlotMoves("desktop", s, "accept")
  BY <1>2 DEF TellsPort, SlotMoves
<1>4. /\ c \in 1 .. channels /\ deskChannel[c] = "none"
      /\ ~ShouldAbortEnable("desktop") => channel["desktop"] = c
  BY <1>2 DEF Good, DesktopHolds, ShouldAbortEnable
<1>5. c \in Channels
  BY <1>4, NumbersAreNaturals DEF LifeTypeOK, Channels
<1>6. /\ packages' = packages \/ packages' = After(packages, "desktop", {port})
      /\ packages' # packages => ~ShouldAbortEnable("desktop")
  BY DEF TellsPort
<1>7. deskChannel' = [deskChannel EXCEPT ![c] = "listening"] \/ deskChannel' = [deskChannel EXCEPT ![c] = "closed"]
  BY DEF TellsPort
<1>8. port.kind = "PORT_INFO" /\ port.to = "phone" /\ port.number = c
  BY DEF Package, Peer
<1> HIDE DEF c, port
<1>9. BagToSet(packages') \subseteq BagToSet(packages) \cup {port}
  BY <1>1, <1>6, AfterBag
<1>10. /\ Requests' = Requests /\ \A p \in Requests' : packages'[p] = packages[p]
       /\ Disables' => Disables
  <2>1. CASE packages' = packages
    BY <2>1 DEF Requests, Disables
  <2>2. CASE packages' = After(packages, "desktop", {port})
    <3> DEFINE sent == {port}
    <3>1. packages' = After(packages, "desktop", sent) /\ \A x \in sent : x.kind # "ENABLE"
      BY <1>8, <2>2
    <3> HIDE DEF sent
    <3>2. /\ Requests' = {p \in BagToSet(packages) : p.kind = "ENABLE"}
          /\ \A p \in Requests' : packages'[p] = packages[p]
      BY <1>1, <3>1, SendFacts
    <3>3. Requests' = Requests
      BY <3>2 DEF Requests
    <3>4. Disables' => Disables
      BY <1>8, <1>9 DEF Disables
    <3> QED
      BY <3>2, <3>3, <3>4
  <2> QED
    BY <1>6, <2>1, <2>2
<1>11. PackagesHold'
  BY <1>5, <1>8, <1>9 DEF Good, PackagesHold
<1>12. \A x \in Channels : Told(x)' => Told(x) \/ (x = c /\ channel["desktop"] = c)
  <2>1. packages' # packages => channel["desktop"] = c
    BY <1>4, <1>6
  <2> QED
    BY <1>8, <1>9, <2>1 DEF Told
<1>13. /\ EventsHold' /\ RegisteredHolds' /\ ChannelHolds' /\ OneRequest'
       /\ DisablingHolds' /\ SlotsHold'
  BY <1>1, <1>2, <1>3, <1>10, MovesKeeps
<1>14. DesktopHolds'
  <2>1. /\ enabling'["desktop"][s].at = "idle" \/ enabling'["desktop"][s].channel = enabling["desktop"][s].channel
        /\ enabling'["desktop"][s].at \in {"idle", "store", "accept"}
        /\ \A t \in Slots : Busy("desktop", t)' => Busy("desktop", t)
    BY <1>1, <1>3, MovesFacts
  <2>2. \A t \in Slots : Busy("desktop", t)' => t = s
    BY <1>1, <1>2, <2>1 DEF Good, SlotsHold
  <2>3. ASSUME NEW t \in Slots, Busy("desktop", t)'
        PROVE  enabling'["desktop"][t].channel = c /\ enabling'["desktop"][t].at \in {"store", "accept"}
    BY <2>1, <2>2, <2>3 DEF Busy, c
  <2>4. state["desktop"] \in {"Enabling", "Enabled"} => channel["desktop"] = c
    BY <1>4 DEF ShouldAbortEnable
  <2> QED
    BY <1>2, <1>4, <2>3, <2>4 DEF DesktopHolds
<1>15. ASSUME NEW x \in Channels PROVE EndHolds(x)'
  <2>1. EndHolds(x)
    BY DEF Good, ChannelEndsHold
  <2>2. CASE x # c
    <3>1. deskChannel'[x] = deskChannel[x]
      BY <1>7, <2>2 DEF LifeTypeOK
    <3> QED
      BY <1>2, <1>12, <2>1, <2>2, <3>1 DEF EndHolds
  <2>3. CASE x = c
    <3>1. deskChannel'[x] \in {"listening", "closed"}
      BY <1>5, <1>7, <2>3 DEF LifeTypeOK
    <3>2. ~(c > channels)
      BY <1>4 DEF LifeTypeOK
    <3>3. ~Told(c) /\ phoneChannel[c] = "none"
      BY <1>4, <2>1, <2>3 DEF EndHolds
    <3>4. Told(x)' => channel["desktop"] = c
      BY <1>12, <2>3, <3>3
    <3> QED
      BY <1>2, <2>3, <3>1, <3>2, <3>3, <3>4 DEF EndHolds
  <2> QED
    BY <2>2, <2>3
<1>16. ChannelEndsHold'
  BY <1>15 DEF ChannelEndsHold
<1> QED
  BY <1>11, <1>13, <1>14, <1>16 DEF Good

LEMMA GoodConnects ==
  ASSUME LifeTypeOK, Good, NEW c \in Channels, ChannelConnects(c) PROVE Good'
<1>1. UNCHANGED <<state, registered, strand, enabling, channel, packages, events, linked, channels>>
  BY DEF ChannelConnects, module, work, session
<1>2. PackagesHold' /\ EventsHold' /\ RegisteredHolds' /\ ChannelHolds'
  BY <1>1 DEF Good, PackagesHold, EventsHold, RegisteredHolds, ChannelHolds, Fresh, Free, Busy
<1>3. Requests' = Requests /\ NotPosted' = NotPosted /\ NotAsked' = NotAsked /\ Disables' = Disables
  BY <1>1 DEF Requests, NotPosted, NotAsked, Disables, Dialog
<1>4. OneRequest' /\ DisablingHolds'
  BY <1>1, <1>3 DEF Good, OneRequest, DisablingHolds, OneAsk, OnePost, Dialog
<1>5. SlotsHold'
  BY <1>1, <1>3 DEF Good, SlotsHold, Busy, Free
<1>6. /\ \A x \in Channels : deskChannel'[x] = deskChannel[x] \/ (x = c /\ deskChannel[x] = "listening" /\ deskChannel'[x] = "connected")
      /\ \A x \in Channels : x # c => phoneChannel'[x] = phoneChannel[x]
      /\ phoneChannel[c] = "connecting"
      /\ phoneChannel'[c] = "closed" \/ (phoneChannel'[c] = "connected" /\ channel["phone"] = c)
  BY DEF ChannelConnects, LifeTypeOK
<1>7. DesktopHolds'
  <2>1. \A s \in Slots : Busy("desktop", s) => enabling["desktop"][s].channel \in Channels
    BY NumbersAreNaturals DEF Good, DesktopHolds, LifeTypeOK, Channels
  <2>2. ASSUME NEW s \in Slots, Busy("desktop", s)
        PROVE  LET x == enabling["desktop"][s].channel IN
                 /\ deskChannel[x] = "none" => deskChannel'[x] = "none"
                 /\ deskChannel[x] = "connected" => deskChannel'[x] = "connected"
    BY <1>6, <2>1, <2>2
  <2>3. \A s \in Slots : Busy("desktop", s)' => Busy("desktop", s)
    BY <1>1 DEF Busy
  <2> QED
    BY <1>1, <2>2, <2>3, DesktopFrame DEF Good
<1>8. ASSUME NEW x \in Channels PROVE EndHolds(x)'
  <2>1. EndHolds(x) /\ Told(x)' = Told(x)
    BY <1>1 DEF Good, ChannelEndsHold, Told
  <2>2. CASE x # c
    BY <1>1, <1>6, <2>1, <2>2 DEF EndHolds
  <2>3. CASE x = c
    <3>1. deskChannel'[x] = "none" <=> deskChannel[x] = "none"
      BY <1>6
    <3>2. deskChannel'[x] = "connected" => channel["desktop"] = x
      BY <1>6, <2>1, <2>3 DEF EndHolds
    <3>3. deskChannel[x] # "none"
      BY <1>6, <2>1, <2>3 DEF EndHolds
    <3>4. deskChannel'[x] = "listening" => deskChannel[x] = "listening"
      BY <1>6
    <3> QED
      BY <1>1, <1>6, <2>1, <2>3, <3>1, <3>2, <3>3, <3>4 DEF EndHolds
  <2> QED
    BY <2>2, <2>3
<1>9. ChannelEndsHold'
  BY <1>8 DEF ChannelEndsHold
<1> QED
  BY <1>2, <1>4, <1>5, <1>7, <1>9 DEF Good

-------------------------------------------------------------------------------
(* A package, a user, the ends of a session and the Qt thread. *)

(* What is on the connection after the handler of a package. *)
LEMMA ReceivesFacts ==
  ASSUME LifeTypeOK, Good, NEW p \in BagToSet(packages), Receives(p)
  PROVE  /\ p.to \in Devices
         /\ \A q \in BagToSet(packages') : q.kind \notin {"STATE_ON", "STATE_OFF"} => q \in BagToSet(packages)
         /\ Requests' \subseteq Requests /\ \A q \in Requests' : packages'[q] = packages[q]
         /\ p \in Requests => Requests' = {}
<1> DEFINE rest == packages (-) Bagged({p})
           d == p.to
           on == {Package(d, "STATE_ON", NoChannel)}
           off == {Package(d, "STATE_OFF", NoChannel)}
<1>1. p \in Packages /\ d \in Devices /\ IsABag(packages)
  BY DEF LifeTypeOK, Packages
<1>2. /\ IsABag(rest) /\ BagToSet(rest) \subseteq BagToSet(packages)
      /\ \A x \in BagToSet(rest) : x # p => rest[x] = packages[x]
      /\ packages[p] = 1 => p \notin BagToSet(rest)
  BY <1>1, RestBag
<1>3. packages' = rest \/ packages' = After(rest, d, on) \/ packages' = After(rest, d, off)
  BY DEF Receives, Handles
<1>4. \A x \in on \cup off : x.kind \in {"STATE_ON", "STATE_OFF"}
  BY DEF Package
<1> HIDE DEF rest, d, on, off
<1>5. p \in Requests => packages[p] = 1 /\ Requests = {p}
  BY DEF Good, OneRequest, OneAsk
<1> DEFINE asks == {q \in BagToSet(rest) : q.kind = "ENABLE"}
<1>6. /\ asks \subseteq Requests /\ \A q \in asks : rest[q] = packages[q]
      /\ p \in Requests => asks = {}
  <2>1. asks \subseteq Requests
    BY <1>2 DEF Requests
  <2>2. p \in Requests => p \notin asks
    BY <1>2, <1>5
  <2>3. \A q \in asks : q # p
    BY <2>1, <2>2
  <2> QED
    BY <1>2, <1>5, <2>1, <2>2, <2>3
<1>7. Requests' = asks /\ \A q \in Requests' : packages'[q] = rest[q]
  <2>1. CASE packages' = rest
    BY <2>1 DEF Requests
  <2>2. ASSUME NEW ps \in {on, off}, packages' = After(rest, d, ps)
        PROVE  Requests' = asks /\ \A q \in Requests' : packages'[q] = rest[q]
    <3>1. \A x \in ps : x.kind # "ENABLE"
      BY <1>4
    <3> QED
      BY <1>2, <2>2, <3>1, SendFacts
  <2> QED
    BY <1>3, <2>1, <2>2
<1>8. BagToSet(packages') \subseteq BagToSet(rest) \cup (on \cup off)
  <2>1. CASE packages' = rest
    BY <2>1
  <2>2. ASSUME NEW ps \in {on, off}, packages' = After(rest, d, ps)
        PROVE  BagToSet(packages') \subseteq BagToSet(rest) \cup (on \cup off)
    BY <1>2, <2>2, AfterBag
  <2> QED
    BY <1>3, <2>1, <2>2
<1>9. \A q \in BagToSet(packages') : q.kind \notin {"STATE_ON", "STATE_OFF"} => q \in BagToSet(packages)
  BY <1>2, <1>4, <1>8
<1>10. Requests' \subseteq Requests /\ (p \in Requests => Requests' = {})
  BY <1>6, <1>7
<1>11. \A q \in Requests' : packages'[q] = packages[q]
  BY <1>6, <1>7
<1> QED
  BY <1>1, <1>9, <1>10, <1>11 DEF d

LEMMA GoodReceives ==
  ASSUME LifeTypeOK, Good, NEW p \in BagToSet(packages), Receives(p) PROVE Good'
<1> DEFINE d == p.to
<1>1. /\ d \in Devices
      /\ \A q \in BagToSet(packages') : q.kind \notin {"STATE_ON", "STATE_OFF"} => q \in BagToSet(packages)
      /\ Requests' \subseteq Requests /\ \A q \in Requests' : packages'[q] = packages[q]
      /\ p \in Requests => Requests' = {}
  BY ReceivesFacts
<1>2. UNCHANGED <<state, registered, seen, enabling, deskChannel, events, linked, channels>>
  BY DEF Receives, session
<1>3. /\ PackagesHold' /\ \A c \in Channels : Told(c)' => Told(c)
      /\ Disables' => Disables
  BY <1>1, PackagesFrame DEF Good, Disables
<1>4. \/ UNCHANGED strand
      \/ registered[d] /\ p.kind = "ENABLE" /\ strand' = Posts(d, "enable", "nothing")
      \/ registered[d] /\ p.kind = "DISABLE" /\ strand' = Posts(d, "disable", "nothing")
  BY DEF Receives, Handles
<1>5. \/ UNCHANGED <<channel, phoneChannel>>
      \/ /\ registered[d] /\ p.kind = "PORT_INFO"
         /\ channel' = [channel EXCEPT ![d] = p.number]
         /\ phoneChannel' = [c \in Channels |->
               IF c = p.number THEN "connecting"
               ELSE IF c = channel[d] /\ phoneChannel[c] = "connected" THEN "closed" ELSE phoneChannel[c]]
  BY DEF Receives, Handles
<1> HIDE DEF d
<1>6. registered[d] => state[d] # "Uninitialized"
  BY <1>1 DEF Good, RegisteredHolds
<1>7. /\ \A e \in Devices : Has(strand[e], "shutdown") <=> Has(strand'[e], "shutdown")
      /\ \A e \in Devices : Has(strand'[e], "enable") => Has(strand[e], "enable") \/ (e = d /\ p \in Requests)
      /\ \A e \in Devices : Has(strand'[e], "disable") => Has(strand[e], "disable") \/ Disables
      /\ \A e \in Devices : Once(strand[e], "enable") /\ (p \in Requests => ~Has(strand[e], "enable"))
                              => Once(strand'[e], "enable")
      /\ \A e \in Devices : state[e] = "Uninitialized" => strand'[e] = strand[e]
  <2>1. CASE UNCHANGED strand
    BY <2>1
  <2>2. ASSUME NEW op \in {"enable", "disable"}, strand' = Posts(d, op, "nothing"), registered[d],
               op = "enable" => p \in Requests, op = "disable" => Disables
        PROVE  /\ \A e \in Devices : Has(strand[e], "shutdown") <=> Has(strand'[e], "shutdown")
               /\ \A e \in Devices : Has(strand'[e], "enable") => Has(strand[e], "enable") \/ (e = d /\ p \in Requests)
               /\ \A e \in Devices : Has(strand'[e], "disable") => Has(strand[e], "disable") \/ Disables
               /\ \A e \in Devices : Once(strand[e], "enable") /\ (p \in Requests => ~Has(strand[e], "enable"))
                                       => Once(strand'[e], "enable")
               /\ \A e \in Devices : state[e] = "Uninitialized" => strand'[e] = strand[e]
    <3>1. /\ \A e \in Devices : \A o : Has(strand'[e], o) <=> (Has(strand[e], o) \/ (e = d /\ o = op))
          /\ \A e \in Devices : \A o : Once(strand[e], o) /\ (e = d /\ o = op => ~Has(strand[e], o))
                                         => Once(strand'[e], o)
          /\ \A e \in Devices : e # d => strand'[e] = strand[e]
      <4>1. op \in {"enable", "disable", "shutdown"} /\ "nothing" \in States \cup {"nothing"}
        OBVIOUS
      <4> QED
        BY <1>1, <2>2, <4>1, PostsFacts
    <3> QED
      BY <1>6, <2>2, <3>1
  <2>3. (p.kind = "ENABLE" => p \in Requests) /\ (p.kind = "DISABLE" => Disables)
    BY DEF Requests, Disables
  <2> QED
    BY <1>4, <2>1, <2>2, <2>3
<1>8. p.kind = "PORT_INFO" => d = "phone" /\ p.number \in Channels /\ Told(p.number)
  BY DEF Good, PackagesHold, Told, d
<1>9. /\ channel'["desktop"] = channel["desktop"]
      /\ \A e \in Devices : state[e] = "Uninitialized" => channel'[e] = channel[e]
  BY <1>1, <1>5, <1>6, <1>8 DEF LifeTypeOK, Devices
<1>10. EventsHold'
  <2>1. \A e \in Devices : state[e] = "Uninitialized" /\ Fresh(e) => Fresh(e)'
    BY <1>2, <1>7, <1>9 DEF Fresh, Free, Busy
  <2> QED
    BY <1>2, <1>7, <2>1, EventsFrame DEF Good
<1>11. RegisteredHolds' /\ ChannelHolds'
  BY <1>2, <1>7, <1>9, RegisteredFrame, ChannelFrame DEF Good
<1>12. \A s \in Slots : Dialog(s)' = Dialog(s)
  BY <1>2 DEF Dialog
<1>13. ASSUME p \in Requests PROVE OneRequest' /\ DisablingHolds' /\ SlotsHold'
  <2>1. Requests' = {} /\ NotPosted /\ ~NotAsked /\ \A s \in Slots : ~Dialog(s)
    BY <1>1, <1>13 DEF Good, OneRequest, NotAsked
  <2>2. OneAsk'
    BY <2>1 DEF OneAsk
  <2>3. OnePost'
    BY <1>7, <2>1 DEF OnePost, NotPosted, Good, OneRequest
  <2>4. OneRequest'
    BY <1>12, <2>1, <2>2, <2>3 DEF OneRequest
  <2>5. ~Disables /\ \A e \in Devices : ~Has(strand[e], "disable")
    BY <2>1 DEF Good, DisablingHolds
  <2>6. DisablingHolds'
    BY <1>3, <1>7, <2>5 DEF DisablingHolds
  <2>7. SlotsHold'
    BY <1>2, <2>1 DEF Good, SlotsHold, Busy, Free
  <2> QED
    BY <2>4, <2>6, <2>7
<1>14. ASSUME p \notin Requests PROVE OneRequest' /\ DisablingHolds' /\ SlotsHold'
  <2>1. Stays
    BY <1>1, <1>7, <1>12, <1>14 DEF Stays
  <2>2. OneRequest' /\ (NotAsked => NotAsked')
    BY <2>1, RequestFrame DEF Good
  <2>3. Disables => NotAsked'
    BY <2>2 DEF Good, DisablingHolds
  <2>4. DisablingHolds'
    BY <1>3, <1>7, <2>2, <2>3, DisablingFrame DEF Good
  <2>5. \A e \in Devices, s \in Slots : Busy(e, s)' => Busy(e, s)
    BY <1>2 DEF Busy
  <2>6. SlotsHold'
    BY <1>2, <2>2, <2>5, SlotsFrame DEF Good
  <2> QED
    BY <2>2, <2>4, <2>6
<1>15. OneRequest' /\ DisablingHolds' /\ SlotsHold'
  BY <1>13, <1>14
<1>16. DesktopHolds'
  BY <1>2, <1>9, DesktopFrame DEF Good
<1>17. ASSUME NEW c \in Channels PROVE EndHolds(c)'
  <2>1. EndHolds(c) /\ (Told(c)' => Told(c))
    BY <1>3 DEF Good, ChannelEndsHold
  <2>2. CASE UNCHANGED <<channel, phoneChannel>>
    BY <1>2, <2>1, <2>2 DEF EndHolds
  <2>3. CASE /\ p.kind = "PORT_INFO"
             /\ channel' = [channel EXCEPT ![d] = p.number]
             /\ phoneChannel' = [x \in Channels |->
                   IF x = p.number THEN "connecting"
                   ELSE IF x = channel[d] /\ phoneChannel[x] = "connected" THEN "closed" ELSE phoneChannel[x]]
    <3>1. d = "phone" /\ Told(p.number)
      BY <1>8, <2>3
    <3>2. /\ c = p.number => phoneChannel'[c] = "connecting"
          /\ c # p.number => \/ phoneChannel'[c] = phoneChannel[c] /\ ~(c = channel["phone"] /\ phoneChannel[c] = "connected")
                             \/ phoneChannel'[c] = "closed" /\ phoneChannel[c] = "connected"
      BY <2>3, <3>1
    <3>3. deskChannel' = deskChannel /\ channels' = channels
      BY <1>2
    <3>4. CASE c = p.number
      BY <1>9, <2>1, <3>1, <3>2, <3>3, <3>4 DEF EndHolds
    <3>5. CASE c # p.number
      BY <1>9, <2>1, <3>2, <3>3, <3>5 DEF EndHolds
    <3> QED
      BY <3>4, <3>5
  <2> QED
    BY <1>5, <2>2, <2>3
<1>18. ChannelEndsHold'
  BY <1>17 DEF ChannelEndsHold
<1> QED
  BY <1>3, <1>10, <1>11, <1>15, <1>16, <1>18 DEF Good

LEMMA RestFacts ==
  ASSUME LifeTypeOK, Quiescent
  PROVE  /\ NotAsked /\ ~Disables /\ \A c : ~Told(c)
         /\ \A d \in Devices : Free(d) /\ events[d] = <<>> /\ strand[d] = <<>>
<1>1. \A d \in Devices : Free(d) /\ events[d] = <<>> /\ strand[d] = <<>>
  BY DEF Quiescent, Free, Busy, Idle
<1>2. BagToSet(packages) = {}
  BY DEF Quiescent, EmptyBag, SetToBag, BagToSet
<1>3. Requests = {} /\ ~Disables /\ \A c : ~Told(c)
  BY <1>2 DEF Requests, Disables, Told
<1>4. NotPosted
  BY <1>1, HasNothing DEF NotPosted
<1>5. \A s \in Slots : ~Dialog(s)
  BY <1>1 DEF Free, Busy, Dialog, Devices
<1> QED
  BY <1>1, <1>3, <1>4, <1>5 DEF NotAsked

LEMMA GoodToggle ==
  ASSUME LifeTypeOK, Good, NEW d \in Devices, Toggle(d) PROVE Good'
<1>1. /\ UNCHANGED <<state, registered, enabling, channel, deskChannel, phoneChannel, packages, events, linked, channels>>
      /\ Quiescent /\ linked
  BY DEF Toggle, module, channelVars, session
<1>2. PICK op \in {"enable", "disable"} : strand' = Posts(d, op, "nothing")
  BY DEF Toggle
<1>3. /\ NotAsked /\ ~Disables
      /\ \A e \in Devices : Free(e) /\ events[e] = <<>> /\ strand[e] = <<>>
  BY <1>1, RestFacts
<1>4. /\ \A e \in Devices : \A o : Has(strand'[e], o) <=> (Has(strand[e], o) \/ (e = d /\ o = op))
      /\ \A e \in Devices : \A o : Once(strand[e], o) /\ (e = d /\ o = op => ~Has(strand[e], o))
                                     => Once(strand'[e], o)
      /\ \A e \in Devices : e # d => strand'[e] = strand[e]
  BY <1>2, PostsFacts
<1>5. \A e \in Devices : \A o : ~Has(strand[e], o)
  BY <1>3, HasNothing
<1>6. \A e \in Devices : \A o : Has(strand'[e], o) => e = d /\ o = op
  BY <1>4, <1>5
<1>7. PackagesHold' /\ RegisteredHolds'
  BY <1>1 DEF Good, PackagesHold, RegisteredHolds
<1>8. EventsHold'
  <2>1. \A e \in Devices : state[e] # "Uninitialized"
    BY <1>1, <1>3 DEF Good, EventsHold
  <2> QED
    BY <1>1, <1>6, <2>1, EventsFrame DEF Good
<1>9. ChannelHolds'
  BY <1>1, <1>5, ChannelFrame DEF Good
<1>10. OneRequest'
  <2>1. Requests' = Requests /\ \A s \in Slots : Dialog(s)' = Dialog(s)
    BY <1>1 DEF Requests, Dialog
  <2>2. OneAsk'
    BY <1>1, <2>1 DEF Good, OneRequest, OneAsk
  <2>3. OnePost'
    BY <1>4, <1>5, <1>6 DEF OnePost, Good, OneRequest
  <2> QED
    BY <1>3, <2>1, <2>2, <2>3 DEF OneRequest, NotAsked
<1>11. DisablingHolds'
  <2>1. Disables' = Disables /\ Requests' = Requests /\ \A s \in Slots : Dialog(s)' = Dialog(s)
    BY <1>1 DEF Disables, Requests, Dialog
  <2>2. op = "disable" => NotAsked'
    BY <1>3, <1>6, <2>1 DEF NotAsked, NotPosted
  <2> QED
    BY <1>3, <1>6, <2>1, <2>2 DEF DisablingHolds
<1>12. SlotsHold'
  BY <1>1, <1>3 DEF SlotsHold, Free, Busy
<1>13. DesktopHolds'
  BY <1>1, DesktopFrame DEF Good
<1>14. ChannelEndsHold'
  <2>1. \A c \in Channels : Told(c)' => Told(c)
    BY <1>1 DEF Told
  <2> QED
    BY <1>1, <2>1, EndsFrame DEF Good
<1> QED
  BY <1>7, <1>8, <1>9, <1>10, <1>11, <1>12, <1>13, <1>14 DEF Good

LEMMA EventsFacts ==
  /\ Append(<<>>, "connected") = <<"connected">>
  /\ Append(<<>>, "disconnected") = <<"disconnected">>
  /\ Append(<<"connected">>, "disconnected") = <<"connected", "disconnected">>
  /\ Head(<<"connected">>) = "connected" /\ Tail(<<"connected">>) = <<>>
  /\ Head(<<"disconnected">>) = "disconnected" /\ Tail(<<"disconnected">>) = <<>>
  /\ Head(<<"connected", "disconnected">>) = "connected"
  /\ Tail(<<"connected", "disconnected">>) = <<"disconnected">>
<1>1. Append(<<>>, "connected") = <<"connected">> /\ Append(<<>>, "disconnected") = <<"disconnected">>
  OBVIOUS
<1>2. Append(<<"connected">>, "disconnected") = <<"connected", "disconnected">>
  <2> DEFINE E == {"connected", "disconnected"}
             q == Append(<<"connected">>, "disconnected")
             r == <<"connected", "disconnected">>
  <2>1. <<"connected">> \in Seq(E) /\ Len(<<"connected">>) = 1 /\ <<"connected">>[1] = "connected"
    OBVIOUS
  <2>2. q \in Seq(E) /\ Len(q) = 2 /\ q[1] = "connected" /\ q[2] = "disconnected"
    BY <2>1, AppendProperties
  <2>3. r \in Seq(E) /\ Len(r) = 2 /\ r[1] = "connected" /\ r[2] = "disconnected"
    OBVIOUS
  <2> HIDE DEF q, r, E
  <2>4. \A n \in 1 .. Len(q) : q[n] = r[n]
    BY <2>2, <2>3
  <2>5. q = r
    BY <2>2, <2>3, <2>4, SeqEqual
  <2> QED
    BY <2>5 DEF q, r
<1>3. /\ Head(<<"connected">>) = "connected" /\ Head(<<"disconnected">>) = "disconnected"
      /\ Head(<<"connected", "disconnected">>) = "connected"
  OBVIOUS
<1>4. Tail(<<"connected">>) = <<>>
  OBVIOUS
<1>5. Tail(<<"disconnected">>) = <<>>
  OBVIOUS
<1>6. Tail(<<"connected", "disconnected">>) = <<"disconnected">>
  OBVIOUS
<1> QED
  BY <1>1, <1>2, <1>3, <1>4, <1>5, <1>6

LEMMA GoodLinkBegins ==
  ASSUME LifeTypeOK, Good, LinkBegins PROVE Good'
<1>1. /\ UNCHANGED <<state, registered, strand, enabling, channel, deskChannel, phoneChannel, packages, channels>>
      /\ Quiescent /\ ~linked /\ linked'
      /\ \A d \in Devices : events'[d] = Append(events[d], "connected")
  BY DEF LinkBegins, Tells, module, work, channelVars
<1>2. PackagesHold' /\ RegisteredHolds' /\ ChannelHolds'
  BY <1>1 DEF Good, PackagesHold, RegisteredHolds, ChannelHolds
<1>3. EventsHold'
  <2>1. \A d \in Devices : Free(d) /\ events[d] = <<>> /\ strand[d] = <<>>
    BY <1>1, RestFacts
  <2>2. \A d \in Devices : state[d] = "Uninitialized"
    BY <1>1, <2>1 DEF Good, EventsHold
  <2>3. \A d \in Devices : channel[d] = NoChannel
    BY <2>1, <2>2, HasNothing DEF Good, ChannelHolds
  <2>4. \A d \in Devices : Fresh(d)'
    BY <1>1, <2>1, <2>3 DEF Fresh, Free, Busy
  <2>5. \A d \in Devices : events'[d] = <<"connected">>
    BY <1>1, <2>1, EventsFacts
  <2> QED
    BY <1>1, <2>2, <2>4, <2>5 DEF EventsHold
<1>4. Requests' = Requests /\ NotPosted' = NotPosted /\ NotAsked' = NotAsked /\ Disables' = Disables
  BY <1>1 DEF Requests, NotPosted, NotAsked, Disables, Dialog
<1>5. OneRequest' /\ DisablingHolds'
  BY <1>1, <1>4 DEF Good, OneRequest, DisablingHolds, OneAsk, OnePost, Dialog
<1>6. SlotsHold' /\ DesktopHolds'
  BY <1>1, <1>4 DEF Good, SlotsHold, DesktopHolds, Busy, Free
<1>7. ChannelEndsHold'
  BY <1>1 DEF Good, ChannelEndsHold, EndHolds, Told
<1> QED
  BY <1>2, <1>3, <1>5, <1>6, <1>7 DEF Good

LEMMA GoodLinkEnds ==
  ASSUME LifeTypeOK, Good, LinkEnds PROVE Good'
<1>1. /\ UNCHANGED <<state, registered, strand, enabling, channel, deskChannel, phoneChannel, channels>>
      /\ linked /\ ~linked' /\ packages' = EmptyBag
      /\ \A d \in Devices : events'[d] = Append(events[d], "disconnected")
  BY DEF LinkEnds, Tells, module, work, channelVars
<1>2. BagToSet(packages') = {}
  BY <1>1 DEF EmptyBag, SetToBag, BagToSet
<1>3. Requests' = {} /\ ~Disables' /\ \A c : ~Told(c)'
  BY <1>2 DEF Requests, Disables, Told
<1>4. PackagesHold' /\ RegisteredHolds' /\ ChannelHolds'
  BY <1>1, <1>2 DEF Good, PackagesHold, RegisteredHolds, ChannelHolds
<1>5. EventsHold'
  <2>1. ASSUME NEW d \in Devices
        PROVE  \/ /\ events'[d] = <<"disconnected">> /\ state'[d] # "Uninitialized"
                  /\ ~Has(strand'[d], "shutdown")
               \/ /\ events'[d] = <<"connected", "disconnected">> /\ state'[d] = "Uninitialized"
                  /\ Fresh(d)'
    <3>1. Fresh(d)' = Fresh(d)
      BY <1>1 DEF Fresh, Free, Busy
    <3>2. \/ events[d] = <<>> /\ state[d] # "Uninitialized" /\ ~Has(strand[d], "shutdown")
          \/ events[d] = <<"connected">> /\ state[d] = "Uninitialized" /\ Fresh(d)
      BY <1>1 DEF Good, EventsHold
    <3> QED
      BY <1>1, <3>1, <3>2, EventsFacts
  <2> QED
    BY <1>1, <2>1 DEF EventsHold
<1>6. Stays
  BY <1>1, <1>3 DEF Stays, Dialog
<1>7. OneRequest' /\ (NotAsked => NotAsked')
  BY <1>6, RequestFrame DEF Good
<1>8. DisablingHolds'
  BY <1>1, <1>3, <1>7, DisablingFrame DEF Good
<1>9. SlotsHold'
  <2>1. \A e \in Devices, s \in Slots : Busy(e, s)' => Busy(e, s)
    BY <1>1 DEF Busy
  <2> QED
    BY <1>1, <1>7, <2>1, SlotsFrame DEF Good
<1>10. DesktopHolds'
  BY <1>1, DesktopFrame DEF Good
<1>11. ChannelEndsHold'
  BY <1>1, <1>3, EndsFrame DEF Good
<1> QED
  BY <1>4, <1>5, <1>7, <1>8, <1>9, <1>10, <1>11 DEF Good

LEMMA GoodQtEvent ==
  ASSUME LifeTypeOK, Good, NEW d \in Devices, QtEvent(d) PROVE Good'
<1>1. /\ UNCHANGED <<enabling, channel, deskChannel, phoneChannel, packages, linked, channels>>
      /\ events[d] # <<>>
      /\ \A e \in Devices : events'[e] = IF e = d THEN Tail(events[d]) ELSE events[e]
  BY DEF QtEvent, channelVars, LifeTypeOK
<1>2. PackagesHold' /\ \A c \in Channels : Told(c)' => Told(c)
  BY <1>1, PackagesFrame DEF Good
<1>3. ChannelEndsHold'
  BY <1>1, <1>2, EndsFrame DEF Good
<1>4. Requests' = Requests /\ Disables' = Disables /\ \A s \in Slots : Dialog(s)' = Dialog(s)
  BY <1>1 DEF Requests, Disables, Dialog
<1>5. /\ \A e \in Devices, s \in Slots : Busy(e, s)' = Busy(e, s)
      /\ \A e \in Devices : Free(e)' = Free(e)
  BY <1>1 DEF Busy, Free
<1>6. CASE events[d] = <<"disconnected">>
  <2>1. ~linked /\ state[d] # "Uninitialized" /\ Head(events[d]) = "disconnected" /\ events'[d] = <<>>
    BY <1>1, <1>6, EventsFacts DEF Good, EventsHold
  <2>2. /\ strand' = Posts(d, "shutdown", state[d])
        /\ state' = [state EXCEPT ![d] = "Uninitialized"]
        /\ registered' = [registered EXCEPT ![d] = FALSE]
    BY <2>1 DEF QtEvent, QtShutdown
  <2>3. /\ \A e \in Devices : state'[e] = IF e = d THEN "Uninitialized" ELSE state[e]
        /\ \A e \in Devices : registered'[e] = IF e = d THEN FALSE ELSE registered[e]
    BY <2>2 DEF LifeTypeOK
  <2>4. state[d] \in States \cup {"nothing"}
    BY DEF LifeTypeOK
  <2>5. /\ \A e \in Devices : \A o : Has(strand'[e], o) <=> (Has(strand[e], o) \/ (e = d /\ o = "shutdown"))
        /\ \A e \in Devices : \A o : Once(strand[e], o) /\ (e = d /\ o = "shutdown" => ~Has(strand[e], o))
                                       => Once(strand'[e], o)
        /\ \A e \in Devices : e # d => strand'[e] = strand[e]
    BY <2>2, <2>4, PostsFacts
  <2>6. EventsHold'
    <3>1. ASSUME NEW e \in Devices, e # d
          PROVE  /\ events'[e] = events[e] /\ state'[e] = state[e] /\ strand'[e] = strand[e]
                 /\ Fresh(e)' = Fresh(e)
      BY <1>1, <1>5, <2>3, <2>5, <3>1 DEF Fresh
    <3> QED
      BY <1>1, <2>1, <2>3, <3>1 DEF Good, EventsHold
  <2>7. RegisteredHolds'
    BY <2>3 DEF Good, RegisteredHolds
  <2>8. ChannelHolds'
    BY <1>1, <2>3, <2>5 DEF Good, ChannelHolds
  <2>9. Stays
    BY <1>1, <1>4, <2>5 DEF Stays
  <2>10. OneRequest' /\ (NotAsked => NotAsked')
    BY <2>9, RequestFrame DEF Good
  <2>11. DisablingHolds'
    BY <1>4, <2>5, <2>10, DisablingFrame DEF Good
  <2>12. SlotsHold'
    BY <1>5, <2>3, <2>10, SlotsFrame DEF Good
  <2>13. DesktopHolds'
    <3>1. state'["desktop"] \in {"Enabling", "Enabled"} => state["desktop"] \in {"Enabling", "Enabled"}
      BY <2>3 DEF Devices
    <3> QED
      BY <1>1, <3>1, DesktopFrame DEF Good
  <2> QED
    BY <1>2, <1>3, <2>6, <2>7, <2>8, <2>10, <2>11, <2>12, <2>13 DEF Good
<1>7. CASE events[d] # <<"disconnected">>
  <2>1. /\ state[d] = "Uninitialized" /\ Fresh(d) /\ Head(events[d]) = "connected"
        /\ \/ events'[d] = <<>> /\ linked
           \/ events'[d] = <<"disconnected">> /\ ~linked
    BY <1>1, <1>7, EventsFacts DEF Good, EventsHold
  <2>2. /\ UNCHANGED strand
        /\ state' = [state EXCEPT ![d] = "Disabled"]
        /\ registered' = [registered EXCEPT ![d] = TRUE]
    BY <2>1 DEF QtEvent, QtInitialize
  <2>3. /\ \A e \in Devices : state'[e] = IF e = d THEN "Disabled" ELSE state[e]
        /\ \A e \in Devices : registered'[e] = IF e = d THEN TRUE ELSE registered[e]
    BY <2>2 DEF LifeTypeOK
  <2>4. EventsHold'
    <3>1. ASSUME NEW e \in Devices, e # d
          PROVE  /\ events'[e] = events[e] /\ state'[e] = state[e] /\ strand'[e] = strand[e]
                 /\ Fresh(e)' = Fresh(e)
      BY <1>1, <1>5, <2>2, <2>3, <3>1 DEF Fresh
    <3>2. ~Has(strand'[d], "shutdown")
      BY <2>1, <2>2, HasNothing DEF Fresh
    <3> QED
      BY <1>1, <2>1, <2>3, <3>1, <3>2 DEF Good, EventsHold
  <2>5. RegisteredHolds'
    BY <2>3 DEF Good, RegisteredHolds
  <2>6. ChannelHolds'
    BY <1>1, <2>2, <2>3 DEF Good, ChannelHolds
  <2>7. Stays
    BY <1>1, <1>4, <2>2 DEF Stays
  <2>8. OneRequest' /\ (NotAsked => NotAsked')
    BY <2>7, RequestFrame DEF Good
  <2>9. DisablingHolds'
    BY <1>4, <2>2, <2>8, DisablingFrame DEF Good
  <2>10. SlotsHold'
    <3>1. Free(d)'
      BY <1>5, <2>1 DEF Fresh
    <3> QED
      BY <1>5, <2>3, <2>8, <3>1, SlotsFrame DEF Good
  <2>11. DesktopHolds'
    <3>1. state'["desktop"] \in {"Enabling", "Enabled"} => state["desktop"] \in {"Enabling", "Enabled"}
      BY <2>3 DEF Devices
    <3> QED
      BY <1>1, <3>1, DesktopFrame DEF Good
  <2> QED
    BY <1>2, <1>3, <2>4, <2>5, <2>6, <2>8, <2>9, <2>10, <2>11 DEF Good
<1> QED
  BY <1>6, <1>7

-------------------------------------------------------------------------------
(* The theorems. *)

LEMMA GoodStep ==
  ASSUME LifeTypeOK, LifeTypeOK', Good, LifeNext, ~late'
  PROVE  Good'
<1>1. ASSUME NEW d \in Devices, Strand(d) PROVE Good'
  <2>1. CASE ReadsState(d)
    <3>1. UNCHANGED <<state, registered, strand, enabling, channel, deskChannel, phoneChannel,
                      packages, events, linked, channels>>
      BY <2>1 DEF ReadsState, module, channelVars, session
    <3> QED
      BY <3>1, GoodUnchanged
  <2> QED
    BY <1>1, <2>1, GoodRunEnable, GoodRunDisable, GoodRunShutdown DEF Strand
<1>2. ASSUME NEW d \in Devices, NEW s \in Slots, OnEnable(d, s) PROVE Good'
  BY <1>2, GoodTellsPort, GoodAwaitsConnection, GoodFetches, GoodAnswers, GoodAwaitsFlag,
     GoodFlagTimesOut, GoodAwaitsPeer, GoodBecomesEnabled DEF OnEnable
<1>3. ASSUME NEW d \in Devices, Toggle(d) \/ QtEvent(d) PROVE Good'
  BY <1>3, GoodToggle, GoodQtEvent
<1>4. ASSUME LinkBegins \/ LinkEnds PROVE Good'
  BY <1>4, GoodLinkBegins, GoodLinkEnds
<1> QED
  BY <1>1, <1>2, <1>3, <1>4, GoodConnects, GoodReceives DEF LifeNext

LEMMA LateIsForGood == LifeTypeOK /\ LifeNext /\ late => late'
BY DEF LifeTypeOK, LifeNext, Strand, OnEnable, ReadsState, RunEnable, RunDisable, RunShutdown, Toggle, QtEvent,
       TellsPort, AwaitsConnection, Fetches, Answers, AwaitsFlag, FlagTimesOut, AwaitsPeer, BecomesEnabled,
       ChannelConnects, Receives, LinkBegins, LinkEnds

LEMMA LifeInitStep == LifeInit => LifeIInv
<1> SUFFICES ASSUME LifeInit PROVE LifeIInv
  OBVIOUS
<1>1. NoChannel \in 0 .. MaxChannels /\ 0 \in 0 .. MaxLinks /\ 0 \in 0 .. MaxToggles /\ 0 \in 0 .. MaxChannels
  BY NumbersAreNaturals
<1>2. BagToSet(packages) = {} /\ IsABag(packages)
  BY DEF LifeInit, EmptyBag, SetToBag, BagToSet, IsABag
<1>3. Idle \in Coroutines /\ Idle.at = "idle"
  BY <1>1 DEF Idle, Coroutines
<1>4. LifeTypeOK
  <2>1. state \in [Devices -> States] /\ seen \in [Devices -> States \cup {"nothing"}]
    BY DEF LifeInit, States
  <2>2. strand \in [Devices -> Seq(Operations)] /\ events \in [Devices -> Seq({"connected", "disconnected"})]
    BY DEF LifeInit
  <2>3. enabling \in [Devices -> [Slots -> Coroutines]]
    BY <1>3 DEF LifeInit
  <2>4. /\ channel \in [Devices -> 0 .. MaxChannels]
        /\ sessions \in 0 .. MaxLinks /\ toggles \in 0 .. MaxToggles /\ channels \in 0 .. MaxChannels
    BY <1>1 DEF LifeInit
  <2> QED
    BY <1>2, <2>1, <2>2, <2>3, <2>4 DEF LifeInit, LifeTypeOK
<1>5. \A d \in Devices : Free(d) /\ strand[d] = <<>>
  BY <1>3 DEF LifeInit, Free, Busy
<1>6. Requests = {} /\ ~Disables /\ \A c : ~Told(c)
  BY <1>2 DEF Requests, Disables, Told
<1>7. NotPosted /\ \A d \in Devices : \A o : ~Has(strand[d], o)
  BY <1>5, HasNothing DEF NotPosted
<1>8. \A s \in Slots : ~Dialog(s)
  BY <1>5 DEF Free, Busy, Dialog, Devices
<1>9. PackagesHold /\ EventsHold /\ RegisteredHolds /\ ChannelHolds
  BY <1>2 DEF LifeInit, PackagesHold, EventsHold, RegisteredHolds, ChannelHolds
<1>10. OnePost
  BY <1>7 DEF OnePost, Once, Has
<1>11. OneRequest /\ DisablingHolds
  BY <1>6, <1>7, <1>8, <1>10 DEF OneRequest, OneAsk, DisablingHolds
<1>12. SlotsHold /\ DesktopHolds
  BY <1>5 DEF SlotsHold, DesktopHolds, Free, Devices
<1>13. ChannelEndsHold
  BY <1>6 DEF LifeInit, ChannelEndsHold, EndHolds
<1> QED
  BY <1>4, <1>9, <1>11, <1>12, <1>13 DEF LifeIInv, Good

LEMMA LifeNextStep == LifeIInv /\ [LifeNext]_lifeVars => LifeIInv'
<1> SUFFICES ASSUME LifeIInv, [LifeNext]_lifeVars PROVE LifeIInv'
  OBVIOUS
<1>1. LifeTypeOK /\ LifeTypeOK'
  BY TypedStep DEF LifeIInv
<1>2. CASE UNCHANGED lifeVars
  <2>1. late' = late /\ UNCHANGED <<state, registered, strand, enabling, channel, deskChannel, phoneChannel,
                                    packages, events, linked, channels>>
    BY <1>2 DEF lifeVars, module, work, channelVars, session
  <2> QED
    BY <1>1, <2>1, GoodUnchanged DEF LifeIInv
<1>3. CASE LifeNext
  BY <1>1, <1>3, LateIsForGood, GoodStep DEF LifeIInv
<1> QED
  BY <1>2, <1>3

(* The invariant holds initially and every step keeps it. *)
THEOREM LifeInvariance == LifeSpec => []LifeIInv
  BY LifeInitStep, LifeNextStep, PTL DEF LifeSpec

THEOREM LifeIsTyped == LifeSpec => []LifeTypeOK
<1>1. LifeIInv => LifeTypeOK
  BY DEF LifeIInv
<1> QED
  BY <1>1, LifeInvariance, PTL

LEMMA NothingLeft == LifeIInv => SessionLeavesNothing
<1> SUFFICES ASSUME LifeIInv, ~linked, Quiescent, ~late
             PROVE  /\ \A d \in Devices : state[d] = "Uninitialized" /\ ~registered[d] /\ channel[d] = NoChannel
                    /\ \A c \in Channels : deskChannel[c] # "connected" /\ phoneChannel[c] # "connected"
  BY DEF SessionLeavesNothing
<1>1. LifeTypeOK /\ Good
  BY DEF LifeIInv
<1>2. \A d \in Devices : events[d] = <<>> /\ strand[d] = <<>>
  BY <1>1, RestFacts
<1>3. \A d \in Devices : state[d] = "Uninitialized"
  BY <1>1, <1>2 DEF Good, EventsHold
<1>4. \A d \in Devices : ~registered[d]
  BY <1>1, <1>3 DEF Good, RegisteredHolds
<1>5. \A d \in Devices : channel[d] = NoChannel
  BY <1>1, <1>2, <1>3, HasNothing DEF Good, ChannelHolds
<1>6. \A c \in Channels : c # channel["desktop"] /\ c # channel["phone"]
  BY <1>5 DEF Channels, NoChannel, Devices
<1>7. \A c \in Channels : deskChannel[c] # "connected" /\ phoneChannel[c] # "connected"
  BY <1>1, <1>6 DEF Good, ChannelEndsHold, EndHolds
<1> QED
  BY <1>3, <1>4, <1>5, <1>7

(* Once a session is over and everything has run, the module is shut down on both devices, *)
(* without handlers and without a channel, and no end of a channel is connected.            *)
THEOREM NothingIsLeft == LifeSpec => []SessionLeavesNothing
  BY NothingLeft, LifeInvariance, PTL

-------------------------------------------------------------------------------
(* The set-up of the channels. *)

(* The channel that a device's pool has now for an index. *)
Mine(d, i) == ends[d][<<objects[d], i>>]
Off(d, i)  == Mine(d, i).state = "DISCONNECTED"
Port(i, e) == <<"PORT_INFO", i, e>>
Waiters    == running["desktop"]["wait"] + running["desktop"]["waitConnected"] + running["desktop"]["waitDropped"]

(* Both devices hear the same events, and replace their channels at each. *)
EventsInOrder ==
  /\ up => \A d \in Sides : told[d] \in {<<>>, <<"connected">>}
  /\ ~up => mail = {} /\ \A d \in Sides : told[d] \in {<<>>, <<"disconnected">>, <<"connected", "disconnected">>}
  /\ \A d \in Sides : objects[d] + Len(told[d]) + (IF up THEN 1 ELSE 0) = 2 * begun

(* Channels that were replaced are disconnected, and nothing names one that is not made yet. *)
OnlyCurrent ==
  /\ \A d \in Sides, c \in Pools \X Indices : ends[d][c].state # "DISCONNECTED" => c[1] = objects[d]
  /\ \A e \in publishing : e <= objects["phone"]
  /\ \A i \in Indices, e \in Pools : Port(i, e) \in mail => e <= objects["phone"]
  /\ \A i \in Indices : ~Off("desktop", i) => Mine("desktop", i).peer \in Pools /\ Mine("desktop", i).peer <= objects["phone"]

(* At most one coroutine of the desktop waits, and the others are told so. *)
OneWaits == Waiters <= 1 /\ (up /\ Waiters > 0 => waiting)

(* A session starts with nothing of the last one. *)
StartsClean ==
  /\ up => \A d \in Sides : ~At(d, "waitDropped")
  /\ up /\ told["desktop"] # <<>> =>
       /\ mail = {} /\ publishing = {} /\ \A d \in Sides, p \in Places : running[d][p] = 0
       /\ \A i \in Indices : Off("desktop", i)
  /\ ~up /\ told["desktop"] = <<>> => \A i \in Indices : Off("desktop", i)
  /\ ~up /\ told["phone"] = <<>> =>
       \A i \in Indices : ~Off("desktop", i) => Mine("desktop", i).peer < objects["phone"]
  /\ told["phone"] = <<>> /\ (~up \/ told["desktop"] # <<>>) =>
       \A i \in Indices : Mine("phone", i).state # "CONNECTED"

(* An event that replaced the phone's channels now would be noticed as a race. *)
Watched == told["phone"] # <<>> => poolState["phone"] # "DISCONNECTED"

(* The phone's channel waits for one of the desktop. *)
Offered(i) == Watched /\ ~Off("phone", i)

(* What is offered in this session is published once, and taken once. *)
OffersHold ==
  /\ publishing # {} =>
       /\ publishing = {objects["phone"]} /\ Watched /\ \A i \in Indices : Offered(i) /\ Off("desktop", i)
       /\ \A i \in Indices, e \in Pools : Port(i, e) \notin mail
  /\ \A i \in Indices, e \in Pools : Port(i, e) \in mail =>
       e = objects["phone"] /\ Offered(i) /\ Off("desktop", i)
  /\ \A i \in Indices : ~Off("desktop", i) => Mine("desktop", i).peer = objects["phone"] /\ Offered(i)
  /\ told["phone"] = <<>> /\ told["desktop"] = <<>> =>
       \A i \in Indices : Mine("phone", i).state = "CONNECTED" => Mine("phone", i).peer = objects["desktop"]
  /\ \A d \in Sides : told[d] = <<>> /\ poolState[d] = "CONNECTED" => AllConnected(d)

SetUpIInv ==
  /\ SetUpTypeOK /\ EventsInOrder /\ OnlyCurrent /\ OneWaits /\ StartsClean
  /\ up /\ ~raced => OffersHold

USE DEF Sides, Port, Off, Mine

-------------------------------------------------------------------------------
(* What the operations do *)

LEMMA Numbers ==
  /\ Pools \subseteq Nat /\ 0 \in Pools /\ \A n \in Nat : n <= 2 * MaxSessions => n \in Pools
  /\ -1 \notin Pools
  BY SetUpBounds DEF Pools

LEMMA PackagesSent ==
  /\ \A i, e : Port(i, e) # <<"CONNECT">>
  /\ \A i, e, j, f : Port(i, e) = Port(j, f) => i = j /\ e = f
  <1>1. ASSUME NEW i, NEW e, Port(i, e) = <<"CONNECT">>
        PROVE  FALSE
    <2>1. Port(i, e)[1] = <<"CONNECT">>[1]
      BY <1>1
    <2> QED
      BY <2>1
  <1>2. ASSUME NEW i, NEW e, NEW j, NEW f, Port(i, e) = Port(j, f)
        PROVE  i = j /\ e = f
    <2>1. Port(i, e)[2] = Port(j, f)[2] /\ Port(i, e)[3] = Port(j, f)[3]
      BY <1>2
    <2> QED
      BY <2>1
  <1> QED
    BY <1>1, <1>2

(* A coroutine goes from one place to another. *)
LEMMA MoveFacts ==
  ASSUME running \in [Sides -> [Places -> Nat]], NEW d \in Sides,
         NEW from \in Places \cup {"pool"}, NEW to \in Places \cup {"pool"}, from # to,
         from # "pool" => At(d, from), Moves(d, from, to)
  PROVE  /\ running' \in [Sides -> [Places -> Nat]]
         /\ \A x \in Sides \ {d} : running'[x] = running[x]
         /\ \A p \in Places \ {from, to} : running'[d][p] = running[d][p]
         /\ from # "pool" => running[d][from] >= 1 /\ running'[d][from] = running[d][from] - 1
         /\ to # "pool" => running'[d][to] = running[d][to] + 1
  <1> DEFINE was == running[d]
             next == [p \in Places |-> was[p] - (IF p = from THEN 1 ELSE 0) + (IF p = to THEN 1 ELSE 0)]
  <1>1. DOMAIN was = Places /\ \A p \in Places : was[p] \in Nat
    OBVIOUS
  <1>2. running' = [running EXCEPT ![d] = next]
    BY <1>1 DEF Moves
  <1>3. from # "pool" => from \in Places /\ was[from] > 0
    BY DEF At
  <1> HIDE DEF was
  <1>4. from # "pool" => was[from] >= 1
    BY <1>1, <1>3
  <1>5. \A p \in Places : next[p] = was[p] - (IF p = from THEN 1 ELSE 0) + (IF p = to THEN 1 ELSE 0)
    OBVIOUS
  <1>6. \A p \in Places : next[p] \in Nat
    <2> TAKE p \in Places
    <2>1. CASE p = from
      <3>1. from # "pool"
        BY <2>1 DEF Places
      <3> QED
        BY <3>1, <2>1, <1>1, <1>4, <1>5
    <2>2. CASE p # from
      BY <2>2, <1>1, <1>5
    <2> QED
      BY <2>1, <2>2
  <1>7. next \in [Places -> Nat]
    BY <1>6
  <1>8. from # "pool" => next[from] = was[from] - 1
    BY <1>1, <1>3, <1>5
  <1>9. to # "pool" => next[to] = was[to] + 1
    BY <1>1, <1>5
  <1>10. \A p \in Places \ {from, to} : next[p] = was[p]
    BY <1>1, <1>5
  <1> HIDE DEF next
  <1>11. running'[d] = next /\ \A x \in Sides \ {d} : running'[x] = running[x]
    BY <1>2
  <1>12. running' \in [Sides -> [Places -> Nat]]
    BY <1>2, <1>7
  <1> QED
    BY <1>4, <1>8, <1>9, <1>10, <1>11, <1>12 DEF was

(* A coroutine that neither waits nor seeks before and after. *)
LEMMA OtherMoves ==
  ASSUME SetUpTypeOK, NEW d \in Sides,
         NEW from \in Places \cup {"pool"}, NEW to \in Places \cup {"pool"}, from # to,
         from # "pool" => At(d, from), Moves(d, from, to)
  PROVE  /\ running' \in [Sides -> [Places -> Nat]]
         /\ {from, to} \cap {"wait", "waitConnected", "waitDropped"} = {} =>
               /\ Waiters' = Waiters /\ running'["desktop"]["wait"] = running["desktop"]["wait"]
               /\ \A x \in Sides : running'[x]["waitDropped"] = running[x]["waitDropped"]
         /\ {from, to} \cap {"seek", "seekStore"} = {} =>
               /\ running'["phone"]["seek"] = running["phone"]["seek"]
               /\ running'["phone"]["seekStore"] = running["phone"]["seekStore"]
  <1>1. running \in [Sides -> [Places -> Nat]]
    BY DEF SetUpTypeOK
  <1>2. /\ running' \in [Sides -> [Places -> Nat]]
        /\ \A x \in Sides \ {d} : running'[x] = running[x]
        /\ \A p \in Places \ {from, to} : running'[d][p] = running[d][p]
    BY <1>1, MoveFacts
  <1>3. \A x \in Sides : \A p \in Places \ {from, to} : running'[x][p] = running[x][p]
    BY <1>2
  <1>4. {"wait", "waitConnected", "waitDropped", "seek", "seekStore"} \subseteq Places
    BY DEF Places
  <1>5. ASSUME {from, to} \cap {"wait", "waitConnected", "waitDropped"} = {}
        PROVE  \A x \in Sides : /\ running'[x]["wait"] = running[x]["wait"]
                                /\ running'[x]["waitConnected"] = running[x]["waitConnected"]
                                /\ running'[x]["waitDropped"] = running[x]["waitDropped"]
    BY <1>3, <1>4, <1>5
  <1>6. ASSUME {from, to} \cap {"wait", "waitConnected", "waitDropped"} = {}
        PROVE  Waiters' = Waiters
    BY <1>5, <1>6 DEF Waiters
  <1>7. ASSUME {from, to} \cap {"seek", "seekStore"} = {}
        PROVE  \A x \in Sides : running'[x]["seek"] = running[x]["seek"]
                                /\ running'[x]["seekStore"] = running[x]["seekStore"]
    BY <1>3, <1>4, <1>7
  <1> QED
    BY <1>2, <1>5, <1>6, <1>7

(* A step of a coroutine that leaves the channels, their ports and the events alone. *)
LEMMA ChannelsStay ==
  ASSUME SetUpIInv, ~raced, SetUpTypeOK', OneWaits',
         up' = up, told' = told, objects' = objects, ends' = ends, publishing' = publishing, begun' = begun,
         ~up => mail' = {}, \A i \in Indices, e \in Pools : Port(i, e) \in mail' <=> Port(i, e) \in mail,
         ~(up /\ told["desktop"] # <<>>), up => \A d \in Sides : ~At(d, "waitDropped")',
         up /\ ~raced' /\ told["phone"] # <<>> /\ poolState["phone"] # "DISCONNECTED"
             => poolState'["phone"] # "DISCONNECTED",
         \A d \in Sides : up /\ ~raced' /\ told[d] = <<>> /\ poolState'[d] = "CONNECTED" => AllConnected(d)
  PROVE  SetUpIInv'
  <1>1. EventsInOrder'
    BY DEF SetUpIInv, EventsInOrder
  <1>2. OnlyCurrent'
    BY DEF SetUpIInv, OnlyCurrent
  <1>3. StartsClean'
    <2>1. ~(up' /\ told'["desktop"] # <<>>) /\ (up' => \A d \in Sides : ~At(d, "waitDropped")')
      OBVIOUS
    <2> QED
      BY <2>1 DEF SetUpIInv, StartsClean
  <1>4. ASSUME up', ~raced'
        PROVE  OffersHold'
    <2>1. OffersHold /\ (Watched => Watched') /\ \A i : Offered(i) => Offered(i)'
      BY <1>4 DEF SetUpIInv, Offered, Watched
    <2>2. \A d \in Sides : AllConnected(d)' <=> AllConnected(d)
      BY DEF AllConnected
    <2> QED
      BY <2>1, <2>2, <1>4 DEF OffersHold
  <1> QED
    BY <1>1, <1>2, <1>3, <1>4 DEF SetUpIInv

(* Before the desktop's event nothing runs. *)
LEMMA NothingRunsAtStart ==
  ASSUME SetUpIInv
  PROVE  /\ up /\ told["desktop"] # <<>> => mail = {} /\ \A d \in Sides, p \in Places : ~At(d, p)
         /\ up => \A d \in Sides : ~At(d, "waitDropped")
         /\ ~up => mail = {}
         /\ \A d \in Sides : up /\ ~raced /\ told[d] = <<>> /\ poolState[d] = "CONNECTED" => AllConnected(d)
  BY DEF SetUpIInv, StartsClean, EventsInOrder, OffersHold, At

(* What every coroutine step has that waits for no channel. *)
WaitsAreLeft ==
  /\ running' \in [Sides -> [Places -> Nat]] /\ Waiters' = Waiters
  /\ running'["desktop"]["wait"] = running["desktop"]["wait"]
  /\ \A x \in Sides : running'[x]["waitDropped"] = running[x]["waitDropped"]
SeeksAreLeft ==
  /\ running'["phone"]["seek"] = running["phone"]["seek"]
  /\ running'["phone"]["seekStore"] = running["phone"]["seekStore"]

LEMMA CoroutineStep ==
  ASSUME SetUpIInv, ~raced, WaitsAreLeft, running'["phone"]["seek"] + running'["phone"]["seekStore"] <= 2,
         up' = up, told' = told, objects' = objects, ends' = ends, publishing' = publishing,
         begun' = begun, failed' = failed, waiting' = waiting, ready' = ready,
         raced' \in BOOLEAN, retries' \in 0 .. MaxRetries,
         poolState' \in [Sides -> {"DISCONNECTED", "CONNECTING", "CONNECTED"}],
         ~up => mail' = {}, mail' \ {<<"CONNECT">>} = mail \ {<<"CONNECT">>},
         ~(up /\ told["desktop"] # <<>>),
         up /\ ~raced' /\ told["phone"] # <<>> /\ poolState["phone"] # "DISCONNECTED"
             => poolState'["phone"] # "DISCONNECTED",
         \A d \in Sides : up /\ told[d] = <<>> /\ poolState'[d] = "CONNECTED" => poolState[d] = "CONNECTED"
  PROVE  SetUpIInv'
  <1>1. mail' \subseteq mail \cup {<<"CONNECT">>}
    OBVIOUS
  <1>2. SetUpTypeOK'
    BY <1>1 DEF SetUpIInv, SetUpTypeOK, WaitsAreLeft
  <1>3. OneWaits'
    BY DEF OneWaits, SetUpIInv, WaitsAreLeft
  <1>4. up => \A d \in Sides : ~At(d, "waitDropped")'
    BY NothingRunsAtStart DEF At, WaitsAreLeft
  <1>5. \A i \in Indices, e \in Pools : Port(i, e) \in mail' <=> Port(i, e) \in mail
    <2> TAKE i \in Indices, e \in Pools
    <2>1. Port(i, e) # <<"CONNECT">>
      BY PackagesSent
    <2> HIDE DEF Port
    <2> QED
      BY <2>1
  <1> QED
    BY <1>2, <1>3, <1>4, <1>5, ChannelsStay, NothingRunsAtStart

(* The same, of one that goes from place to place. *)
LEMMA MovingIsLeft ==
  ASSUME SetUpTypeOK, NEW d \in Sides,
         NEW from \in Places \cup {"pool"}, NEW to \in Places \cup {"pool"}, from # to,
         from # "pool" => At(d, from), Moves(d, from, to)
  PROVE  /\ {from, to} \cap {"wait", "waitConnected", "waitDropped"} = {} => WaitsAreLeft
         /\ {from, to} \cap {"seek", "seekStore"} = {} => SeeksAreLeft
  BY OtherMoves DEF WaitsAreLeft, SeeksAreLeft

LEMMA SeeksBounded ==
  ASSUME SetUpIInv, SeeksAreLeft
  PROVE  running'["phone"]["seek"] + running'["phone"]["seekStore"] <= 2
  BY DEF SetUpIInv, SetUpTypeOK, SeeksAreLeft

LEMMA StandingIsLeft ==
  ASSUME SetUpTypeOK, running' = running
  PROVE  WaitsAreLeft /\ SeeksAreLeft
  BY DEF SetUpTypeOK, WaitsAreLeft, SeeksAreLeft, Waiters

LEMMA EnablesFileShareStep ==
  ASSUME SetUpIInv, ~raced, EnablesFileShare
  PROVE  SetUpIInv'
  <1>1. /\ {"connect", "pool"} \cap {"wait", "waitConnected", "waitDropped"} = {}
        /\ {"connect", "pool"} \cap {"seek", "seekStore"} = {} /\ "connect" \in Places
    BY DEF Places
  <1>2. SetUpTypeOK
    BY DEF SetUpIInv
  <1>3. Moves("desktop", "pool", "connect")
    BY DEF EnablesFileShare
  <1>4. WaitsAreLeft /\ SeeksAreLeft
    BY <1>1, <1>2, <1>3, MovingIsLeft
  <1>5. retries' \in 0 .. MaxRetries
    BY <1>2, SetUpBounds DEF EnablesFileShare, SetUpTypeOK
  <1>6. poolState' \in [Sides -> {"DISCONNECTED", "CONNECTING", "CONNECTED"}] /\ raced' \in BOOLEAN
    BY <1>2 DEF EnablesFileShare, SetUpTypeOK
  <1> QED
    BY <1>4, <1>5, <1>6, SeeksBounded, CoroutineStep, NothingRunsAtStart DEF EnablesFileShare

LEMMA TestsStep ==
  ASSUME SetUpIInv, ~raced, NEW d \in Sides, NEW from \in Places, NEW store \in Places,
         <<d, from, store>> \in {<<"desktop", "connect", "connectStore">>, <<"phone", "seek", "seekStore">>},
         Tests(d, from, store)
  PROVE  SetUpIInv'
  <1> DEFINE to == IF poolState[d] = "DISCONNECTED" THEN store ELSE "pool"
  <1>1. /\ to \in Places \cup {"pool"} /\ from # to /\ from # "pool" /\ At(d, from) /\ Moves(d, from, to)
        /\ {from, to} \cap {"wait", "waitConnected", "waitDropped"} = {}
    BY DEF Tests, Places
  <1>2. SetUpTypeOK
    BY DEF SetUpIInv
  <1> HIDE DEF to
  <1>3. WaitsAreLeft
    BY <1>1, <1>2, MovingIsLeft
  <1>4. running'["phone"]["seek"] + running'["phone"]["seekStore"] <= 2
    <2>1. CASE d = "desktop"
      <3>1. {from, to} \cap {"seek", "seekStore"} = {}
        BY <2>1 DEF to
      <3> QED
        BY <3>1, <1>1, <1>2, MovingIsLeft, SeeksBounded
    <2>2. CASE d = "phone"
      <3>1. running \in [Sides -> [Places -> Nat]] /\ from = "seek" /\ to \in {"seekStore", "pool"}
        BY <2>2, <1>2 DEF to, SetUpTypeOK
      <3>2. /\ \A p \in Places \ {"seek", to} : running'["phone"][p] = running["phone"][p]
            /\ running'["phone"]["seek"] = running["phone"]["seek"] - 1
            /\ to # "pool" => running'["phone"][to] = running["phone"][to] + 1
        BY <2>2, <3>1, <1>1, MoveFacts
      <3>3. {"seek", "seekStore"} \subseteq Places
        BY DEF Places
      <3>4. running["phone"]["seek"] \in Nat /\ running["phone"]["seekStore"] \in Nat
            /\ running["phone"]["seek"] + running["phone"]["seekStore"] <= 2
        BY <3>1, <3>3, <1>2 DEF SetUpTypeOK
      <3>5. running'["phone"]["seekStore"] \in {running["phone"]["seekStore"], running["phone"]["seekStore"] + 1}
        BY <3>1, <3>2, <3>3
      <3> QED
        BY <3>2, <3>4, <3>5
    <2> QED
      BY <2>1, <2>2
  <1>5. retries' \in 0 .. MaxRetries /\ raced' \in BOOLEAN
        /\ poolState' \in [Sides -> {"DISCONNECTED", "CONNECTING", "CONNECTED"}]
    BY <1>2 DEF Tests, SetUpTypeOK
  <1>6. ~(up /\ told["desktop"] # <<>>)
    BY <1>1, NothingRunsAtStart
  <1> QED
    BY <1>3, <1>4, <1>5, <1>6, CoroutineStep, NothingRunsAtStart DEF Tests

LEMMA ConnectStoresStep ==
  ASSUME SetUpIInv, ~raced, StoresConnecting("desktop", "connectStore", "connectLoop"),
         UNCHANGED <<up, told, ready, waiting, objects, ends, mail, begun, retries, failed, publishing>>
  PROVE  SetUpIInv'
  <1>1. /\ {"connectStore", "connectLoop"} \subseteq Places
        /\ {"connectStore", "connectLoop"} \cap {"wait", "waitConnected", "waitDropped"} = {}
        /\ {"connectStore", "connectLoop"} \cap {"seek", "seekStore"} = {}
    BY DEF Places
  <1>2. SetUpTypeOK
    BY DEF SetUpIInv
  <1>3. At("desktop", "connectStore") /\ Moves("desktop", "connectStore", "connectLoop")
    BY DEF StoresConnecting
  <1>4. WaitsAreLeft /\ SeeksAreLeft
    BY <1>1, <1>2, <1>3, MovingIsLeft
  <1>5. /\ retries' \in 0 .. MaxRetries /\ raced' \in BOOLEAN
        /\ poolState' = [poolState EXCEPT !["desktop"] = "CONNECTING"]
        /\ poolState' \in [Sides -> {"DISCONNECTED", "CONNECTING", "CONNECTED"}]
    BY <1>2 DEF StoresConnecting, SetUpTypeOK
  <1>6. poolState'["phone"] = poolState["phone"] /\ poolState'["desktop"] = "CONNECTING"
    BY <1>2, <1>5 DEF SetUpTypeOK
  <1>7. ~(up /\ told["desktop"] # <<>>)
    BY <1>1, <1>3, NothingRunsAtStart
  <1> QED
    BY <1>4, <1>5, <1>6, <1>7, SeeksBounded, CoroutineStep, NothingRunsAtStart

LEMMA AsksStep ==
  ASSUME SetUpIInv, ~raced, Asks \/ AskingTimesOut
  PROVE  SetUpIInv'
  <1>1. /\ "connectLoop" \in Places
        /\ {"pool", "connectLoop"} \cap {"wait", "waitConnected", "waitDropped"} = {}
        /\ {"pool", "connectLoop"} \cap {"seek", "seekStore"} = {}
    BY DEF Places
  <1>2. SetUpTypeOK
    BY DEF SetUpIInv
  <1>3. At("desktop", "connectLoop") /\ (Moves("desktop", "connectLoop", "pool") \/ running' = running)
    BY DEF Asks, AskingTimesOut
  <1>4. WaitsAreLeft /\ SeeksAreLeft
    BY <1>1, <1>2, <1>3, MovingIsLeft, StandingIsLeft
  <1>5. /\ retries' \in 0 .. MaxRetries /\ raced' \in BOOLEAN
        /\ \/ poolState' = poolState
           \/ poolState' = [poolState EXCEPT !["desktop"] = "DISCONNECTED"]
    <2>1. CASE AskingTimesOut
      BY <2>1, <1>2 DEF AskingTimesOut, SetUpTypeOK
    <2>2. CASE Asks
      <3>1. poolState' = poolState \/ poolState' = [poolState EXCEPT !["desktop"] = IF @ = "CONNECTING" /\ ~up THEN "DISCONNECTED" ELSE @]
        BY <2>2 DEF Asks
      <3>2. poolState = [poolState EXCEPT !["desktop"] = poolState["desktop"]]
        BY <1>2 DEF SetUpTypeOK
      <3> QED
        BY <2>2, <3>1, <3>2, <1>2 DEF Asks, SetUpTypeOK
    <2> QED
      BY <2>1, <2>2
  <1>6. /\ poolState' \in [Sides -> {"DISCONNECTED", "CONNECTING", "CONNECTED"}]
        /\ poolState'["phone"] = poolState["phone"]
        /\ poolState'["desktop"] \in {poolState["desktop"], "DISCONNECTED"}
    BY <1>2, <1>5 DEF SetUpTypeOK
  <1>7. ~(up /\ told["desktop"] # <<>>)
    BY <1>1, <1>3, NothingRunsAtStart
  <1>8. (~up => mail' = {}) /\ mail' \ {<<"CONNECT">>} = mail \ {<<"CONNECT">>}
    BY NothingRunsAtStart DEF Asks, AskingTimesOut, Sends
  <1> QED
    BY <1>4, <1>5, <1>6, <1>7, <1>8, SeeksBounded, CoroutineStep DEF Asks, AskingTimesOut

LEMMA ReceivesConnectStep ==
  ASSUME SetUpIInv, ~raced, ReceivesConnect
  PROVE  SetUpIInv'
  <1>1. /\ "seek" \in Places /\ {"pool", "seek"} \cap {"wait", "waitConnected", "waitDropped"} = {}
    BY DEF Places
  <1>2. SetUpTypeOK
    BY DEF SetUpIInv
  <1>3. /\ Moves("phone", "pool", "seek") \/ running' = running
        /\ running["phone"]["seek"] + running["phone"]["seekStore"] < 2
        /\ mail' = mail \ {<<"CONNECT">>} /\ mail # {}
    BY DEF ReceivesConnect
  <1>4. WaitsAreLeft
    BY <1>1, <1>2, <1>3, MovingIsLeft, StandingIsLeft
  <1>5. running'["phone"]["seek"] + running'["phone"]["seekStore"] <= 2
    <2>1. running \in [Sides -> [Places -> Nat]] /\ "seekStore" \in Places
      BY <1>2 DEF SetUpTypeOK, Places
    <2>2. ASSUME Moves("phone", "pool", "seek")
          PROVE  /\ running'["phone"]["seek"] = running["phone"]["seek"] + 1
                 /\ running'["phone"]["seekStore"] = running["phone"]["seekStore"]
      BY <2>1, <2>2, <1>1, MoveFacts
    <2>3. running["phone"]["seek"] \in Nat /\ running["phone"]["seekStore"] \in Nat
      BY <2>1, <1>1
    <2> QED
      BY <2>2, <2>3, <1>3
  <1>6. /\ retries' \in 0 .. MaxRetries /\ raced' \in BOOLEAN
        /\ poolState' \in [Sides -> {"DISCONNECTED", "CONNECTING", "CONNECTED"}]
    BY <1>2 DEF ReceivesConnect, SetUpTypeOK
  <1>7. ~(up /\ told["desktop"] # <<>>) /\ (~up => mail' = {})
    BY <1>3, NothingRunsAtStart
  <1>8. mail' \ {<<"CONNECT">>} = mail \ {<<"CONNECT">>}
    BY <1>3
  <1> QED
    BY <1>4, <1>5, <1>6, <1>7, <1>8, CoroutineStep DEF ReceivesConnect

-------------------------------------------------------------------------------
(* Those that wait *)

LEMMA WaitPlaces ==
  /\ {"wait", "waitConnected", "waitDropped"} \subseteq Places
  /\ \A p \in {"wait", "waitConnected", "waitDropped", "pool"} : p \notin {"seek", "seekStore"}
  BY DEF Places

(* What Waiters is made of. *)
LEMMA WaiterNumbers ==
  ASSUME SetUpTypeOK
  PROVE  /\ running["desktop"]["wait"] \in Nat /\ running["desktop"]["waitConnected"] \in Nat
         /\ running["desktop"]["waitDropped"] \in Nat
         /\ \A x \in Sides : running[x]["waitDropped"] \in Nat
  BY WaitPlaces DEF SetUpTypeOK

LEMMA SeesStep ==
  ASSUME SetUpIInv, ~raced, NEW d \in Sides, NEW verdict \in {"waitConnected", "waitDropped"}, Sees(d, verdict)
  PROVE  SetUpIInv'
  <1>1. SetUpTypeOK /\ running \in [Sides -> [Places -> Nat]]
    BY DEF SetUpIInv, SetUpTypeOK
  <1>2. /\ At(d, "wait") /\ Moves(d, "wait", verdict) /\ (up => verdict = "waitConnected")
        /\ verdict \in Places \cup {"pool"} /\ "wait" \in Places /\ verdict # "wait"
    BY WaitPlaces DEF Sees
  <1>3. /\ running' \in [Sides -> [Places -> Nat]]
        /\ \A x \in Sides \ {d} : running'[x] = running[x]
        /\ \A p \in Places \ {"wait", verdict} : running'[d][p] = running[d][p]
        /\ running[d]["wait"] >= 1 /\ running'[d]["wait"] = running[d]["wait"] - 1
        /\ running'[d][verdict] = running[d][verdict] + 1
    BY <1>1, <1>2, WaitPlaces, MoveFacts
  <1>4. SeeksAreLeft
    BY <1>1, <1>2, WaitPlaces, MovingIsLeft
  <1>5. /\ Waiters' = Waiters
        /\ running'["desktop"]["wait"] <= 1
        /\ up => \A x \in Sides : running'[x]["waitDropped"] = running[x]["waitDropped"]
    <2>1. CASE d = "phone"
      <3>1. running'["desktop"] = running["desktop"]
        BY <2>1, <1>3
      <3>2. up => running'["phone"]["waitDropped"] = running["phone"]["waitDropped"]
        BY <2>1, <1>2, <1>3, WaitPlaces
      <3> QED
        BY <3>1, <3>2, <1>1 DEF Waiters, SetUpTypeOK
    <2>2. CASE d = "desktop"
      <3>1. running'["phone"] = running["phone"]
        BY <2>2, <1>3
      <3>2. CASE verdict = "waitConnected"
        <4>1. /\ running'["desktop"]["waitDropped"] = running["desktop"]["waitDropped"]
              /\ running'["desktop"]["wait"] = running["desktop"]["wait"] - 1
              /\ running'["desktop"]["waitConnected"] = running["desktop"]["waitConnected"] + 1
          BY <3>2, <2>2, <1>3, WaitPlaces
        <4>2. running'["desktop"]["wait"] <= 1
          BY <4>1, <1>1, WaiterNumbers DEF SetUpTypeOK
        <4> QED
          BY <3>1, <4>1, <4>2, <1>1, WaiterNumbers DEF Waiters
      <3>3. CASE verdict = "waitDropped"
        <4>1. /\ running'["desktop"]["waitConnected"] = running["desktop"]["waitConnected"]
              /\ running'["desktop"]["wait"] = running["desktop"]["wait"] - 1
              /\ running'["desktop"]["waitDropped"] = running["desktop"]["waitDropped"] + 1
          BY <3>3, <2>2, <1>3, WaitPlaces
        <4>2. running'["desktop"]["wait"] <= 1
          BY <4>1, <1>1, WaiterNumbers DEF SetUpTypeOK
        <4>3. ~up
          BY <3>3, <1>2
        <4> QED
          BY <3>1, <4>1, <4>2, <4>3, <1>1, WaiterNumbers DEF Waiters
      <3> QED
        BY <3>2, <3>3
    <2> QED
      BY <2>1, <2>2
  <1>6. /\ UNCHANGED <<up, told, ready, poolState, waiting, objects, ends, mail, begun, retries, failed, raced, publishing>>
        /\ ~(up /\ told["desktop"] # <<>>)
    BY <1>2, WaitPlaces, NothingRunsAtStart DEF Sees
  <1>7. SetUpTypeOK'
    BY <1>1, <1>3, <1>4, <1>5, <1>6, SeeksBounded DEF SetUpTypeOK
  <1>8. OneWaits'
    BY <1>5, <1>6 DEF OneWaits, SetUpIInv
  <1>9. up => \A x \in Sides : ~At(x, "waitDropped")'
    BY <1>5, NothingRunsAtStart DEF At
  <1> QED
    BY <1>6, <1>7, <1>8, <1>9, ChannelsStay, NothingRunsAtStart

(* A waiting coroutine ends with what it stores. *)
LEMMA EndsWaitStep ==
  ASSUME SetUpIInv, ~raced, NEW d \in Sides, NEW from \in {"wait", "waitConnected", "waitDropped"},
         NEW ended \in {"DISCONNECTED", "CONNECTED"}, At(d, from), EndsWait(d, from, ended),
         raced' \in BOOLEAN,
         ended = "CONNECTED" => (~raced' => AllConnected(d)),
         ended = "DISCONNECTED" => ~up \/ told["phone"] = <<>>
  PROVE  SetUpIInv'
  <1>1. SetUpTypeOK /\ running \in [Sides -> [Places -> Nat]]
    BY DEF SetUpIInv, SetUpTypeOK
  <1>2. from \in Places /\ Moves(d, from, "pool") /\ from # "pool"
    BY WaitPlaces DEF EndsWait
  <1>3. /\ running' \in [Sides -> [Places -> Nat]]
        /\ \A x \in Sides \ {d} : running'[x] = running[x]
        /\ \A p \in Places \ {from, "pool"} : running'[d][p] = running[d][p]
        /\ running[d][from] >= 1 /\ running'[d][from] = running[d][from] - 1
    BY <1>1, <1>2, MoveFacts
  <1>4. SeeksAreLeft
    BY <1>1, <1>2, WaitPlaces, MovingIsLeft
  <1>5. \A p \in {"wait", "waitConnected", "waitDropped"} :
           p \in Places /\ p # "pool" /\ (p # from => running'[d][p] = running[d][p])
    BY <1>3, WaitPlaces
  <1>6. \A x \in Sides : running'[x]["waitDropped"] <= running[x]["waitDropped"]
    <2> TAKE x \in Sides
    <2>1. running'[x]["waitDropped"] \in {running[x]["waitDropped"], running[x]["waitDropped"] - 1}
      BY <1>3, <1>5
    <2> QED
      BY <2>1, <1>1, WaiterNumbers
  <1>7. running'["desktop"]["wait"] <= 1 /\ Waiters' <= Waiters /\ Waiters' \in Nat
        /\ (d = "desktop" => Waiters' = Waiters - 1)
    <2>1. CASE d = "phone"
      <3>1. running'["desktop"] = running["desktop"]
        BY <2>1, <1>3
      <3>2. Waiters' = Waiters /\ running'["desktop"]["wait"] = running["desktop"]["wait"]
        BY <3>1 DEF Waiters
      <3>3. Waiters \in Nat
        BY <1>1, WaiterNumbers DEF Waiters
      <3>4. running["desktop"]["wait"] <= 1
        BY <1>1 DEF SetUpTypeOK
      <3> QED
        BY <2>1, <3>2, <3>3, <3>4
    <2>2. CASE d = "desktop"
      <3> DEFINE a == running["desktop"]["wait"] b == running["desktop"]["waitConnected"] c == running["desktop"]["waitDropped"]
                 e == running'["desktop"]["wait"] f == running'["desktop"]["waitConnected"] g == running'["desktop"]["waitDropped"]
      <3>1. a \in Nat /\ b \in Nat /\ c \in Nat /\ a <= 1 /\ e \in Nat /\ f \in Nat /\ g \in Nat
        BY <1>1, <1>3, WaiterNumbers, WaitPlaces DEF SetUpTypeOK
      <3>2. \/ e = a - 1 /\ f = b /\ g = c
            \/ e = a /\ f = b - 1 /\ g = c
            \/ e = a /\ f = b /\ g = c - 1
        BY <2>2, <1>3, <1>5
      <3>3. Waiters = a + b + c /\ Waiters' = e + f + g
        BY DEF Waiters
      <3> HIDE DEF a, b, c, e, f, g
      <3>4. Waiters' = Waiters - 1 /\ Waiters' \in Nat /\ Waiters \in Nat /\ e <= 1
        BY <3>1, <3>2, <3>3
      <3> QED
        BY <3>4 DEF e
    <2> QED
      BY <2>1, <2>2
  <1>8. /\ UNCHANGED <<up, told, ready, objects, ends, mail, begun, retries, failed, publishing>>
        /\ waiting' = (waiting /\ d # "desktop")
        /\ ~(up /\ told["desktop"] # <<>>)
    BY <1>2, NothingRunsAtStart DEF EndsWait
  <1>9. /\ poolState' = [poolState EXCEPT ![d] = ended]
        /\ poolState' \in [Sides -> {"DISCONNECTED", "CONNECTING", "CONNECTED"}]
        /\ poolState'[d] = ended /\ \A x \in Sides \ {d} : poolState'[x] = poolState[x]
    BY <1>1 DEF EndsWait, SetUpTypeOK
  <1>10. waiting' \in BOOLEAN
    BY <1>1, <1>8 DEF SetUpTypeOK
  <1>11. SetUpTypeOK'
    BY <1>1, <1>3, <1>4, <1>7, <1>8, <1>9, <1>10, SeeksBounded DEF SetUpTypeOK
  <1>12. OneWaits'
    <2>1. Waiters <= 1 /\ Waiters \in Nat /\ (up /\ Waiters > 0 => waiting)
      BY <1>1, WaiterNumbers DEF SetUpIInv, OneWaits, Waiters
    <2>2. Waiters' <= 1 /\ (up /\ Waiters' > 0 => waiting /\ d # "desktop")
      BY <2>1, <1>7
    <2> QED
      BY <2>2, <1>8 DEF OneWaits
  <1>13. up => \A x \in Sides : ~At(x, "waitDropped")'
    <2> SUFFICES ASSUME up, NEW x \in Sides
                 PROVE  ~(running'[x]["waitDropped"] > 0)
      BY DEF At
    <2>1. running[x]["waitDropped"] \in Nat /\ ~(running[x]["waitDropped"] > 0)
      BY <1>1, WaiterNumbers, NothingRunsAtStart, WaitPlaces DEF At
    <2>2. running'[x]["waitDropped"] \in Nat
      BY <1>3, WaitPlaces
    <2> QED
      BY <2>1, <2>2, <1>6
  <1>14. up /\ ~raced' /\ told["phone"] # <<>> /\ poolState["phone"] # "DISCONNECTED"
             => poolState'["phone"] # "DISCONNECTED"
    BY <1>9
  <1>15. \A x \in Sides : up /\ ~raced' /\ told[x] = <<>> /\ poolState'[x] = "CONNECTED" => AllConnected(x)
    BY <1>9, NothingRunsAtStart
  <1> QED
    BY <1>8, <1>11, <1>12, <1>13, <1>14, <1>15, ChannelsStay, NothingRunsAtStart

LEMMA WaitsStep ==
  ASSUME SetUpIInv, ~raced, NEW d \in Sides, Waits(d)
  PROVE  SetUpIInv'
  <1>1. CASE Sees(d, "waitConnected") \/ Sees(d, "waitDropped")
    BY <1>1, SeesStep
  <1>2. CASE StoresConnected(d)
    <2>1. At(d, "waitConnected") /\ EndsWait(d, "waitConnected", "CONNECTED") /\ (~raced' => AllConnected(d))
          /\ raced' \in BOOLEAN
      BY <1>2 DEF StoresConnected
    <2> QED
      BY <2>1, EndsWaitStep
  <1>3. CASE StoresDropped(d)
    <2>1. At(d, "waitDropped") /\ EndsWait(d, "waitDropped", "DISCONNECTED") /\ raced' \in BOOLEAN
      BY <1>3 DEF StoresDropped, SetUpIInv, SetUpTypeOK
    <2>2. ~up
      BY <2>1, NothingRunsAtStart
    <2> QED
      BY <2>1, <2>2, EndsWaitStep
  <1>4. CASE WaitTimesOut(d)
    <2>1. At(d, "wait") /\ EndsWait(d, "wait", "DISCONNECTED") /\ raced' \in BOOLEAN /\ told["phone"] = <<>>
      BY <1>4 DEF WaitTimesOut, SetUpIInv, SetUpTypeOK
    <2> QED
      BY <2>1, EndsWaitStep
  <1> QED
    BY <1>1, <1>2, <1>3, <1>4 DEF Waits

-------------------------------------------------------------------------------
(* Sessions and their events *)

LEMMA Events ==
  /\ Append(<<>>, "connected") = <<"connected">> /\ Append(<<>>, "disconnected") = <<"disconnected">>
  /\ Append(<<"connected">>, "disconnected") = <<"connected", "disconnected">>
  /\ Head(<<"connected">>) = "connected" /\ Head(<<"disconnected">>) = "disconnected"
  /\ Head(<<"connected", "disconnected">>) = "connected"
  /\ Tail(<<"connected">>) = <<>> /\ Tail(<<"disconnected">>) = <<>>
  /\ Tail(<<"connected", "disconnected">>) = <<"disconnected">>
  /\ Len(<<>>) = 0 /\ Len(<<"connected">>) = 1 /\ Len(<<"disconnected">>) = 1
  /\ Len(<<"connected", "disconnected">>) = 2
  /\ <<"connected">> # <<>> /\ <<"disconnected">> # <<>> /\ <<"connected", "disconnected">> # <<>>
  <1>1. Append(<<>>, "connected") = <<"connected">>
    OBVIOUS
  <1>2. Append(<<>>, "disconnected") = <<"disconnected">>
    OBVIOUS
  <1>3. Append(<<"connected">>, "disconnected") = <<"connected", "disconnected">>
    <2> DEFINE E == {"connected", "disconnected"} s == Append(<<"connected">>, "disconnected")
               t == <<"connected", "disconnected">>
    <2>1. <<"connected">> \in Seq(E) /\ Len(<<"connected">>) = 1 /\ <<"connected">>[1] = "connected"
      OBVIOUS
    <2>2. s \in Seq(E) /\ Len(s) = 2 /\ s[1] = "connected" /\ s[2] = "disconnected"
      BY <2>1, AppendProperties
    <2>3. t \in Seq(E) /\ Len(t) = 2 /\ t[1] = "connected" /\ t[2] = "disconnected"
      OBVIOUS
    <2> HIDE DEF s, t, E
    <2>4. \A n \in 1 .. Len(s) : s[n] = t[n]
      BY <2>2, <2>3
    <2>5. s = t
      BY <2>2, <2>3, <2>4, SeqEqual
    <2> QED
      BY <2>5 DEF s, t
  <1>4. /\ Head(<<"connected">>) = "connected" /\ Head(<<"disconnected">>) = "disconnected"
        /\ Head(<<"connected", "disconnected">>) = "connected"
    OBVIOUS
  <1>5. Tail(<<"connected">>) = <<>>
    OBVIOUS
  <1>6. Tail(<<"disconnected">>) = <<>>
    OBVIOUS
  <1>7. Tail(<<"connected", "disconnected">>) = <<"disconnected">>
    OBVIOUS
  <1>8. /\ Len(<<>>) = 0 /\ Len(<<"connected">>) = 1 /\ Len(<<"disconnected">>) = 1
        /\ Len(<<"connected", "disconnected">>) = 2
    OBVIOUS
  <1>9. <<"connected">> # <<>> /\ <<"disconnected">> # <<>> /\ <<"connected", "disconnected">> # <<>>
    BY <1>8
  <1> QED
    BY <1>1, <1>2, <1>3, <1>4, <1>5, <1>6, <1>7, <1>8, <1>9

(* The counters are numbers. *)
LEMMA Counted ==
  ASSUME SetUpTypeOK
  PROVE  (\A d \in Sides : objects[d] \in Nat) /\ begun \in Nat /\ begun <= MaxSessions
  <1>1. begun \in 0 .. MaxSessions /\ \A d \in Sides : objects[d] \in Pools
    BY DEF SetUpTypeOK
  <1>2. begun \in Nat /\ begun <= MaxSessions
    BY <1>1, SetUpBounds
  <1>3. Pools \subseteq Nat
    BY Numbers
  <1> QED
    BY <1>1, <1>2, <1>3

LEMMA SessionBeginsStep ==
  ASSUME SetUpIInv, ~raced, SessionBegins
  PROVE  SetUpIInv'
  <1>1. SetUpTypeOK /\ EventsInOrder /\ OnlyCurrent /\ OneWaits /\ StartsClean
    BY DEF SetUpIInv
  <1>2. /\ ~up /\ begun < MaxSessions /\ publishing = {} /\ mail = {}
        /\ \A d \in Sides : told[d] = <<>> /\ told'[d] = <<"connected">>
        /\ told' = [d \in Sides |-> <<"connected">>]
    BY <1>1, Events DEF SessionBegins, AtRest, EventsInOrder
  <1>3. \A d \in Sides, p \in Places : running[d][p] \in Nat /\ running[d][p] = 0
    BY <1>1 DEF SessionBegins, AtRest, At, SetUpTypeOK
  <1>4. up' = TRUE /\ begun' = begun + 1 /\ begun' \in 0 .. MaxSessions
        /\ UNCHANGED <<ready, poolState, waiting, objects, ends, running, mail, retries, failed, raced, publishing>>
    BY <1>1, <1>2, SetUpBounds DEF SessionBegins, SetUpTypeOK
  <1>5. \A i \in Indices : Off("desktop", i)
    BY <1>1, <1>2 DEF StartsClean
  <1>6. SetUpTypeOK'
    BY <1>1, <1>2, <1>4 DEF SetUpTypeOK
  <1>7. EventsInOrder'
    <2>1. ASSUME NEW d \in Sides
          PROVE  objects'[d] + Len(told'[d]) + 1 = 2 * begun'
      <3>1. objects[d] \in Nat /\ begun \in Nat
        BY <1>1, Counted
      <3>2. objects[d] + 0 + 0 = 2 * begun
        BY <1>1, <1>2, Events DEF EventsInOrder
      <3>3. objects'[d] = objects[d] /\ Len(told'[d]) = 1
        BY <1>2, <1>4, Events
      <3> QED
        BY <3>1, <3>2, <3>3, <1>4
    <2> QED
      BY <2>1, <1>2, <1>4 DEF EventsInOrder
  <1>8. OnlyCurrent'
    BY <1>1, <1>4 DEF OnlyCurrent
  <1>9. OneWaits'
    <2>1. Waiters = 0 /\ Waiters' = Waiters
      BY <1>3, <1>4, WaitPlaces DEF Waiters
    <2> QED
      BY <2>1 DEF OneWaits
  <1>10. StartsClean'
    <2>1. \A d \in Sides, p \in Places : running'[d][p] = 0
      BY <1>3, <1>4
    <2>2. \A d \in Sides : ~At(d, "waitDropped")'
      BY <2>1, WaitPlaces DEF At
    <2>3. \A i \in Indices : Off("desktop", i)'
      BY <1>4, <1>5
    <2> QED
      BY <2>1, <2>2, <2>3, <1>2, <1>4, Events DEF StartsClean
  <1>11. OffersHold'
    BY <1>2, <1>4, <1>5, Events DEF OffersHold
  <1> QED
    BY <1>6, <1>7, <1>8, <1>9, <1>10, <1>11 DEF SetUpIInv

LEMMA SessionEndsStep ==
  ASSUME SetUpIInv, ~raced, SessionEnds
  PROVE  SetUpIInv'
  <1>1. SetUpTypeOK /\ EventsInOrder /\ OnlyCurrent /\ OneWaits /\ StartsClean
    BY DEF SetUpIInv
  <1>2. /\ up /\ up' = FALSE /\ mail' = {}
        /\ told' = [d \in Sides |-> Append(told[d], "disconnected")]
        /\ UNCHANGED <<ready, poolState, waiting, objects, ends, running, begun, retries, failed, raced, publishing>>
    BY DEF SessionEnds
  <1>3. \A d \in Sides : /\ told'[d] \in {<<"disconnected">>, <<"connected", "disconnected">>}
                         /\ Len(told'[d]) = Len(told[d]) + 1 /\ told'[d] # <<>>
                         /\ Len(told[d]) \in Nat
    <2> TAKE d \in Sides
    <2>1. told[d] \in {<<>>, <<"connected">>}
      BY <1>1, <1>2 DEF EventsInOrder
    <2>2. told'[d] = Append(told[d], "disconnected")
      BY <1>2
    <2>3. CASE told[d] = <<>>
      <3>1. told'[d] = <<"disconnected">>
        BY <2>2, <2>3, Events
      <3> QED
        BY <2>3, <3>1, Events
    <2>4. CASE told[d] = <<"connected">>
      <3>1. told'[d] = <<"connected", "disconnected">>
        BY <2>2, <2>4, Events
      <3> QED
        BY <2>4, <3>1, Events
    <2> QED
      BY <2>1, <2>3, <2>4
  <1>4. SetUpTypeOK'
    BY <1>1, <1>2, <1>3 DEF SetUpTypeOK
  <1>5. EventsInOrder'
    <2>1. ASSUME NEW d \in Sides
          PROVE  objects'[d] + Len(told'[d]) + 0 = 2 * begun'
      <3>1. objects[d] \in Nat /\ begun \in Nat
        BY <1>1, Counted
      <3>2. objects[d] + Len(told[d]) + 1 = 2 * begun
        BY <1>1, <1>2 DEF EventsInOrder
      <3>3. Len(told'[d]) = Len(told[d]) + 1 /\ Len(told[d]) \in Nat /\ objects'[d] = objects[d] /\ begun' = begun
        BY <1>2, <1>3
      <3> QED
        BY <3>1, <3>2, <3>3
    <2> QED
      BY <2>1, <1>2, <1>3 DEF EventsInOrder
  <1>6. OnlyCurrent'
    BY <1>1, <1>2 DEF OnlyCurrent
  <1>7. OneWaits'
    BY <1>1, <1>2 DEF OneWaits, Waiters
  <1>8. StartsClean'
    BY <1>2, <1>3 DEF StartsClean
  <1> QED
    BY <1>2, <1>4, <1>5, <1>6, <1>7, <1>8 DEF SetUpIInv

(* What an event may be, and the objects it leads to. *)
LEMMA EventFacts ==
  ASSUME SetUpIInv, NEW d \in Sides, told[d] # <<>>
  PROVE  /\ up => Head(told[d]) = "connected" /\ Tail(told[d]) = <<>>
         /\ ~up => Tail(told[d]) \in {<<>>, <<"disconnected">>}
         /\ Len(told[d]) = Len(Tail(told[d])) + 1 /\ Len(Tail(told[d])) \in Nat
         /\ objects[d] \in Nat /\ objects[d] + 1 \in Pools
  <1>1. told[d] \in {<<"connected">>, <<"disconnected">>, <<"connected", "disconnected">>}
        /\ (up => told[d] = <<"connected">>) /\ (~up => told[d] # <<"connected">>)
    <2>1. up => told[d] \in {<<>>, <<"connected">>}
      BY DEF SetUpIInv, EventsInOrder
    <2>2. ~up => told[d] \in {<<>>, <<"disconnected">>, <<"connected", "disconnected">>}
      BY DEF SetUpIInv, EventsInOrder
    <2>3. CASE up
      BY <2>1, <2>3
    <2>4. CASE ~up
      <3>1. told[d] \in {<<"disconnected">>, <<"connected", "disconnected">>}
        BY <2>2, <2>4
      <3>2. CASE told[d] = <<"disconnected">>
        BY <2>4, <3>2
      <3>3. CASE told[d] = <<"connected", "disconnected">>
        <4>1. Len(told[d]) = 2 /\ Len(<<"connected">>) = 1
          BY <3>3, Events
        <4>2. told[d] # <<"connected">>
          BY <4>1
        <4> QED
          BY <2>4, <3>3, <4>2
      <3> QED
        BY <3>1, <3>2, <3>3
    <2> QED
      BY <2>3, <2>4
  <1>2. Len(told[d]) = Len(Tail(told[d])) + 1 /\ Len(Tail(told[d])) \in Nat
    BY <1>1, Events
  <1>3. objects[d] \in Nat /\ begun \in Nat /\ begun <= MaxSessions /\ MaxSessions \in Nat
    BY Counted, SetUpBounds DEF SetUpIInv
  <1>4. objects[d] + Len(told[d]) + (IF up THEN 1 ELSE 0) = 2 * begun
    BY DEF SetUpIInv, EventsInOrder
  <1>5. objects[d] + 1 <= 2 * MaxSessions /\ objects[d] + 1 \in Nat
    BY <1>2, <1>3, <1>4
  <1> QED
    BY <1>1, <1>2, <1>3, <1>5, Events, Numbers

(* All channels of a device that handled an event are disconnected. *)
LEMMA ResetFacts ==
  ASSUME SetUpIInv, NEW d \in Sides, told[d] # <<>>, Reset(d)
  PROVE  /\ objects' \in [Sides -> Pools] /\ objects'[d] = objects[d] + 1
         /\ \A x \in Sides \ {d} : objects'[x] = objects[x] /\ ends'[x] = ends[x] /\ poolState'[x] = poolState[x]
         /\ ends' \in [Sides -> [Pools \X Indices ->
                    [state : {"DISCONNECTED", "CONNECTING", "CONNECTED"}, peer : Pools \cup {-1}]]]
         /\ \A c \in Pools \X Indices : ends'[d][c].state = "DISCONNECTED"
         /\ poolState' \in [Sides -> {"DISCONNECTED", "CONNECTING", "CONNECTED"}] /\ poolState'[d] = "DISCONNECTED"
  <1>1. SetUpTypeOK
    BY DEF SetUpIInv
  <1>2. objects[d] + 1 \in Pools
    BY EventFacts
  <1>3. /\ objects' \in [Sides -> Pools] /\ objects'[d] = objects[d] + 1
        /\ \A x \in Sides \ {d} : objects'[x] = objects[x]
    BY <1>1, <1>2 DEF Reset, SetUpTypeOK
  <1>4. /\ poolState' \in [Sides -> {"DISCONNECTED", "CONNECTING", "CONNECTED"}] /\ poolState'[d] = "DISCONNECTED"
        /\ \A x \in Sides \ {d} : poolState'[x] = poolState[x]
    BY <1>1 DEF Reset, SetUpTypeOK
  <1> DEFINE new == [c \in Pools \X Indices |-> IF c[1] = objects[d] THEN Unused ELSE ends[d][c]]
  <1>5. ends \in [Sides -> [Pools \X Indices ->
                    [state : {"DISCONNECTED", "CONNECTING", "CONNECTED"}, peer : Pools \cup {-1}]]]
    BY <1>1 DEF SetUpTypeOK
  <1>6. DOMAIN ends[d] = Pools \X Indices
    BY <1>5
  <1>7. ends' = [ends EXCEPT ![d] = new]
    BY <1>6 DEF Reset
  <1>8. Unused \in [state : {"DISCONNECTED", "CONNECTING", "CONNECTED"}, peer : Pools \cup {-1}]
        /\ Unused.state = "DISCONNECTED"
    BY DEF Unused
  <1>9. new \in [Pools \X Indices -> [state : {"DISCONNECTED", "CONNECTING", "CONNECTED"}, peer : Pools \cup {-1}]]
    BY <1>5, <1>8
  <1>10. \A c \in Pools \X Indices : new[c].state = "DISCONNECTED"
    BY <1>8 DEF SetUpIInv, OnlyCurrent
  <1> HIDE DEF new
  <1> QED
    BY <1>3, <1>4, <1>5, <1>7, <1>9, <1>10

LEMMA HandlesEventStep ==
  ASSUME SetUpIInv, ~raced, NEW d \in Sides, HandlesEvent(d)
  PROVE  SetUpIInv'
  <1>1. SetUpTypeOK /\ EventsInOrder /\ OnlyCurrent /\ OneWaits /\ StartsClean
    BY DEF SetUpIInv
  <1>2. /\ told[d] # <<>> /\ Reset(d) /\ told' = [told EXCEPT ![d] = Tail(@)]
        /\ ready' = [ready EXCEPT ![d] = @ \/ Head(told[d]) = "connected"]
        /\ up' = up /\ mail' = mail /\ begun' = begun /\ retries' = retries /\ failed' = failed
        /\ publishing' = publishing
        /\ running' = running \/ (d = "desktop" /\ Moves("desktop", "pool", "connect"))
    BY DEF HandlesEvent
  <1>3. /\ objects' \in [Sides -> Pools] /\ objects'[d] = objects[d] + 1
        /\ \A x \in Sides \ {d} : objects'[x] = objects[x] /\ ends'[x] = ends[x] /\ poolState'[x] = poolState[x]
        /\ ends' \in [Sides -> [Pools \X Indices ->
                    [state : {"DISCONNECTED", "CONNECTING", "CONNECTED"}, peer : Pools \cup {-1}]]]
        /\ \A c \in Pools \X Indices : ends'[d][c].state = "DISCONNECTED"
        /\ poolState' \in [Sides -> {"DISCONNECTED", "CONNECTING", "CONNECTED"}] /\ poolState'[d] = "DISCONNECTED"
    BY <1>2, ResetFacts
  <1>4. waiting' \in BOOLEAN /\ (d = "phone" => waiting' = waiting)
    BY <1>1, <1>2 DEF Reset, SetUpTypeOK
  <1>5. WaitsAreLeft /\ SeeksAreLeft
    <2>1. /\ "connect" \in Places /\ {"pool", "connect"} \cap {"wait", "waitConnected", "waitDropped"} = {}
          /\ {"pool", "connect"} \cap {"seek", "seekStore"} = {} /\ "connect" # "pool"
      BY DEF Places
    <2> QED
      BY <2>1, <1>1, <1>2, MovingIsLeft, StandingIsLeft
  <1>6. /\ told'[d] = Tail(told[d]) /\ \A x \in Sides \ {d} : told'[x] = told[x]
        /\ up => told'[d] = <<>>
        /\ told' \in [Sides -> {<<>>, <<"connected">>, <<"disconnected">>, <<"connected", "disconnected">>}]
    <2>1. told'[d] = Tail(told[d]) /\ \A x \in Sides \ {d} : told'[x] = told[x]
      BY <1>1, <1>2 DEF SetUpTypeOK
    <2>2. Tail(told[d]) \in {<<>>, <<"disconnected">>} /\ (up => Tail(told[d]) = <<>>)
      BY <1>2, EventFacts
    <2> QED
      BY <2>1, <2>2, <1>1, <1>2 DEF SetUpTypeOK
  <1>7. \A x \in Sides : objects[x] \in Nat
    BY <1>1, Counted
  <1>8. \A i \in Indices : Off(d, i)'
    BY <1>3
  <1>9. objects["phone"] <= objects'["phone"] /\ objects'["phone"] \in Nat
    <2>1. objects'["phone"] \in {objects["phone"], objects["phone"] + 1}
      BY <1>3
    <2> QED
      BY <2>1, <1>7
  <1>10. SetUpTypeOK'
    <2>1. ready' \in [Sides -> BOOLEAN]
      BY <1>1, <1>2 DEF SetUpTypeOK
    <2>2. raced' \in BOOLEAN
      BY <1>1 DEF HandlesEvent, SetUpTypeOK
    <2>3. running'["desktop"]["wait"] <= 1 /\ running' \in [Sides -> [Places -> Nat]]
          /\ running'["phone"]["seek"] + running'["phone"]["seekStore"] <= 2
      BY <1>1, <1>5, SeeksBounded DEF WaitsAreLeft, SetUpTypeOK, SetUpIInv
    <2> QED
      BY <2>1, <2>2, <2>3, <1>1, <1>2, <1>3, <1>4, <1>6 DEF SetUpTypeOK
  <1>11. EventsInOrder'
    <2>1. ASSUME NEW x \in Sides
          PROVE  objects'[x] + Len(told'[x]) = objects[x] + Len(told[x])
      <3>1. CASE x = d
        <4>1. Len(told[d]) = Len(Tail(told[d])) + 1 /\ Len(Tail(told[d])) \in Nat
          BY <1>2, EventFacts
        <4>2. objects'[x] = objects[x] + 1 /\ told'[x] = Tail(told[d]) /\ objects[x] \in Nat
          BY <3>1, <1>3, <1>6, <1>7
        <4> QED
          BY <3>1, <4>1, <4>2
      <3>2. CASE x # d
        BY <3>2, <1>3, <1>6
      <3> QED
        BY <3>1, <3>2
    <2>2. Tail(told[d]) \in {<<>>, <<"disconnected">>} /\ (up => Tail(told[d]) = <<>>)
      BY <1>2, EventFacts
    <2>3. \A x \in Sides : told'[x] \in {told[x], Tail(told[d])}
      BY <1>6
    <2> QED
      BY <2>1, <2>2, <2>3, <1>1, <1>2 DEF EventsInOrder
  <1>12. OnlyCurrent'
    <2>1. \A x \in Sides, c \in Pools \X Indices : ends'[x][c].state # "DISCONNECTED" => c[1] = objects'[x]
      BY <1>1, <1>3 DEF OnlyCurrent
    <2>2. \A e \in Pools : e <= objects["phone"] => e <= objects'["phone"]
      BY <1>7, <1>9, Numbers
    <2>3. \A i \in Indices : ~Off("desktop", i)' => ~Off("desktop", i) /\ Mine("desktop", i)' = Mine("desktop", i)
      BY <1>3, <1>8
    <2>4. publishing \subseteq Pools
      BY <1>1 DEF SetUpTypeOK
    <2> QED
      BY <2>1, <2>2, <2>3, <2>4, <1>1, <1>2 DEF OnlyCurrent
  <1>13. OneWaits'
    <2>1. Waiters' = Waiters
      BY <1>5 DEF WaitsAreLeft
    <2>2. ASSUME d = "desktop", up
          PROVE  Waiters = 0
      BY <2>2, <1>1, <1>2, WaitPlaces DEF StartsClean, Waiters
    <2> QED
      BY <2>1, <2>2, <1>1, <1>2, <1>4 DEF OneWaits
  <1>14. StartsClean'
    <2>1. up => \A x \in Sides : ~At(x, "waitDropped")'
      BY <1>5, NothingRunsAtStart DEF At, WaitsAreLeft
    <2>2. d = "phone" => running' = running /\ told'["desktop"] = told["desktop"]
                           /\ \A i : Mine("desktop", i)' = Mine("desktop", i)
      BY <1>2, <1>3, <1>6
    <2>3. d = "desktop" => told'["phone"] = told["phone"] /\ \A i : Mine("phone", i)' = Mine("phone", i)
      BY <1>3, <1>6
    <2>4. CASE d = "phone"
      <3>1. \A i \in Indices : ~Off("desktop", i)' => Mine("desktop", i)'.peer < objects'["phone"]
        <4> TAKE i \in Indices
        <4> HAVE ~Off("desktop", i)'
        <4>1. Mine("desktop", i)'.peer \in Pools /\ Mine("desktop", i)'.peer <= objects["phone"]
          <5>1. Mine("desktop", i)' = Mine("desktop", i)
            BY <2>2, <2>4
          <5>2. ~Off("desktop", i)
            BY <5>1
          <5>3. Mine("desktop", i).peer \in Pools /\ Mine("desktop", i).peer <= objects["phone"]
            BY <5>2, <1>1 DEF OnlyCurrent
          <5> QED
            BY <5>1, <5>3
        <4>2. objects'["phone"] = objects["phone"] + 1 /\ objects["phone"] \in Nat
          BY <2>4, <1>3, <1>7
        <4>3. Mine("desktop", i)'.peer \in Nat
          BY <4>1, Numbers
        <4> HIDE DEF Mine
        <4> QED
          BY <4>1, <4>2, <4>3
      <3> QED
        BY <2>1, <2>2, <2>4, <3>1, <1>1, <1>2, <1>8 DEF StartsClean
    <2>5. CASE d = "desktop"
      BY <2>1, <2>3, <2>5, <1>1, <1>2, <1>6, <1>8 DEF StartsClean
    <2> QED
      BY <2>4, <2>5
  <1>15. ASSUME up', ~raced'
         PROVE  OffersHold'
    <2>1. up /\ OffersHold /\ told'[d] = <<>>
      BY <1>2, <1>6, <1>15 DEF SetUpIInv
    <2>2. \A x \in Sides \ {d} : AllConnected(x)' <=> AllConnected(x)
      BY <1>3 DEF AllConnected
    <2>3. \A x \in Sides : told'[x] = <<>> /\ poolState'[x] = "CONNECTED" => AllConnected(x)'
      BY <2>1, <2>2, <1>3, <1>6 DEF OffersHold
    <2>4. publishing = {} /\ (\A i \in Indices, e \in Pools : Port(i, e) \notin mail)
          /\ \A i \in Indices : Off("desktop", i)'
      <3>1. CASE d = "desktop"
        BY <3>1, <2>1, <1>1, <1>2, <1>8 DEF StartsClean
      <3>2. CASE d = "phone"
        <4>1. Head(told[d]) = "connected"
          BY <2>1, <1>2, EventFacts
        <4>2. ~Watched
          BY <4>1, <3>2, <1>2, <1>15 DEF HandlesEvent, Watched
        <4>3. \A i \in Indices : Mine("desktop", i)' = Mine("desktop", i)
          BY <3>2, <1>3
        <4> QED
          BY <4>2, <4>3, <2>1 DEF OffersHold, Offered
      <3> QED
        BY <3>1, <3>2
    <2>5. told'["phone"] = <<>> /\ told'["desktop"] = <<>> =>
            \A i \in Indices : Mine("phone", i)'.state = "CONNECTED" => Mine("phone", i)'.peer = objects'["desktop"]
      <3>1. CASE d = "desktop"
        <4>1. \A i \in Indices : Mine("phone", i)' = Mine("phone", i)
          BY <3>1, <1>3
        <4> QED
          BY <3>1, <4>1, <1>1, <1>2, <1>6 DEF StartsClean
      <3>2. CASE d = "phone"
        BY <3>2, <1>8
      <3> QED
        BY <3>1, <3>2
    <2> QED
      BY <2>3, <2>4, <2>5, <1>2 DEF OffersHold
  <1> QED
    BY <1>10, <1>11, <1>12, <1>13, <1>14, <1>15 DEF SetUpIInv

-------------------------------------------------------------------------------
(* What the phone offers *)

LEMMA SeekStoresStep ==
  ASSUME SetUpIInv, ~raced, StoresConnecting("phone", "seekStore", "pool"),
         publishing' = publishing \cup {objects["phone"]},
         NEW left \in {"CONNECTING", "DISCONNECTED"},
         ends' = [ends EXCEPT !["phone"] = [c \in DOMAIN @ |->
                IF c[1] = objects["phone"] THEN Sought(@[c], left) ELSE @[c]]],
         UNCHANGED <<up, told, ready, waiting, objects, mail, begun, retries, failed>>
  PROVE  SetUpIInv'
  <1>1. SetUpTypeOK /\ EventsInOrder /\ OnlyCurrent /\ OneWaits /\ StartsClean
        /\ running \in [Sides -> [Places -> Nat]]
    BY DEF SetUpIInv, SetUpTypeOK
  <1>2. /\ "seekStore" \in Places /\ {"seekStore", "pool"} \cap {"wait", "waitConnected", "waitDropped"} = {}
    BY DEF Places
  <1>3. /\ At("phone", "seekStore") /\ Moves("phone", "seekStore", "pool")
        /\ poolState' = [poolState EXCEPT !["phone"] = "CONNECTING"]
        /\ raced' = (raced \/ \E i \in Indices : ends["phone"][<<objects["phone"], i>>].state # "DISCONNECTED")
    BY DEF StoresConnecting
  <1>4. WaitsAreLeft
    BY <1>1, <1>2, <1>3, MovingIsLeft
  <1>5. running'["phone"]["seek"] + running'["phone"]["seekStore"] <= 2
    <2>1. /\ running'["phone"]["seekStore"] = running["phone"]["seekStore"] - 1
          /\ \A p \in Places \ {"seekStore", "pool"} : running'["phone"][p] = running["phone"][p]
      BY <1>1, <1>2, <1>3, MoveFacts
    <2>2. "seek" \in Places
      BY DEF Places
    <2>3. running["phone"]["seek"] \in Nat /\ running["phone"]["seekStore"] \in Nat
          /\ running["phone"]["seek"] + running["phone"]["seekStore"] <= 2
          /\ running'["phone"]["seek"] = running["phone"]["seek"]
      BY <1>1, <1>2, <2>1, <2>2 DEF SetUpTypeOK
    <2> QED
      BY <2>1, <2>3
  <1> DEFINE Ends == [state : {"DISCONNECTED", "CONNECTING", "CONNECTED"}, peer : Pools \cup {-1}]
             new == [c \in Pools \X Indices |->
                IF c[1] = objects["phone"] THEN Sought(ends["phone"][c], left) ELSE ends["phone"][c]]
  <1>6. ends \in [Sides -> [Pools \X Indices -> Ends]] /\ DOMAIN ends["phone"] = Pools \X Indices
    BY <1>1 DEF SetUpTypeOK
  <1>7. ends' = [ends EXCEPT !["phone"] = new]
    BY <1>6
  <1>8. new \in [Pools \X Indices -> Ends]
    <2> SUFFICES ASSUME NEW c \in Pools \X Indices
                 PROVE  new[c] \in Ends
      OBVIOUS
    <2>1. ends["phone"][c] \in Ends
      BY <1>6
    <2> QED
      BY <2>1 DEF Sought
  <1>9. \A c \in Pools \X Indices : c[1] # objects["phone"] => new[c] = ends["phone"][c]
    OBVIOUS
  <1>10. \A i \in Indices : <<objects["phone"], i>> \in Pools \X Indices
    BY <1>1 DEF SetUpTypeOK
  <1>11. \A i \in Indices :
           /\ new[<<objects["phone"], i>>].state \in {"CONNECTING", "DISCONNECTED"}
           /\ Off("phone", i) => new[<<objects["phone"], i>>].state = "CONNECTING"
    <2> TAKE i \in Indices
    <2>1. ends["phone"][<<objects["phone"], i>>] \in Ends /\ <<objects["phone"], i>> \in Pools \X Indices
      BY <1>6, <1>10
    <2> QED
      BY <2>1 DEF Sought
  <1> HIDE DEF new
  <1>12. /\ ends' \in [Sides -> [Pools \X Indices -> Ends]]
         /\ ends'["phone"] = new /\ ends'["desktop"] = ends["desktop"]
    BY <1>6, <1>7, <1>8
  <1>13. /\ poolState' \in [Sides -> {"DISCONNECTED", "CONNECTING", "CONNECTED"}]
         /\ poolState'["phone"] = "CONNECTING" /\ poolState'["desktop"] = poolState["desktop"]
    BY <1>1, <1>3 DEF SetUpTypeOK
  <1>14. ~(up /\ told["desktop"] # <<>>)
    BY <1>2, <1>3, NothingRunsAtStart
  <1>15. /\ \A i \in Indices : Mine("phone", i)'.state \in {"CONNECTING", "DISCONNECTED"}
         /\ \A i \in Indices : Off("phone", i) => Mine("phone", i)'.state = "CONNECTING"
         /\ \A i : Mine("desktop", i)' = Mine("desktop", i)
    BY <1>11, <1>12
  <1>16. SetUpTypeOK'
    <2>1. publishing' \subseteq Pools /\ raced' \in BOOLEAN
      BY <1>1, <1>3 DEF SetUpTypeOK
    <2>2. running'["desktop"]["wait"] <= 1 /\ running' \in [Sides -> [Places -> Nat]]
      BY <1>1, <1>4 DEF WaitsAreLeft, SetUpTypeOK
    <2> QED
      BY <2>1, <2>2, <1>1, <1>5, <1>12, <1>13 DEF SetUpTypeOK
  <1>17. EventsInOrder'
    BY <1>1 DEF EventsInOrder
  <1>18. OnlyCurrent'
    <2>1. \A x \in Sides, c \in Pools \X Indices : ends'[x][c].state # "DISCONNECTED" => c[1] = objects[x]
      <3>1. \A c \in Pools \X Indices : ends'["desktop"][c].state # "DISCONNECTED" => c[1] = objects["desktop"]
        BY <1>1, <1>12 DEF OnlyCurrent
      <3>2. \A c \in Pools \X Indices : ends'["phone"][c].state # "DISCONNECTED" => c[1] = objects["phone"]
        BY <1>1, <1>9, <1>12 DEF OnlyCurrent
      <3> QED
        BY <3>1, <3>2
    <2>2. \A e \in publishing' : e <= objects["phone"]
      BY <1>1, Counted DEF OnlyCurrent
    <2> QED
      BY <2>1, <2>2, <1>1, <1>15 DEF OnlyCurrent
  <1>19. OneWaits'
    BY <1>1, <1>4 DEF OneWaits, WaitsAreLeft
  <1>20. StartsClean'
    <2>1. up => \A x \in Sides : ~At(x, "waitDropped")'
      BY <1>4, NothingRunsAtStart DEF At, WaitsAreLeft
    <2> QED
      BY <2>1, <1>1, <1>14, <1>15 DEF StartsClean
  <1>21. ASSUME up', ~raced'
         PROVE  OffersHold'
    <2>1. OffersHold /\ \A i \in Indices : Off("phone", i)
      BY <1>3, <1>21 DEF SetUpIInv
    <2>2. (\A i \in Indices, e \in Pools : Port(i, e) \notin mail) /\ \A i \in Indices : Off("desktop", i)
      BY <2>1 DEF OffersHold, Offered
    <2>3. publishing' = {objects["phone"]}
      BY <2>1 DEF OffersHold
    <2>4. Watched' /\ \A i \in Indices : Offered(i)' /\ Off("desktop", i)'
      BY <2>1, <2>2, <1>13, <1>15 DEF Watched, Offered
    <2>5. \A x \in Sides : told'[x] = <<>> /\ poolState'[x] = "CONNECTED" => AllConnected(x)'
      <3>1. AllConnected("desktop")' <=> AllConnected("desktop")
        BY <1>15 DEF AllConnected
      <3> QED
        BY <3>1, <2>1, <1>13 DEF OffersHold
    <2> QED
      BY <2>2, <2>3, <2>4, <2>5, <1>15 DEF OffersHold
  <1> QED
    BY <1>16, <1>17, <1>18, <1>19, <1>20, <1>21 DEF SetUpIInv

LEMMA SeekBeginsStep ==
  ASSUME SetUpIInv, ~raced, SeekBegins
  PROVE  SetUpIInv'
  <1>1. CASE Tests("phone", "seek", "seekStore")
    <2>1. "seek" \in Places /\ "seekStore" \in Places
      BY DEF Places
    <2> QED
      BY <1>1, <2>1, TestsStep
  <1>2. CASE ~Tests("phone", "seek", "seekStore")
    BY <1>2, SeekStoresStep DEF SeekBegins
  <1> QED
    BY <1>1, <1>2

(* A channel is disconnected and its port not sent. *)
LEMMA PublishFailsStep ==
  ASSUME SetUpIInv, ~raced, NEW e \in publishing, publishing' = publishing \ {e},
         failed < MaxFailures, failed' = failed + 1,
         NEW i \in Indices, ends' = [ends EXCEPT !["phone"][<<e, i>>].state = "DISCONNECTED"],
         poolState' = [poolState EXCEPT !["phone"] = "DISCONNECTED"],
         raced' = (raced \/ e # objects["phone"]),
         UNCHANGED <<mail, running, up, told, ready, waiting, objects, begun, retries>>
  PROVE  SetUpIInv'
  <1>1. SetUpTypeOK /\ EventsInOrder /\ OnlyCurrent /\ OneWaits /\ StartsClean /\ e \in Pools
    BY DEF SetUpIInv, SetUpTypeOK
  <1> DEFINE Ends == [state : {"DISCONNECTED", "CONNECTING", "CONNECTED"}, peer : Pools \cup {-1}]
             off == [ends["phone"][<<e, i>>] EXCEPT !.state = "DISCONNECTED"]
  <1>2. ends \in [Sides -> [Pools \X Indices -> Ends]] /\ <<e, i>> \in Pools \X Indices
    BY <1>1 DEF SetUpTypeOK
  <1>3. ends["phone"][<<e, i>>] \in Ends
    BY <1>2
  <1>4. off \in Ends /\ off.state = "DISCONNECTED" /\ off.peer = ends["phone"][<<e, i>>].peer
    BY <1>3
  <1>5. ends' = [ends EXCEPT !["phone"] = [ends["phone"] EXCEPT ![<<e, i>>] = off]]
    OBVIOUS
  <1> HIDE DEF off
  <1>6. /\ ends' \in [Sides -> [Pools \X Indices -> Ends]] /\ ends'["desktop"] = ends["desktop"]
        /\ ends'["phone"][<<e, i>>] = off
        /\ \A c \in Pools \X Indices : c # <<e, i>> => ends'["phone"][c] = ends["phone"][c]
    <2> DEFINE new == [ends["phone"] EXCEPT ![<<e, i>>] = off]
    <2>1. /\ new \in [Pools \X Indices -> Ends] /\ new[<<e, i>>] = off
          /\ \A c \in Pools \X Indices : c # <<e, i>> => new[c] = ends["phone"][c]
      BY <1>2, <1>4
    <2>2. ends' = [ends EXCEPT !["phone"] = new]
      BY <1>5
    <2> HIDE DEF new
    <2> QED
      BY <2>1, <2>2, <1>2
  <1>7. \A x \in Sides, c \in Pools \X Indices :
           ends'[x][c].state = "DISCONNECTED" \/ ends'[x][c] = ends[x][c]
    BY <1>4, <1>6
  <1>8. /\ poolState' \in [Sides -> {"DISCONNECTED", "CONNECTING", "CONNECTED"}]
        /\ poolState'["phone"] = "DISCONNECTED" /\ poolState'["desktop"] = poolState["desktop"]
    BY <1>1 DEF SetUpTypeOK
  <1>9. ~(up /\ told["desktop"] # <<>>)
    BY <1>1 DEF StartsClean
  <1>10. /\ \A j \in Indices : Off("phone", j)' \/ Mine("phone", j)' = Mine("phone", j)
         /\ \A j : Mine("desktop", j)' = Mine("desktop", j)
    <2>1. \A j \in Indices : <<objects["phone"], j>> \in Pools \X Indices
      BY <1>1 DEF SetUpTypeOK
    <2> QED
      BY <2>1, <1>6, <1>7
  <1>11. SetUpTypeOK'
    <2>1. failed' \in 0 .. MaxFailures
      BY <1>1, SetUpBounds DEF SetUpTypeOK
    <2>2. publishing' \subseteq Pools /\ raced' \in BOOLEAN
      BY <1>1 DEF SetUpTypeOK
    <2> QED
      BY <2>1, <2>2, <1>1, <1>6, <1>8 DEF SetUpTypeOK
  <1>12. EventsInOrder' /\ OneWaits'
    BY <1>1 DEF EventsInOrder, OneWaits, Waiters
  <1>13. OnlyCurrent'
    BY <1>1, <1>7, <1>10 DEF OnlyCurrent
  <1>14. StartsClean'
    BY <1>1, <1>9, <1>10 DEF StartsClean, At
  <1>15. ASSUME up', ~raced'
         PROVE  OffersHold'
    <2>1. OffersHold /\ e = objects["phone"]
      BY <1>15 DEF SetUpIInv
    <2>2. publishing' = {} /\ (\A j \in Indices, f \in Pools : Port(j, f) \notin mail)
          /\ \A j \in Indices : Off("desktop", j)'
      BY <2>1, <1>10 DEF OffersHold
    <2>3. \A x \in Sides : told'[x] = <<>> /\ poolState'[x] = "CONNECTED" => AllConnected(x)'
      BY <2>1, <1>6, <1>8 DEF OffersHold, AllConnected
    <2>4. told'["phone"] = <<>> /\ told'["desktop"] = <<>> =>
            \A j \in Indices : Mine("phone", j)'.state = "CONNECTED" => Mine("phone", j)'.peer = objects'["desktop"]
      BY <2>1, <1>10 DEF OffersHold
    <2> QED
      BY <2>2, <2>3, <2>4 DEF OffersHold
  <1> QED
    BY <1>11, <1>12, <1>13, <1>14, <1>15 DEF SetUpIInv

(* The ports are sent, and the pool waits for the desktop. *)
LEMMA PublishSendsStep ==
  ASSUME SetUpIInv, ~raced, NEW e \in publishing, publishing' = publishing \ {e},
         IF up THEN Moves("phone", "pool", "wait") /\ UNCHANGED poolState
         ELSE poolState' = [poolState EXCEPT !["phone"] = "DISCONNECTED"] /\ UNCHANGED running,
         Sends({<<"PORT_INFO", i, e>> : i \in Indices}),
         UNCHANGED <<ends, failed, raced, up, told, ready, waiting, objects, begun, retries>>
  PROVE  SetUpIInv'
  <1>1. SetUpTypeOK /\ EventsInOrder /\ OnlyCurrent /\ OneWaits /\ StartsClean /\ e \in Pools
        /\ running \in [Sides -> [Places -> Nat]]
    BY DEF SetUpIInv, SetUpTypeOK
  <1>2. /\ running' \in [Sides -> [Places -> Nat]] /\ running'["desktop"] = running["desktop"]
        /\ running'["phone"]["waitDropped"] = running["phone"]["waitDropped"]
    <2>1. CASE up
      <3>1. {"wait", "waitDropped"} \subseteq Places /\ Moves("phone", "pool", "wait") /\ "wait" # "pool"
        BY <2>1, WaitPlaces
      <3> QED
        BY <3>1, <1>1, MoveFacts
    <2>2. CASE ~up
      BY <2>2, <1>1
    <2> QED
      BY <2>1, <2>2
  <1>3. SeeksAreLeft
    <2>1. CASE up
      <3>1. "wait" \in Places /\ Moves("phone", "pool", "wait") /\ {"pool", "wait"} \cap {"seek", "seekStore"} = {}
        BY <2>1, WaitPlaces
      <3> QED
        BY <3>1, <1>1, MovingIsLeft
    <2>2. CASE ~up
      BY <2>2, <1>1, StandingIsLeft
    <2> QED
      BY <2>1, <2>2
  <1>4. /\ poolState' \in [Sides -> {"DISCONNECTED", "CONNECTING", "CONNECTED"}]
        /\ poolState'["desktop"] = poolState["desktop"] /\ (up => poolState' = poolState)
    BY <1>1 DEF SetUpTypeOK
  <1>5. (~up => mail' = mail) /\ mail' \subseteq mail \cup {Port(i, e) : i \in Indices}
    BY DEF Sends
  <1>6. \A i \in Indices, f \in Pools : Port(i, f) \in mail' => Port(i, f) \in mail \/ f = e
    <2> TAKE i \in Indices, f \in Pools
    <2> HAVE Port(i, f) \in mail'
    <2>1. Port(i, f) \in mail \/ \E j \in Indices : Port(i, f) = Port(j, e)
      BY <1>5
    <2> HIDE DEF Port
    <2> QED
      BY <2>1, PackagesSent
  <1>7. ~(up /\ told["desktop"] # <<>>)
    BY <1>1 DEF StartsClean
  <1>8. SetUpTypeOK'
    <2>1. mail' \subseteq {<<"CONNECT">>} \cup ({"PORT_INFO"} \X Indices \X Pools)
      BY <1>1, <1>5 DEF SetUpTypeOK
    <2>2. running'["desktop"]["wait"] <= 1 /\ running'["phone"]["seek"] + running'["phone"]["seekStore"] <= 2
      BY <1>1, <1>2, <1>3, SeeksBounded DEF SetUpTypeOK
    <2>3. publishing' \subseteq Pools
      BY <1>1 DEF SetUpTypeOK
    <2> QED
      BY <2>1, <2>2, <2>3, <1>1, <1>2, <1>4 DEF SetUpTypeOK
  <1>9. EventsInOrder'
    BY <1>1, <1>5 DEF EventsInOrder
  <1>10. OnlyCurrent'
    BY <1>1, <1>6 DEF OnlyCurrent
  <1>11. OneWaits'
    BY <1>1, <1>2 DEF OneWaits, Waiters
  <1>12. StartsClean'
    <2>1. up => \A x \in Sides : ~At(x, "waitDropped")'
      BY <1>1, <1>2 DEF StartsClean, At
    <2> QED
      BY <2>1, <1>1, <1>7 DEF StartsClean
  <1>13. ASSUME up', ~raced'
         PROVE  OffersHold'
    <2>1. /\ OffersHold /\ up /\ e = objects["phone"] /\ publishing' = {} /\ poolState' = poolState
          /\ Watched /\ (\A i \in Indices : Offered(i) /\ Off("desktop", i))
          /\ \A i \in Indices, f \in Pools : Port(i, f) \notin mail
      BY <1>4, <1>13 DEF SetUpIInv, OffersHold
    <2>2. \A i \in Indices : Offered(i)' /\ Off("desktop", i)'
      BY <2>1 DEF Offered, Watched
    <2>3. \A i \in Indices, f \in Pools : Port(i, f) \in mail' => f = objects["phone"]
      BY <2>1, <1>6
    <2>4. \A x \in Sides : told'[x] = <<>> /\ poolState'[x] = "CONNECTED" => AllConnected(x)'
      BY <2>1 DEF OffersHold, AllConnected
    <2> QED
      BY <2>1, <2>2, <2>3, <2>4 DEF OffersHold
  <1> QED
    BY <1>8, <1>9, <1>10, <1>11, <1>12, <1>13 DEF SetUpIInv

LEMMA PublishesStep ==
  ASSUME SetUpIInv, ~raced, NEW e \in Pools, Publishes(e)
  PROVE  SetUpIInv'
  BY PublishFailsStep, PublishSendsStep DEF Publishes

-------------------------------------------------------------------------------
(* What the desktop makes of it *)

LEMMA ReceivesPortStep ==
  ASSUME SetUpIInv, ~raced, NEW i \in Indices, NEW e \in Pools, ReceivesPort(i, e)
  PROVE  SetUpIInv'
  <1>1. SetUpTypeOK /\ EventsInOrder /\ OnlyCurrent /\ OneWaits /\ StartsClean
        /\ running \in [Sides -> [Places -> Nat]]
    BY DEF SetUpIInv, SetUpTypeOK
  <1>2. /\ Port(i, e) \in mail /\ mail' = mail \ {Port(i, e)}
        /\ up' = up /\ told' = told /\ ready' = ready /\ poolState' = poolState /\ objects' = objects
        /\ begun' = begun /\ retries' = retries /\ failed' = failed /\ raced' = raced /\ publishing' = publishing
    BY DEF ReceivesPort
  <1>3. up /\ told["desktop"] = <<>>
    BY <1>1, <1>2 DEF EventsInOrder, StartsClean
  <1> DEFINE Ends == [state : {"DISCONNECTED", "CONNECTING", "CONNECTED"}, peer : Pools \cup {-1}]
             mine == <<objects["desktop"], i>>
             coming == [state |-> "CONNECTING", peer |-> e]
  <1>4. mine \in Pools \X Indices /\ ends \in [Sides -> [Pools \X Indices -> Ends]]
    BY <1>1 DEF SetUpTypeOK
  <1>5. /\ ends' \in [Sides -> [Pools \X Indices -> Ends]] /\ ends'["phone"] = ends["phone"]
        /\ \A c \in Pools \X Indices : c # mine => ends'["desktop"][c] = ends["desktop"][c]
        /\ \/ ends'["desktop"][mine] = ends["desktop"][mine]
           \/ ends'["desktop"][mine] = coming
           \/ ends'["desktop"][mine] = Unused /\ ends["desktop"][mine].state # "DISCONNECTED"
    <2>1. CASE ~ready["desktop"]
      BY <2>1, <1>4 DEF ReceivesPort
    <2>2. CASE ready["desktop"]
      <3> DEFINE next == IF ends["desktop"][mine].state = "DISCONNECTED" THEN coming ELSE Unused
      <3>1. ends' = [ends EXCEPT !["desktop"] = [ends["desktop"] EXCEPT ![mine] = next]]
        BY <2>2 DEF ReceivesPort
      <3>2. next \in Ends
        BY DEF Unused
      <3>3. next = coming \/ (next = Unused /\ ends["desktop"][mine].state # "DISCONNECTED")
        OBVIOUS
      <3> HIDE DEF next, mine, coming
      <3> QED
        BY <3>1, <3>2, <3>3, <1>4
    <2> QED
      BY <2>1, <2>2
  <1>6. waiting' \in BOOLEAN /\ (waiting => waiting')
    BY <1>1 DEF ReceivesPort, SetUpTypeOK
  <1>7. /\ running' \in [Sides -> [Places -> Nat]] /\ running'["desktop"]["wait"] <= 1
        /\ SeeksAreLeft /\ OneWaits' /\ \A x \in Sides : ~At(x, "waitDropped")'
    <2>1. CASE running' = running
      <3>1. SeeksAreLeft
        BY <2>1, <1>1, StandingIsLeft
      <3>2. OneWaits' /\ \A x \in Sides : ~At(x, "waitDropped")'
        BY <2>1, <1>1, <1>2, <1>3, <1>6 DEF OneWaits, Waiters, StartsClean, At
      <3> QED
        BY <3>1, <3>2, <2>1, <1>1 DEF SetUpTypeOK
    <2>2. CASE running' # running
      <3>1. Moves("desktop", "pool", "wait") /\ ~waiting /\ waiting'
        BY <2>2 DEF ReceivesPort
      <3>2. /\ running' \in [Sides -> [Places -> Nat]] /\ running'["phone"] = running["phone"]
            /\ \A p \in Places \ {"pool", "wait"} : running'["desktop"][p] = running["desktop"][p]
            /\ running'["desktop"]["wait"] = running["desktop"]["wait"] + 1
        BY <3>1, <1>1, WaitPlaces, MoveFacts
      <3>3. Waiters = 0
        <4>1. Waiters \in Nat
          BY <1>1, WaiterNumbers DEF Waiters
        <4> QED
          BY <4>1, <3>1, <1>1, <1>3 DEF OneWaits
      <3>4. running["desktop"]["wait"] = 0 /\ running["desktop"]["waitConnected"] = 0 /\ running["desktop"]["waitDropped"] = 0
        BY <3>3, <1>1, WaiterNumbers DEF Waiters
      <3>5. running'["desktop"]["wait"] = 1 /\ running'["desktop"]["waitConnected"] = 0 /\ running'["desktop"]["waitDropped"] = 0
        BY <3>2, <3>4, WaitPlaces
      <3>6. OneWaits'
        BY <3>1, <3>5 DEF OneWaits, Waiters
      <3>7. \A x \in Sides : ~At(x, "waitDropped")'
        BY <3>2, <3>5, <1>1, <1>3 DEF StartsClean, At
      <3>8. SeeksAreLeft
        BY <3>2 DEF SeeksAreLeft
      <3> QED
        BY <3>2, <3>5, <3>6, <3>7, <3>8
    <2> QED
      BY <2>1, <2>2
  <1>8. SetUpTypeOK'
    <2>1. mail' \subseteq {<<"CONNECT">>} \cup ({"PORT_INFO"} \X Indices \X Pools)
      BY <1>1, <1>2 DEF SetUpTypeOK
    <2> QED
      BY <2>1, <1>1, <1>2, <1>5, <1>6, <1>7, SeeksBounded DEF SetUpTypeOK
  <1>9. EventsInOrder'
    BY <1>1, <1>2, <1>3 DEF EventsInOrder
  <1>10. e <= objects["phone"]
    BY <1>1, <1>2 DEF OnlyCurrent
  <1>11. \A j \in Indices : j # i => Mine("desktop", j)' = Mine("desktop", j)
    <2> TAKE j \in Indices
    <2> HAVE j # i
    <2>1. <<objects["desktop"], j>> # mine /\ <<objects["desktop"], j>> \in Pools \X Indices
      BY <1>1 DEF SetUpTypeOK
    <2> QED
      BY <2>1, <1>2, <1>5
  <1>12. \/ Mine("desktop", i)' = Mine("desktop", i) \/ Off("desktop", i)'
         \/ Mine("desktop", i)' = coming
    BY <1>2, <1>5 DEF Unused
  <1>13. OnlyCurrent'
    <2>1. \A c \in Pools \X Indices : ends'["desktop"][c].state # "DISCONNECTED" => c[1] = objects["desktop"]
      BY <1>1, <1>5 DEF OnlyCurrent
    <2>2. \A c \in Pools \X Indices : ends'["phone"][c].state # "DISCONNECTED" => c[1] = objects["phone"]
      BY <1>1, <1>5 DEF OnlyCurrent
    <2>3. ASSUME NEW j \in Indices, ~Off("desktop", j)'
          PROVE  Mine("desktop", j)'.peer \in Pools /\ Mine("desktop", j)'.peer <= objects["phone"]
      <3>1. CASE Mine("desktop", j)' = Mine("desktop", j)
        BY <3>1, <2>3, <1>1 DEF OnlyCurrent
      <3>2. CASE Mine("desktop", j)' # Mine("desktop", j)
        <4>1. Mine("desktop", j)' = coming
          BY <3>2, <2>3, <1>11, <1>12
        <4> QED
          BY <4>1, <1>10
      <3> QED
        BY <3>1, <3>2
    <2> QED
      BY <2>1, <2>2, <2>3, <1>1, <1>2 DEF OnlyCurrent
  <1>14. StartsClean'
    BY <1>2, <1>3, <1>7 DEF StartsClean
  <1>15. ASSUME ~raced'
         PROVE  OffersHold'
    <2>1. OffersHold /\ publishing = {} /\ e = objects["phone"] /\ Offered(i) /\ Off("desktop", i)
      BY <1>2, <1>3, <1>15 DEF SetUpIInv, OffersHold
    <2>2. \A j \in Indices : (Offered(j)' <=> Offered(j)) /\ Mine("phone", j)' = Mine("phone", j)
      BY <1>2, <1>5 DEF Offered, Watched
    <2>3. ASSUME NEW j \in Indices, NEW f \in Pools, Port(j, f) \in mail'
          PROVE  f = objects["phone"] /\ Offered(j) /\ Off("desktop", j)'
      <3>1. Port(j, f) \in mail /\ Port(j, f) # Port(i, e)
        BY <2>3, <1>2
      <3>2. f = objects["phone"] /\ Offered(j) /\ Off("desktop", j)
        BY <3>1, <2>1 DEF OffersHold
      <3>3. j # i
        BY <3>1, <3>2, <2>1
      <3> QED
        BY <3>2, <3>3, <1>11
    <2>4. ASSUME NEW j \in Indices, ~Off("desktop", j)'
          PROVE  Mine("desktop", j)'.peer = objects["phone"] /\ Offered(j)
      <3>1. CASE j # i
        BY <3>1, <2>1, <2>4, <1>11 DEF OffersHold
      <3>2. CASE j = i
        <4>1. Mine("desktop", i)' = coming
          BY <3>2, <2>1, <2>4, <1>12
        <4> QED
          BY <3>2, <4>1, <2>1
      <3> QED
        BY <3>1, <3>2
    <2>5. ASSUME NEW x \in Sides, told'[x] = <<>>, poolState'[x] = "CONNECTED"
          PROVE  AllConnected(x)'
      <3>1. AllConnected(x)
        BY <2>1, <2>5, <1>2 DEF OffersHold
      <3>2. x = "phone"
        BY <3>1, <2>1 DEF AllConnected
      <3> QED
        BY <3>1, <3>2, <1>2, <1>5 DEF AllConnected
    <2> QED
      BY <2>1, <2>2, <2>3, <2>4, <2>5, <1>2 DEF OffersHold
  <1> QED
    BY <1>8, <1>9, <1>7, <1>13, <1>14, <1>15 DEF SetUpIInv

LEMMA ConnectsStep ==
  ASSUME SetUpIInv, ~raced, NEW c \in Pools \X Indices, Connects(c)
  PROVE  SetUpIInv'
  <1> DEFINE Ends == [state : {"DISCONNECTED", "CONNECTING", "CONNECTED"}, peer : Pools \cup {-1}]
             i == c[2]
             e == ends["desktop"][c].peer
             theirs == <<e, i>>
             taken == [state |-> "CONNECTED", peer |-> c[1]]
  <1>1. SetUpTypeOK /\ EventsInOrder /\ OnlyCurrent /\ OneWaits /\ StartsClean
    BY DEF SetUpIInv
  <1>2. /\ ends["desktop"][c].state = "CONNECTING"
        /\ up' = up /\ told' = told /\ ready' = ready /\ poolState' = poolState /\ waiting' = waiting
        /\ objects' = objects /\ running' = running /\ mail' = mail /\ begun' = begun /\ retries' = retries
        /\ failed' = failed /\ raced' = raced /\ publishing' = publishing
    BY DEF Connects
  <1>3. /\ i \in Indices /\ c = <<objects["desktop"], i>> /\ c[1] = objects["desktop"]
        /\ Mine("desktop", i) = ends["desktop"][c] /\ ~Off("desktop", i)
    <2>1. c[1] = objects["desktop"]
      BY <1>1, <1>2 DEF OnlyCurrent
    <2>2. i \in Indices /\ c = <<c[1], i>>
      OBVIOUS
    <2> QED
      BY <2>1, <2>2, <1>2
  <1>4. e \in Pools /\ e <= objects["phone"] /\ theirs \in Pools \X Indices
    BY <1>1, <1>3 DEF OnlyCurrent
  <1>5. ends \in [Sides -> [Pools \X Indices -> Ends]] /\ ends["desktop"][c] \in Ends
    BY <1>1 DEF SetUpTypeOK
  <1>6. \/ /\ ends["phone"][theirs].state = "CONNECTING" /\ ends'["phone"][theirs] = taken
           /\ ends'["desktop"][c].state = "CONNECTED" /\ ends'["desktop"][c].peer = e
           /\ ends'["desktop"][c] \in Ends
           /\ \A x \in Pools \X Indices : x # theirs => ends'["phone"][x] = ends["phone"][x]
           /\ \A x \in Pools \X Indices : x # c => ends'["desktop"][x] = ends["desktop"][x]
           /\ ends' \in [Sides -> [Pools \X Indices -> Ends]]
        \/ /\ ends'["phone"] = ends["phone"] /\ ends'["desktop"][c].state = "DISCONNECTED"
           /\ \A x \in Pools \X Indices : x # c => ends'["desktop"][x] = ends["desktop"][x]
           /\ ends' \in [Sides -> [Pools \X Indices -> Ends]]
    <2>1. CASE ends["phone"][theirs].state = "CONNECTING"
      <3> DEFINE done == [ends["desktop"][c] EXCEPT !.state = "CONNECTED"]
                 desk == [ends["desktop"] EXCEPT ![c] = done]
                 other == [ends["phone"] EXCEPT ![theirs] = taken]
      <3>1. done \in Ends /\ done.state = "CONNECTED" /\ done.peer = e
        BY <1>5
      <3>2. taken \in Ends
        BY <1>1, <1>3 DEF SetUpTypeOK
      <3>3. ends' = [[ends EXCEPT !["desktop"] = desk] EXCEPT !["phone"] = other]
        BY <2>1, <1>5 DEF Connects
      <3> HIDE DEF done, taken, e, theirs
      <3>4. /\ desk \in [Pools \X Indices -> Ends] /\ desk[c] = done
            /\ \A x \in Pools \X Indices : x # c => desk[x] = ends["desktop"][x]
        BY <1>5, <3>1
      <3>5. /\ other \in [Pools \X Indices -> Ends] /\ other[theirs] = taken
            /\ \A x \in Pools \X Indices : x # theirs => other[x] = ends["phone"][x]
        BY <1>4, <1>5, <3>2
      <3> HIDE DEF desk, other
      <3>6. ends' \in [Sides -> [Pools \X Indices -> Ends]] /\ ends'["desktop"] = desk /\ ends'["phone"] = other
        BY <3>3, <3>4, <3>5, <1>5
      <3> QED
        BY <2>1, <3>1, <3>4, <3>5, <3>6
    <2>2. CASE ends["phone"][theirs].state # "CONNECTING"
      <3>1. ends' = [ends EXCEPT !["desktop"] = [ends["desktop"] EXCEPT ![c] = Unused]]
        BY <2>2 DEF Connects
      <3>2. Unused \in Ends /\ Unused.state = "DISCONNECTED"
        BY DEF Unused
      <3> QED
        BY <3>1, <3>2, <1>5
    <2> QED
      BY <2>1, <2>2
  <1>7. ends["phone"][theirs].state = "CONNECTING" => e = objects["phone"] /\ theirs = <<objects["phone"], i>>
    BY <1>1, <1>4 DEF OnlyCurrent
  <1> HIDE DEF taken, theirs, e, i
  <1>8. \A j \in Indices : <<objects["desktop"], j>> \in Pools \X Indices /\ <<objects["phone"], j>> \in Pools \X Indices
    BY <1>1 DEF SetUpTypeOK
  <1>9. \A j \in Indices : j # i => Mine("desktop", j)' = Mine("desktop", j) /\ Mine("phone", j)' = Mine("phone", j)
    <2> TAKE j \in Indices
    <2> HAVE j # i
    <2>1. <<objects["desktop"], j>> # c
      BY <1>3
    <2>2. ends'["desktop"][<<objects["desktop"], j>>] = ends["desktop"][<<objects["desktop"], j>>]
      BY <2>1, <1>6, <1>8
    <2>3. <<objects["phone"], j>> # theirs \/ ends'["phone"] = ends["phone"]
      BY <1>6, <1>7
    <2>4. ends'["phone"][<<objects["phone"], j>>] = ends["phone"][<<objects["phone"], j>>]
      BY <2>3, <1>6, <1>8
    <2> QED
      BY <2>2, <2>4, <1>2
  <1>10. /\ Off("desktop", i)' \/ Mine("desktop", i)'.peer = Mine("desktop", i).peer
         /\ Mine("phone", i)' = Mine("phone", i) \/ (Mine("phone", i)' = taken /\ e = objects["phone"])
    <2>1. Mine("desktop", i)' = ends'["desktop"][c]
      BY <1>2, <1>3
    <2>2. Off("desktop", i)' \/ Mine("desktop", i)'.peer = Mine("desktop", i).peer
      BY <2>1, <1>3, <1>6 DEF e
    <2>3. CASE ends["phone"][theirs].state = "CONNECTING"
      BY <2>2, <2>3, <1>2, <1>6, <1>7
    <2>4. CASE ends["phone"][theirs].state # "CONNECTING"
      BY <2>2, <2>4, <1>2, <1>6
    <2> QED
      BY <2>3, <2>4
  <1>11. taken.state = "CONNECTED" /\ taken.peer = objects["desktop"]
    BY <1>3 DEF taken
  <1>12. SetUpTypeOK'
    BY <1>1, <1>2, <1>6 DEF SetUpTypeOK
  <1>13. EventsInOrder' /\ OneWaits'
    BY <1>1, <1>2 DEF EventsInOrder, OneWaits, Waiters
  <1>14. OnlyCurrent'
    <2>1. \A x \in Pools \X Indices : ends'["desktop"][x].state # "DISCONNECTED" => x[1] = objects["desktop"]
      BY <1>1, <1>3, <1>6 DEF OnlyCurrent
    <2>2. \A x \in Pools \X Indices : ends'["phone"][x].state # "DISCONNECTED" => x[1] = objects["phone"]
      <3> TAKE x \in Pools \X Indices
      <3>1. ends'["phone"][x] = ends["phone"][x] \/ (x = theirs /\ ends["phone"][theirs].state = "CONNECTING")
        BY <1>6
      <3> QED
        BY <3>1, <1>1, <1>7 DEF OnlyCurrent
    <2>3. \A j \in Indices : ~Off("desktop", j)' => ~Off("desktop", j) /\ Mine("desktop", j)'.peer = Mine("desktop", j).peer
      <3> TAKE j \in Indices
      <3>1. CASE j = i
        BY <3>1, <1>3, <1>10
      <3>2. CASE j # i
        BY <3>2, <1>9
      <3> QED
        BY <3>1, <3>2
    <2> QED
      BY <2>1, <2>2, <2>3, <1>1, <1>2 DEF OnlyCurrent
  <1>15. StartsClean'
    <2>1. (up => told["desktop"] = <<>>) /\ (~up => told["desktop"] # <<>>)
      BY <1>1, <1>3 DEF StartsClean
    <2>2. up => \A x \in Sides : ~At(x, "waitDropped")'
      BY <1>1, <1>2 DEF StartsClean, At
    <2>3. ASSUME ~up, told["phone"] = <<>>, NEW j \in Indices
          PROVE  /\ ~Off("desktop", j)' => Mine("desktop", j)'.peer < objects["phone"]
                 /\ Mine("phone", j)'.state # "CONNECTED"
      <3>1. (~Off("desktop", j) => Mine("desktop", j).peer < objects["phone"]) /\ Mine("phone", j).state # "CONNECTED"
        BY <2>3, <1>1, <2>1 DEF StartsClean
      <3>2. CASE j # i
        BY <3>1, <3>2, <1>9
      <3>3. CASE j = i
        <4>1. e < objects["phone"]
          BY <3>1, <3>3, <1>3 DEF e
        <4>2. e # objects["phone"]
          <5>1. e \in Nat /\ objects["phone"] \in Nat
            BY <1>1, <1>4, Counted, Numbers
          <5> QED
            BY <5>1, <4>1
        <4>3. Mine("phone", j)' = Mine("phone", j)
          BY <3>3, <4>2, <1>10
        <4>4. ~Off("desktop", j)' => Mine("desktop", j)'.peer = Mine("desktop", j).peer
          BY <3>3, <1>10
        <4> QED
          BY <3>1, <3>3, <4>3, <4>4, <1>3
      <3> QED
        BY <3>2, <3>3
    <2> QED
      BY <2>1, <2>2, <2>3, <1>2 DEF StartsClean
  <1>16. ASSUME up', ~raced'
         PROVE  OffersHold'
    <2>1. OffersHold /\ Mine("desktop", i).peer = objects["phone"] /\ Offered(i) /\ publishing = {}
      BY <1>2, <1>3, <1>16 DEF SetUpIInv, OffersHold
    <2>2. \A j \in Indices : Offered(j) => Offered(j)'
      BY <1>2, <1>9, <1>10, <1>11 DEF Offered, Watched
    <2>3. ASSUME NEW j \in Indices, NEW f \in Pools, Port(j, f) \in mail
          PROVE  f = objects["phone"] /\ Offered(j)' /\ Off("desktop", j)'
      <3>1. f = objects["phone"] /\ Offered(j) /\ Off("desktop", j)
        BY <2>1, <2>3 DEF OffersHold
      <3>2. j # i
        BY <3>1, <1>3
      <3> QED
        BY <3>1, <3>2, <1>9, <2>2
    <2>4. ASSUME NEW j \in Indices, ~Off("desktop", j)'
          PROVE  Mine("desktop", j)'.peer = objects["phone"] /\ Offered(j)'
      <3>1. CASE j # i
        BY <3>1, <2>1, <2>2, <2>4, <1>9 DEF OffersHold
      <3>2. CASE j = i
        BY <3>2, <2>1, <2>2, <2>4, <1>10
      <3> QED
        BY <3>1, <3>2
    <2>5. ASSUME told["phone"] = <<>>, told["desktop"] = <<>>, NEW j \in Indices, Mine("phone", j)'.state = "CONNECTED"
          PROVE  Mine("phone", j)'.peer = objects["desktop"]
      <3>1. CASE Mine("phone", j)' = Mine("phone", j)
        BY <3>1, <2>1, <2>5 DEF OffersHold
      <3>2. CASE Mine("phone", j)' # Mine("phone", j)
        BY <3>2, <1>9, <1>10, <1>11
      <3> QED
        BY <3>1, <3>2
    <2>6. ASSUME NEW x \in Sides, told[x] = <<>>, poolState[x] = "CONNECTED"
          PROVE  AllConnected(x)'
      <3>1. AllConnected(x)
        BY <2>1, <2>6 DEF OffersHold
      <3>2. x = "phone"
        BY <3>1, <1>2, <1>3 DEF AllConnected
      <3>3. \A j \in Indices : Mine("phone", j)'.state = "CONNECTED"
        BY <3>1, <3>2, <1>9, <1>10, <1>11 DEF AllConnected
      <3> QED
        BY <3>2, <3>3 DEF AllConnected
    <2> QED
      BY <2>1, <2>3, <2>4, <2>5, <2>6, <1>2 DEF OffersHold
  <1> QED
    BY <1>12, <1>13, <1>14, <1>15, <1>16 DEF SetUpIInv

-------------------------------------------------------------------------------

LEMMA SetUpInitStep ==
  ASSUME SetUpInit
  PROVE  SetUpIInv
  <1>1. /\ up = FALSE /\ mail = {} /\ publishing = {} /\ begun = 0 /\ retries = 0 /\ failed = 0
        /\ raced = FALSE /\ waiting = FALSE
        /\ told = [d \in Sides |-> <<>>] /\ ready = [d \in Sides |-> FALSE]
        /\ poolState = [d \in Sides |-> "DISCONNECTED"] /\ objects = [d \in Sides |-> 0]
        /\ ends = [d \in Sides |-> [c \in Pools \X Indices |-> Unused]]
        /\ running = [d \in Sides |-> [p \in Places |-> 0]]
    BY DEF SetUpInit
  <1>2. 0 \in Pools /\ Unused \in [state : {"DISCONNECTED", "CONNECTING", "CONNECTED"}, peer : Pools \cup {-1}]
        /\ Unused.state = "DISCONNECTED"
    BY Numbers DEF Unused
  <1>3. \A d \in Sides : /\ objects[d] = 0 /\ told[d] = <<>> /\ (\A p \in Places : running[d][p] = 0)
                         /\ \A c \in Pools \X Indices : ends[d][c] = Unused
    BY <1>1
  <1>4. {"wait", "waitConnected", "waitDropped", "seek", "seekStore"} \subseteq Places
    BY DEF Places
  <1>5. \A d \in Sides, i \in Indices : Off(d, i) /\ Mine(d, i).state # "CONNECTED"
    <2>1. \A d \in Sides, i \in Indices : <<objects[d], i>> \in Pools \X Indices
      BY <1>2, <1>3
    <2> QED
      BY <2>1, <1>2, <1>3
  <1>6. SetUpTypeOK
    <2>1. begun \in 0 .. MaxSessions /\ retries \in 0 .. MaxRetries /\ failed \in 0 .. MaxFailures
      BY <1>1, SetUpBounds
    <2>2. ends \in [Sides -> [Pools \X Indices ->
                    [state : {"DISCONNECTED", "CONNECTING", "CONNECTED"}, peer : Pools \cup {-1}]]]
      BY <1>1, <1>2
    <2>3. running \in [Sides -> [Places -> Nat]]
      BY <1>1
    <2>4. running["desktop"]["wait"] <= 1 /\ running["phone"]["seek"] + running["phone"]["seekStore"] <= 2
      BY <1>3, <1>4
    <2> QED
      BY <2>1, <2>2, <2>3, <2>4, <1>1, <1>2 DEF SetUpTypeOK
  <1>7. EventsInOrder
    BY <1>1, <1>3, Events DEF EventsInOrder
  <1>8. OnlyCurrent
    BY <1>1, <1>2, <1>3, <1>5 DEF OnlyCurrent
  <1>9. OneWaits
    BY <1>1, <1>3, <1>4 DEF OneWaits, Waiters
  <1>10. StartsClean
    BY <1>1, <1>5 DEF StartsClean
  <1> QED
    BY <1>1, <1>6, <1>7, <1>8, <1>9, <1>10 DEF SetUpIInv

LEMMA StandStill ==
  ASSUME SetUpIInv, UNCHANGED setUpVars
  PROVE  SetUpIInv'
  <1>1. SetUpTypeOK'
    BY DEF setUpVars, SetUpIInv, SetUpTypeOK
  <1>2. EventsInOrder' /\ OnlyCurrent' /\ OneWaits'
    BY DEF setUpVars, SetUpIInv, EventsInOrder, OnlyCurrent, OneWaits, Waiters
  <1>3. StartsClean'
    BY DEF setUpVars, SetUpIInv, StartsClean, At
  <1>4. up' /\ ~raced' => OffersHold'
    BY DEF setUpVars, SetUpIInv, OffersHold, Offered, Watched, AllConnected
  <1> QED
    BY <1>1, <1>2, <1>3, <1>4 DEF SetUpIInv

LEMMA SetUpNextStep ==
  ASSUME SetUpIInv, SetUpNext
  PROVE  SetUpIInv'
  <1>1. ~raced /\ Steps
    BY DEF SetUpNext
  <1>2. CASE SessionBegins
    BY <1>1, <1>2, SessionBeginsStep
  <1>3. CASE SessionEnds
    BY <1>1, <1>3, SessionEndsStep
  <1>4. CASE EnablesFileShare
    BY <1>1, <1>4, EnablesFileShareStep
  <1>5. CASE ConnectBegins
    <2>1. "connect" \in Places /\ "connectStore" \in Places
      BY DEF Places
    <2> QED
      BY <1>1, <1>5, <2>1, TestsStep, ConnectStoresStep DEF ConnectBegins
  <1>6. CASE Asks \/ AskingTimesOut
    BY <1>1, <1>6, AsksStep
  <1>7. CASE ReceivesConnect
    BY <1>1, <1>7, ReceivesConnectStep
  <1>8. CASE SeekBegins
    BY <1>1, <1>8, SeekBeginsStep
  <1>9. CASE \E d \in Sides : HandlesEvent(d) \/ Waits(d)
    BY <1>1, <1>9, HandlesEventStep, WaitsStep
  <1>10. CASE \E e \in Pools : Publishes(e)
    BY <1>1, <1>10, PublishesStep
  <1>11. CASE \E i \in Indices, e \in Pools : ReceivesPort(i, e)
    BY <1>1, <1>11, ReceivesPortStep
  <1>12. CASE \E c \in Pools \X Indices : Connects(c)
    BY <1>1, <1>12, ConnectsStep
  <1> QED
    BY <1>1, <1>2, <1>3, <1>4, <1>5, <1>6, <1>7, <1>8, <1>9, <1>10, <1>11, <1>12 DEF Steps

(* The inductive invariant: devices hear the same events, channels of pools that were replaced *)
(* are disconnected, and what the phone offers in a session is published and taken once.       *)
THEOREM SetUpInvariance == SetUpSpec => []SetUpIInv
  <1>1. SetUpInit => SetUpIInv
    BY SetUpInitStep
  <1>2. SetUpIInv /\ [SetUpNext]_setUpVars => SetUpIInv'
    BY SetUpNextStep, StandStill
  <1> QED
    BY <1>1, <1>2, PTL DEF SetUpSpec

(* States, objects and counters stay in their ranges: the desktop has at most one coroutine *)
(* that waits (m_waitingForConnections) and the objects are at most two per session.         *)
THEOREM SetUpIsTyped == SetUpSpec => []SetUpTypeOK
  <1>1. SetUpIInv => SetUpTypeOK
    BY DEF SetUpIInv
  <1> QED
    BY <1>1, SetUpInvariance, PTL

LEMMA PoolsMatchInState ==
  ASSUME SetUpIInv
  PROVE  ConnectedPoolsMatch
  <1> SUFFICES ASSUME up, ~raced, \A x \in Sides : told[x] = <<>>,
                      NEW d \in Sides, NEW i \in Indices, poolState[d] = "CONNECTED"
               PROVE  /\ Mine(d, i).state = "CONNECTED"
                      /\ Mine(d, i).peer = objects[CHOOSE x \in Sides : x # d]
    BY DEF ConnectedPoolsMatch
  <1>1. OffersHold
    BY DEF SetUpIInv
  <1>2. Mine(d, i).state = "CONNECTED"
    BY <1>1 DEF OffersHold, AllConnected
  <1>3. Mine("desktop", i).state = "CONNECTED" => Mine("desktop", i).peer = objects["phone"]
    BY <1>1 DEF OffersHold
  <1>4. Mine("phone", i).state = "CONNECTED" => Mine("phone", i).peer = objects["desktop"]
    BY <1>1 DEF OffersHold
  <1> DEFINE other == CHOOSE x \in Sides : x # d
  <1>5. other \in Sides /\ other # d
    <2>1. \E x \in Sides : x # d
      OBVIOUS
    <2> QED
      BY <2>1
  <1> HIDE DEF other
  <1>6. Mine(d, i).peer = objects[other]
    BY <1>2, <1>3, <1>4, <1>5
  <1> QED
    BY <1>2, <1>6 DEF other


(* A pool that calls itself connected has all its channels connected to those of the same *)
(* indices in the pool that the peer uses now, in any session and after any retry.        *)
THEOREM PoolsMatch == SetUpSpec => []ConnectedPoolsMatch
  BY PoolsMatchInState, SetUpInvariance, PTL

HIDE DEF Sides, Port, Off, Mine

-------------------------------------------------------------------------------
(* The composite. *)

(* The component a behaviour is of. *)
SubjectKept == subject \in {"pool", "module", "notes"}

LEMMA PartsBegin == Init => SetUpInit /\ LifeInit /\ NotesInit /\ SubjectKept
  BY DEF Init, SubjectKept

LEMMA PartsStep ==
  [Next]_vars => /\ [SetUpNext]_setUpVars /\ [LifeNext]_lifeVars /\ [NotesNext]_notesVars
                 /\ SubjectKept => SubjectKept'
  BY DEF Next, vars, SubjectKept

(* A behaviour of the composite is one of each of its components, fairness apart. *)
THEOREM SessionHasItsParts ==
  Spec => /\ SetUpInit /\ [][SetUpNext]_setUpVars
          /\ LifeInit /\ [][LifeNext]_lifeVars
          /\ NotesInit /\ [][NotesNext]_notesVars
          /\ []SubjectKept
  BY PartsBegin, PartsStep, PTL DEF Spec

(* What is proved of each of them holds in it: in particular, its type invariant. *)
THEOREM SessionInvariance == Spec => [](SetUpIInv /\ LifeIInv /\ NotesIInv)
<1>1. SetUpIInv /\ [SetUpNext]_setUpVars => SetUpIInv'
  BY SetUpNextStep, StandStill
<1> QED
  BY <1>1, SetUpInitStep, LifeInitStep, LifeNextStep, NotesInitStep, NotesNextStep, SessionHasItsParts, PTL

(* The types of every component, whichever the behaviour is of. *)
THEOREM SessionIsTyped == Spec => []TypeOK
<1>1. SetUpIInv /\ LifeIInv /\ NotesIInv => SetUpTypeOK /\ LifeTypeOK /\ NotesTypeOK
  BY DEF SetUpIInv, LifeIInv, NotesIInv
<1>2. SubjectKept /\ SetUpTypeOK /\ LifeTypeOK /\ NotesTypeOK => TypeOK
  BY DEF TypeOK, SubjectKept
<1> QED
  BY <1>1, <1>2, SessionInvariance, SessionHasItsParts, PTL

(* Each of its components keeps its promise: pools that call themselves connected match, *)
(* a session leaves nothing, the table of notifications is kept.                          *)
THEOREM SessionIsSound == Spec => [](ConnectedPoolsMatch /\ SessionLeavesNothing /\ NotificationsAreKept)
<1>1. SetUpIInv /\ LifeIInv /\ NotesIInv => ConnectedPoolsMatch /\ SessionLeavesNothing /\ NotificationsAreKept
  BY PoolsMatchInState, NothingLeft DEF NotesIInv, NotificationsAreKept
<1> QED
  BY <1>1, SessionInvariance, PTL

================================================================================
