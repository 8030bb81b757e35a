------------------------ MODULE NotificationSyncProofs ------------------------
(***************************************************************************)
(* NotificationsAreKept, for any set of keys and any number of posts and   *)
(* removals.                                                               *)
(***************************************************************************)
EXTENDS NotificationSync, FiniteSetTheorems, TLAPS

Held == {"reading", "remove", "insert"}
Taken == {i \in Ids : notifications[i] # NoRecord}
Inserting == IF fetcher.at \in {"remove", "insert"} THEN 1 ELSE 0

(* What each coroutine carries. *)
SendersHold ==
  \A n \in Versions :
    /\ n > posts => senders[n].at = "none"
    /\ senders[n].at \in {"spawned", "signalled"} => senders[n].packet.key \in Keys
    /\ senders[n].at = "sending" => senders[n].packet \in Records

HandlersHold ==
  \A n \in Versions :
    /\ handlers[n].at = "none" => handlers[n] = Over
    /\ handlers[n].at \in {"remove", "insert"} => handlers[n].packet \in Records

FetcherHolds ==
  /\ answer # {} => fetcher.at = "answered"
  /\ fetcher.at \in {"idle", "asked"} => fetcher.left = 0 /\ list = {}
  /\ fetcher.at = "reading" => fetcher.left > 0
  /\ fetcher.at \in {"remove", "insert"} => fetcher.packet \in Records

(* Nothing is sent before the phone's end has connected, and that end closes only *)
(* when the channel was cut.                                                      *)
EndsHold ==
  /\ alive => phoneEnd # "DISCONNECTED"
  /\ phoneEnd = "CONNECTING" =>
       /\ alive /\ deskEnd = "CONNECTING" /\ fetcher.at = "idle"
       /\ \A n \in Versions : senders[n].at \notin {"signalled", "sending"}

(* Every handler has a post of its own, and every record on the desktop, or about to *)
(* be, a post or a place in the list.                                                *)
Work == signals + CountAt(handlers, Held) + CountAt(senders, {"spawned"})
Listed == IF fetcher.at \in {"idle", "asked"} THEN 0 ELSE Cardinality(Keys)

CountsHold ==
  /\ Work <= posts
  /\ Cardinality(Taken) + Work + Awaited + Inserting <= posts + Listed

RemovalsHold == \A k \in Keys : removals[k] <= removed

HandlesKey(n, k) == handlers[n].at \in {"remove", "insert"} /\ handlers[n].packet.key = k
FetchesKey(k) == fetcher.at \in {"remove", "insert"} /\ fetcher.packet.key = k

(* While the packets of a key come one at a time, whoever inserts finds no entry. *)
ProcessorsApart ==
  ~overlapped =>
    \A k \in Keys :
      /\ \A n, m \in Versions : HandlesKey(n, k) /\ HandlesKey(m, k) => n = m
      /\ \A n \in Versions : ~(HandlesKey(n, k) /\ FetchesKey(k))
      /\ \A n \in Versions : HandlesKey(n, k) /\ handlers[n].at = "insert" => idsByKey[k] = None
      /\ FetchesKey(k) /\ fetcher.at = "insert" => idsByKey[k] = None

NotesIInv ==
  /\ NotesTypeOK /\ SendersHold /\ HandlersHold /\ FetcherHolds /\ EndsHold
  /\ CountsHold /\ RemovalsHold /\ ProcessorsApart /\ ReadersMatchPackets /\ OneRecordPerKey

USE DEF phone, wire, channelEnds, desktop, counts, ghosts, notesVars, None

-------------------------------------------------------------------------------
(* Counting *)

LEMMA BoundFacts ==
  /\ IsFiniteSet(Keys) /\ Cardinality(Keys) \in Nat /\ 0 \notin Keys
  /\ MaxPosts \in Nat /\ MaxRemovals \in Nat
  /\ IsFiniteSet(Versions) /\ Cardinality(Versions) = MaxPosts /\ Versions \subseteq Nat \ {0}
  /\ IsFiniteSet(Ids) /\ Cardinality(Ids) = MaxPosts + Cardinality(Keys) /\ Ids \subseteq Nat \ {0}
  <1>1. /\ IsFiniteSet(Keys) /\ 0 \notin Keys /\ MaxPosts \in Nat /\ MaxRemovals \in Nat
    BY NotesBounds
  <1>2. Cardinality(Keys) \in Nat
    BY <1>1, FS_CardinalityType
  <1>3. IsFiniteSet(Versions) /\ Cardinality(Versions) = MaxPosts /\ Versions \subseteq Nat \ {0}
    BY <1>1, FS_Interval DEF Versions
  <1>4. IsFiniteSet(Ids) /\ Cardinality(Ids) = MaxPosts + Cardinality(Keys) /\ Ids \subseteq Nat \ {0}
    <2> DEFINE top == MaxPosts + Cardinality(Keys)
    <2>1. top \in Nat
      BY <1>1, <1>2
    <2> HIDE DEF top
    <2>2. IsFiniteSet(1 .. top) /\ Cardinality(1 .. top) = top /\ 1 .. top \subseteq Nat \ {0}
      BY <2>1, FS_Interval
    <2> QED
      BY <2>2 DEF Ids, top
  <1> QED
    BY <1>1, <1>2, <1>3, <1>4

(* A set that gains or loses a member. *)
LEMMA OneMore ==
  ASSUME NEW S, IsFiniteSet(S), NEW x
  PROVE  /\ Cardinality(S) \in Nat
         /\ IsFiniteSet(S \cup {x}) /\ Cardinality(S \cup {x}) \in Nat
         /\ x \notin S => Cardinality(S \cup {x}) = Cardinality(S) + 1
         /\ Cardinality(S \cup {x}) <= Cardinality(S) + 1
         /\ IsFiniteSet(S \ {x}) /\ Cardinality(S \ {x}) \in Nat
         /\ x \in S => Cardinality(S \ {x}) = Cardinality(S) - 1
         /\ Cardinality(S \ {x}) <= Cardinality(S)
  <1>1. Cardinality(S) \in Nat
    BY FS_CardinalityType
  <1>2. IsFiniteSet(S \cup {x}) /\ IsFiniteSet(S \ {x})
    BY FS_AddElement, FS_RemoveElement
  <1>3. Cardinality(S \cup {x}) \in Nat /\ Cardinality(S \ {x}) \in Nat
    BY <1>2, FS_CardinalityType
  <1>4. Cardinality(S \cup {x}) = IF x \in S THEN Cardinality(S) ELSE Cardinality(S) + 1
    BY FS_AddElement
  <1>5. Cardinality(S \ {x}) = IF x \in S THEN Cardinality(S) - 1 ELSE Cardinality(S)
    BY FS_RemoveElement
  <1> QED
    BY <1>1, <1>2, <1>3, <1>4, <1>5

(* How many coroutines are at some places, after one of them went from where it was. *)
LEMMA OneMoves ==
  ASSUME NEW f, NEW g, NEW n \in Versions, NEW places,
         \A m \in Versions \ {n} : g[m] = f[m]
  PROVE  /\ CountAt(f, places) \in Nat /\ CountAt(g, places) \in Nat
         /\ CountAt(g, places) = CountAt(f, places) + (IF g[n].at \in places THEN 1 ELSE 0)
                                                     - (IF f[n].at \in places THEN 1 ELSE 0)
  <1> DEFINE F == {m \in Versions : f[m].at \in places}
             G == {m \in Versions : g[m].at \in places}
             C == F \ {n}
  <1>1. IsFiniteSet(F) /\ IsFiniteSet(G) /\ IsFiniteSet(C)
    BY BoundFacts, FS_Subset
  <1>2. n \notin C /\ C \cup {n} = F \cup {n} /\ C = G \ {n}
    OBVIOUS
  <1>3. (IF f[n].at \in places THEN F = C \cup {n} ELSE F = C)
        /\ (IF g[n].at \in places THEN G = C \cup {n} ELSE G = C)
    BY <1>2
  <1> HIDE DEF F, G, C
  <1>4. Cardinality(C) \in Nat /\ Cardinality(C \cup {n}) = Cardinality(C) + 1
    BY <1>1, <1>2, OneMore
  <1>5. /\ Cardinality(F) = Cardinality(C) + (IF f[n].at \in places THEN 1 ELSE 0)
        /\ Cardinality(G) = Cardinality(C) + (IF g[n].at \in places THEN 1 ELSE 0)
    <2>1. f[n].at \in places => Cardinality(F) = Cardinality(C) + 1
      BY <1>3, <1>4
    <2>2. f[n].at \notin places => Cardinality(F) = Cardinality(C)
      BY <1>3
    <2>3. g[n].at \in places => Cardinality(G) = Cardinality(C) + 1
      BY <1>3, <1>4
    <2>4. g[n].at \notin places => Cardinality(G) = Cardinality(C)
      BY <1>3
    <2> QED
      BY <1>4, <2>1, <2>2, <2>3, <2>4
  <1>6. CountAt(f, places) = Cardinality(F) /\ CountAt(g, places) = Cardinality(G)
    BY DEF CountAt, F, G
  <1> QED
    BY <1>4, <1>5, <1>6

(* With fewer coroutines at work than there are, one is free. *)
LEMMA OneIsFree ==
  ASSUME NEW f, NEW places, CountAt(f, places) < MaxPosts
  PROVE  \E n \in Versions : f[n].at \notin places
  <1> SUFFICES ASSUME \A n \in Versions : f[n].at \in places
               PROVE  FALSE
    OBVIOUS
  <1>1. {n \in Versions : f[n].at \in places} = Versions
    OBVIOUS
  <1>2. CountAt(f, places) = MaxPosts
    BY <1>1, BoundFacts, Zenon DEF CountAt
  <1> QED
    BY <1>2, BoundFacts

-------------------------------------------------------------------------------
(* The desktop's two maps *)

LEMMA PacketFacts ==
  /\ NoRecord \notin Records /\ NoRecord \in Packets /\ NoRecord.key = 0
  /\ \A r \in Records : r \in Packets /\ r.key \in Keys /\ r # NoRecord
  /\ \A r \in Packets : r.key \in Keys => r \in Records
  BY BoundFacts DEF NoRecord, Records, Packets

LEMMA TakenFacts ==
  NotesTypeOK => IsFiniteSet(Taken) /\ Cardinality(Taken) \in Nat
  BY BoundFacts, FS_Subset, FS_CardinalityType DEF Taken

(* ProcessRemoval leaves no entry of its key, and never more records than there were. *)
LEMMA RemovalFacts ==
  ASSUME NotesTypeOK, NEW k \in Keys, ProcessRemoval(k)
  PROVE  /\ notifications' \in [Ids -> Packets] /\ idsByKey' \in [Keys -> Ids \cup {None}]
         /\ Cardinality(Taken') \in Nat /\ Cardinality(Taken') <= Cardinality(Taken)
         /\ \A j \in Keys : idsByKey'[j] \in {None, idsByKey[j]}
         /\ idsByKey'[k] = None
         /\ OneRecordPerKey /\ (overlapped' = overlapped) => OneRecordPerKey'
  <1> DEFINE Entry == idsByKey[k]
             found == {i \in Ids : notifications[i].key = k}
  <1>1. notifications \in [Ids -> Packets] /\ idsByKey \in [Keys -> Ids \cup {None}]
    BY DEF NotesTypeOK
  <1>2. 0 \notin Keys /\ 0 \notin Ids
    BY BoundFacts
  <1>3. \/ /\ Entry # None /\ notifications' = [notifications EXCEPT ![Entry] = NoRecord]
           /\ idsByKey' = [idsByKey EXCEPT ![k] = None]
        \/ /\ Entry = None /\ found = {} /\ notifications' = notifications /\ idsByKey' = idsByKey
        \/ /\ Entry = None /\ idsByKey' = idsByKey
           /\ \E i \in found : notifications' = [notifications EXCEPT ![i] = NoRecord]
    BY DEF ProcessRemoval, SetRecord
  <1>4. /\ notifications' \in [Ids -> Packets]
        /\ \A i \in Ids : notifications'[i] \in {notifications[i], NoRecord}
    BY <1>1, <1>2, <1>3, PacketFacts
  <1>5. /\ idsByKey' \in [Keys -> Ids \cup {None}] /\ idsByKey'[k] = None
        /\ \A j \in Keys : idsByKey'[j] \in {None, idsByKey[j]}
    BY <1>1, <1>3
  <1>6. Cardinality(Taken') \in Nat /\ Cardinality(Taken') <= Cardinality(Taken)
    <2>1. Taken' \subseteq Taken
      BY <1>4 DEF Taken
    <2>2. IsFiniteSet(Taken)
      BY TakenFacts
    <2>3. IsFiniteSet(Taken') /\ Cardinality(Taken') <= Cardinality(Taken)
      BY <2>1, <2>2, FS_Subset
    <2> QED
      BY <2>3, FS_CardinalityType
  <1>7. ASSUME OneRecordPerKey, overlapped' = overlapped, ~overlapped, NEW j \in Keys
        PROVE  {i \in Ids : notifications'[i].key = j} = {idsByKey'[j]} \ {None}
    <2>1. \A l \in Keys : {i \in Ids : notifications[i].key = l} = {idsByKey[l]} \ {None}
      BY <1>7 DEF OneRecordPerKey
    <2>2. CASE Entry = None
      <3>1. found = {}
        BY <2>1, <2>2
      <3>2. notifications' = notifications /\ idsByKey' = idsByKey
        BY <1>3, <2>2, <3>1
      <3> QED
        BY <2>1, <3>2
    <2>3. CASE Entry # None
      <3>1. /\ notifications' = [notifications EXCEPT ![Entry] = NoRecord]
            /\ idsByKey' = [idsByKey EXCEPT ![k] = None]
        BY <1>3, <2>3
      <3>2. Entry \in Ids /\ found = {Entry} /\ notifications[Entry].key = k
        BY <1>1, <2>1, <2>3
      <3>3. \A i \in Ids : notifications'[i] = IF i = Entry THEN NoRecord ELSE notifications[i]
        BY <1>1, <3>1, <3>2
      <3>4. NoRecord.key # j
        BY <1>2, PacketFacts
      <3>5. CASE j = k
        <4>1. \A i \in Ids : notifications'[i].key # k
          BY <3>2, <3>3, <3>4, <3>5
        <4> QED
          BY <4>1, <3>5, <1>5
      <3>6. CASE j # k
        <4>1. idsByKey'[j] = idsByKey[j]
          BY <1>1, <3>1, <3>6
        <4>2. \A i \in Ids : notifications'[i].key = j <=> notifications[i].key = j
          BY <3>2, <3>3, <3>4, <3>6
        <4> QED
          BY <4>1, <4>2, <2>1
      <3> QED
        BY <3>5, <3>6
    <2> QED
      BY <2>2, <2>3
  <1> QED
    BY <1>4, <1>5, <1>6, <1>7 DEF OneRecordPerKey

(* With an id to spare, Insert puts one record there and its key's entry with it. *)
LEMMA InsertFacts ==
  ASSUME NotesTypeOK, NEW r \in Records, Insert(r), Cardinality(Taken) < Cardinality(Ids)
  PROVE  /\ notifications' \in [Ids -> Packets] /\ idsByKey' \in [Keys -> Ids \cup {None}]
         /\ Cardinality(Taken') \in Nat /\ Cardinality(Taken') <= Cardinality(Taken) + 1
         /\ \A j \in Keys \ {r.key} : idsByKey'[j] = idsByKey[j]
         /\ OneRecordPerKey /\ overlapped' = overlapped /\ (~overlapped => idsByKey[r.key] = None)
              => OneRecordPerKey'
  <1>1. notifications \in [Ids -> Packets] /\ idsByKey \in [Keys -> Ids \cup {None}]
    BY DEF NotesTypeOK
  <1>2. 0 \notin Keys /\ 0 \notin Ids /\ r.key \in Keys /\ r \in Packets /\ NoRecord.key = 0
    BY BoundFacts, PacketFacts
  <1>3. \E i \in Ids : notifications[i] = NoRecord
    <2> SUFFICES ASSUME \A i \in Ids : notifications[i] # NoRecord
                 PROVE  FALSE
      OBVIOUS
    <2>1. Taken = Ids
      BY DEF Taken
    <2> QED
      BY <2>1, BoundFacts
  <1>4. PICK i \in Ids : /\ notifications[i] = NoRecord
                         /\ notifications' = [notifications EXCEPT ![i] = r]
                         /\ idsByKey' = [idsByKey EXCEPT ![r.key] = i]
    BY <1>3 DEF Insert, SetRecord
  <1>5. /\ notifications' \in [Ids -> Packets]
        /\ \A m \in Ids : notifications'[m] = IF m = i THEN r ELSE notifications[m]
    BY <1>1, <1>2, <1>4
  <1>6. /\ idsByKey' \in [Keys -> Ids \cup {None}]
        /\ \A j \in Keys : idsByKey'[j] = IF j = r.key THEN i ELSE idsByKey[j]
    BY <1>1, <1>2, <1>4
  <1>7. Cardinality(Taken') \in Nat /\ Cardinality(Taken') <= Cardinality(Taken) + 1
    <2>1. Taken' = Taken \cup {i}
      BY <1>5, PacketFacts DEF Taken
    <2> QED
      BY <2>1, TakenFacts, OneMore
  <1>8. ASSUME OneRecordPerKey, overlapped' = overlapped, ~overlapped, idsByKey[r.key] = None,
               NEW j \in Keys
        PROVE  {m \in Ids : notifications'[m].key = j} = {idsByKey'[j]} \ {None}
    <2>1. \A l \in Keys : {m \in Ids : notifications[m].key = l} = {idsByKey[l]} \ {None}
      BY <1>8 DEF OneRecordPerKey
    <2>2. CASE j = r.key
      <3>1. \A m \in Ids : notifications[m].key # j
        BY <2>1, <2>2, <1>8
      <3>2. \A m \in Ids : notifications'[m].key = j <=> m = i
        BY <3>1, <2>2, <1>5
      <3>3. idsByKey'[j] = i /\ i # None
        BY <2>2, <1>6, <1>2
      <3> QED
        BY <3>2, <3>3
    <2>3. CASE j # r.key
      <3>1. notifications[i].key # j
        BY <1>2, <1>4
      <3>2. \A m \in Ids : notifications'[m].key = j <=> notifications[m].key = j
        BY <3>1, <2>3, <1>5
      <3>3. idsByKey'[j] = idsByKey[j]
        BY <2>3, <1>6
      <3> QED
        BY <3>2, <3>3, <2>1
    <2> QED
      BY <2>2, <2>3
  <1> QED
    BY <1>5, <1>6, <1>7, <1>8 DEF OneRecordPerKey

-------------------------------------------------------------------------------
(* What the counts are made of *)

LEMMA CountTypes ==
  ASSUME NotesTypeOK
  PROVE  /\ signals \in Nat /\ posts \in Nat /\ removed \in Nat
         /\ CountAt(handlers, Held) \in Nat /\ CountAt(senders, {"spawned"}) \in Nat /\ Work \in Nat
         /\ CountAt(handlers, {"reading"}) \in Nat /\ CountAt(senders, {"signalled", "sending"}) \in Nat
         /\ Cardinality(Taken) \in Nat /\ Awaited \in Nat /\ Inserting \in Nat /\ Listed \in Nat
         /\ IsFiniteSet(list) /\ Cardinality(list) \in Nat /\ Len(packets) \in Nat
  <1>1. signals \in Nat /\ posts \in Nat /\ removed \in Nat
    BY BoundFacts DEF NotesTypeOK
  <1>2. \A f, places : CountAt(f, places) \in Nat
    <2> TAKE f, places
    <2>1. IsFiniteSet({n \in Versions : f[n].at \in places})
      BY BoundFacts, FS_Subset
    <2> QED
      BY <2>1, FS_CardinalityType DEF CountAt
  <1>3. /\ CountAt(handlers, Held) \in Nat /\ CountAt(senders, {"spawned"}) \in Nat
        /\ CountAt(handlers, {"reading"}) \in Nat /\ CountAt(senders, {"signalled", "sending"}) \in Nat
    BY <1>2
  <1>4. Work \in Nat
    BY <1>1, <1>3 DEF Work
  <1>5. Awaited \in Nat
    <2>1. fetcher.left \in Nat /\ (answer # {} => \E c \in Nat : answer = {c})
      BY BoundFacts DEF NotesTypeOK
    <2> QED
      BY <2>1 DEF Awaited
  <1>6. Inserting \in Nat /\ Listed \in Nat
    BY BoundFacts DEF Inserting, Listed
  <1>7. IsFiniteSet(list) /\ Cardinality(list) \in Nat
    <2>1. IsFiniteSet(Keys \X Versions)
      BY BoundFacts, FS_Product
    <2>2. IsFiniteSet(list)
      <3> DEFINE pair == [r \in list |-> <<r.key, r.version>>]
      <3>1. list \subseteq Records
        BY DEF NotesTypeOK
      <3>2. \A r \in list : r.key \in Keys /\ r.version \in Versions /\ r = Record(r.key, r.version)
        BY <3>1 DEF Records, Record
      <3>3. pair \in Injection(list, Keys \X Versions)
        BY <3>2, Zenon DEF Injection, IsInjective
      <3> QED
        BY <3>3, <2>1, FS_Injection
    <2> QED
      BY <2>2, FS_CardinalityType
  <1>8. Len(packets) \in Nat
    BY DEF NotesTypeOK
  <1> QED
    BY <1>1, <1>3, <1>4, <1>5, <1>6, <1>7, <1>8, TakenFacts

LEMMA SenderMoves ==
  ASSUME NotesTypeOK, NEW n \in Versions, NEW w, senders' = [senders EXCEPT ![n] = w]
  PROVE  /\ CountAt(senders, {"spawned"})' \in Nat
         /\ senders'[n] = w /\ \A m \in Versions \ {n} : senders'[m] = senders[m]
         /\ CountAt(senders, {"spawned"})' = CountAt(senders, {"spawned"})
              + (IF w.at = "spawned" THEN 1 ELSE 0) - (IF senders[n].at = "spawned" THEN 1 ELSE 0)
         /\ CountAt(senders, {"signalled", "sending"})' = CountAt(senders, {"signalled", "sending"})
              + (IF w.at \in {"signalled", "sending"} THEN 1 ELSE 0)
              - (IF senders[n].at \in {"signalled", "sending"} THEN 1 ELSE 0)
  <1>1. senders'[n] = w /\ \A m \in Versions \ {n} : senders'[m] = senders[m]
    BY DEF NotesTypeOK
  <1>0. \A places : CountAt(senders', places) \in Nat /\ CountAt(senders', places) = CountAt(senders, places)
              + (IF w.at \in places THEN 1 ELSE 0) - (IF senders[n].at \in places THEN 1 ELSE 0)
    BY <1>1, OneMoves
  <1>2. CountAt(senders', {"spawned"}) = CountAt(senders, {"spawned"})
              + (IF w.at \in {"spawned"} THEN 1 ELSE 0) - (IF senders[n].at \in {"spawned"} THEN 1 ELSE 0)
    BY <1>0
  <1>3. CountAt(senders', {"signalled", "sending"}) = CountAt(senders, {"signalled", "sending"})
              + (IF w.at \in {"signalled", "sending"} THEN 1 ELSE 0)
              - (IF senders[n].at \in {"signalled", "sending"} THEN 1 ELSE 0)
    BY <1>0
  <1> QED
    BY <1>0, <1>1, <1>2, <1>3

LEMMA HandlerMoves ==
  ASSUME NotesTypeOK, NEW n \in Versions, NEW w, handlers' = [handlers EXCEPT ![n] = w]
  PROVE  /\ CountAt(handlers, Held)' \in Nat
         /\ handlers'[n] = w /\ \A m \in Versions \ {n} : handlers'[m] = handlers[m]
         /\ CountAt(handlers, Held)' = CountAt(handlers, Held)
              + (IF w.at \in Held THEN 1 ELSE 0) - (IF handlers[n].at \in Held THEN 1 ELSE 0)
         /\ CountAt(handlers, {"reading"})' = CountAt(handlers, {"reading"})
              + (IF w.at = "reading" THEN 1 ELSE 0) - (IF handlers[n].at = "reading" THEN 1 ELSE 0)
  <1>1. handlers'[n] = w /\ \A m \in Versions \ {n} : handlers'[m] = handlers[m]
    BY DEF NotesTypeOK
  <1>0. \A places : CountAt(handlers', places) \in Nat /\ CountAt(handlers', places) = CountAt(handlers, places)
              + (IF w.at \in places THEN 1 ELSE 0) - (IF handlers[n].at \in places THEN 1 ELSE 0)
    BY <1>1, OneMoves
  <1>2. CountAt(handlers', Held) = CountAt(handlers, Held)
              + (IF w.at \in Held THEN 1 ELSE 0) - (IF handlers[n].at \in Held THEN 1 ELSE 0)
    BY <1>0
  <1>3. CountAt(handlers', {"reading"}) = CountAt(handlers, {"reading"})
              + (IF w.at \in {"reading"} THEN 1 ELSE 0)
              - (IF handlers[n].at \in {"reading"} THEN 1 ELSE 0)
    BY <1>0
  <1>4. Held' = Held
    BY DEF Held
  <1> QED
    BY <1>0, <1>1, <1>2, <1>3, <1>4

(* While a signal is on the way a handler is free for it. *)
LEMMA HandlerIsFree ==
  ASSUME NotesIInv, signals > 0
  PROVE  FreeHandler \in Versions /\ handlers[FreeHandler] = Over
  <1>1. CountAt(handlers, Held) < MaxPosts
    <2>1. Work <= posts /\ posts <= MaxPosts
      BY BoundFacts DEF NotesIInv, CountsHold, NotesTypeOK
    <2> QED
      BY <2>1, CountTypes, BoundFacts DEF NotesIInv, Work
  <1>2. PICK n \in Versions : handlers[n].at \notin Held
    BY <1>1, OneIsFree
  <1>3. handlers[n].at = "none"
    BY <1>2 DEF NotesIInv, NotesTypeOK, Held
  <1>4. handlers[n] = Over
    BY <1>3 DEF NotesIInv, HandlersHold
  <1> QED
    BY <1>4 DEF FreeHandler

-------------------------------------------------------------------------------
(* The phone's steps *)

LEMMA ReaderFacts ==
  /\ Over.at = "none" /\ Over.packet = NoRecord
  /\ \A at, r : Reader(at, r).at = at /\ Reader(at, r).packet = r
  BY DEF Over, Reader

LEMMA Same ==
  /\ handlers' = handlers => /\ CountAt(handlers, Held)' = CountAt(handlers, Held)
                             /\ CountAt(handlers, {"reading"})' = CountAt(handlers, {"reading"})
  /\ senders' = senders =>
       /\ CountAt(senders, {"spawned"})' = CountAt(senders, {"spawned"})
       /\ CountAt(senders, {"signalled", "sending"})' = CountAt(senders, {"signalled", "sending"})
  /\ notifications' = notifications => Cardinality(Taken') = Cardinality(Taken)
  /\ fetcher' = fetcher /\ answer' = answer =>
       Awaited' = Awaited /\ Inserting' = Inserting /\ Listed' = Listed
  <1>1. handlers' = handlers => /\ CountAt(handlers, Held)' = CountAt(handlers, Held)
                                /\ CountAt(handlers, {"reading"})' = CountAt(handlers, {"reading"})
    BY DEF CountAt, Held
  <1>2. senders' = senders =>
          /\ CountAt(senders, {"spawned"})' = CountAt(senders, {"spawned"})
          /\ CountAt(senders, {"signalled", "sending"})' = CountAt(senders, {"signalled", "sending"})
    BY DEF CountAt
  <1>3. notifications' = notifications => Taken' = Taken
    BY DEF Taken
  <1>4. fetcher' = fetcher /\ answer' = answer =>
          Awaited' = Awaited /\ Inserting' = Inserting /\ Listed' = Listed
    BY DEF Awaited, Inserting, Listed
  <1> QED
    BY <1>1, <1>2, <1>3, <1>4

(* What a step leaves alone it cannot break. *)
LEMMA Frame ==
  /\ CountsHold /\ UNCHANGED <<signals, handlers, senders, notifications, fetcher, answer, posts>> => CountsHold'
  /\ RemovalsHold /\ UNCHANGED <<removals, removed>> => RemovalsHold'
  /\ SendersHold /\ UNCHANGED <<senders, posts>> => SendersHold'
  /\ HandlersHold /\ UNCHANGED <<handlers>> => HandlersHold'
  /\ FetcherHolds /\ UNCHANGED <<fetcher, answer, list>> => FetcherHolds'
  /\ EndsHold /\ UNCHANGED <<alive, phoneEnd, deskEnd, fetcher, senders>> => EndsHold'
  /\ ProcessorsApart /\ UNCHANGED <<handlers, fetcher, idsByKey, overlapped>> => ProcessorsApart'
  /\ ReadersMatchPackets /\ UNCHANGED <<signals, handlers, answer, fetcher, senders, list, packets, skew, alive>> => ReadersMatchPackets'
  /\ OneRecordPerKey /\ UNCHANGED <<notifications, idsByKey, overlapped>> => OneRecordPerKey'
  <1>1. CountsHold /\ UNCHANGED <<signals, handlers, senders, notifications, fetcher, answer, posts>> => CountsHold'
    BY DEF CountsHold, Work, Listed, Taken, Awaited, Inserting, CountAt, Held
  <1>2. RemovalsHold /\ UNCHANGED <<removals, removed>> => RemovalsHold'
    BY DEF RemovalsHold
  <1>3. SendersHold /\ UNCHANGED <<senders, posts>> => SendersHold'
    BY DEF SendersHold
  <1>4. HandlersHold /\ UNCHANGED <<handlers>> => HandlersHold'
    BY DEF HandlersHold
  <1>5. FetcherHolds /\ UNCHANGED <<fetcher, answer, list>> => FetcherHolds'
    BY DEF FetcherHolds
  <1>6. EndsHold /\ UNCHANGED <<alive, phoneEnd, deskEnd, fetcher, senders>> => EndsHold'
    BY DEF EndsHold
  <1>7. ProcessorsApart /\ UNCHANGED <<handlers, fetcher, idsByKey, overlapped>> => ProcessorsApart'
    BY DEF ProcessorsApart, HandlesKey, FetchesKey
  <1>8. ReadersMatchPackets /\ UNCHANGED <<signals, handlers, answer, fetcher, senders, list, packets, skew, alive>> => ReadersMatchPackets'
    BY DEF ReadersMatchPackets, CountAt, Awaited
  <1>9. OneRecordPerKey /\ UNCHANGED <<notifications, idsByKey, overlapped>> => OneRecordPerKey'
    BY DEF OneRecordPerKey
  <1> QED
    BY <1>1, <1>2, <1>3, <1>4, <1>5, <1>6, <1>7, <1>8, <1>9

(* A new post starts one coroutine, the one that post is numbered by. *)
LEMMA PostStep ==
  ASSUME NotesIInv, NEW k \in Keys, Post(k)
  PROVE  NotesIInv'
  <1>i. NotesTypeOK /\ SendersHold /\ HandlersHold /\ FetcherHolds /\ EndsHold
        /\ CountsHold /\ RemovalsHold /\ ProcessorsApart /\ ReadersMatchPackets /\ OneRecordPerKey
    BY DEF NotesIInv
  <1>u. /\ signals' = signals /\ removals' = removals /\ dismissals' = dismissals
        /\ answer' = answer /\ list' = list /\ packets' = packets
        /\ phoneEnd' = phoneEnd /\ deskEnd' = deskEnd /\ alive' = alive
        /\ handlers' = handlers /\ fetcher' = fetcher
        /\ notifications' = notifications /\ idsByKey' = idsByKey
        /\ removed' = removed /\ skew' = skew /\ overlapped' = overlapped
    BY DEF Post, Received
  <1>n. /\ signals \in Nat /\ posts \in Nat /\ Work \in Nat
        /\ CountAt(handlers, Held) \in Nat /\ CountAt(senders, {"spawned"}) \in Nat
        /\ CountAt(handlers, {"reading"}) \in Nat /\ CountAt(senders, {"signalled", "sending"}) \in Nat
        /\ Cardinality(Taken) \in Nat /\ Awaited \in Nat /\ Inserting \in Nat /\ Listed \in Nat
        /\ Cardinality(list) \in Nat /\ Len(packets) \in Nat
    BY <1>i, CountTypes
  <1>nw. signals \in Nat /\ CountAt(handlers, Held) \in Nat /\ CountAt(senders, {"spawned"}) \in Nat
    BY <1>i, CountTypes
  <1>nc. /\ Cardinality(Taken) \in Nat /\ Work \in Nat /\ Awaited \in Nat /\ Inserting \in Nat
         /\ posts \in Nat /\ Listed \in Nat
    BY <1>i, CountTypes
  <1>nr. /\ signals \in Nat /\ CountAt(handlers, {"reading"}) \in Nat /\ Awaited \in Nat
         /\ CountAt(senders, {"signalled", "sending"}) \in Nat /\ Cardinality(list) \in Nat /\ Len(packets) \in Nat
    BY <1>i, CountTypes
  <1>sw. /\ CountAt(handlers, Held)' = CountAt(handlers, Held)
         /\ signals' = signals
    BY <1>u, Same
  <1>sc. /\ Cardinality(Taken') = Cardinality(Taken)
         /\ Awaited' = Awaited /\ Inserting' = Inserting /\ Listed' = Listed
    BY <1>u, Same
  <1>sr. /\ CountAt(handlers, {"reading"})' = CountAt(handlers, {"reading"})
         /\ Awaited' = Awaited
         /\ signals' = signals
         /\ list' = list
         /\ packets' = packets
         /\ skew' = skew
         /\ alive' = alive
    BY <1>u, Same
  <1>a. PICK n \in Versions : n = posts + 1 /\ posts' = n
    BY <1>n, BoundFacts DEF Post, Versions
  <1>b. PICK w : w.at = "spawned" /\ w.packet = Record(k, None) /\ w = Reader("spawned", Record(k, None))
    BY DEF Reader
  <1>c. senders' = [senders EXCEPT ![n] = w] /\ senders[n].at = "none"
    BY <1>i, <1>a, <1>b, <1>n DEF Post, Received, SendersHold
  <1>m. /\ CountAt(senders, {"spawned"})' \in Nat
        /\ CountAt(senders, {"spawned"})' = CountAt(senders, {"spawned"})
             + (IF w.at = "spawned" THEN 1 ELSE 0) - (IF senders[n].at = "spawned" THEN 1 ELSE 0)
        /\ CountAt(senders, {"signalled", "sending"})' = CountAt(senders, {"signalled", "sending"})
             + (IF w.at \in {"signalled", "sending"} THEN 1 ELSE 0)
             - (IF senders[n].at \in {"signalled", "sending"} THEN 1 ELSE 0)
        /\ \A m \in Versions : senders'[m] = IF m = n THEN w ELSE senders[m]
    BY <1>i, <1>c, SenderMoves
  <1>d. CountAt(senders, {"spawned"})' = CountAt(senders, {"spawned"}) + 1
        /\ CountAt(senders, {"signalled", "sending"})' = CountAt(senders, {"signalled", "sending"})
    BY <1>b, <1>c, <1>m, <1>n
  <1>e. w.packet.key = k
    BY <1>b DEF Record
  <1>C. CountsHold'
    <2>1. Work' = Work + 1
      BY <1>d, <1>sw, <1>nw DEF Work
    <2> QED
      BY <1>i, <2>1, <1>a, <1>sc, <1>nc DEF CountsHold
  <1>M. RemovalsHold'
    BY <1>i, <1>u, Frame
  <1>S. SendersHold'
    BY <1>i, <1>a, <1>b, <1>m, <1>e, <1>n, BoundFacts DEF SendersHold
  <1>H. HandlersHold'
    BY <1>i, <1>u, Frame
  <1>F. FetcherHolds'
    BY <1>i, <1>u, Frame
  <1>E. EndsHold'
    BY <1>i, <1>u, <1>b, <1>m DEF EndsHold
  <1>P. ProcessorsApart'
    BY <1>i, <1>u, Frame
  <1>R. ReadersMatchPackets'
    <2>r. ReadersMatchPackets
      BY <1>i
    <2> QED
      BY <2>r, <1>d, <1>sr, <1>nr DEF ReadersMatchPackets
  <1>O. OneRecordPerKey'
    BY <1>i, <1>u, Frame
  <1>T. NotesTypeOK'
    <2>1. datas' \in [Keys -> 0 .. MaxPosts]
      BY <1>i, <1>a, BoundFacts DEF Post, Received, NotesTypeOK, Versions
    <2>2. Record(k, None) \in [key : Keys, version : {None}]
      BY DEF Record
    <2>3. senders' \in [Versions -> [at : {"none", "spawned", "signalled", "sending"},
                              packet : Packets \cup [key : Keys, version : {None}]]]
      BY <1>i, <1>b, <1>c, <2>2 DEF NotesTypeOK, Reader
    <2>4. posts' \in 0 .. MaxPosts
      BY <1>a, BoundFacts DEF Versions
    <2>5. apart' \in BOOLEAN
      BY <1>i DEF Post, Quiet, NotesTypeOK
    <2> QED
      BY <1>i, <1>u, <2>1, <2>2, <2>3, <2>4, <2>5 DEF NotesTypeOK
  <1> QED
    BY <1>C, <1>M, <1>S, <1>H, <1>F, <1>E, <1>P, <1>R, <1>O, <1>T DEF NotesIInv

(* A removal is told to the desktop once. *)
LEMMA RemovedStep ==
  ASSUME NotesIInv, NEW k \in Keys, Removed(k)
  PROVE  NotesIInv'
  <1>i. NotesTypeOK /\ SendersHold /\ HandlersHold /\ FetcherHolds /\ EndsHold
        /\ CountsHold /\ RemovalsHold /\ ProcessorsApart /\ ReadersMatchPackets /\ OneRecordPerKey
    BY DEF NotesIInv
  <1>u. /\ senders' = senders /\ signals' = signals /\ dismissals' = dismissals
        /\ answer' = answer /\ list' = list /\ packets' = packets
        /\ phoneEnd' = phoneEnd /\ deskEnd' = deskEnd /\ alive' = alive
        /\ handlers' = handlers /\ fetcher' = fetcher
        /\ notifications' = notifications /\ idsByKey' = idsByKey /\ posts' = posts
        /\ skew' = skew /\ overlapped' = overlapped
    BY DEF Removed, Forget
  <1>a. \/ datas' = datas /\ removals' = removals /\ removed' = removed
        \/ /\ removed < MaxRemovals /\ removed' = removed + 1
           /\ datas' = [datas EXCEPT ![k] = None] /\ removals' = [removals EXCEPT ![k] = @ + 1]
    BY DEF Removed, Forget
  <1>b. removals \in [Keys -> Nat] /\ removed \in Nat /\ \A j \in Keys : removals[j] <= removed
    BY <1>i, BoundFacts DEF NotesTypeOK, RemovalsHold
  <1>d. removals' \in [Keys -> Nat] /\ removed' \in {removed, removed + 1}
    BY <1>a, <1>b
  <1>e. \A j \in Keys : \/ removals'[j] = removals[j]
                        \/ removals'[j] = removals[j] + 1 /\ removed' = removed + 1
    BY <1>a, <1>b
  <1>c. \A j \in Keys : removals'[j] <= removed'
    BY <1>b, <1>d, <1>e
  <1>C. CountsHold'
    BY <1>i, <1>u, Frame
  <1>M. RemovalsHold'
    BY <1>i, <1>c DEF RemovalsHold
  <1>S. SendersHold'
    BY <1>i, <1>u, Frame
  <1>H. HandlersHold'
    BY <1>i, <1>u, Frame
  <1>F. FetcherHolds'
    BY <1>i, <1>u, Frame
  <1>E. EndsHold'
    BY <1>i, <1>u, Frame
  <1>P. ProcessorsApart'
    BY <1>i, <1>u, Frame
  <1>R. ReadersMatchPackets'
    BY <1>i, <1>u, Frame
  <1>O. OneRecordPerKey'
    BY <1>i, <1>u, Frame
  <1>T. NotesTypeOK'
    <2>1. datas' \in [Keys -> 0 .. MaxPosts]
      <3>1. datas \in [Keys -> 0 .. MaxPosts] /\ 0 \in 0 .. MaxPosts
        BY <1>i, BoundFacts DEF NotesTypeOK
      <3> QED
        BY <3>1, <1>a
    <2>2. removed' \in 0 .. MaxRemovals
      <3>1. removed <= MaxRemovals
        BY <1>i, BoundFacts DEF NotesTypeOK
      <3> QED
        BY <3>1, <1>a, <1>b, BoundFacts
    <2>3. removals' \in [Keys -> 0 .. MaxRemovals]
      <3>1. \A j \in Keys : removals'[j] \in 0 .. MaxRemovals
        BY <1>c, <1>d, <2>2, BoundFacts
      <3> QED
        BY <3>1, <1>d
    <2>4. dismissals' \subseteq Keys /\ apart' \in BOOLEAN
      BY <1>i DEF Removed, Quiet, NotesTypeOK
    <2> QED
      BY <1>i, <1>u, <2>1, <2>2, <2>3, <2>4 DEF NotesTypeOK
  <1> QED
    BY <1>C, <1>M, <1>S, <1>H, <1>F, <1>E, <1>P, <1>R, <1>O, <1>T DEF NotesIInv

(* So is one the desktop asked for. *)
LEMMA DismissNotificationOnPhoneStep ==
  ASSUME NotesIInv, NEW k \in Keys, DismissNotificationOnPhone(k)
  PROVE  NotesIInv'
  <1>i. NotesTypeOK /\ SendersHold /\ HandlersHold /\ FetcherHolds /\ EndsHold
        /\ CountsHold /\ RemovalsHold /\ ProcessorsApart /\ ReadersMatchPackets /\ OneRecordPerKey
    BY DEF NotesIInv
  <1>u. /\ senders' = senders /\ signals' = signals /\ answer' = answer
        /\ list' = list /\ packets' = packets /\ phoneEnd' = phoneEnd
        /\ deskEnd' = deskEnd /\ alive' = alive /\ handlers' = handlers
        /\ fetcher' = fetcher /\ notifications' = notifications
        /\ idsByKey' = idsByKey /\ posts' = posts /\ skew' = skew
        /\ overlapped' = overlapped /\ apart' = apart
    BY DEF DismissNotificationOnPhone, Forget
  <1>a. \/ datas' = datas /\ removals' = removals /\ removed' = removed
        \/ /\ removed < MaxRemovals /\ removed' = removed + 1
           /\ datas' = [datas EXCEPT ![k] = None] /\ removals' = [removals EXCEPT ![k] = @ + 1]
    BY DEF DismissNotificationOnPhone, Forget
  <1>b. removals \in [Keys -> Nat] /\ removed \in Nat /\ \A j \in Keys : removals[j] <= removed
    BY <1>i, BoundFacts DEF NotesTypeOK, RemovalsHold
  <1>d. removals' \in [Keys -> Nat] /\ removed' \in {removed, removed + 1}
    BY <1>a, <1>b
  <1>e. \A j \in Keys : \/ removals'[j] = removals[j]
                        \/ removals'[j] = removals[j] + 1 /\ removed' = removed + 1
    BY <1>a, <1>b
  <1>c. \A j \in Keys : removals'[j] <= removed'
    BY <1>b, <1>d, <1>e
  <1>C. CountsHold'
    BY <1>i, <1>u, Frame
  <1>M. RemovalsHold'
    BY <1>i, <1>c DEF RemovalsHold
  <1>S. SendersHold'
    BY <1>i, <1>u, Frame
  <1>H. HandlersHold'
    BY <1>i, <1>u, Frame
  <1>F. FetcherHolds'
    BY <1>i, <1>u, Frame
  <1>E. EndsHold'
    BY <1>i, <1>u, Frame
  <1>P. ProcessorsApart'
    BY <1>i, <1>u, Frame
  <1>R. ReadersMatchPackets'
    BY <1>i, <1>u, Frame
  <1>O. OneRecordPerKey'
    BY <1>i, <1>u, Frame
  <1>T. NotesTypeOK'
    <2>1. datas' \in [Keys -> 0 .. MaxPosts]
      <3>1. datas \in [Keys -> 0 .. MaxPosts] /\ 0 \in 0 .. MaxPosts
        BY <1>i, BoundFacts DEF NotesTypeOK
      <3> QED
        BY <3>1, <1>a
    <2>2. removed' \in 0 .. MaxRemovals
      <3>1. removed <= MaxRemovals
        BY <1>i, BoundFacts DEF NotesTypeOK
      <3> QED
        BY <3>1, <1>a, <1>b, BoundFacts
    <2>3. removals' \in [Keys -> 0 .. MaxRemovals]
      <3>1. \A j \in Keys : removals'[j] \in 0 .. MaxRemovals
        BY <1>c, <1>d, <2>2, BoundFacts
      <3> QED
        BY <3>1, <1>d
    <2>4. dismissals' \subseteq Keys /\ apart' \in BOOLEAN
      BY <1>i DEF DismissNotificationOnPhone, Quiet, NotesTypeOK
    <2> QED
      BY <1>i, <1>u, <2>1, <2>2, <2>3, <2>4 DEF NotesTypeOK
  <1> QED
    BY <1>C, <1>M, <1>S, <1>H, <1>F, <1>E, <1>P, <1>R, <1>O, <1>T DEF NotesIInv

(* A dismissal is only a message. *)
LEMMA DismissNotificationByKeyStep ==
  ASSUME NotesIInv, NEW k \in Keys, DismissNotificationByKey(k)
  PROVE  NotesIInv'
  <1>i. NotesTypeOK /\ SendersHold /\ HandlersHold /\ FetcherHolds /\ EndsHold
        /\ CountsHold /\ RemovalsHold /\ ProcessorsApart /\ ReadersMatchPackets /\ OneRecordPerKey
    BY DEF NotesIInv
  <1>u. /\ datas' = datas /\ senders' = senders /\ signals' = signals
        /\ removals' = removals /\ answer' = answer /\ list' = list
        /\ packets' = packets /\ phoneEnd' = phoneEnd /\ deskEnd' = deskEnd
        /\ alive' = alive /\ handlers' = handlers /\ fetcher' = fetcher
        /\ notifications' = notifications /\ idsByKey' = idsByKey /\ posts' = posts
        /\ removed' = removed /\ skew' = skew /\ overlapped' = overlapped
    BY DEF DismissNotificationByKey
  <1>C. CountsHold'
    BY <1>i, <1>u, Frame
  <1>M. RemovalsHold'
    BY <1>i, <1>u, Frame
  <1>S. SendersHold'
    BY <1>i, <1>u, Frame
  <1>H. HandlersHold'
    BY <1>i, <1>u, Frame
  <1>F. FetcherHolds'
    BY <1>i, <1>u, Frame
  <1>E. EndsHold'
    BY <1>i, <1>u, Frame
  <1>P. ProcessorsApart'
    BY <1>i, <1>u, Frame
  <1>R. ReadersMatchPackets'
    BY <1>i, <1>u, Frame
  <1>O. OneRecordPerKey'
    BY <1>i, <1>u, Frame
  <1>T. NotesTypeOK'
    <2>1. dismissals' \subseteq Keys /\ apart' \in BOOLEAN
      BY <1>i DEF DismissNotificationByKey, Quiet, NotesTypeOK
    <2> QED
      BY <1>i, <1>u, <2>1 DEF NotesTypeOK
  <1> QED
    BY <1>C, <1>M, <1>S, <1>H, <1>F, <1>E, <1>P, <1>R, <1>O, <1>T DEF NotesIInv

(* A signal is a promise of a packet. *)
LEMMA SignalStep ==
  ASSUME NotesIInv, NEW n \in Versions, Signal(n)
  PROVE  NotesIInv'
  <1>i. NotesTypeOK /\ SendersHold /\ HandlersHold /\ FetcherHolds /\ EndsHold
        /\ CountsHold /\ RemovalsHold /\ ProcessorsApart /\ ReadersMatchPackets /\ OneRecordPerKey
    BY DEF NotesIInv
  <1>u. /\ datas' = datas /\ removals' = removals /\ dismissals' = dismissals
        /\ answer' = answer /\ list' = list /\ packets' = packets
        /\ phoneEnd' = phoneEnd /\ deskEnd' = deskEnd /\ alive' = alive
        /\ handlers' = handlers /\ fetcher' = fetcher
        /\ notifications' = notifications /\ idsByKey' = idsByKey /\ posts' = posts
        /\ removed' = removed /\ skew' = skew /\ overlapped' = overlapped
        /\ apart' = apart
    BY DEF Signal
  <1>n. /\ signals \in Nat /\ posts \in Nat /\ Work \in Nat
        /\ CountAt(handlers, Held) \in Nat /\ CountAt(senders, {"spawned"}) \in Nat
        /\ CountAt(handlers, {"reading"}) \in Nat /\ CountAt(senders, {"signalled", "sending"}) \in Nat
        /\ Cardinality(Taken) \in Nat /\ Awaited \in Nat /\ Inserting \in Nat /\ Listed \in Nat
        /\ Cardinality(list) \in Nat /\ Len(packets) \in Nat
    BY <1>i, CountTypes
  <1>nw. signals \in Nat /\ CountAt(handlers, Held) \in Nat /\ CountAt(senders, {"spawned"}) \in Nat
    BY <1>i, CountTypes
  <1>nc. /\ Cardinality(Taken) \in Nat /\ Work \in Nat /\ Awaited \in Nat /\ Inserting \in Nat
         /\ posts \in Nat /\ Listed \in Nat
    BY <1>i, CountTypes
  <1>nr. /\ signals \in Nat /\ CountAt(handlers, {"reading"}) \in Nat /\ Awaited \in Nat
         /\ CountAt(senders, {"signalled", "sending"}) \in Nat /\ Cardinality(list) \in Nat /\ Len(packets) \in Nat
    BY <1>i, CountTypes
  <1>sw. /\ CountAt(handlers, Held)' = CountAt(handlers, Held)
    BY <1>u, Same
  <1>sc. /\ Cardinality(Taken') = Cardinality(Taken)
         /\ Awaited' = Awaited /\ Inserting' = Inserting /\ Listed' = Listed
         /\ posts' = posts
    BY <1>u, Same
  <1>sr. /\ CountAt(handlers, {"reading"})' = CountAt(handlers, {"reading"})
         /\ Awaited' = Awaited
         /\ list' = list
         /\ packets' = packets
         /\ skew' = skew
         /\ alive' = alive
    BY <1>u, Same
  <1>a. PICK w : /\ senders' = [senders EXCEPT ![n] = w]
                /\ \/ /\ phoneEnd = "CONNECTED" /\ signals' = signals + 1
                      /\ w = [senders[n] EXCEPT !.at = "signalled"]
                   \/ signals' = signals /\ w = Over
    BY DEF Signal
  <1>b. senders[n].at = "spawned" /\ senders[n] \in [at : {"none", "spawned", "signalled", "sending"},
                              packet : Packets \cup [key : Keys, version : {None}]]
    BY <1>i DEF Signal, NotesTypeOK
  <1>c. \/ /\ phoneEnd = "CONNECTED" /\ signals' = signals + 1
           /\ w.at = "signalled" /\ w.packet = senders[n].packet
        \/ signals' = signals /\ w.at = "none"
    BY <1>a, <1>b DEF Over, Reader
  <1>m. /\ CountAt(senders, {"spawned"})' \in Nat
        /\ CountAt(senders, {"spawned"})' = CountAt(senders, {"spawned"})
             + (IF w.at = "spawned" THEN 1 ELSE 0) - (IF senders[n].at = "spawned" THEN 1 ELSE 0)
        /\ CountAt(senders, {"signalled", "sending"})' = CountAt(senders, {"signalled", "sending"})
             + (IF w.at \in {"signalled", "sending"} THEN 1 ELSE 0)
             - (IF senders[n].at \in {"signalled", "sending"} THEN 1 ELSE 0)
        /\ \A m \in Versions : senders'[m] = IF m = n THEN w ELSE senders[m]
    BY <1>i, <1>a, SenderMoves
  <1>e. /\ CountAt(senders, {"spawned"})' = CountAt(senders, {"spawned"}) - 1
        /\ CountAt(senders, {"signalled", "sending"})'
             = CountAt(senders, {"signalled", "sending"}) + (signals' - signals)
    BY <1>b, <1>c, <1>m, <1>n
  <1>C. CountsHold'
    <2>1. Work' \in Int /\ Work' <= Work
      BY <1>c, <1>e, <1>sw, <1>nw DEF Work
    <2> QED
      BY <1>i, <2>1, <1>sc, <1>nc DEF CountsHold
  <1>M. RemovalsHold'
    BY <1>i, <1>u, Frame
  <1>S. SendersHold'
    BY <1>i, <1>u, <1>b, <1>c, <1>m, <1>n, BoundFacts DEF SendersHold
  <1>H. HandlersHold'
    BY <1>i, <1>u, Frame
  <1>F. FetcherHolds'
    BY <1>i, <1>u, Frame
  <1>E. EndsHold'
    BY <1>i, <1>u, <1>b, <1>c, <1>m DEF EndsHold
  <1>P. ProcessorsApart'
    BY <1>i, <1>u, Frame
  <1>R. ReadersMatchPackets'
    <2>r. ReadersMatchPackets
      BY <1>i
    <2> QED
      BY <2>r, <1>c, <1>e, <1>sr, <1>nr DEF ReadersMatchPackets
  <1>O. OneRecordPerKey'
    BY <1>i, <1>u, Frame
  <1>T. NotesTypeOK'
    <2>1. signals' \in 0 .. MaxPosts
      <3>1. posts \in Nat /\ posts <= MaxPosts /\ MaxPosts \in Nat
        BY <1>i, BoundFacts DEF NotesTypeOK
      <3>2. Work' <= posts
        BY <1>C, <1>u DEF CountsHold
      <3>3. Work' = signals' + CountAt(handlers, Held)' + CountAt(senders, {"spawned"})'
        BY DEF Work
      <3>4. CountAt(handlers, Held)' \in Nat /\ CountAt(senders, {"spawned"})' \in Nat
        BY <1>sw, <1>nw, <1>m
      <3>5. signals' \in Nat
        BY <1>c, <1>n
      <3>6. signals' <= posts
        BY <3>1, <3>2, <3>3, <3>4, <3>5
      <3> QED
        BY <3>1, <3>5, <3>6
    <2>2. senders' \in [Versions -> [at : {"none", "spawned", "signalled", "sending"},
                              packet : Packets \cup [key : Keys, version : {None}]]]
      BY <1>i, <1>a, <1>b DEF NotesTypeOK, Over, Reader, Packets
    <2> QED
      BY <1>i, <1>u, <2>1, <2>2 DEF NotesTypeOK
  <1> QED
    BY <1>C, <1>M, <1>S, <1>H, <1>F, <1>E, <1>P, <1>R, <1>O, <1>T DEF NotesIInv

(* Every signal is followed by its packet, unless skew says so. *)
LEMMA LookUpStep ==
  ASSUME NotesIInv, NEW n \in Versions, LookUp(n)
  PROVE  NotesIInv'
  <1>i. NotesTypeOK /\ SendersHold /\ HandlersHold /\ FetcherHolds /\ EndsHold
        /\ CountsHold /\ RemovalsHold /\ ProcessorsApart /\ ReadersMatchPackets /\ OneRecordPerKey
    BY DEF NotesIInv
  <1>u. /\ datas' = datas /\ signals' = signals /\ removals' = removals
        /\ dismissals' = dismissals /\ answer' = answer /\ list' = list
        /\ packets' = packets /\ phoneEnd' = phoneEnd /\ deskEnd' = deskEnd
        /\ alive' = alive /\ handlers' = handlers /\ fetcher' = fetcher
        /\ notifications' = notifications /\ idsByKey' = idsByKey /\ posts' = posts
        /\ removed' = removed /\ overlapped' = overlapped /\ apart' = apart
    BY DEF LookUp
  <1>n. /\ signals \in Nat /\ posts \in Nat /\ Work \in Nat
        /\ CountAt(handlers, Held) \in Nat /\ CountAt(senders, {"spawned"}) \in Nat
        /\ CountAt(handlers, {"reading"}) \in Nat /\ CountAt(senders, {"signalled", "sending"}) \in Nat
        /\ Cardinality(Taken) \in Nat /\ Awaited \in Nat /\ Inserting \in Nat /\ Listed \in Nat
        /\ Cardinality(list) \in Nat /\ Len(packets) \in Nat
    BY <1>i, CountTypes
  <1>nw. signals \in Nat /\ CountAt(handlers, Held) \in Nat /\ CountAt(senders, {"spawned"}) \in Nat
    BY <1>i, CountTypes
  <1>nc. /\ Cardinality(Taken) \in Nat /\ Work \in Nat /\ Awaited \in Nat /\ Inserting \in Nat
         /\ posts \in Nat /\ Listed \in Nat
    BY <1>i, CountTypes
  <1>nr. /\ signals \in Nat /\ CountAt(handlers, {"reading"}) \in Nat /\ Awaited \in Nat
         /\ CountAt(senders, {"signalled", "sending"}) \in Nat /\ Cardinality(list) \in Nat /\ Len(packets) \in Nat
    BY <1>i, CountTypes
  <1>sw. /\ CountAt(handlers, Held)' = CountAt(handlers, Held)
         /\ signals' = signals
    BY <1>u, Same
  <1>sc. /\ Cardinality(Taken') = Cardinality(Taken)
         /\ Awaited' = Awaited /\ Inserting' = Inserting /\ Listed' = Listed
         /\ posts' = posts
    BY <1>u, Same
  <1>sr. /\ CountAt(handlers, {"reading"})' = CountAt(handlers, {"reading"})
         /\ Awaited' = Awaited
         /\ signals' = signals
         /\ list' = list
         /\ packets' = packets
         /\ alive' = alive
    BY <1>u, Same
  <1>a. PICK w : /\ senders' = [senders EXCEPT ![n] = w]
                /\ \/ w.at = "sending" /\ w.packet \in Records /\ w = Reader("sending", w.packet) /\ skew' = skew
                   \/ w = Over /\ w.at = "none" /\ skew' = TRUE
    <2>1. senders[n].packet.key \in Keys
      BY <1>i DEF LookUp, SendersHold
    <2>2. PICK k \in Keys : k = senders[n].packet.key
      BY <2>1
    <2>3. CASE datas[k] # None
      <3>1. datas[k] \in Versions
        BY <1>i, <2>3, BoundFacts DEF NotesTypeOK, Versions
      <3>2. Record(k, datas[k]) \in Records
        BY <3>1 DEF Record, Records
      <3>3. senders' = [senders EXCEPT ![n] = Reader("sending", Record(k, datas[k]))] /\ skew' = skew
        BY <2>2, <2>3 DEF LookUp
      <3>4. Reader("sending", Record(k, datas[k])).at = "sending"
            /\ Reader("sending", Record(k, datas[k])).packet = Record(k, datas[k])
        BY DEF Reader
      <3> QED
        BY <3>2, <3>3, <3>4
    <2>4. CASE datas[k] = None
      <3>1. senders' = [senders EXCEPT ![n] = Over] /\ skew' = TRUE
        BY <2>2, <2>4 DEF LookUp
      <3>2. Over.at = "none"
        BY DEF Over, Reader
      <3> QED
        BY <3>1, <3>2
    <2> QED
      BY <2>3, <2>4
  <1>b. senders[n].at = "signalled"
    BY DEF LookUp
  <1>m. /\ CountAt(senders, {"spawned"})' \in Nat
        /\ CountAt(senders, {"spawned"})' = CountAt(senders, {"spawned"})
             + (IF w.at = "spawned" THEN 1 ELSE 0) - (IF senders[n].at = "spawned" THEN 1 ELSE 0)
        /\ CountAt(senders, {"signalled", "sending"})' = CountAt(senders, {"signalled", "sending"})
             + (IF w.at \in {"signalled", "sending"} THEN 1 ELSE 0)
             - (IF senders[n].at \in {"signalled", "sending"} THEN 1 ELSE 0)
        /\ \A m \in Versions : senders'[m] = IF m = n THEN w ELSE senders[m]
    BY <1>i, <1>a, SenderMoves
  <1>e. /\ CountAt(senders, {"spawned"})' = CountAt(senders, {"spawned"})
        /\ w.at = "sending" => CountAt(senders, {"signalled", "sending"})'
                                  = CountAt(senders, {"signalled", "sending"})
    BY <1>a, <1>b, <1>m, <1>n
  <1>C. CountsHold'
    <2>1. Work' = Work
      BY <1>e, <1>sw, <1>nw DEF Work
    <2> QED
      BY <1>i, <2>1, <1>sc, <1>nc DEF CountsHold
  <1>M. RemovalsHold'
    BY <1>i, <1>u, Frame
  <1>S. SendersHold'
    BY <1>i, <1>u, <1>a, <1>b, <1>m DEF SendersHold
  <1>H. HandlersHold'
    BY <1>i, <1>u, Frame
  <1>F. FetcherHolds'
    BY <1>i, <1>u, Frame
  <1>E. EndsHold'
    BY <1>i, <1>u, <1>b, <1>m DEF EndsHold
  <1>P. ProcessorsApart'
    BY <1>i, <1>u, Frame
  <1>R. ReadersMatchPackets'
    <2>r. ReadersMatchPackets
      BY <1>i
    <2> QED
      BY <2>r, <1>a, <1>e, <1>sr, <1>nr DEF ReadersMatchPackets
  <1>O. OneRecordPerKey'
    BY <1>i, <1>u, Frame
  <1>T. NotesTypeOK'
    <2>1. senders' \in [Versions -> [at : {"none", "spawned", "signalled", "sending"},
                              packet : Packets \cup [key : Keys, version : {None}]]]
      <3>1. w \in [at : {"none", "spawned", "signalled", "sending"},
                   packet : Packets \cup [key : Keys, version : {None}]]
        BY <1>a, PacketFacts DEF Over, Reader
      <3> QED
        BY <1>i, <1>a, <3>1 DEF NotesTypeOK
    <2>2. skew' \in BOOLEAN
      BY <1>i, <1>a DEF NotesTypeOK
    <2> QED
      BY <1>i, <1>u, <2>1, <2>2 DEF NotesTypeOK
  <1> QED
    BY <1>C, <1>M, <1>S, <1>H, <1>F, <1>E, <1>P, <1>R, <1>O, <1>T DEF NotesIInv

(* A packet is written whole, or the channel was cut. *)
LEMMA SendPacketStep ==
  ASSUME NotesIInv, NEW n \in Versions, SendPacket(n)
  PROVE  NotesIInv'
  <1>i. NotesTypeOK /\ SendersHold /\ HandlersHold /\ FetcherHolds /\ EndsHold
        /\ CountsHold /\ RemovalsHold /\ ProcessorsApart /\ ReadersMatchPackets /\ OneRecordPerKey
    BY DEF NotesIInv
  <1>u. /\ datas' = datas /\ signals' = signals /\ removals' = removals
        /\ dismissals' = dismissals /\ answer' = answer /\ list' = list
        /\ deskEnd' = deskEnd /\ alive' = alive /\ handlers' = handlers
        /\ fetcher' = fetcher /\ notifications' = notifications
        /\ idsByKey' = idsByKey /\ posts' = posts /\ removed' = removed
        /\ skew' = skew /\ overlapped' = overlapped /\ apart' = apart
    BY DEF SendPacket, Writes
  <1>n. /\ signals \in Nat /\ posts \in Nat /\ Work \in Nat
        /\ CountAt(handlers, Held) \in Nat /\ CountAt(senders, {"spawned"}) \in Nat
        /\ CountAt(handlers, {"reading"}) \in Nat /\ CountAt(senders, {"signalled", "sending"}) \in Nat
        /\ Cardinality(Taken) \in Nat /\ Awaited \in Nat /\ Inserting \in Nat /\ Listed \in Nat
        /\ Cardinality(list) \in Nat /\ Len(packets) \in Nat
    BY <1>i, CountTypes
  <1>nw. signals \in Nat /\ CountAt(handlers, Held) \in Nat /\ CountAt(senders, {"spawned"}) \in Nat
    BY <1>i, CountTypes
  <1>nc. /\ Cardinality(Taken) \in Nat /\ Work \in Nat /\ Awaited \in Nat /\ Inserting \in Nat
         /\ posts \in Nat /\ Listed \in Nat
    BY <1>i, CountTypes
  <1>nr. /\ signals \in Nat /\ CountAt(handlers, {"reading"}) \in Nat /\ Awaited \in Nat
         /\ CountAt(senders, {"signalled", "sending"}) \in Nat /\ Cardinality(list) \in Nat /\ Len(packets) \in Nat
    BY <1>i, CountTypes
  <1>sw. /\ CountAt(handlers, Held)' = CountAt(handlers, Held)
         /\ signals' = signals
    BY <1>u, Same
  <1>sc. /\ Cardinality(Taken') = Cardinality(Taken)
         /\ Awaited' = Awaited /\ Inserting' = Inserting /\ Listed' = Listed
         /\ posts' = posts
    BY <1>u, Same
  <1>sr. /\ CountAt(handlers, {"reading"})' = CountAt(handlers, {"reading"})
         /\ Awaited' = Awaited
         /\ signals' = signals
         /\ list' = list
         /\ skew' = skew
         /\ alive' = alive
    BY <1>u, Same
  <1>a. PICK w : w = Over /\ w.at = "none" /\ senders' = [senders EXCEPT ![n] = w]
    BY DEF SendPacket, Over, Reader
  <1>b. senders[n].at = "sending" /\ senders[n].packet \in Records
    BY <1>i DEF SendPacket, SendersHold
  <1>c. phoneEnd # "CONNECTING" /\ (alive => phoneEnd = "CONNECTED")
    BY <1>i, <1>b DEF EndsHold, NotesTypeOK
  <1>d. \/ /\ phoneEnd = "CONNECTED" /\ alive /\ phoneEnd' = phoneEnd
           /\ packets' = Append(packets, senders[n].packet)
        \/ ~alive /\ phoneEnd' = "DISCONNECTED" /\ packets' = packets
    BY <1>c DEF SendPacket, Writes
  <1>m. /\ CountAt(senders, {"spawned"})' \in Nat
        /\ CountAt(senders, {"spawned"})' = CountAt(senders, {"spawned"})
             + (IF w.at = "spawned" THEN 1 ELSE 0) - (IF senders[n].at = "spawned" THEN 1 ELSE 0)
        /\ CountAt(senders, {"signalled", "sending"})' = CountAt(senders, {"signalled", "sending"})
             + (IF w.at \in {"signalled", "sending"} THEN 1 ELSE 0)
             - (IF senders[n].at \in {"signalled", "sending"} THEN 1 ELSE 0)
        /\ \A m \in Versions : senders'[m] = IF m = n THEN w ELSE senders[m]
    BY <1>i, <1>a, SenderMoves
  <1>e. /\ CountAt(senders, {"spawned"})' = CountAt(senders, {"spawned"})
        /\ CountAt(senders, {"signalled", "sending"})' = CountAt(senders, {"signalled", "sending"}) - 1
    BY <1>a, <1>b, <1>m, <1>n
  <1>f. packets' \in Seq(Records) /\ (alive => Len(packets') = Len(packets) + 1)
    <2>1. packets \in Seq(Records)
      BY <1>i DEF NotesTypeOK
    <2> QED
      BY <2>1, <1>b, <1>d
  <1>C. CountsHold'
    <2>1. Work' = Work
      BY <1>e, <1>sw, <1>nw DEF Work
    <2> QED
      BY <1>i, <2>1, <1>sc, <1>nc DEF CountsHold
  <1>M. RemovalsHold'
    BY <1>i, <1>u, Frame
  <1>S. SendersHold'
    BY <1>i, <1>u, <1>a, <1>m DEF SendersHold
  <1>H. HandlersHold'
    BY <1>i, <1>u, Frame
  <1>F. FetcherHolds'
    BY <1>i, <1>u, Frame
  <1>E. EndsHold'
    BY <1>i, <1>u, <1>a, <1>c, <1>d, <1>m DEF EndsHold
  <1>P. ProcessorsApart'
    BY <1>i, <1>u, Frame
  <1>R. ReadersMatchPackets'
    <2>r. ReadersMatchPackets
      BY <1>i
    <2> QED
      BY <2>r, <1>e, <1>f, <1>sr, <1>nr DEF ReadersMatchPackets
  <1>O. OneRecordPerKey'
    BY <1>i, <1>u, Frame
  <1>T. NotesTypeOK'
    <2>1. senders' \in [Versions -> [at : {"none", "spawned", "signalled", "sending"},
                              packet : Packets \cup [key : Keys, version : {None}]]]
      BY <1>i, <1>a DEF NotesTypeOK, Over, Reader, Packets
    <2>2. phoneEnd' \in {"CONNECTING", "CONNECTED", "DISCONNECTED"}
      BY <1>i, <1>d DEF NotesTypeOK
    <2>3. packets' \in Seq(Records)
      BY <1>f
    <2> QED
      BY <1>i, <1>u, <2>1, <2>2, <2>3 DEF NotesTypeOK
  <1> QED
    BY <1>C, <1>M, <1>S, <1>H, <1>F, <1>E, <1>P, <1>R, <1>O, <1>T DEF NotesIInv

(* The list goes out one packet at a time. *)
LEMMA SendListedStep ==
  ASSUME NotesIInv, SendListed
  PROVE  NotesIInv'
  <1>i. NotesTypeOK /\ SendersHold /\ HandlersHold /\ FetcherHolds /\ EndsHold
        /\ CountsHold /\ RemovalsHold /\ ProcessorsApart /\ ReadersMatchPackets /\ OneRecordPerKey
    BY DEF NotesIInv
  <1>u. /\ datas' = datas /\ senders' = senders /\ signals' = signals
        /\ removals' = removals /\ dismissals' = dismissals /\ answer' = answer
        /\ deskEnd' = deskEnd /\ alive' = alive /\ handlers' = handlers
        /\ fetcher' = fetcher /\ notifications' = notifications
        /\ idsByKey' = idsByKey /\ posts' = posts /\ removed' = removed
        /\ skew' = skew /\ overlapped' = overlapped /\ apart' = apart
    BY DEF SendListed, Writes
  <1>nr. /\ signals \in Nat /\ CountAt(handlers, {"reading"}) \in Nat /\ Awaited \in Nat
         /\ CountAt(senders, {"signalled", "sending"}) \in Nat /\ Cardinality(list) \in Nat /\ Len(packets) \in Nat
    BY <1>i, CountTypes
  <1>sr. /\ CountAt(handlers, {"reading"})' = CountAt(handlers, {"reading"})
         /\ CountAt(senders, {"signalled", "sending"})' = CountAt(senders, {"signalled", "sending"})
         /\ Awaited' = Awaited
         /\ signals' = signals
         /\ skew' = skew
         /\ alive' = alive
    BY <1>u, Same
  <1>a. PICK r \in list : Writes(r) /\ list' = list \ {r}
    BY DEF SendListed
  <1>b. r \in Records
    BY <1>i DEF NotesTypeOK
  <1>c. phoneEnd # "CONNECTING" /\ (alive => phoneEnd = "CONNECTED")
    BY <1>i, <1>a DEF EndsHold, FetcherHolds, NotesTypeOK
  <1>d. \/ /\ phoneEnd = "CONNECTED" /\ alive /\ phoneEnd' = phoneEnd
           /\ packets' = Append(packets, r)
        \/ ~alive /\ phoneEnd' = "DISCONNECTED" /\ packets' = packets
    BY <1>a, <1>c DEF Writes
  <1>f. packets' \in Seq(Records) /\ (alive => Len(packets') = Len(packets) + 1)
    <2>1. packets \in Seq(Records)
      BY <1>i DEF NotesTypeOK
    <2> QED
      BY <2>1, <1>b, <1>d
  <1>g. Cardinality(list') = Cardinality(list) - 1
    BY <1>i, <1>a, CountTypes, OneMore
  <1>C. CountsHold'
    BY <1>i, <1>u, Frame
  <1>M. RemovalsHold'
    BY <1>i, <1>u, Frame
  <1>S. SendersHold'
    BY <1>i, <1>u, Frame
  <1>H. HandlersHold'
    BY <1>i, <1>u, Frame
  <1>F. FetcherHolds'
    BY <1>i, <1>u, <1>a DEF FetcherHolds
  <1>E. EndsHold'
    BY <1>i, <1>u, <1>c, <1>d DEF EndsHold
  <1>P. ProcessorsApart'
    BY <1>i, <1>u, Frame
  <1>R. ReadersMatchPackets'
    <2>r. ReadersMatchPackets
      BY <1>i
    <2> QED
      BY <2>r, <1>f, <1>g, <1>sr, <1>nr DEF ReadersMatchPackets
  <1>O. OneRecordPerKey'
    BY <1>i, <1>u, Frame
  <1>T. NotesTypeOK'
    <2>1. list' \subseteq Records
      BY <1>i, <1>a DEF NotesTypeOK
    <2>2. phoneEnd' \in {"CONNECTING", "CONNECTED", "DISCONNECTED"}
      BY <1>i, <1>d DEF NotesTypeOK
    <2>3. packets' \in Seq(Records)
      BY <1>f
    <2> QED
      BY <1>i, <1>u, <2>1, <2>2, <2>3 DEF NotesTypeOK
  <1> QED
    BY <1>C, <1>M, <1>S, <1>H, <1>F, <1>E, <1>P, <1>R, <1>O, <1>T DEF NotesIInv

(* The count and the copy are taken under one lock, so they agree. *)
LEMMA AnswerListStep ==
  ASSUME NotesIInv, AnswerList
  PROVE  NotesIInv'
  <1>i. NotesTypeOK /\ SendersHold /\ HandlersHold /\ FetcherHolds /\ EndsHold
        /\ CountsHold /\ RemovalsHold /\ ProcessorsApart /\ ReadersMatchPackets /\ OneRecordPerKey
    BY DEF NotesIInv
  <1>u. /\ datas' = datas /\ senders' = senders /\ signals' = signals
        /\ removals' = removals /\ dismissals' = dismissals /\ packets' = packets
        /\ phoneEnd' = phoneEnd /\ deskEnd' = deskEnd /\ alive' = alive
        /\ handlers' = handlers /\ notifications' = notifications
        /\ idsByKey' = idsByKey /\ posts' = posts /\ removed' = removed
        /\ skew' = skew /\ overlapped' = overlapped /\ apart' = apart
    BY DEF AnswerList
  <1>nw. signals \in Nat /\ CountAt(handlers, Held) \in Nat /\ CountAt(senders, {"spawned"}) \in Nat
    BY <1>i, CountTypes
  <1>nc. /\ Cardinality(Taken) \in Nat /\ Work \in Nat /\ Awaited \in Nat /\ Inserting \in Nat
         /\ posts \in Nat /\ Listed \in Nat
    BY <1>i, CountTypes
  <1>nr. /\ signals \in Nat /\ CountAt(handlers, {"reading"}) \in Nat /\ Awaited \in Nat
         /\ CountAt(senders, {"signalled", "sending"}) \in Nat /\ Cardinality(list) \in Nat /\ Len(packets) \in Nat
    BY <1>i, CountTypes
  <1>sw. /\ CountAt(handlers, Held)' = CountAt(handlers, Held)
         /\ CountAt(senders, {"spawned"})' = CountAt(senders, {"spawned"})
         /\ signals' = signals
    BY <1>u, Same
  <1>sc. /\ Cardinality(Taken') = Cardinality(Taken)
         /\ posts' = posts
    BY <1>u, Same
  <1>sr. /\ CountAt(handlers, {"reading"})' = CountAt(handlers, {"reading"})
         /\ CountAt(senders, {"signalled", "sending"})' = CountAt(senders, {"signalled", "sending"})
         /\ signals' = signals
         /\ packets' = packets
         /\ skew' = skew
         /\ alive' = alive
    BY <1>u, Same
  <1>a. fetcher.at = "asked" /\ fetcher.left = 0 /\ list = {} /\ answer = {}
    BY <1>i DEF AnswerList, FetcherHolds
  <1>b. phoneEnd # "CONNECTING" /\ (alive => phoneEnd = "CONNECTED")
    BY <1>i, <1>a DEF EndsHold, NotesTypeOK
  <1>c. fetcher' = [fetcher EXCEPT !.at = "answered"] /\ answer' = {Cardinality(Posted)}
    BY DEF AnswerList
  <1>d. fetcher'.at = "answered" /\ fetcher'.left = 0 /\ fetcher'.packet = fetcher.packet
    BY <1>i, <1>a, <1>c DEF NotesTypeOK
  <1>e. IsFiniteSet(Posted) /\ Cardinality(Posted) \in Nat /\ Cardinality(Posted) <= Cardinality(Keys)
    BY BoundFacts, FS_Subset, FS_CardinalityType DEF Posted
  <1>f. Awaited = 0 /\ Awaited' = Cardinality(Posted) /\ Listed = 0 /\ Listed' = Cardinality(Keys)
        /\ Inserting = 0 /\ Inserting' = 0
    BY <1>a, <1>c, <1>d DEF Awaited, Listed, Inserting
  <1>g. PICK all : all = {Record(k, datas[k]) : k \in Posted}
    OBVIOUS
  <1>h. all \subseteq Records
    <2>1. \A k \in Posted : k \in Keys /\ datas[k] \in Versions
      BY <1>i, BoundFacts DEF NotesTypeOK, Posted, Versions
    <2> QED
      BY <1>g, <2>1 DEF Record, Records
  <1>j. Cardinality(all) = Cardinality(Posted)
    <2> DEFINE record == [k \in Posted |-> Record(k, datas[k])]
    <2>1. record \in Bijection(Posted, all)
      <3>1. record \in [Posted -> all] /\ \A r \in all : \E k \in Posted : record[k] = r
        BY <1>g
      <3>2. \A k \in Posted : record[k].key = k
        BY DEF Record
      <3>3. \A k, l \in Posted : record[k] = record[l] => k = l
        BY <3>2
      <3> HIDE DEF record
      <3> QED
        BY <3>1, <3>3 DEF Bijection, Injection, IsInjective, Surjection
    <2> QED
      BY <2>1, <1>e, FS_Bijection DEF ExistsBijection
  <1>k. list' = IF phoneEnd = "CONNECTED" THEN all ELSE {}
    BY <1>g DEF AnswerList
  <1>l. Cardinality(list) = 0
    BY <1>a, FS_EmptySet
  <1>C. CountsHold'
    <2>1. Work' = Work
      BY <1>sw, <1>nw DEF Work
    <2>2. Cardinality(Taken') + Work' + Awaited' + Inserting' <= posts' + Listed'
      BY <1>i, <2>1, <1>e, <1>f, BoundFacts, <1>sc, <1>nc DEF CountsHold
    <2> QED
      BY <1>i, <2>1, <2>2, <1>u DEF CountsHold
  <1>M. RemovalsHold'
    BY <1>i, <1>u, Frame
  <1>S. SendersHold'
    BY <1>i, <1>u, Frame
  <1>H. HandlersHold'
    BY <1>i, <1>u, Frame
  <1>F. FetcherHolds'
    BY <1>d DEF FetcherHolds
  <1>E. EndsHold'
    BY <1>i, <1>u, <1>b DEF EndsHold
  <1>P. ProcessorsApart'
    BY <1>i, <1>u, <1>d DEF ProcessorsApart, HandlesKey, FetchesKey
  <1>R. ReadersMatchPackets'
    <2>1. ASSUME ~skew, alive
          PROVE  Cardinality(list') = Cardinality(Posted)
      BY <2>1, <1>b, <1>j, <1>k
    <2> QED
      BY <1>i, <2>1, <1>e, <1>f, <1>l, <1>sr, <1>nr DEF ReadersMatchPackets
  <1>O. OneRecordPerKey'
    BY <1>i, <1>u, Frame
  <1>T. NotesTypeOK'
    <2>1. fetcher' \in [at : {"idle", "asked", "answered", "reading", "remove", "insert", "over"},
                       left : 0 .. Cardinality(Keys), packet : Packets]
      BY <1>i, <1>c DEF NotesTypeOK
    <2>2. list' \subseteq Records
      BY <1>h, <1>k
    <2>3. answer' = {} \/ \E c \in 0 .. Cardinality(Keys) : answer' = {c}
      BY <1>c, <1>e, BoundFacts
    <2> QED
      BY <1>i, <1>u, <2>1, <2>2, <2>3 DEF NotesTypeOK
  <1> QED
    BY <1>C, <1>M, <1>S, <1>H, <1>F, <1>E, <1>P, <1>R, <1>O, <1>T DEF NotesIInv

(* The ends come up one after the other. *)
LEMMA PhoneConnectsStep ==
  ASSUME NotesIInv, PhoneConnects
  PROVE  NotesIInv'
  <1>i. NotesTypeOK /\ SendersHold /\ HandlersHold /\ FetcherHolds /\ EndsHold
        /\ CountsHold /\ RemovalsHold /\ ProcessorsApart /\ ReadersMatchPackets /\ OneRecordPerKey
    BY DEF NotesIInv
  <1>u. /\ datas' = datas /\ senders' = senders /\ signals' = signals
        /\ removals' = removals /\ dismissals' = dismissals /\ answer' = answer
        /\ list' = list /\ packets' = packets /\ deskEnd' = deskEnd /\ alive' = alive
        /\ handlers' = handlers /\ fetcher' = fetcher
        /\ notifications' = notifications /\ idsByKey' = idsByKey /\ posts' = posts
        /\ removed' = removed /\ skew' = skew /\ overlapped' = overlapped
        /\ apart' = apart
    BY DEF PhoneConnects
  <1>C. CountsHold'
    BY <1>i, <1>u, Frame
  <1>M. RemovalsHold'
    BY <1>i, <1>u, Frame
  <1>S. SendersHold'
    BY <1>i, <1>u, Frame
  <1>H. HandlersHold'
    BY <1>i, <1>u, Frame
  <1>F. FetcherHolds'
    BY <1>i, <1>u, Frame
  <1>E. EndsHold'
    BY <1>i, <1>u DEF EndsHold, PhoneConnects
  <1>P. ProcessorsApart'
    BY <1>i, <1>u, Frame
  <1>R. ReadersMatchPackets'
    BY <1>i, <1>u, Frame
  <1>O. OneRecordPerKey'
    BY <1>i, <1>u, Frame
  <1>T. NotesTypeOK'
    <2>1. phoneEnd' \in {"CONNECTING", "CONNECTED", "DISCONNECTED"}
      BY DEF PhoneConnects
    <2> QED
      BY <1>i, <1>u, <2>1 DEF NotesTypeOK
  <1> QED
    BY <1>C, <1>M, <1>S, <1>H, <1>F, <1>E, <1>P, <1>R, <1>O, <1>T DEF NotesIInv

(* The desktop's end follows the phone's. *)
LEMMA DesktopAcceptsStep ==
  ASSUME NotesIInv, DesktopAccepts
  PROVE  NotesIInv'
  <1>i. NotesTypeOK /\ SendersHold /\ HandlersHold /\ FetcherHolds /\ EndsHold
        /\ CountsHold /\ RemovalsHold /\ ProcessorsApart /\ ReadersMatchPackets /\ OneRecordPerKey
    BY DEF NotesIInv
  <1>u. /\ datas' = datas /\ senders' = senders /\ signals' = signals
        /\ removals' = removals /\ dismissals' = dismissals /\ answer' = answer
        /\ list' = list /\ packets' = packets /\ phoneEnd' = phoneEnd
        /\ alive' = alive /\ handlers' = handlers /\ fetcher' = fetcher
        /\ notifications' = notifications /\ idsByKey' = idsByKey /\ posts' = posts
        /\ removed' = removed /\ skew' = skew /\ overlapped' = overlapped
        /\ apart' = apart
    BY DEF DesktopAccepts
  <1>C. CountsHold'
    BY <1>i, <1>u, Frame
  <1>M. RemovalsHold'
    BY <1>i, <1>u, Frame
  <1>S. SendersHold'
    BY <1>i, <1>u, Frame
  <1>H. HandlersHold'
    BY <1>i, <1>u, Frame
  <1>F. FetcherHolds'
    BY <1>i, <1>u, Frame
  <1>E. EndsHold'
    BY <1>i, <1>u DEF EndsHold, DesktopAccepts
  <1>P. ProcessorsApart'
    BY <1>i, <1>u, Frame
  <1>R. ReadersMatchPackets'
    BY <1>i, <1>u, Frame
  <1>O. OneRecordPerKey'
    BY <1>i, <1>u, Frame
  <1>T. NotesTypeOK'
    <2>1. deskEnd' \in {"CONNECTING", "CONNECTED", "DISCONNECTED"}
      BY DEF DesktopAccepts
    <2> QED
      BY <1>i, <1>u, <2>1 DEF NotesTypeOK
  <1> QED
    BY <1>C, <1>M, <1>S, <1>H, <1>F, <1>E, <1>P, <1>R, <1>O, <1>T DEF NotesIInv

(* A cut ends what ReadersMatchPackets promises. *)
LEMMA CutStep ==
  ASSUME NotesIInv, Cut
  PROVE  NotesIInv'
  <1>i. NotesTypeOK /\ SendersHold /\ HandlersHold /\ FetcherHolds /\ EndsHold
        /\ CountsHold /\ RemovalsHold /\ ProcessorsApart /\ ReadersMatchPackets /\ OneRecordPerKey
    BY DEF NotesIInv
  <1>u. /\ datas' = datas /\ senders' = senders /\ signals' = signals
        /\ removals' = removals /\ dismissals' = dismissals /\ answer' = answer
        /\ list' = list /\ phoneEnd' = phoneEnd /\ deskEnd' = deskEnd
        /\ handlers' = handlers /\ fetcher' = fetcher
        /\ notifications' = notifications /\ idsByKey' = idsByKey /\ posts' = posts
        /\ removed' = removed /\ skew' = skew /\ overlapped' = overlapped
        /\ apart' = apart
    BY DEF Cut
  <1>C. CountsHold'
    BY <1>i, <1>u, Frame
  <1>M. RemovalsHold'
    BY <1>i, <1>u, Frame
  <1>S. SendersHold'
    BY <1>i, <1>u, Frame
  <1>H. HandlersHold'
    BY <1>i, <1>u, Frame
  <1>F. FetcherHolds'
    BY <1>i, <1>u, Frame
  <1>E. EndsHold'
    BY <1>i, <1>u DEF EndsHold, Cut
  <1>P. ProcessorsApart'
    BY <1>i, <1>u, Frame
  <1>R. ReadersMatchPackets'
    BY DEF ReadersMatchPackets, Cut
  <1>O. OneRecordPerKey'
    BY <1>i, <1>u, Frame
  <1>T. NotesTypeOK'
    <2>1. alive' \in BOOLEAN /\ packets' = <<>>
      BY DEF Cut
    <2>2. packets' \in Seq(Records)
      BY <2>1
    <2> QED
      BY <1>i, <1>u, <2>1, <2>2 DEF NotesTypeOK
  <1> QED
    BY <1>C, <1>M, <1>S, <1>H, <1>F, <1>E, <1>P, <1>R, <1>O, <1>T DEF NotesIInv

-------------------------------------------------------------------------------
(* The desktop's steps *)

(* A signal turns into a handler that reads, or into skew. *)
LEMMA HandleNewStep ==
  ASSUME NotesIInv, HandleNew
  PROVE  NotesIInv'
  <1>i. NotesTypeOK /\ SendersHold /\ HandlersHold /\ FetcherHolds /\ EndsHold
        /\ CountsHold /\ RemovalsHold /\ ProcessorsApart /\ ReadersMatchPackets /\ OneRecordPerKey
    BY DEF NotesIInv
  <1>u. /\ datas' = datas /\ senders' = senders /\ removals' = removals
        /\ dismissals' = dismissals /\ answer' = answer /\ list' = list
        /\ packets' = packets /\ phoneEnd' = phoneEnd /\ deskEnd' = deskEnd
        /\ alive' = alive /\ fetcher' = fetcher /\ notifications' = notifications
        /\ idsByKey' = idsByKey /\ posts' = posts /\ removed' = removed
        /\ overlapped' = overlapped /\ apart' = apart
    BY DEF HandleNew
  <1>n. /\ signals \in Nat /\ posts \in Nat /\ Work \in Nat
        /\ CountAt(handlers, Held) \in Nat /\ CountAt(senders, {"spawned"}) \in Nat
        /\ CountAt(handlers, {"reading"}) \in Nat /\ CountAt(senders, {"signalled", "sending"}) \in Nat
        /\ Cardinality(Taken) \in Nat /\ Awaited \in Nat /\ Inserting \in Nat /\ Listed \in Nat
        /\ Cardinality(list) \in Nat /\ Len(packets) \in Nat
    BY <1>i, CountTypes
  <1>nw. signals \in Nat /\ CountAt(handlers, Held) \in Nat /\ CountAt(senders, {"spawned"}) \in Nat
    BY <1>i, CountTypes
  <1>nc. /\ Cardinality(Taken) \in Nat /\ Work \in Nat /\ Awaited \in Nat /\ Inserting \in Nat
         /\ posts \in Nat /\ Listed \in Nat
    BY <1>i, CountTypes
  <1>nr. /\ signals \in Nat /\ CountAt(handlers, {"reading"}) \in Nat /\ Awaited \in Nat
         /\ CountAt(senders, {"signalled", "sending"}) \in Nat /\ Cardinality(list) \in Nat /\ Len(packets) \in Nat
    BY <1>i, CountTypes
  <1>sw. /\ CountAt(senders, {"spawned"})' = CountAt(senders, {"spawned"})
    BY <1>u, Same
  <1>sc. /\ Cardinality(Taken') = Cardinality(Taken)
         /\ Awaited' = Awaited /\ Inserting' = Inserting /\ Listed' = Listed
         /\ posts' = posts
    BY <1>u, Same
  <1>sr. /\ CountAt(senders, {"signalled", "sending"})' = CountAt(senders, {"signalled", "sending"})
         /\ Awaited' = Awaited
         /\ list' = list
         /\ packets' = packets
         /\ alive' = alive
    BY <1>u, Same
  <1>a. signals > 0 /\ signals' = signals - 1
    BY DEF HandleNew
  <1>b. FreeHandler \in Versions /\ handlers[FreeHandler] = Over /\ Over.at = "none"
    BY <1>a, HandlerIsFree DEF Over, Reader
  <1>c. PICK w : w.at = "reading" /\ w = Reader("reading", NoRecord)
    BY DEF Reader
  <1>d. \/ handlers' = [handlers EXCEPT ![FreeHandler] = w] /\ skew' = skew
        \/ handlers' = handlers /\ skew' = TRUE
    BY <1>c DEF HandleNew
  <1>f. handlers' = [handlers EXCEPT ![FreeHandler] = w] =>
          /\ CountAt(handlers, Held)' = CountAt(handlers, Held) + 1
          /\ CountAt(handlers, {"reading"})' = CountAt(handlers, {"reading"}) + 1
          /\ \A m \in Versions : handlers'[m] = IF m = FreeHandler THEN w ELSE handlers[m]
    <2> SUFFICES ASSUME handlers' = [handlers EXCEPT ![FreeHandler] = w]
                 PROVE  /\ CountAt(handlers, Held)' = CountAt(handlers, Held) + 1
                        /\ CountAt(handlers, {"reading"})' = CountAt(handlers, {"reading"}) + 1
                        /\ \A m \in Versions : handlers'[m] = IF m = FreeHandler THEN w ELSE handlers[m]
      OBVIOUS
    <2>1. /\ CountAt(handlers, Held)' \in Nat
          /\ CountAt(handlers, Held)' = CountAt(handlers, Held)
               + (IF w.at \in Held THEN 1 ELSE 0) - (IF handlers[FreeHandler].at \in Held THEN 1 ELSE 0)
          /\ CountAt(handlers, {"reading"})' = CountAt(handlers, {"reading"})
               + (IF w.at = "reading" THEN 1 ELSE 0) - (IF handlers[FreeHandler].at = "reading" THEN 1 ELSE 0)
          /\ \A m \in Versions : handlers'[m] = IF m = FreeHandler THEN w ELSE handlers[m]
      BY <1>i, <1>b, HandlerMoves
    <2>2. "reading" \in Held /\ "none" \notin Held
      BY DEF Held
    <2> QED
      BY <1>b, <1>c, <2>1, <2>2, <1>n
  <1>h. handlers' = handlers => CountAt(handlers, Held)' = CountAt(handlers, Held)
    BY Same
  <1>m. CountAt(handlers, Held)' \in Nat /\ CountAt(handlers, Held)' <= CountAt(handlers, Held) + 1
    BY <1>d, <1>f, <1>h, <1>n
  <1>e. \A m \in Versions : handlers'[m] = handlers[m] \/ handlers'[m] = w
    BY <1>d, <1>f
  <1>C. CountsHold'
    <2>1. Work' = signals' + CountAt(handlers, Held)' + CountAt(senders, {"spawned"})'
      BY DEF Work
    <2>2. Work' \in Int /\ Work' <= Work
      BY <2>1, <1>a, <1>m, <1>sw, <1>nw DEF Work
    <2> QED
      BY <1>i, <2>2, <1>sc, <1>nc DEF CountsHold
  <1>M. RemovalsHold'
    BY <1>i, <1>u, Frame
  <1>S. SendersHold'
    BY <1>i, <1>u, Frame
  <1>H. HandlersHold'
    BY <1>i, <1>c, <1>e DEF HandlersHold
  <1>F. FetcherHolds'
    BY <1>i, <1>u, Frame
  <1>E. EndsHold'
    BY <1>i, <1>u, Frame
  <1>P. ProcessorsApart'
    <2>1. \A m \in Versions, k \in Keys : HandlesKey(m, k)' => HandlesKey(m, k) /\ handlers'[m] = handlers[m]
      BY <1>c, <1>e DEF HandlesKey
    <2>2. \A k \in Keys : FetchesKey(k)' = FetchesKey(k)
      BY <1>u DEF FetchesKey
    <2> QED
      BY <1>i, <1>u, <2>1, <2>2 DEF ProcessorsApart
  <1>R. ReadersMatchPackets'
    <2>1. CASE handlers' = [handlers EXCEPT ![FreeHandler] = w]
      <3>1. CountAt(handlers, {"reading"})' = CountAt(handlers, {"reading"}) + 1
        BY <2>1, <1>f
      <3>2. signals' + CountAt(handlers, {"reading"})' = signals + CountAt(handlers, {"reading"})
        BY <3>1, <1>a, <1>n
      <3>3. skew' = skew \/ skew' = TRUE
        BY <1>d
      <3> QED
        BY <1>i, <3>2, <3>3, <1>sr, <1>nr DEF ReadersMatchPackets
    <2>2. CASE skew' = TRUE
      BY <2>2 DEF ReadersMatchPackets
    <2> QED
      BY <1>d, <2>1, <2>2
  <1>O. OneRecordPerKey'
    BY <1>i, <1>u, Frame
  <1>T. NotesTypeOK'
    <2>1. signals' \in 0 .. MaxPosts
      <3>1. posts \in Nat /\ posts <= MaxPosts /\ MaxPosts \in Nat
        BY <1>i, BoundFacts DEF NotesTypeOK
      <3>2. Work' <= posts
        BY <1>C, <1>u DEF CountsHold
      <3>3. Work' = signals' + CountAt(handlers, Held)' + CountAt(senders, {"spawned"})'
        BY DEF Work
      <3>4. CountAt(handlers, Held)' \in Nat /\ CountAt(senders, {"spawned"})' \in Nat
        BY <1>sw, <1>nw, <1>m
      <3>5. signals' \in Nat
        BY <1>a, <1>n
      <3>6. signals' <= posts
        BY <3>1, <3>2, <3>3, <3>4, <3>5
      <3> QED
        BY <3>1, <3>5, <3>6
    <2>2. handlers' \in [Versions -> [at : {"none", "reading", "remove", "insert"}, packet : Packets]]
      <3>1. w \in [at : {"none", "reading", "remove", "insert"}, packet : Packets]
        BY <1>c, PacketFacts DEF Reader
      <3> QED
        BY <1>i, <1>d, <3>1 DEF NotesTypeOK
    <2>3. skew' \in BOOLEAN
      BY <1>i, <1>d DEF NotesTypeOK
    <2> QED
      BY <1>i, <1>u, <2>1, <2>2, <2>3 DEF NotesTypeOK
  <1> QED
    BY <1>C, <1>M, <1>S, <1>H, <1>F, <1>E, <1>P, <1>R, <1>O, <1>T DEF NotesIInv

(* Whoever reads takes the next packet, of whatever key. *)
LEMMA ReadStep ==
  ASSUME NotesIInv, NEW n \in Versions, Read(n)
  PROVE  NotesIInv'
  <1>i. NotesTypeOK /\ SendersHold /\ HandlersHold /\ FetcherHolds /\ EndsHold
        /\ CountsHold /\ RemovalsHold /\ ProcessorsApart /\ ReadersMatchPackets /\ OneRecordPerKey
    BY DEF NotesIInv
  <1>u. /\ datas' = datas /\ senders' = senders /\ signals' = signals
        /\ removals' = removals /\ dismissals' = dismissals /\ answer' = answer
        /\ list' = list /\ phoneEnd' = phoneEnd /\ alive' = alive
        /\ fetcher' = fetcher /\ notifications' = notifications
        /\ idsByKey' = idsByKey /\ posts' = posts /\ removed' = removed
        /\ skew' = skew /\ apart' = apart
    BY DEF Read, Takes, FindsCut
  <1>n. /\ signals \in Nat /\ posts \in Nat /\ Work \in Nat
        /\ CountAt(handlers, Held) \in Nat /\ CountAt(senders, {"spawned"}) \in Nat
        /\ CountAt(handlers, {"reading"}) \in Nat /\ CountAt(senders, {"signalled", "sending"}) \in Nat
        /\ Cardinality(Taken) \in Nat /\ Awaited \in Nat /\ Inserting \in Nat /\ Listed \in Nat
        /\ Cardinality(list) \in Nat /\ Len(packets) \in Nat
    BY <1>i, CountTypes
  <1>nw. signals \in Nat /\ CountAt(handlers, Held) \in Nat /\ CountAt(senders, {"spawned"}) \in Nat
    BY <1>i, CountTypes
  <1>nc. /\ Cardinality(Taken) \in Nat /\ Work \in Nat /\ Awaited \in Nat /\ Inserting \in Nat
         /\ posts \in Nat /\ Listed \in Nat
    BY <1>i, CountTypes
  <1>nr. /\ signals \in Nat /\ CountAt(handlers, {"reading"}) \in Nat /\ Awaited \in Nat
         /\ CountAt(senders, {"signalled", "sending"}) \in Nat /\ Cardinality(list) \in Nat /\ Len(packets) \in Nat
    BY <1>i, CountTypes
  <1>sw. /\ CountAt(senders, {"spawned"})' = CountAt(senders, {"spawned"})
         /\ signals' = signals
    BY <1>u, Same
  <1>sc. /\ Cardinality(Taken') = Cardinality(Taken)
         /\ Awaited' = Awaited /\ Inserting' = Inserting /\ Listed' = Listed
         /\ posts' = posts
    BY <1>u, Same
  <1>sr. /\ CountAt(senders, {"signalled", "sending"})' = CountAt(senders, {"signalled", "sending"})
         /\ Awaited' = Awaited
         /\ signals' = signals
         /\ list' = list
         /\ skew' = skew
         /\ alive' = alive
    BY <1>u, Same
  <1>b. handlers[n].at = "reading"
    BY DEF Read
  <1>a0. PICK w : /\ handlers' = [handlers EXCEPT ![n] = w]
              /\ \/ /\ packets # <<>> /\ w = Reader("remove", Head(packets))
                    /\ packets' = Tail(packets) /\ deskEnd' = deskEnd
                    /\ overlapped' = (overlapped \/ Processing(Head(packets).key))
                 \/ /\ w = Over
                    /\ ~alive /\ packets' = packets /\ overlapped' = overlapped /\ deskEnd' = "DISCONNECTED"
    BY DEF Read, Takes, FindsCut
  <1>a1. /\ w = Reader("remove", Head(packets)) => w.at = "remove" /\ w.packet = Head(packets)
         /\ w = Over => w.at = "none"
    BY ReaderFacts
  <1>a. /\ handlers' = [handlers EXCEPT ![n] = w]
        /\ \/ /\ packets # <<>> /\ w = Reader("remove", Head(packets)) /\ w.at = "remove" /\ w.packet = Head(packets)
              /\ packets' = Tail(packets) /\ deskEnd' = deskEnd
              /\ overlapped' = (overlapped \/ Processing(Head(packets).key))
           \/ /\ w = Over /\ w.at = "none"
              /\ ~alive /\ packets' = packets /\ overlapped' = overlapped /\ deskEnd' = "DISCONNECTED"
    BY <1>a0, <1>a1
  <1>h. /\ packets' \in Seq(Records)
        /\ packets # <<>> => Head(packets) \in Records /\ Len(Tail(packets)) = Len(packets) - 1
    <2>1. packets \in Seq(Records)
      BY <1>i DEF NotesTypeOK
    <2> QED
      BY <2>1, <1>a
  <1>c. \/ w.at = "remove" /\ w.packet = Head(packets) /\ w.packet \in Records /\ packets # <<>>
        \/ w.at = "none" /\ w = Over /\ ~alive
    BY <1>a, <1>h
  <1>m. /\ CountAt(handlers, Held)' \in Nat
        /\ CountAt(handlers, Held)' = CountAt(handlers, Held)
             + (IF w.at \in Held THEN 1 ELSE 0) - (IF handlers[n].at \in Held THEN 1 ELSE 0)
        /\ CountAt(handlers, {"reading"})' = CountAt(handlers, {"reading"})
             + (IF w.at = "reading" THEN 1 ELSE 0) - (IF handlers[n].at = "reading" THEN 1 ELSE 0)
        /\ \A m \in Versions : handlers'[m] = IF m = n THEN w ELSE handlers[m]
    BY <1>i, <1>a, HandlerMoves
  <1>d. "reading" \in Held /\ "remove" \in Held /\ "none" \notin Held
    BY DEF Held
  <1>e. /\ CountAt(handlers, Held)' <= CountAt(handlers, Held)
        /\ CountAt(handlers, {"reading"})' = CountAt(handlers, {"reading"}) - 1
    BY <1>b, <1>c, <1>d, <1>m, <1>n
  <1>C. CountsHold'
    <2>1. Work' = signals' + CountAt(handlers, Held)' + CountAt(senders, {"spawned"})'
      BY DEF Work
    <2>2. Work' \in Int /\ Work' <= Work
      BY <2>1, <1>e, <1>m, <1>sw, <1>nw DEF Work
    <2> QED
      BY <1>i, <2>2, <1>sc, <1>nc DEF CountsHold
  <1>M. RemovalsHold'
    BY <1>i, <1>u, Frame
  <1>S. SendersHold'
    BY <1>i, <1>u, Frame
  <1>H. HandlersHold'
    BY <1>i, <1>c, <1>m DEF HandlersHold
  <1>F. FetcherHolds'
    BY <1>i, <1>u, Frame
  <1>E. EndsHold'
    BY <1>i, <1>u, <1>a DEF EndsHold
  <1>P. ProcessorsApart'
    <2> SUFFICES ASSUME ~overlapped'
                 PROVE  ProcessorsApart'
      BY DEF ProcessorsApart
    <2>1. ~overlapped
      BY <1>i, <1>a DEF NotesTypeOK
    <2>2. w.at = "remove" => ~Processing(w.packet.key)
      BY <1>a
    <2>3. \A m \in Versions, k \in Keys : HandlesKey(m, k)' <=>
            IF m = n THEN w.at = "remove" /\ w.packet.key = k ELSE HandlesKey(m, k)
      BY <1>c, <1>m DEF HandlesKey
    <2>4. \A m \in Versions, k \in Keys : HandlesKey(m, k) \/ FetchesKey(k) => Processing(k)
      BY DEF Processing, HandlesKey, FetchesKey
    <2>5. \A k \in Keys : FetchesKey(k)' = FetchesKey(k)
      BY <1>u DEF FetchesKey
    <2>6. \A m \in Versions \ {n} : handlers'[m] = handlers[m]
      BY <1>m
    <2>7. handlers'[n].at # "insert"
      BY <1>c, <1>m
    <2> QED
      BY <1>i, <1>u, <2>1, <2>2, <2>3, <2>4, <2>5, <2>6, <2>7 DEF ProcessorsApart
  <1>R. ReadersMatchPackets'
    <2>1. CASE alive
      <3>1. Len(packets') = Len(packets) - 1
        BY <2>1, <1>a, <1>h
      <3> QED
        BY <1>i, <3>1, <1>e, <1>sr, <1>nr DEF ReadersMatchPackets
    <2>2. CASE ~alive
      BY <2>2, <1>u DEF ReadersMatchPackets
    <2> QED
      BY <2>1, <2>2
  <1>O. OneRecordPerKey'
    BY <1>i, <1>u, <1>a DEF OneRecordPerKey
  <1>T. NotesTypeOK'
    <2>1. handlers' \in [Versions -> [at : {"none", "reading", "remove", "insert"}, packet : Packets]]
      <3>1. w \in [at : {"none", "reading", "remove", "insert"}, packet : Packets]
        BY <1>a, <1>h, PacketFacts DEF Over, Reader
      <3> QED
        BY <1>i, <1>a, <3>1 DEF NotesTypeOK
    <2>2. packets' \in Seq(Records)
      BY <1>h
    <2>3. deskEnd' \in {"CONNECTING", "CONNECTED", "DISCONNECTED"} /\ overlapped' \in BOOLEAN
      BY <1>i, <1>a DEF NotesTypeOK, Processing
    <2> QED
      BY <1>i, <1>u, <2>1, <2>2, <2>3 DEF NotesTypeOK
  <1> QED
    BY <1>C, <1>M, <1>S, <1>H, <1>F, <1>E, <1>P, <1>R, <1>O, <1>T DEF NotesIInv

(* After the old record has gone its key has no entry. *)
LEMMA RemoveOldStep ==
  ASSUME NotesIInv, NEW n \in Versions, RemoveOld(n)
  PROVE  NotesIInv'
  <1>i. NotesTypeOK /\ SendersHold /\ HandlersHold /\ FetcherHolds /\ EndsHold
        /\ CountsHold /\ RemovalsHold /\ ProcessorsApart /\ ReadersMatchPackets /\ OneRecordPerKey
    BY DEF NotesIInv
  <1>u. /\ datas' = datas /\ senders' = senders /\ signals' = signals
        /\ removals' = removals /\ dismissals' = dismissals /\ answer' = answer
        /\ list' = list /\ packets' = packets /\ phoneEnd' = phoneEnd
        /\ deskEnd' = deskEnd /\ alive' = alive /\ fetcher' = fetcher
        /\ posts' = posts /\ removed' = removed /\ skew' = skew
        /\ overlapped' = overlapped /\ apart' = apart
    BY DEF RemoveOld, ProcessRemoval
  <1>n. /\ signals \in Nat /\ posts \in Nat /\ Work \in Nat
        /\ CountAt(handlers, Held) \in Nat /\ CountAt(senders, {"spawned"}) \in Nat
        /\ CountAt(handlers, {"reading"}) \in Nat /\ CountAt(senders, {"signalled", "sending"}) \in Nat
        /\ Cardinality(Taken) \in Nat /\ Awaited \in Nat /\ Inserting \in Nat /\ Listed \in Nat
        /\ Cardinality(list) \in Nat /\ Len(packets) \in Nat
    BY <1>i, CountTypes
  <1>nw. signals \in Nat /\ CountAt(handlers, Held) \in Nat /\ CountAt(senders, {"spawned"}) \in Nat
    BY <1>i, CountTypes
  <1>nc. /\ Cardinality(Taken) \in Nat /\ Work \in Nat /\ Awaited \in Nat /\ Inserting \in Nat
         /\ posts \in Nat /\ Listed \in Nat
    BY <1>i, CountTypes
  <1>nr. /\ signals \in Nat /\ CountAt(handlers, {"reading"}) \in Nat /\ Awaited \in Nat
         /\ CountAt(senders, {"signalled", "sending"}) \in Nat /\ Cardinality(list) \in Nat /\ Len(packets) \in Nat
    BY <1>i, CountTypes
  <1>sw. /\ CountAt(senders, {"spawned"})' = CountAt(senders, {"spawned"})
         /\ signals' = signals
    BY <1>u, Same
  <1>sc. /\ Awaited' = Awaited /\ Inserting' = Inserting /\ Listed' = Listed
         /\ posts' = posts
    BY <1>u, Same
  <1>sr. /\ CountAt(senders, {"signalled", "sending"})' = CountAt(senders, {"signalled", "sending"})
         /\ Awaited' = Awaited
         /\ signals' = signals
         /\ list' = list
         /\ packets' = packets
         /\ skew' = skew
         /\ alive' = alive
    BY <1>u, Same
  <1>b. handlers[n].at = "remove" /\ handlers[n].packet \in Records
    BY <1>i DEF RemoveOld, HandlersHold
  <1>a. PICK k \in Keys : k = handlers[n].packet.key /\ ProcessRemoval(k)
    BY <1>b, PacketFacts DEF RemoveOld
  <1>g. /\ notifications' \in [Ids -> Packets] /\ idsByKey' \in [Keys -> Ids \cup {None}]
        /\ Cardinality(Taken') \in Nat /\ Cardinality(Taken') <= Cardinality(Taken)
        /\ \A j \in Keys : idsByKey'[j] \in {None, idsByKey[j]}
        /\ idsByKey'[k] = None
        /\ OneRecordPerKey'
    BY <1>i, <1>u, <1>a, RemovalFacts
  <1>c. PICK w : /\ handlers' = [handlers EXCEPT ![n] = w] /\ w = [handlers[n] EXCEPT !.at = "insert"]
                /\ w.at = "insert" /\ w.packet = handlers[n].packet
    <2>1. handlers[n] \in [at : {"none", "reading", "remove", "insert"}, packet : Packets]
      BY <1>i DEF NotesTypeOK
    <2>2. handlers' = [handlers EXCEPT ![n] = [handlers[n] EXCEPT !.at = "insert"]]
      BY DEF RemoveOld
    <2>3. [handlers[n] EXCEPT !.at = "insert"].at = "insert"
          /\ [handlers[n] EXCEPT !.at = "insert"].packet = handlers[n].packet
      BY <2>1
    <2> QED
      BY <2>2, <2>3
  <1>f. handlers' = [handlers EXCEPT ![n] = w]
    BY <1>c
  <1>m. /\ CountAt(handlers, Held)' \in Nat
        /\ CountAt(handlers, Held)' = CountAt(handlers, Held)
             + (IF w.at \in Held THEN 1 ELSE 0) - (IF handlers[n].at \in Held THEN 1 ELSE 0)
        /\ CountAt(handlers, {"reading"})' = CountAt(handlers, {"reading"})
             + (IF w.at = "reading" THEN 1 ELSE 0) - (IF handlers[n].at = "reading" THEN 1 ELSE 0)
        /\ \A m \in Versions : handlers'[m] = IF m = n THEN w ELSE handlers[m]
    BY <1>i, <1>f, HandlerMoves
  <1>d. "remove" \in Held /\ "insert" \in Held
    BY DEF Held
  <1>e. /\ CountAt(handlers, Held)' = CountAt(handlers, Held)
        /\ CountAt(handlers, {"reading"})' = CountAt(handlers, {"reading"})
    BY <1>b, <1>c, <1>d, <1>m, <1>n
  <1>C. CountsHold'
    <2>1. Work' = Work
      BY <1>e, <1>sw, <1>nw DEF Work
    <2> QED
      BY <1>i, <2>1, <1>g, <1>sc, <1>nc DEF CountsHold
  <1>M. RemovalsHold'
    BY <1>i, <1>u, Frame
  <1>S. SendersHold'
    BY <1>i, <1>u, Frame
  <1>H. HandlersHold'
    BY <1>i, <1>b, <1>c, <1>m DEF HandlersHold
  <1>F. FetcherHolds'
    BY <1>i, <1>u, Frame
  <1>E. EndsHold'
    BY <1>i, <1>u, Frame
  <1>P. ProcessorsApart'
    <2>1. \A m \in Versions, j \in Keys : HandlesKey(m, j)' = HandlesKey(m, j)
      BY <1>b, <1>c, <1>m DEF HandlesKey
    <2>2. \A j \in Keys : FetchesKey(j)' = FetchesKey(j)
      BY <1>u DEF FetchesKey
    <2>3. \A m \in Versions \ {n} : handlers'[m] = handlers[m]
      BY <1>m
    <2>4. \A j \in Keys : HandlesKey(n, j) => idsByKey'[j] = None
      BY <1>a, <1>g DEF HandlesKey
    <2>5. \A j \in Keys : idsByKey[j] = None => idsByKey'[j] = None
      BY <1>g
    <2> QED
      BY <1>i, <1>u, <2>1, <2>2, <2>3, <2>4, <2>5 DEF ProcessorsApart
  <1>R. ReadersMatchPackets'
    <2>r. ReadersMatchPackets
      BY <1>i
    <2> QED
      BY <2>r, <1>e, <1>sr, <1>nr DEF ReadersMatchPackets
  <1>O. OneRecordPerKey'
    BY <1>g
  <1>T. NotesTypeOK'
    <2>1. notifications' \in [Ids -> Packets] /\ idsByKey' \in [Keys -> Ids \cup {None}]
      BY <1>g
    <2>2. handlers' \in [Versions -> [at : {"none", "reading", "remove", "insert"}, packet : Packets]]
      BY <1>i, <1>c DEF NotesTypeOK
    <2> QED
      BY <1>i, <1>u, <2>1, <2>2 DEF NotesTypeOK
  <1> QED
    BY <1>C, <1>M, <1>S, <1>H, <1>F, <1>E, <1>P, <1>R, <1>O, <1>T DEF NotesIInv

(* The new record finds an id, and its key without an entry. *)
LEMMA InsertNewStep ==
  ASSUME NotesIInv, NEW n \in Versions, InsertNew(n)
  PROVE  NotesIInv'
  <1>i. NotesTypeOK /\ SendersHold /\ HandlersHold /\ FetcherHolds /\ EndsHold
        /\ CountsHold /\ RemovalsHold /\ ProcessorsApart /\ ReadersMatchPackets /\ OneRecordPerKey
    BY DEF NotesIInv
  <1>u. /\ datas' = datas /\ senders' = senders /\ signals' = signals
        /\ removals' = removals /\ dismissals' = dismissals /\ answer' = answer
        /\ list' = list /\ packets' = packets /\ phoneEnd' = phoneEnd
        /\ deskEnd' = deskEnd /\ alive' = alive /\ fetcher' = fetcher
        /\ posts' = posts /\ removed' = removed /\ skew' = skew
        /\ overlapped' = overlapped /\ apart' = apart
    BY DEF InsertNew, Insert
  <1>n. /\ signals \in Nat /\ posts \in Nat /\ Work \in Nat
        /\ CountAt(handlers, Held) \in Nat /\ CountAt(senders, {"spawned"}) \in Nat
        /\ CountAt(handlers, {"reading"}) \in Nat /\ CountAt(senders, {"signalled", "sending"}) \in Nat
        /\ Cardinality(Taken) \in Nat /\ Awaited \in Nat /\ Inserting \in Nat /\ Listed \in Nat
        /\ Cardinality(list) \in Nat /\ Len(packets) \in Nat
    BY <1>i, CountTypes
  <1>nw. signals \in Nat /\ CountAt(handlers, Held) \in Nat /\ CountAt(senders, {"spawned"}) \in Nat
    BY <1>i, CountTypes
  <1>nc. /\ Cardinality(Taken) \in Nat /\ Work \in Nat /\ Awaited \in Nat /\ Inserting \in Nat
         /\ posts \in Nat /\ Listed \in Nat
    BY <1>i, CountTypes
  <1>nr. /\ signals \in Nat /\ CountAt(handlers, {"reading"}) \in Nat /\ Awaited \in Nat
         /\ CountAt(senders, {"signalled", "sending"}) \in Nat /\ Cardinality(list) \in Nat /\ Len(packets) \in Nat
    BY <1>i, CountTypes
  <1>sw. /\ CountAt(senders, {"spawned"})' = CountAt(senders, {"spawned"})
         /\ signals' = signals
    BY <1>u, Same
  <1>sc. /\ Awaited' = Awaited /\ Inserting' = Inserting /\ Listed' = Listed
         /\ posts' = posts
    BY <1>u, Same
  <1>sr. /\ CountAt(senders, {"signalled", "sending"})' = CountAt(senders, {"signalled", "sending"})
         /\ Awaited' = Awaited
         /\ signals' = signals
         /\ list' = list
         /\ packets' = packets
         /\ skew' = skew
         /\ alive' = alive
    BY <1>u, Same
  <1>a. PICK r \in Records : r = handlers[n].packet /\ r.key \in Keys
    BY <1>i, PacketFacts DEF InsertNew, HandlersHold
  <1>b. handlers[n].at = "insert" /\ Insert(r)
    BY <1>a DEF InsertNew
  <1>c. PICK w : handlers' = [handlers EXCEPT ![n] = w] /\ w = Over /\ w.at = "none"
    BY ReaderFacts DEF InsertNew
  <1>m. /\ CountAt(handlers, Held)' \in Nat
        /\ CountAt(handlers, Held)' = CountAt(handlers, Held)
             + (IF w.at \in Held THEN 1 ELSE 0) - (IF handlers[n].at \in Held THEN 1 ELSE 0)
        /\ CountAt(handlers, {"reading"})' = CountAt(handlers, {"reading"})
             + (IF w.at = "reading" THEN 1 ELSE 0) - (IF handlers[n].at = "reading" THEN 1 ELSE 0)
        /\ \A m \in Versions : handlers'[m] = IF m = n THEN w ELSE handlers[m]
    BY <1>i, <1>c, HandlerMoves
  <1>d. "none" \notin Held /\ "insert" \in Held
    BY DEF Held
  <1>e. /\ CountAt(handlers, Held)' = CountAt(handlers, Held) - 1
        /\ CountAt(handlers, {"reading"})' = CountAt(handlers, {"reading"})
    BY <1>b, <1>c, <1>d, <1>m, <1>n
  <1>g. /\ notifications' \in [Ids -> Packets] /\ idsByKey' \in [Keys -> Ids \cup {None}]
        /\ Cardinality(Taken') \in Nat /\ Cardinality(Taken') <= Cardinality(Taken) + 1
        /\ \A j \in Keys \ {r.key} : idsByKey'[j] = idsByKey[j]
        /\ OneRecordPerKey'
    <2>1. Cardinality(Taken) < Cardinality(Ids)
      <3>1. Cardinality(Taken) + Work + Awaited + Inserting <= posts + Listed
        BY <1>i DEF CountsHold
      <3>2. posts <= MaxPosts /\ MaxPosts \in Nat /\ Cardinality(Keys) \in Nat
            /\ Cardinality(Ids) = MaxPosts + Cardinality(Keys)
        BY <1>i, BoundFacts DEF NotesTypeOK
      <3>3. Listed <= Cardinality(Keys)
        BY <3>2 DEF Listed
      <3>4. Work >= 1 \/ Inserting >= 1
        BY <1>e, <1>m, <1>sw, <1>nw DEF Work
      <3> QED
        BY <3>1, <3>2, <3>3, <3>4, <1>n
    <2>2. ~overlapped => idsByKey[r.key] = None
      BY <1>i, <1>a, <1>b DEF ProcessorsApart, HandlesKey
    <2> QED
      BY <1>i, <1>u, <1>a, <1>b, <2>1, <2>2, InsertFacts
  <1>C. CountsHold'
    <2>1. Work' = Work - 1
      BY <1>e, <1>sw, <1>nw DEF Work
    <2>2. Cardinality(Taken') + Work' <= Cardinality(Taken) + Work /\ Cardinality(Taken') \in Nat /\ Work' <= Work
      BY <2>1, <1>g, <1>n
    <2> QED
      BY <1>i, <2>1, <2>2, <1>sc, <1>nc DEF CountsHold
  <1>M. RemovalsHold'
    BY <1>i, <1>u, Frame
  <1>S. SendersHold'
    BY <1>i, <1>u, Frame
  <1>H. HandlersHold'
    BY <1>i, <1>c, <1>m DEF HandlersHold
  <1>F. FetcherHolds'
    BY <1>i, <1>u, Frame
  <1>E. EndsHold'
    BY <1>i, <1>u, Frame
  <1>P. ProcessorsApart'
    <2>1. \A m \in Versions, j \in Keys : HandlesKey(m, j)' <=> m # n /\ HandlesKey(m, j)
      BY <1>c, <1>m DEF HandlesKey
    <2>2. \A j \in Keys : FetchesKey(j)' = FetchesKey(j)
      BY <1>u DEF FetchesKey
    <2>3. \A m \in Versions \ {n} : handlers'[m] = handlers[m]
      BY <1>m
    <2>4. HandlesKey(n, r.key)
      BY <1>a, <1>b DEF HandlesKey
    <2>5. \A j \in Keys : j # r.key => idsByKey'[j] = idsByKey[j]
      BY <1>g
    <2> QED
      BY <1>i, <1>u, <1>a, <2>1, <2>2, <2>3, <2>4, <2>5 DEF ProcessorsApart
  <1>R. ReadersMatchPackets'
    <2>r. ReadersMatchPackets
      BY <1>i
    <2> QED
      BY <2>r, <1>e, <1>sr, <1>nr DEF ReadersMatchPackets
  <1>O. OneRecordPerKey'
    BY <1>g
  <1>T. NotesTypeOK'
    <2>1. notifications' \in [Ids -> Packets] /\ idsByKey' \in [Keys -> Ids \cup {None}]
      BY <1>g
    <2>2. handlers' \in [Versions -> [at : {"none", "reading", "remove", "insert"}, packet : Packets]]
      BY <1>i, <1>c, PacketFacts DEF NotesTypeOK, Over, Reader
    <2> QED
      BY <1>i, <1>u, <2>1, <2>2 DEF NotesTypeOK
  <1> QED
    BY <1>C, <1>M, <1>S, <1>H, <1>F, <1>E, <1>P, <1>R, <1>O, <1>T DEF NotesIInv

(* A removal that comes late empties the key's entry again. *)
LEMMA HandleRemovedStep ==
  ASSUME NotesIInv, NEW k \in Keys, HandleRemoved(k)
  PROVE  NotesIInv'
  <1>i. NotesTypeOK /\ SendersHold /\ HandlersHold /\ FetcherHolds /\ EndsHold
        /\ CountsHold /\ RemovalsHold /\ ProcessorsApart /\ ReadersMatchPackets /\ OneRecordPerKey
    BY DEF NotesIInv
  <1>u. /\ datas' = datas /\ senders' = senders /\ signals' = signals
        /\ dismissals' = dismissals /\ answer' = answer /\ list' = list
        /\ packets' = packets /\ phoneEnd' = phoneEnd /\ deskEnd' = deskEnd
        /\ alive' = alive /\ handlers' = handlers /\ fetcher' = fetcher
        /\ posts' = posts /\ removed' = removed /\ skew' = skew
        /\ overlapped' = overlapped /\ apart' = apart
    BY DEF HandleRemoved, ProcessRemoval
  <1>nw. signals \in Nat /\ CountAt(handlers, Held) \in Nat /\ CountAt(senders, {"spawned"}) \in Nat
    BY <1>i, CountTypes
  <1>nc. /\ Cardinality(Taken) \in Nat /\ Work \in Nat /\ Awaited \in Nat /\ Inserting \in Nat
         /\ posts \in Nat /\ Listed \in Nat
    BY <1>i, CountTypes
  <1>sw. /\ CountAt(handlers, Held)' = CountAt(handlers, Held)
         /\ CountAt(senders, {"spawned"})' = CountAt(senders, {"spawned"})
         /\ signals' = signals
    BY <1>u, Same
  <1>sc. /\ Awaited' = Awaited /\ Inserting' = Inserting /\ Listed' = Listed
         /\ posts' = posts
    BY <1>u, Same
  <1>a. removals[k] > 0 /\ removals' = [removals EXCEPT ![k] = @ - 1] /\ ProcessRemoval(k)
    BY DEF HandleRemoved
  <1>b. removals \in [Keys -> Nat] /\ \A j \in Keys : removals[j] <= MaxRemovals /\ removals[j] <= removed
    BY <1>i, BoundFacts DEF NotesTypeOK, RemovalsHold
  <1>c. removals' \in [Keys -> Nat] /\ \A j \in Keys : removals'[j] <= removals[j]
    BY <1>a, <1>b
  <1>d. removed \in Nat /\ MaxRemovals \in Nat
    BY <1>i, BoundFacts DEF NotesTypeOK
  <1>g. /\ notifications' \in [Ids -> Packets] /\ idsByKey' \in [Keys -> Ids \cup {None}]
        /\ Cardinality(Taken') \in Nat /\ Cardinality(Taken') <= Cardinality(Taken)
        /\ \A j \in Keys : idsByKey'[j] \in {None, idsByKey[j]}
        /\ idsByKey'[k] = None
        /\ OneRecordPerKey'
    BY <1>i, <1>u, <1>a, RemovalFacts
  <1>C. CountsHold'
    <2>1. Work' = Work
      BY <1>sw, <1>nw DEF Work
    <2> QED
      BY <1>i, <2>1, <1>g, <1>sc, <1>nc DEF CountsHold
  <1>M. RemovalsHold'
    BY <1>u, <1>b, <1>c, <1>d DEF RemovalsHold
  <1>S. SendersHold'
    BY <1>i, <1>u, Frame
  <1>H. HandlersHold'
    BY <1>i, <1>u, Frame
  <1>F. FetcherHolds'
    BY <1>i, <1>u, Frame
  <1>E. EndsHold'
    BY <1>i, <1>u, Frame
  <1>P. ProcessorsApart'
    <2>1. \A m \in Versions, j \in Keys : HandlesKey(m, j)' = HandlesKey(m, j)
      BY <1>u DEF HandlesKey
    <2>2. \A j \in Keys : FetchesKey(j)' = FetchesKey(j)
      BY <1>u DEF FetchesKey
    <2>3. \A j \in Keys : idsByKey[j] = None => idsByKey'[j] = None
      BY <1>g
    <2> QED
      BY <1>i, <1>u, <2>1, <2>2, <2>3 DEF ProcessorsApart
  <1>R. ReadersMatchPackets'
    BY <1>i, <1>u, Frame
  <1>O. OneRecordPerKey'
    BY <1>g
  <1>T. NotesTypeOK'
    <2>1. notifications' \in [Ids -> Packets] /\ idsByKey' \in [Keys -> Ids \cup {None}]
      BY <1>g
    <2>2. removals' \in [Keys -> 0 .. MaxRemovals]
      <3>1. \A j \in Keys : removals'[j] \in 0 .. MaxRemovals
        BY <1>b, <1>c, <1>d
      <3> QED
        BY <3>1, <1>c
    <2> QED
      BY <1>i, <1>u, <2>1, <2>2 DEF NotesTypeOK
  <1> QED
    BY <1>C, <1>M, <1>S, <1>H, <1>F, <1>E, <1>P, <1>R, <1>O, <1>T DEF NotesIInv

(* The list is asked for when the desktop's end is up, so both are. *)
LEMMA FetchStep ==
  ASSUME NotesIInv, Fetch
  PROVE  NotesIInv'
  <1>i. NotesTypeOK /\ SendersHold /\ HandlersHold /\ FetcherHolds /\ EndsHold
        /\ CountsHold /\ RemovalsHold /\ ProcessorsApart /\ ReadersMatchPackets /\ OneRecordPerKey
    BY DEF NotesIInv
  <1>u. /\ datas' = datas /\ senders' = senders /\ signals' = signals
        /\ removals' = removals /\ dismissals' = dismissals /\ answer' = answer
        /\ list' = list /\ packets' = packets /\ phoneEnd' = phoneEnd
        /\ deskEnd' = deskEnd /\ alive' = alive /\ handlers' = handlers
        /\ notifications' = notifications /\ idsByKey' = idsByKey /\ posts' = posts
        /\ removed' = removed /\ skew' = skew /\ overlapped' = overlapped
    BY DEF Fetch
  <1>nw. signals \in Nat /\ CountAt(handlers, Held) \in Nat /\ CountAt(senders, {"spawned"}) \in Nat
    BY <1>i, CountTypes
  <1>nc. /\ Cardinality(Taken) \in Nat /\ Work \in Nat /\ Awaited \in Nat /\ Inserting \in Nat
         /\ posts \in Nat /\ Listed \in Nat
    BY <1>i, CountTypes
  <1>nr. /\ signals \in Nat /\ CountAt(handlers, {"reading"}) \in Nat /\ Awaited \in Nat
         /\ CountAt(senders, {"signalled", "sending"}) \in Nat /\ Cardinality(list) \in Nat /\ Len(packets) \in Nat
    BY <1>i, CountTypes
  <1>sw. /\ CountAt(handlers, Held)' = CountAt(handlers, Held)
         /\ CountAt(senders, {"spawned"})' = CountAt(senders, {"spawned"})
         /\ signals' = signals
    BY <1>u, Same
  <1>sc. /\ Cardinality(Taken') = Cardinality(Taken)
         /\ posts' = posts
    BY <1>u, Same
  <1>sr. /\ CountAt(handlers, {"reading"})' = CountAt(handlers, {"reading"})
         /\ CountAt(senders, {"signalled", "sending"})' = CountAt(senders, {"signalled", "sending"})
         /\ signals' = signals
         /\ list' = list
         /\ packets' = packets
         /\ skew' = skew
         /\ alive' = alive
    BY <1>u, Same
  <1>a. fetcher.at = "idle" /\ deskEnd = "CONNECTED" /\ fetcher' = [fetcher EXCEPT !.at = "asked"]
    BY DEF Fetch
  <1>b. answer = {} /\ fetcher.left = 0 /\ list = {}
    BY <1>i, <1>a DEF FetcherHolds
  <1>c. fetcher'.at = "asked" /\ fetcher'.left = fetcher.left /\ fetcher'.packet = fetcher.packet
    BY <1>i, <1>a DEF NotesTypeOK
  <1>d. Awaited' = Awaited /\ Listed' = Listed /\ Inserting' = Inserting
    BY <1>u, <1>a, <1>b, <1>c DEF Awaited, Listed, Inserting
  <1>C. CountsHold'
    <2>1. Work' = Work
      BY <1>sw, <1>nw DEF Work
    <2> QED
      BY <1>i, <2>1, <1>d, <1>sc, <1>nc DEF CountsHold
  <1>M. RemovalsHold'
    BY <1>i, <1>u, Frame
  <1>S. SendersHold'
    BY <1>i, <1>u, Frame
  <1>H. HandlersHold'
    BY <1>i, <1>u, Frame
  <1>F. FetcherHolds'
    BY <1>u, <1>b, <1>c DEF FetcherHolds
  <1>E. EndsHold'
    BY <1>i, <1>u, <1>a DEF EndsHold
  <1>P. ProcessorsApart'
    <2>1. \A m \in Versions, j \in Keys : HandlesKey(m, j)' = HandlesKey(m, j)
      BY <1>u DEF HandlesKey
    <2>2. \A j \in Keys : ~FetchesKey(j)'
      BY <1>c DEF FetchesKey
    <2> QED
      BY <1>i, <1>u, <2>1, <2>2 DEF ProcessorsApart
  <1>R. ReadersMatchPackets'
    <2>r. ReadersMatchPackets
      BY <1>i
    <2> QED
      BY <2>r, <1>d, <1>sr, <1>nr DEF ReadersMatchPackets
  <1>O. OneRecordPerKey'
    BY <1>i, <1>u, Frame
  <1>T. NotesTypeOK'
    <2>1. fetcher' \in [at : {"idle", "asked", "answered", "reading", "remove", "insert", "over"},
                       left : 0 .. Cardinality(Keys), packet : Packets]
      BY <1>i, <1>a DEF NotesTypeOK
    <2>2. apart' \in BOOLEAN
      BY <1>i DEF Fetch, Quiet, NotesTypeOK
    <2> QED
      BY <1>i, <1>u, <2>1, <2>2 DEF NotesTypeOK
  <1> QED
    BY <1>C, <1>M, <1>S, <1>H, <1>F, <1>E, <1>P, <1>R, <1>O, <1>T DEF NotesIInv

(* The cache is cleared, both maps of it, and the fetcher owes as many reads as the answer says. *)
LEMMA FetchAnsweredStep ==
  ASSUME NotesIInv, FetchAnswered
  PROVE  NotesIInv'
  <1>i. NotesTypeOK /\ SendersHold /\ HandlersHold /\ FetcherHolds /\ EndsHold
        /\ CountsHold /\ RemovalsHold /\ ProcessorsApart /\ ReadersMatchPackets /\ OneRecordPerKey
    BY DEF NotesIInv
  <1>u. /\ datas' = datas /\ senders' = senders /\ signals' = signals
        /\ removals' = removals /\ dismissals' = dismissals /\ list' = list
        /\ packets' = packets /\ phoneEnd' = phoneEnd /\ deskEnd' = deskEnd
        /\ alive' = alive /\ handlers' = handlers /\ posts' = posts
        /\ removed' = removed /\ skew' = skew /\ overlapped' = overlapped
        /\ apart' = apart
    BY DEF FetchAnswered
  <1>nw. signals \in Nat /\ CountAt(handlers, Held) \in Nat /\ CountAt(senders, {"spawned"}) \in Nat
    BY <1>i, CountTypes
  <1>nc. /\ Cardinality(Taken) \in Nat /\ Work \in Nat /\ Awaited \in Nat /\ Inserting \in Nat
         /\ posts \in Nat /\ Listed \in Nat
    BY <1>i, CountTypes
  <1>nr. /\ signals \in Nat /\ CountAt(handlers, {"reading"}) \in Nat /\ Awaited \in Nat
         /\ CountAt(senders, {"signalled", "sending"}) \in Nat /\ Cardinality(list) \in Nat /\ Len(packets) \in Nat
    BY <1>i, CountTypes
  <1>sw. /\ CountAt(handlers, Held)' = CountAt(handlers, Held)
         /\ CountAt(senders, {"spawned"})' = CountAt(senders, {"spawned"})
         /\ signals' = signals
    BY <1>u, Same
  <1>sc. /\ posts' = posts
    BY <1>u, Same
  <1>sr. /\ CountAt(handlers, {"reading"})' = CountAt(handlers, {"reading"})
         /\ CountAt(senders, {"signalled", "sending"})' = CountAt(senders, {"signalled", "sending"})
         /\ signals' = signals
         /\ list' = list
         /\ packets' = packets
         /\ skew' = skew
         /\ alive' = alive
    BY <1>u, Same
  <1>a. fetcher.at = "answered" /\ answer # {} /\ answer' = {}
    BY DEF FetchAnswered
  <1>b. PICK c \in 0 .. Cardinality(Keys) : answer = {c}
    BY <1>i, <1>a DEF NotesTypeOK
  <1>c. fetcher' = [fetcher EXCEPT !.left = c, !.at = IF c = 0 THEN "over" ELSE "reading"]
    BY <1>b DEF FetchAnswered
  <1>d. fetcher'.at = (IF c = 0 THEN "over" ELSE "reading") /\ fetcher'.left = c /\ fetcher'.packet = fetcher.packet
    BY <1>i, <1>c DEF NotesTypeOK
  <1>e. Awaited' = Awaited
    BY <1>a, <1>b, <1>d DEF Awaited
  <1>f. Listed' = Listed /\ Inserting' = Inserting
    BY <1>a, <1>d DEF Listed, Inserting
  <1>g. notifications' = [i \in Ids |-> NoRecord] /\ idsByKey' = [k \in Keys |-> None]
    BY DEF FetchAnswered
  <1>h. Cardinality(Taken') = 0
    <2>1. Taken' = {}
      BY <1>g DEF Taken
    <2> QED
      BY <2>1, FS_EmptySet
  <1>k. phoneEnd # "CONNECTING" /\ c \in Nat
    BY <1>i, <1>a, BoundFacts DEF EndsHold
  <1>C. CountsHold'
    <2>1. Work' = Work
      BY <1>sw, <1>nw DEF Work
    <2> QED
      BY <1>i, <2>1, <1>e, <1>f, <1>h, <1>sc, <1>nc DEF CountsHold
  <1>M. RemovalsHold'
    BY <1>i, <1>u, Frame
  <1>S. SendersHold'
    BY <1>i, <1>u, Frame
  <1>H. HandlersHold'
    BY <1>i, <1>u, Frame
  <1>F. FetcherHolds'
    BY <1>u, <1>a, <1>d, <1>k DEF FetcherHolds
  <1>E. EndsHold'
    BY <1>i, <1>u, <1>k DEF EndsHold
  <1>P. ProcessorsApart'
    <2>1. \A m \in Versions, j \in Keys : HandlesKey(m, j)' = HandlesKey(m, j)
      BY <1>u DEF HandlesKey
    <2>2. \A j \in Keys : ~FetchesKey(j)'
      BY <1>d DEF FetchesKey
    <2>3. \A j \in Keys : idsByKey'[j] = None
      BY <1>g
    <2> QED
      BY <1>i, <1>u, <2>1, <2>2, <2>3 DEF ProcessorsApart
  <1>R. ReadersMatchPackets'
    <2>r. ReadersMatchPackets
      BY <1>i
    <2> QED
      BY <2>r, <1>e, <1>sr, <1>nr DEF ReadersMatchPackets
  <1>O. OneRecordPerKey'
    <2>1. NoRecord.key \notin Keys
      BY PacketFacts, BoundFacts
    <2> QED
      BY <1>g, <2>1 DEF OneRecordPerKey
  <1>T. NotesTypeOK'
    <2>1. fetcher' \in [at : {"idle", "asked", "answered", "reading", "remove", "insert", "over"},
                       left : 0 .. Cardinality(Keys), packet : Packets]
      BY <1>i, <1>c DEF NotesTypeOK
    <2>2. notifications' \in [Ids -> Packets] /\ idsByKey' \in [Keys -> Ids \cup {None}]
      BY <1>g, PacketFacts
    <2>3. answer' = {} \/ \E d \in 0 .. Cardinality(Keys) : answer' = {d}
      BY <1>a
    <2> QED
      BY <1>i, <1>u, <2>1, <2>2, <2>3 DEF NotesTypeOK
  <1> QED
    BY <1>C, <1>M, <1>S, <1>H, <1>F, <1>E, <1>P, <1>R, <1>O, <1>T DEF NotesIInv

(* The fetcher reads one packet for each the answer counted. *)
LEMMA FetchReadStep ==
  ASSUME NotesIInv, FetchRead
  PROVE  NotesIInv'
  <1>i. NotesTypeOK /\ SendersHold /\ HandlersHold /\ FetcherHolds /\ EndsHold
        /\ CountsHold /\ RemovalsHold /\ ProcessorsApart /\ ReadersMatchPackets /\ OneRecordPerKey
    BY DEF NotesIInv
  <1>u. /\ datas' = datas /\ senders' = senders /\ signals' = signals
        /\ removals' = removals /\ dismissals' = dismissals /\ answer' = answer
        /\ list' = list /\ phoneEnd' = phoneEnd /\ alive' = alive
        /\ handlers' = handlers /\ notifications' = notifications
        /\ idsByKey' = idsByKey /\ posts' = posts /\ removed' = removed
        /\ skew' = skew /\ apart' = apart
    BY DEF FetchRead, Takes, FindsCut
  <1>n. /\ signals \in Nat /\ posts \in Nat /\ Work \in Nat
        /\ CountAt(handlers, Held) \in Nat /\ CountAt(senders, {"spawned"}) \in Nat
        /\ CountAt(handlers, {"reading"}) \in Nat /\ CountAt(senders, {"signalled", "sending"}) \in Nat
        /\ Cardinality(Taken) \in Nat /\ Awaited \in Nat /\ Inserting \in Nat /\ Listed \in Nat
        /\ Cardinality(list) \in Nat /\ Len(packets) \in Nat
    BY <1>i, CountTypes
  <1>nw. signals \in Nat /\ CountAt(handlers, Held) \in Nat /\ CountAt(senders, {"spawned"}) \in Nat
    BY <1>i, CountTypes
  <1>nc. /\ Cardinality(Taken) \in Nat /\ Work \in Nat /\ Awaited \in Nat /\ Inserting \in Nat
         /\ posts \in Nat /\ Listed \in Nat
    BY <1>i, CountTypes
  <1>nr. /\ signals \in Nat /\ CountAt(handlers, {"reading"}) \in Nat /\ Awaited \in Nat
         /\ CountAt(senders, {"signalled", "sending"}) \in Nat /\ Cardinality(list) \in Nat /\ Len(packets) \in Nat
    BY <1>i, CountTypes
  <1>sw. /\ CountAt(handlers, Held)' = CountAt(handlers, Held)
         /\ CountAt(senders, {"spawned"})' = CountAt(senders, {"spawned"})
         /\ signals' = signals
    BY <1>u, Same
  <1>sc. /\ Cardinality(Taken') = Cardinality(Taken)
         /\ posts' = posts
    BY <1>u, Same
  <1>sr. /\ CountAt(handlers, {"reading"})' = CountAt(handlers, {"reading"})
         /\ CountAt(senders, {"signalled", "sending"})' = CountAt(senders, {"signalled", "sending"})
         /\ signals' = signals
         /\ list' = list
         /\ skew' = skew
         /\ alive' = alive
    BY <1>u, Same
  <1>b. fetcher.at = "reading" /\ answer = {} /\ fetcher.left > 0 /\ fetcher.left \in Nat
    BY <1>i, BoundFacts DEF FetchRead, FetcherHolds, NotesTypeOK
  <1>a. \/ /\ packets # <<>> /\ fetcher' = [fetcher EXCEPT !.at = "remove", !.left = @ - 1, !.packet = Head(packets)]
           /\ packets' = Tail(packets) /\ deskEnd' = deskEnd
           /\ overlapped' = (overlapped \/ Processing(Head(packets).key))
        \/ /\ fetcher' = [fetcher EXCEPT !.at = "over", !.left = 0]
           /\ ~alive /\ packets' = packets /\ overlapped' = overlapped /\ deskEnd' = "DISCONNECTED"
    BY DEF FetchRead, Takes, FindsCut
  <1>h. /\ packets' \in Seq(Records)
        /\ packets # <<>> => Head(packets) \in Records /\ Len(Tail(packets)) = Len(packets) - 1
    <2>1. packets \in Seq(Records)
      BY <1>i DEF NotesTypeOK
    <2> QED
      BY <2>1, <1>a
  <1>c. \/ /\ packets # <<>> /\ fetcher'.at = "remove" /\ fetcher'.packet = Head(packets)
           /\ fetcher'.packet \in Records /\ fetcher'.left = fetcher.left - 1
           /\ overlapped' = (overlapped \/ Processing(fetcher'.packet.key))
        \/ fetcher'.at = "over" /\ fetcher'.left = 0 /\ fetcher'.packet = fetcher.packet /\ ~alive
    BY <1>i, <1>a, <1>h DEF NotesTypeOK
  <1>d. /\ Awaited = fetcher.left /\ Awaited' = fetcher'.left /\ Listed' = Listed
        /\ Inserting = 0 /\ Inserting' = IF fetcher'.at = "remove" THEN 1 ELSE 0
    BY <1>u, <1>b, <1>c DEF Awaited, Listed, Inserting
  <1>e. Awaited' \in Nat /\ Inserting' \in Nat /\ Awaited' + Inserting' <= Awaited + Inserting
    BY <1>b, <1>c, <1>d
  <1>C. CountsHold'
    <2>1. Work' = Work
      BY <1>sw, <1>nw DEF Work
    <2>2. Listed' = Listed
      BY <1>d
    <2>3. Cardinality(Taken') + Work' + Awaited' + Inserting' <= Cardinality(Taken) + Work + Awaited + Inserting
      <3>1. PICK a, b, c, d : a = Awaited /\ b = Inserting /\ c = Awaited' /\ d = Inserting'
        OBVIOUS
      <3>2. a \in Nat /\ b \in Nat /\ c \in Nat /\ d \in Nat /\ c + d <= a + b
        BY <3>1, <1>e, <1>n
      <3>3. PICK t, v : t = Cardinality(Taken) /\ v = Work /\ t \in Nat /\ v \in Nat
        BY <1>n
      <3>4. t + v + c + d <= t + v + a + b
        BY <3>2, <3>3
      <3>5. Cardinality(Taken') = t /\ Work' = v
        BY <3>3, <2>1, <1>sc
      <3> QED
        BY <3>1, <3>3, <3>4, <3>5
    <2>4. Cardinality(Taken) + Work + Awaited + Inserting <= posts + Listed /\ Work <= posts
      BY <1>i DEF CountsHold
    <2>5. Cardinality(Taken') + Work' + Awaited' + Inserting' <= posts + Listed
      BY <2>1, <2>3, <2>4, <1>e, <1>sc, <1>nc
    <2> QED
      BY <2>1, <2>2, <2>4, <2>5, <1>u DEF CountsHold
  <1>M. RemovalsHold'
    BY <1>i, <1>u, Frame
  <1>S. SendersHold'
    BY <1>i, <1>u, Frame
  <1>H. HandlersHold'
    BY <1>i, <1>u, Frame
  <1>F. FetcherHolds'
    BY <1>u, <1>b, <1>c DEF FetcherHolds
  <1>E. EndsHold'
    BY <1>i, <1>u, <1>a, <1>b DEF EndsHold
  <1>P. ProcessorsApart'
    <2> SUFFICES ASSUME ~overlapped'
                 PROVE  ProcessorsApart'
      BY DEF ProcessorsApart
    <2>1. \A m \in Versions, j \in Keys : HandlesKey(m, j)' = HandlesKey(m, j)
      BY <1>u DEF HandlesKey
    <2>2. ~overlapped
      BY <1>i, <1>a DEF NotesTypeOK
    <2>3. fetcher'.at = "remove" => ~Processing(fetcher'.packet.key)
      BY <1>c
    <2>4. \A m \in Versions, j \in Keys : HandlesKey(m, j) => Processing(j)
      BY DEF Processing, HandlesKey
    <2>5. \A j \in Keys : FetchesKey(j)' => fetcher'.at = "remove" /\ fetcher'.packet.key = j
      BY <1>c DEF FetchesKey
    <2>6. fetcher'.at # "insert"
      BY <1>c
    <2> QED
      BY <1>i, <1>u, <2>1, <2>2, <2>3, <2>4, <2>5, <2>6 DEF ProcessorsApart
  <1>R. ReadersMatchPackets'
    <2>1. CASE alive
      <3>1. Len(packets') = Len(packets) - 1 /\ Awaited' = Awaited - 1
        BY <2>1, <1>a, <1>c, <1>d, <1>h
      <3> QED
        BY <1>i, <3>1, <1>sr, <1>nr DEF ReadersMatchPackets
    <2>2. CASE ~alive
      BY <2>2, <1>u DEF ReadersMatchPackets
    <2> QED
      BY <2>1, <2>2
  <1>O. OneRecordPerKey'
    BY <1>i, <1>u, <1>a DEF OneRecordPerKey
  <1>T. NotesTypeOK'
    <2>1. fetcher' \in [at : {"idle", "asked", "answered", "reading", "remove", "insert", "over"},
                       left : 0 .. Cardinality(Keys), packet : Packets]
      <3>1. fetcher'.left \in 0 .. Cardinality(Keys)
        <4>1. fetcher.left <= Cardinality(Keys) /\ Cardinality(Keys) \in Nat
          BY <1>i, BoundFacts DEF NotesTypeOK
        <4> QED
          BY <4>1, <1>b, <1>c
      <3>2. fetcher'.packet \in Packets
        BY <1>i, <1>c, PacketFacts DEF NotesTypeOK
      <3>3. fetcher \in [at : {"idle", "asked", "answered", "reading", "remove", "insert", "over"},
                        left : Nat, packet : Packets]
        BY <1>i, BoundFacts DEF NotesTypeOK
      <3>4. fetcher' = [at |-> fetcher'.at, left |-> fetcher'.left, packet |-> fetcher'.packet]
        BY <1>a, <3>3
      <3> QED
        BY <3>1, <3>2, <3>4, <1>c
    <2>2. packets' \in Seq(Records)
      BY <1>h
    <2>3. deskEnd' \in {"CONNECTING", "CONNECTED", "DISCONNECTED"} /\ overlapped' \in BOOLEAN
      BY <1>i, <1>a DEF NotesTypeOK, Processing
    <2> QED
      BY <1>i, <1>u, <2>1, <2>2, <2>3 DEF NotesTypeOK
  <1> QED
    BY <1>C, <1>M, <1>S, <1>H, <1>F, <1>E, <1>P, <1>R, <1>O, <1>T DEF NotesIInv

(* The fetcher processes a packet as a handler does. *)
LEMMA FetchRemoveOldStep ==
  ASSUME NotesIInv, FetchRemoveOld
  PROVE  NotesIInv'
  <1>i. NotesTypeOK /\ SendersHold /\ HandlersHold /\ FetcherHolds /\ EndsHold
        /\ CountsHold /\ RemovalsHold /\ ProcessorsApart /\ ReadersMatchPackets /\ OneRecordPerKey
    BY DEF NotesIInv
  <1>u. /\ datas' = datas /\ senders' = senders /\ signals' = signals
        /\ removals' = removals /\ dismissals' = dismissals /\ answer' = answer
        /\ list' = list /\ packets' = packets /\ phoneEnd' = phoneEnd
        /\ deskEnd' = deskEnd /\ alive' = alive /\ handlers' = handlers
        /\ posts' = posts /\ removed' = removed /\ skew' = skew
        /\ overlapped' = overlapped /\ apart' = apart
    BY DEF FetchRemoveOld, ProcessRemoval
  <1>nw. signals \in Nat /\ CountAt(handlers, Held) \in Nat /\ CountAt(senders, {"spawned"}) \in Nat
    BY <1>i, CountTypes
  <1>nc. /\ Cardinality(Taken) \in Nat /\ Work \in Nat /\ Awaited \in Nat /\ Inserting \in Nat
         /\ posts \in Nat /\ Listed \in Nat
    BY <1>i, CountTypes
  <1>nr. /\ signals \in Nat /\ CountAt(handlers, {"reading"}) \in Nat /\ Awaited \in Nat
         /\ CountAt(senders, {"signalled", "sending"}) \in Nat /\ Cardinality(list) \in Nat /\ Len(packets) \in Nat
    BY <1>i, CountTypes
  <1>sw. /\ CountAt(handlers, Held)' = CountAt(handlers, Held)
         /\ CountAt(senders, {"spawned"})' = CountAt(senders, {"spawned"})
         /\ signals' = signals
    BY <1>u, Same
  <1>sc. /\ posts' = posts
    BY <1>u, Same
  <1>sr. /\ CountAt(handlers, {"reading"})' = CountAt(handlers, {"reading"})
         /\ CountAt(senders, {"signalled", "sending"})' = CountAt(senders, {"signalled", "sending"})
         /\ signals' = signals
         /\ list' = list
         /\ packets' = packets
         /\ skew' = skew
         /\ alive' = alive
    BY <1>u, Same
  <1>b. fetcher.at = "remove" /\ fetcher.packet \in Records /\ answer = {}
    BY <1>i DEF FetchRemoveOld, FetcherHolds
  <1>a. PICK k \in Keys : k = fetcher.packet.key /\ ProcessRemoval(k)
    BY <1>b, PacketFacts DEF FetchRemoveOld
  <1>g. /\ notifications' \in [Ids -> Packets] /\ idsByKey' \in [Keys -> Ids \cup {None}]
        /\ Cardinality(Taken') \in Nat /\ Cardinality(Taken') <= Cardinality(Taken)
        /\ \A j \in Keys : idsByKey'[j] \in {None, idsByKey[j]}
        /\ idsByKey'[k] = None
        /\ OneRecordPerKey'
    BY <1>i, <1>u, <1>a, RemovalFacts
  <1>f. fetcher' = [fetcher EXCEPT !.at = "insert"]
    BY DEF FetchRemoveOld
  <1>c. fetcher'.at = "insert" /\ fetcher'.left = fetcher.left /\ fetcher'.packet = fetcher.packet
    BY <1>i, <1>f DEF NotesTypeOK
  <1>d. Awaited' = Awaited /\ Listed' = Listed /\ Inserting' = Inserting
    BY <1>u, <1>b, <1>c DEF Awaited, Listed, Inserting
  <1>C. CountsHold'
    <2>1. Work' = Work
      BY <1>sw, <1>nw DEF Work
    <2> QED
      BY <1>i, <2>1, <1>d, <1>g, <1>sc, <1>nc DEF CountsHold
  <1>M. RemovalsHold'
    BY <1>i, <1>u, Frame
  <1>S. SendersHold'
    BY <1>i, <1>u, Frame
  <1>H. HandlersHold'
    BY <1>i, <1>u, Frame
  <1>F. FetcherHolds'
    BY <1>u, <1>b, <1>c DEF FetcherHolds
  <1>E. EndsHold'
    BY <1>i, <1>u, <1>b DEF EndsHold
  <1>P. ProcessorsApart'
    <2>1. \A m \in Versions, j \in Keys : HandlesKey(m, j)' = HandlesKey(m, j)
      BY <1>u DEF HandlesKey
    <2>2. \A j \in Keys : FetchesKey(j)' = FetchesKey(j)
      BY <1>b, <1>c DEF FetchesKey
    <2>3. \A j \in Keys : FetchesKey(j) => idsByKey'[j] = None
      BY <1>a, <1>g DEF FetchesKey
    <2>4. \A j \in Keys : idsByKey[j] = None => idsByKey'[j] = None
      BY <1>g
    <2> QED
      BY <1>i, <1>u, <2>1, <2>2, <2>3, <2>4 DEF ProcessorsApart
  <1>R. ReadersMatchPackets'
    <2>r. ReadersMatchPackets
      BY <1>i
    <2> QED
      BY <2>r, <1>d, <1>sr, <1>nr DEF ReadersMatchPackets
  <1>O. OneRecordPerKey'
    BY <1>g
  <1>T. NotesTypeOK'
    <2>1. notifications' \in [Ids -> Packets] /\ idsByKey' \in [Keys -> Ids \cup {None}]
      BY <1>g
    <2>2. fetcher' \in [at : {"idle", "asked", "answered", "reading", "remove", "insert", "over"},
                       left : 0 .. Cardinality(Keys), packet : Packets]
      BY <1>i, <1>f DEF NotesTypeOK
    <2> QED
      BY <1>i, <1>u, <2>1, <2>2 DEF NotesTypeOK
  <1> QED
    BY <1>C, <1>M, <1>S, <1>H, <1>F, <1>E, <1>P, <1>R, <1>O, <1>T DEF NotesIInv

(* And stops reading when it has read as many as it owed. *)
LEMMA FetchInsertNewStep ==
  ASSUME NotesIInv, FetchInsertNew
  PROVE  NotesIInv'
  <1>i. NotesTypeOK /\ SendersHold /\ HandlersHold /\ FetcherHolds /\ EndsHold
        /\ CountsHold /\ RemovalsHold /\ ProcessorsApart /\ ReadersMatchPackets /\ OneRecordPerKey
    BY DEF NotesIInv
  <1>u. /\ datas' = datas /\ senders' = senders /\ signals' = signals
        /\ removals' = removals /\ dismissals' = dismissals /\ answer' = answer
        /\ list' = list /\ packets' = packets /\ phoneEnd' = phoneEnd
        /\ deskEnd' = deskEnd /\ alive' = alive /\ handlers' = handlers
        /\ posts' = posts /\ removed' = removed /\ skew' = skew
        /\ overlapped' = overlapped /\ apart' = apart
    BY DEF FetchInsertNew, Insert
  <1>n. /\ signals \in Nat /\ posts \in Nat /\ Work \in Nat
        /\ CountAt(handlers, Held) \in Nat /\ CountAt(senders, {"spawned"}) \in Nat
        /\ CountAt(handlers, {"reading"}) \in Nat /\ CountAt(senders, {"signalled", "sending"}) \in Nat
        /\ Cardinality(Taken) \in Nat /\ Awaited \in Nat /\ Inserting \in Nat /\ Listed \in Nat
        /\ Cardinality(list) \in Nat /\ Len(packets) \in Nat
    BY <1>i, CountTypes
  <1>nw. signals \in Nat /\ CountAt(handlers, Held) \in Nat /\ CountAt(senders, {"spawned"}) \in Nat
    BY <1>i, CountTypes
  <1>nc. /\ Cardinality(Taken) \in Nat /\ Work \in Nat /\ Awaited \in Nat /\ Inserting \in Nat
         /\ posts \in Nat /\ Listed \in Nat
    BY <1>i, CountTypes
  <1>nr. /\ signals \in Nat /\ CountAt(handlers, {"reading"}) \in Nat /\ Awaited \in Nat
         /\ CountAt(senders, {"signalled", "sending"}) \in Nat /\ Cardinality(list) \in Nat /\ Len(packets) \in Nat
    BY <1>i, CountTypes
  <1>sw. /\ CountAt(handlers, Held)' = CountAt(handlers, Held)
         /\ CountAt(senders, {"spawned"})' = CountAt(senders, {"spawned"})
         /\ signals' = signals
    BY <1>u, Same
  <1>sc. /\ posts' = posts
    BY <1>u, Same
  <1>sr. /\ CountAt(handlers, {"reading"})' = CountAt(handlers, {"reading"})
         /\ CountAt(senders, {"signalled", "sending"})' = CountAt(senders, {"signalled", "sending"})
         /\ signals' = signals
         /\ list' = list
         /\ packets' = packets
         /\ skew' = skew
         /\ alive' = alive
    BY <1>u, Same
  <1>a. PICK r \in Records : r = fetcher.packet /\ r.key \in Keys
    BY <1>i, PacketFacts DEF FetchInsertNew, FetcherHolds
  <1>b. fetcher.at = "insert" /\ Insert(r) /\ answer = {}
    BY <1>i, <1>a DEF FetchInsertNew, FetcherHolds
  <1>f. fetcher' = [fetcher EXCEPT !.packet = NoRecord, !.at = IF fetcher.left = 0 THEN "over" ELSE "reading"]
    BY DEF FetchInsertNew
  <1>c. /\ fetcher'.at = IF fetcher.left = 0 THEN "over" ELSE "reading"
        /\ fetcher'.left = fetcher.left /\ fetcher.left \in Nat
    BY <1>i, <1>f, BoundFacts DEF NotesTypeOK
  <1>d. Awaited' = Awaited /\ Listed' = Listed /\ Inserting = 1 /\ Inserting' = 0
    BY <1>u, <1>b, <1>c DEF Awaited, Listed, Inserting
  <1>g. /\ notifications' \in [Ids -> Packets] /\ idsByKey' \in [Keys -> Ids \cup {None}]
        /\ Cardinality(Taken') \in Nat /\ Cardinality(Taken') <= Cardinality(Taken) + 1
        /\ \A j \in Keys \ {r.key} : idsByKey'[j] = idsByKey[j]
        /\ OneRecordPerKey'
    <2>1. Cardinality(Taken) < Cardinality(Ids)
      <3>1. Cardinality(Taken) + Work + Awaited + Inserting <= posts + Listed
        BY <1>i DEF CountsHold
      <3>2. posts <= MaxPosts /\ MaxPosts \in Nat /\ Cardinality(Keys) \in Nat
            /\ Cardinality(Ids) = MaxPosts + Cardinality(Keys)
        BY <1>i, BoundFacts DEF NotesTypeOK
      <3>3. Listed <= Cardinality(Keys)
        BY <3>2 DEF Listed
      <3>4. Work >= 1 \/ Inserting >= 1
        BY <1>d, <1>n
      <3> QED
        BY <3>1, <3>2, <3>3, <3>4, <1>n
    <2>2. ~overlapped => idsByKey[r.key] = None
      BY <1>i, <1>a, <1>b DEF ProcessorsApart, FetchesKey
    <2> QED
      BY <1>i, <1>u, <1>a, <1>b, <2>1, <2>2, InsertFacts
  <1>C. CountsHold'
    <2>1. Work' = Work
      BY <1>sw, <1>nw DEF Work
    <2>2. Cardinality(Taken') + Inserting' <= Cardinality(Taken) + Inserting /\ Cardinality(Taken') \in Nat
      BY <1>d, <1>g, <1>n
    <2> QED
      BY <1>i, <2>1, <2>2, <1>d, <1>sc, <1>nc DEF CountsHold
  <1>M. RemovalsHold'
    BY <1>i, <1>u, Frame
  <1>S. SendersHold'
    BY <1>i, <1>u, Frame
  <1>H. HandlersHold'
    BY <1>i, <1>u, Frame
  <1>F. FetcherHolds'
    BY <1>u, <1>b, <1>c DEF FetcherHolds
  <1>E. EndsHold'
    BY <1>i, <1>u, <1>b DEF EndsHold
  <1>P. ProcessorsApart'
    <2>1. \A m \in Versions, j \in Keys : HandlesKey(m, j)' = HandlesKey(m, j)
      BY <1>u DEF HandlesKey
    <2>2. \A j \in Keys : ~FetchesKey(j)'
      BY <1>c DEF FetchesKey
    <2>3. \A m \in Versions : ~overlapped => ~HandlesKey(m, r.key)
      BY <1>i, <1>a, <1>b DEF ProcessorsApart, FetchesKey
    <2>4. \A j \in Keys : j # r.key => idsByKey'[j] = idsByKey[j]
      BY <1>g
    <2> QED
      BY <1>i, <1>u, <2>1, <2>2, <2>3, <2>4 DEF ProcessorsApart
  <1>R. ReadersMatchPackets'
    <2>r. ReadersMatchPackets
      BY <1>i
    <2> QED
      BY <2>r, <1>d, <1>sr, <1>nr DEF ReadersMatchPackets
  <1>O. OneRecordPerKey'
    BY <1>g
  <1>T. NotesTypeOK'
    <2>1. notifications' \in [Ids -> Packets] /\ idsByKey' \in [Keys -> Ids \cup {None}]
      BY <1>g
    <2>2. fetcher' \in [at : {"idle", "asked", "answered", "reading", "remove", "insert", "over"},
                       left : 0 .. Cardinality(Keys), packet : Packets]
      BY <1>i, <1>f, PacketFacts DEF NotesTypeOK
    <2> QED
      BY <1>i, <1>u, <2>1, <2>2 DEF NotesTypeOK
  <1> QED
    BY <1>C, <1>M, <1>S, <1>H, <1>F, <1>E, <1>P, <1>R, <1>O, <1>T DEF NotesIInv

(* A packet that becomes no record leaves the table as it found it. *)
LEMMA PacketFailsStep ==
  ASSUME NotesIInv, NEW n \in Versions, PacketFails(n)
  PROVE  NotesIInv'
  <1>i. NotesTypeOK /\ SendersHold /\ HandlersHold /\ FetcherHolds /\ EndsHold
        /\ CountsHold /\ RemovalsHold /\ ProcessorsApart /\ ReadersMatchPackets /\ OneRecordPerKey
    BY DEF NotesIInv
  <1>u. /\ datas' = datas /\ senders' = senders /\ signals' = signals
        /\ removals' = removals /\ dismissals' = dismissals /\ answer' = answer
        /\ list' = list /\ packets' = packets /\ phoneEnd' = phoneEnd
        /\ deskEnd' = deskEnd /\ alive' = alive /\ fetcher' = fetcher
        /\ posts' = posts /\ removed' = removed /\ skew' = skew
        /\ overlapped' = overlapped /\ notifications' = notifications
        /\ idsByKey' = idsByKey /\ apart' = FALSE
    BY DEF PacketFails
  <1>n. /\ signals \in Nat /\ posts \in Nat /\ Work \in Nat
        /\ CountAt(handlers, Held) \in Nat /\ CountAt(senders, {"spawned"}) \in Nat
        /\ CountAt(handlers, {"reading"}) \in Nat /\ CountAt(senders, {"signalled", "sending"}) \in Nat
        /\ Cardinality(Taken) \in Nat /\ Awaited \in Nat /\ Inserting \in Nat /\ Listed \in Nat
        /\ Cardinality(list) \in Nat /\ Len(packets) \in Nat
    BY <1>i, CountTypes
  <1>nw. signals \in Nat /\ CountAt(handlers, Held) \in Nat /\ CountAt(senders, {"spawned"}) \in Nat
    BY <1>i, CountTypes
  <1>nc. /\ Cardinality(Taken) \in Nat /\ Work \in Nat /\ Awaited \in Nat /\ Inserting \in Nat
         /\ posts \in Nat /\ Listed \in Nat
    BY <1>i, CountTypes
  <1>nr. /\ signals \in Nat /\ CountAt(handlers, {"reading"}) \in Nat /\ Awaited \in Nat
         /\ CountAt(senders, {"signalled", "sending"}) \in Nat /\ Cardinality(list) \in Nat /\ Len(packets) \in Nat
    BY <1>i, CountTypes
  <1>sw. /\ CountAt(senders, {"spawned"})' = CountAt(senders, {"spawned"})
         /\ signals' = signals
    BY <1>u, Same
  <1>sc. /\ Awaited' = Awaited /\ Inserting' = Inserting /\ Listed' = Listed
         /\ posts' = posts
    BY <1>u, Same
  <1>sr. /\ CountAt(senders, {"signalled", "sending"})' = CountAt(senders, {"signalled", "sending"})
         /\ Awaited' = Awaited
         /\ signals' = signals
         /\ list' = list
         /\ packets' = packets
         /\ skew' = skew
         /\ alive' = alive
    BY <1>u, Same
  <1>b. handlers[n].at \in {"remove", "insert"}
    BY DEF PacketFails
  <1>c. PICK w : handlers' = [handlers EXCEPT ![n] = w] /\ w = Over /\ w.at = "none"
    BY ReaderFacts DEF PacketFails
  <1>m. /\ CountAt(handlers, Held)' \in Nat
        /\ CountAt(handlers, Held)' = CountAt(handlers, Held)
             + (IF w.at \in Held THEN 1 ELSE 0) - (IF handlers[n].at \in Held THEN 1 ELSE 0)
        /\ CountAt(handlers, {"reading"})' = CountAt(handlers, {"reading"})
             + (IF w.at = "reading" THEN 1 ELSE 0) - (IF handlers[n].at = "reading" THEN 1 ELSE 0)
        /\ \A m \in Versions : handlers'[m] = IF m = n THEN w ELSE handlers[m]
    BY <1>i, <1>c, HandlerMoves
  <1>d. "none" \notin Held /\ "remove" \in Held /\ "insert" \in Held
    BY DEF Held
  <1>e. /\ CountAt(handlers, Held)' = CountAt(handlers, Held) - 1
        /\ CountAt(handlers, {"reading"})' = CountAt(handlers, {"reading"})
    BY <1>b, <1>c, <1>d, <1>m, <1>n
  <1>C. CountsHold'
    <2>1. Work' = Work - 1
      BY <1>e, <1>sw, <1>nw DEF Work
    <2>2. Cardinality(Taken') = Cardinality(Taken)
      BY <1>u, Same
    <2> QED
      BY <1>i, <2>1, <2>2, <1>sc, <1>nc DEF CountsHold
  <1>M. RemovalsHold'
    BY <1>i, <1>u, Frame
  <1>S. SendersHold'
    BY <1>i, <1>u, Frame
  <1>H. HandlersHold'
    BY <1>i, <1>c, <1>m DEF HandlersHold
  <1>F. FetcherHolds'
    BY <1>i, <1>u, Frame
  <1>E. EndsHold'
    BY <1>i, <1>u, Frame
  <1>P. ProcessorsApart'
    <2>1. \A m \in Versions, j \in Keys : HandlesKey(m, j)' <=> m # n /\ HandlesKey(m, j)
      BY <1>c, <1>m DEF HandlesKey
    <2>2. \A j \in Keys : FetchesKey(j)' = FetchesKey(j)
      BY <1>u DEF FetchesKey
    <2>3. \A m \in Versions \ {n} : handlers'[m] = handlers[m]
      BY <1>m
    <2> QED
      BY <1>i, <1>u, <2>1, <2>2, <2>3 DEF ProcessorsApart
  <1>R. ReadersMatchPackets'
    <2>r. ReadersMatchPackets
      BY <1>i
    <2> QED
      BY <2>r, <1>e, <1>sr, <1>nr DEF ReadersMatchPackets
  <1>O. OneRecordPerKey'
    BY <1>i, <1>u, Frame
  <1>T. NotesTypeOK'
    <2>2. handlers' \in [Versions -> [at : {"none", "reading", "remove", "insert"}, packet : Packets]]
      BY <1>i, <1>c, PacketFacts DEF NotesTypeOK, Over, Reader
    <2> QED
      BY <1>i, <1>u, <2>2 DEF NotesTypeOK
  <1> QED
    BY <1>C, <1>M, <1>S, <1>H, <1>F, <1>E, <1>P, <1>R, <1>O, <1>T DEF NotesIInv

(* Nor does the fetcher wait for it again. *)
LEMMA FetchPacketFailsStep ==
  ASSUME NotesIInv, FetchPacketFails
  PROVE  NotesIInv'
  <1>i. NotesTypeOK /\ SendersHold /\ HandlersHold /\ FetcherHolds /\ EndsHold
        /\ CountsHold /\ RemovalsHold /\ ProcessorsApart /\ ReadersMatchPackets /\ OneRecordPerKey
    BY DEF NotesIInv
  <1>u. /\ datas' = datas /\ senders' = senders /\ signals' = signals
        /\ removals' = removals /\ dismissals' = dismissals /\ answer' = answer
        /\ list' = list /\ packets' = packets /\ phoneEnd' = phoneEnd
        /\ deskEnd' = deskEnd /\ alive' = alive /\ handlers' = handlers
        /\ posts' = posts /\ removed' = removed /\ skew' = skew
        /\ overlapped' = overlapped /\ notifications' = notifications
        /\ idsByKey' = idsByKey /\ apart' = FALSE
    BY DEF FetchPacketFails
  <1>n. /\ signals \in Nat /\ posts \in Nat /\ Work \in Nat
        /\ CountAt(handlers, Held) \in Nat /\ CountAt(senders, {"spawned"}) \in Nat
        /\ CountAt(handlers, {"reading"}) \in Nat /\ CountAt(senders, {"signalled", "sending"}) \in Nat
        /\ Cardinality(Taken) \in Nat /\ Awaited \in Nat /\ Inserting \in Nat /\ Listed \in Nat
        /\ Cardinality(list) \in Nat /\ Len(packets) \in Nat
    BY <1>i, CountTypes
  <1>nw. signals \in Nat /\ CountAt(handlers, Held) \in Nat /\ CountAt(senders, {"spawned"}) \in Nat
    BY <1>i, CountTypes
  <1>nc. /\ Cardinality(Taken) \in Nat /\ Work \in Nat /\ Awaited \in Nat /\ Inserting \in Nat
         /\ posts \in Nat /\ Listed \in Nat
    BY <1>i, CountTypes
  <1>nr. /\ signals \in Nat /\ CountAt(handlers, {"reading"}) \in Nat /\ Awaited \in Nat
         /\ CountAt(senders, {"signalled", "sending"}) \in Nat /\ Cardinality(list) \in Nat /\ Len(packets) \in Nat
    BY <1>i, CountTypes
  <1>sw. /\ CountAt(handlers, Held)' = CountAt(handlers, Held)
         /\ CountAt(senders, {"spawned"})' = CountAt(senders, {"spawned"})
         /\ signals' = signals
    BY <1>u, Same
  <1>sc. /\ posts' = posts
    BY <1>u, Same
  <1>sr. /\ CountAt(handlers, {"reading"})' = CountAt(handlers, {"reading"})
         /\ CountAt(senders, {"signalled", "sending"})' = CountAt(senders, {"signalled", "sending"})
         /\ signals' = signals
         /\ list' = list
         /\ packets' = packets
         /\ skew' = skew
         /\ alive' = alive
    BY <1>u, Same
  <1>b. fetcher.at = "remove" /\ answer = {}
    BY <1>i DEF FetchPacketFails, FetcherHolds
  <1>f. fetcher' = [fetcher EXCEPT !.packet = NoRecord, !.at = IF fetcher.left = 0 THEN "over" ELSE "reading"]
    BY DEF FetchPacketFails
  <1>c. /\ fetcher'.at = IF fetcher.left = 0 THEN "over" ELSE "reading"
        /\ fetcher'.left = fetcher.left /\ fetcher.left \in Nat
    BY <1>i, <1>f, BoundFacts DEF NotesTypeOK
  <1>d. Awaited' = Awaited /\ Listed' = Listed /\ Inserting = 1 /\ Inserting' = 0
    BY <1>u, <1>b, <1>c DEF Awaited, Listed, Inserting
  <1>C. CountsHold'
    <2>1. Work' = Work
      BY <1>sw, <1>nw DEF Work
    <2>2. Cardinality(Taken') = Cardinality(Taken)
      BY <1>u, Same
    <2> QED
      BY <1>i, <2>1, <2>2, <1>d, <1>sc, <1>nc DEF CountsHold
  <1>M. RemovalsHold'
    BY <1>i, <1>u, Frame
  <1>S. SendersHold'
    BY <1>i, <1>u, Frame
  <1>H. HandlersHold'
    BY <1>i, <1>u, Frame
  <1>F. FetcherHolds'
    BY <1>u, <1>b, <1>c DEF FetcherHolds
  <1>E. EndsHold'
    BY <1>i, <1>u, <1>b DEF EndsHold
  <1>P. ProcessorsApart'
    <2>1. \A m \in Versions, j \in Keys : HandlesKey(m, j)' = HandlesKey(m, j)
      BY <1>u DEF HandlesKey
    <2>2. \A j \in Keys : ~FetchesKey(j)'
      BY <1>c DEF FetchesKey
    <2> QED
      BY <1>i, <1>u, <2>1, <2>2 DEF ProcessorsApart
  <1>R. ReadersMatchPackets'
    <2>r. ReadersMatchPackets
      BY <1>i
    <2> QED
      BY <2>r, <1>d, <1>sr, <1>nr DEF ReadersMatchPackets
  <1>O. OneRecordPerKey'
    BY <1>i, <1>u, Frame
  <1>T. NotesTypeOK'
    <2>2. fetcher' \in [at : {"idle", "asked", "answered", "reading", "remove", "insert", "over"},
                       left : 0 .. Cardinality(Keys), packet : Packets]
      BY <1>i, <1>f, PacketFacts DEF NotesTypeOK
    <2> QED
      BY <1>i, <1>u, <2>2 DEF NotesTypeOK
  <1> QED
    BY <1>C, <1>M, <1>S, <1>H, <1>F, <1>E, <1>P, <1>R, <1>O, <1>T DEF NotesIInv

-------------------------------------------------------------------------------
(* The theorems *)

LEMMA NotesInitStep == NotesInit => NotesIInv
  <1> SUFFICES ASSUME NotesInit
               PROVE  NotesIInv
    OBVIOUS
  <1>1. NotesTypeOK
    <2>1. 0 \in 0 .. MaxPosts /\ 0 \in 0 .. MaxRemovals /\ 0 \in 0 .. Cardinality(Keys)
      BY BoundFacts
    <2>2. /\ Over \in [at : {"none", "spawned", "signalled", "sending"},
                       packet : Packets \cup [key : Keys, version : {None}]]
          /\ Over \in [at : {"none", "reading", "remove", "insert"}, packet : Packets]
      BY PacketFacts DEF Over, Reader
    <2>3. /\ datas \in [Keys -> 0 .. MaxPosts] /\ removals \in [Keys -> 0 .. MaxRemovals]
          /\ signals \in 0 .. MaxPosts /\ posts \in 0 .. MaxPosts /\ removed \in 0 .. MaxRemovals
      BY <2>1 DEF NotesInit
    <2>4. /\ senders \in [Versions -> [at : {"none", "spawned", "signalled", "sending"},
                                      packet : Packets \cup [key : Keys, version : {None}]]]
          /\ handlers \in [Versions -> [at : {"none", "reading", "remove", "insert"}, packet : Packets]]
      BY <2>2 DEF NotesInit
    <2>5. fetcher \in [at : {"idle", "asked", "answered", "reading", "remove", "insert", "over"},
                      left : 0 .. Cardinality(Keys), packet : Packets]
      BY <2>1, PacketFacts DEF NotesInit
    <2>6. notifications \in [Ids -> Packets] /\ idsByKey \in [Keys -> Ids \cup {None}]
      BY PacketFacts DEF NotesInit
    <2>7. packets \in Seq(Records)
      BY DEF NotesInit
    <2> QED
      BY <2>3, <2>4, <2>5, <2>6, <2>7 DEF NotesInit, NotesTypeOK
  <1>2. \A n \in Versions : senders[n] = Over /\ handlers[n] = Over
    BY DEF NotesInit
  <1>3. SendersHold /\ HandlersHold /\ EndsHold
    BY <1>2, ReaderFacts DEF NotesInit, SendersHold, HandlersHold, EndsHold
  <1>4. FetcherHolds /\ RemovalsHold
    BY DEF NotesInit, FetcherHolds, RemovalsHold
  <1>5. \A f, places : (\A n \in Versions : f[n].at \notin places) => CountAt(f, places) = 0
    <2> SUFFICES ASSUME NEW f, NEW places, \A n \in Versions : f[n].at \notin places
                 PROVE  CountAt(f, places) = 0
      OBVIOUS
    <2>1. {n \in Versions : f[n].at \in places} = {}
      OBVIOUS
    <2> QED
      BY <2>1, FS_EmptySet, Zenon DEF CountAt
  <1>6. /\ CountAt(handlers, Held) = 0 /\ CountAt(senders, {"spawned"}) = 0
        /\ CountAt(handlers, {"reading"}) = 0 /\ CountAt(senders, {"signalled", "sending"}) = 0
    <2>1. "none" \notin Held
      BY DEF Held
    <2>2. \A n \in Versions : senders[n].at = "none" /\ handlers[n].at = "none"
      BY <1>2, ReaderFacts
    <2>3. CountAt(handlers, Held) = 0
      BY <1>5, <2>1, <2>2
    <2>4. CountAt(senders, {"spawned"}) = 0
      <3>1. \A n \in Versions : senders[n].at \notin {"spawned"}
        BY <2>2
      <3> QED
        BY <1>5, <3>1, Zenon
    <2>5. CountAt(handlers, {"reading"}) = 0
      <3>1. \A n \in Versions : handlers[n].at \notin {"reading"}
        BY <2>2
      <3> QED
        BY <1>5, <3>1, Zenon
    <2>6. CountAt(senders, {"signalled", "sending"}) = 0
      <3>1. \A n \in Versions : senders[n].at \notin {"signalled", "sending"}
        BY <2>2
      <3> QED
        BY <1>5, <3>1, Zenon
    <2> QED
      BY <2>3, <2>4, <2>5, <2>6
  <1>7. Cardinality(Taken) = 0 /\ Cardinality(list) = 0
    <2>1. Taken = {} /\ list = {}
      BY DEF NotesInit, Taken
    <2> QED
      BY <2>1, FS_EmptySet
  <1>8. Awaited = 0 /\ Inserting = 0 /\ Listed = 0 /\ signals = 0 /\ posts = 0 /\ Len(packets) = 0
    BY DEF NotesInit, Awaited, Inserting, Listed
  <1>9. CountsHold
    BY <1>6, <1>7, <1>8 DEF CountsHold, Work
  <1>10. ProcessorsApart
    BY <1>2, ReaderFacts DEF NotesInit, ProcessorsApart, HandlesKey, FetchesKey
  <1>11. ReadersMatchPackets
    BY <1>6, <1>7, <1>8 DEF ReadersMatchPackets
  <1>12. OneRecordPerKey
    <2>1. NoRecord.key \notin Keys
      BY PacketFacts, BoundFacts
    <2> QED
      BY <2>1 DEF NotesInit, OneRecordPerKey
  <1> QED
    BY <1>1, <1>3, <1>4, <1>9, <1>10, <1>11, <1>12 DEF NotesIInv

LEMMA NotesNextStep == NotesIInv /\ [NotesNext]_notesVars => NotesIInv'
  <1> SUFFICES ASSUME NotesIInv, [NotesNext]_notesVars
               PROVE  NotesIInv'
    OBVIOUS
  <1>1. ASSUME NEW k \in Keys, Post(k) PROVE NotesIInv'
    BY <1>1, PostStep
  <1>2. ASSUME NEW k \in Keys, Removed(k) PROVE NotesIInv'
    BY <1>2, RemovedStep
  <1>3. ASSUME NEW k \in Keys, DismissNotificationByKey(k) PROVE NotesIInv'
    BY <1>3, DismissNotificationByKeyStep
  <1>4. ASSUME NEW k \in Keys, DismissNotificationOnPhone(k) PROVE NotesIInv'
    BY <1>4, DismissNotificationOnPhoneStep
  <1>5. ASSUME NEW k \in Keys, HandleRemoved(k) PROVE NotesIInv'
    BY <1>5, HandleRemovedStep
  <1>6. ASSUME NEW n \in Versions, Signal(n) PROVE NotesIInv'
    BY <1>6, SignalStep
  <1>7. ASSUME NEW n \in Versions, LookUp(n) PROVE NotesIInv'
    BY <1>7, LookUpStep
  <1>8. ASSUME NEW n \in Versions, SendPacket(n) PROVE NotesIInv'
    BY <1>8, SendPacketStep
  <1>9. ASSUME NEW n \in Versions, Read(n) PROVE NotesIInv'
    BY <1>9, ReadStep
  <1>10. ASSUME NEW n \in Versions, RemoveOld(n) PROVE NotesIInv'
    BY <1>10, RemoveOldStep
  <1>11. ASSUME NEW n \in Versions, InsertNew(n) PROVE NotesIInv'
    BY <1>11, InsertNewStep
  <1>12. CASE HandleNew
    BY <1>12, HandleNewStep
  <1>13. CASE Fetch
    BY <1>13, FetchStep
  <1>14. CASE AnswerList
    BY <1>14, AnswerListStep
  <1>15. CASE SendListed
    BY <1>15, SendListedStep
  <1>16. CASE FetchAnswered
    BY <1>16, FetchAnsweredStep
  <1>17. CASE FetchRead
    BY <1>17, FetchReadStep
  <1>18. CASE FetchRemoveOld
    BY <1>18, FetchRemoveOldStep
  <1>19. CASE FetchInsertNew
    BY <1>19, FetchInsertNewStep
  <1>20. CASE PhoneConnects
    BY <1>20, PhoneConnectsStep
  <1>21. CASE DesktopAccepts
    BY <1>21, DesktopAcceptsStep
  <1>22. CASE Cut
    BY <1>22, CutStep
  <1>23. CASE UNCHANGED notesVars
    <2>1. /\ datas' = datas /\ senders' = senders /\ signals' = signals
          /\ removals' = removals /\ dismissals' = dismissals /\ answer' = answer
          /\ list' = list /\ packets' = packets /\ phoneEnd' = phoneEnd
          /\ deskEnd' = deskEnd /\ alive' = alive /\ handlers' = handlers
          /\ fetcher' = fetcher /\ notifications' = notifications
          /\ idsByKey' = idsByKey /\ posts' = posts /\ removed' = removed
          /\ skew' = skew /\ overlapped' = overlapped /\ apart' = apart
      BY <1>23
    <2>2. NotesTypeOK'
      BY <2>1 DEF NotesIInv, NotesTypeOK
    <2> QED
      BY <2>1, <2>2, Frame DEF NotesIInv
  <1>24. ASSUME NEW n \in Versions, PacketFails(n) PROVE NotesIInv'
    BY <1>24, PacketFailsStep
  <1>25. CASE FetchPacketFails
    BY <1>25, FetchPacketFailsStep
  <1> QED
    BY <1>1, <1>2, <1>3, <1>4, <1>5, <1>6, <1>7, <1>8, <1>9, <1>10, <1>11, <1>12,
       <1>13, <1>14, <1>15, <1>16, <1>17, <1>18, <1>19, <1>20, <1>21, <1>22, <1>23,
       <1>24, <1>25
       DEF NotesNext, Handler, Fetching

(* Whatever the phone's listener, the user of the desktop, the coroutines of both *)
(* devices and the network do, the strengthened invariant holds.                  *)
THEOREM NotesInvariance == NotesSpec => []NotesIInv
  <1> QED
    BY NotesInitStep, NotesNextStep, PTL DEF NotesSpec

(* The state keeps its types: every signal finds a free handler, every record a *)
(* free id, and the list's count never goes below zero.                          *)
THEOREM NotesAreTyped == NotesSpec => []NotesTypeOK
  <1>1. NotesIInv => NotesTypeOK
    BY DEF NotesIInv
  <1> QED
    BY <1>1, NotesInvariance, PTL

(* While no signal was ignored and the channel stands, the readers of the desktop   *)
(* wait for exactly the packets on the way; and while the packets of a key come one *)
(* at a time, the desktop's two maps agree on one record per key.                    *)
THEOREM TheTableIsKept == NotesSpec => []NotificationsAreKept
  <1>1. NotesIInv => NotificationsAreKept
    BY DEF NotesIInv, NotificationsAreKept
  <1> QED
    BY <1>1, NotesInvariance, PTL

================================================================================
