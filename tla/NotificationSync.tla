---------------------------- MODULE NotificationSync ----------------------------
(***************************************************************************)
(* The phone's notifications shown on the desktop, from the moment the two *)
(* ends of the module's own channel come up: both NotificationSyncModule   *)
(* .cpp, NotificationTransferChannel.cpp and the phone's listener.         *)
(*                                                                         *)
(* A notification travels twice: NEW_NOTIFICATION, without content, on the *)
(* primary connection, and a packet on the channel.  Nothing ties the two  *)
(* together but their number.  Handlers of the primary connection's        *)
(* packages are coroutines of a pool, so signals and removals are handled  *)
(* in any order; the channel is a FIFO whose users take turns              *)
(* (WaitForIoSlot), so a packet is written and read in one step.           *)
(*                                                                         *)
(* Abstracted: the content of a notification is the number of the post     *)
(* that made it (its version); sender n is the coroutine that post n       *)
(* starts.  Ids of records are unique among those shown: every post and    *)
(* every key of the list needs one at most.                                *)
(* Bounds: MaxPosts notifications posted, MaxRemovals removals.            *)
(***************************************************************************)
EXTENDS Integers, FiniteSets, Sequences

CONSTANTS Keys, MaxPosts, MaxRemovals

ASSUME NotesBounds ==
    /\ IsFiniteSet(Keys) /\ 0 \notin Keys
    /\ MaxPosts \in Nat /\ MaxRemovals \in Nat

VARIABLES
    datas,          \* g_notificationDatas: the version of each key, or None
    senders,        \* SendNewNotification, per post
    signals,        \* how many NEW_NOTIFICATION packages are on the way
    removals,       \* NOTIFICATION_REMOVED packages on the way: how often each key
    dismissals,     \* DISMISS_NOTIFICATION packages on the way
    answer,         \* the answer to the list request on the way: its count, or None
    list,           \* what the phone still has to send of the list
    packets,        \* the channel
    phoneEnd,       \* m_connectionState of the phone's end
    deskEnd,        \* and of the desktop's
    alive,          \* the channel has not been cut
    handlers,       \* the coroutines that handle NEW_NOTIFICATION
    fetcher,        \* FetchNotificationList
    notifications,  \* m_notifications: per id a record, or NoRecord
    idsByKey,       \* m_notificationIdsByKey
    posts, removed, \* how many there were (bounds)
    skew,           \* ghost: a signal was ignored, or its notification was gone
    overlapped,     \* ghost: two packets of a key were processed at once
    apart           \* ghost: each event came when the one before had settled, and
                    \* every packet became a record

phone       == <<datas, senders, list>>
wire        == <<signals, removals, dismissals, answer, packets>>
channelEnds == <<phoneEnd, deskEnd, alive>>
desktop     == <<handlers, fetcher, notifications, idsByKey>>
counts      == <<posts, removed>>
ghosts      == <<skew, overlapped, apart>>
notesVars   == <<phone, wire, channelEnds, desktop, counts, ghosts>>

-------------------------------------------------------------------------------

None == 0
Versions == 1 .. MaxPosts
Ids == 1 .. MaxPosts + Cardinality(Keys)
NoRecord == [key |-> None, version |-> None]
Record(k, v) == [key |-> k, version |-> v]
Records == [key : Keys, version : Versions]

Posted == {k \in Keys : datas[k] # None}
Reader(at, r) == [at |-> at, packet |-> r]
Over == Reader("none", NoRecord)

Quiet ==
    /\ \A n \in Versions : senders[n] = Over /\ handlers[n] = Over
    /\ signals = 0 /\ \A k \in Keys : removals[k] = 0
    /\ dismissals = {} /\ answer = {} /\ list = {} /\ packets = <<>>
    /\ fetcher.at \in {"idle", "over"}

Packets == Records \cup {NoRecord}

NotesTypeOK ==
    /\ datas \in [Keys -> 0 .. MaxPosts]
    /\ senders \in [Versions -> [at : {"none", "spawned", "signalled", "sending"},
                                 packet : Packets \cup [key : Keys, version : {None}]]]
    /\ handlers \in [Versions -> [at : {"none", "reading", "remove", "insert"}, packet : Packets]]
    /\ signals \in 0 .. MaxPosts
    /\ removals \in [Keys -> 0 .. MaxRemovals] /\ dismissals \subseteq Keys
    /\ answer = {} \/ \E c \in 0 .. Cardinality(Keys) : answer = {c}
    /\ list \subseteq Records
    /\ packets \in Seq(Records)
    /\ phoneEnd \in {"CONNECTING", "CONNECTED", "DISCONNECTED"}
    /\ deskEnd \in {"CONNECTING", "CONNECTED", "DISCONNECTED"}
    /\ alive \in BOOLEAN
    /\ fetcher \in [at : {"idle", "asked", "answered", "reading", "remove", "insert", "over"},
                    left : 0 .. Cardinality(Keys), packet : Packets]
    /\ notifications \in [Ids -> Packets]
    /\ idsByKey \in [Keys -> Ids \cup {None}]
    /\ posts \in 0 .. MaxPosts /\ removed \in 0 .. MaxRemovals
    /\ skew \in BOOLEAN /\ overlapped \in BOOLEAN /\ apart \in BOOLEAN

NotesInit ==
    /\ datas = [k \in Keys |-> None]
    /\ senders = [n \in Versions |-> Over] /\ handlers = [n \in Versions |-> Over]
    /\ signals = 0 /\ removals = [k \in Keys |-> 0] /\ dismissals = {}
    /\ answer = {} /\ list = {} /\ packets = <<>>
    /\ phoneEnd = "CONNECTING" /\ deskEnd = "CONNECTING" /\ alive = TRUE
    /\ fetcher = [at |-> "idle", left |-> 0, packet |-> NoRecord]
    /\ notifications = [i \in Ids |-> NoRecord] /\ idsByKey = [k \in Keys |-> None]
    /\ posts = 0 /\ removed = 0
    /\ skew = FALSE /\ overlapped = FALSE /\ apart = TRUE

-------------------------------------------------------------------------------
(* The phone: its listener, and the coroutines its callbacks start. *)

(* onNotificationReceivedCPP: an update replaces what the key had, and the callback *)
(* starts a coroutine.                                                              *)
Received(k, version) ==
    /\ datas' = [datas EXCEPT ![k] = version]
    /\ senders' = [senders EXCEPT ![version] = Reader("spawned", Record(k, None))]

(* The listener is told of a notification it does not ignore. *)
Post(k) ==
    /\ posts < MaxPosts
    /\ posts' = posts + 1
    /\ Received(k, posts + 1)
    /\ apart' = (apart /\ Quiet)
    /\ UNCHANGED <<list, wire, channelEnds, desktop, removed, skew, overlapped>>

(* Variant: nobody tells the desktop. *)
ForgetQuietly(k) ==
    /\ removed < MaxRemovals
    /\ removed' = removed + 1
    /\ datas' = [datas EXCEPT ![k] = None]
    /\ UNCHANGED removals

(* onNotificationRemovedCPP and the coroutine that tells the desktop. *)
Forget(k) ==
    /\ removed < MaxRemovals
    /\ removed' = removed + 1
    /\ datas' = [datas EXCEPT ![k] = None]
    /\ removals' = [removals EXCEPT ![k] = @ + 1]

Removed(k) ==
    /\ datas[k] # None
    /\ Forget(k)
    /\ apart' = (apart /\ Quiet)
    /\ UNCHANGED <<senders, list, signals, dismissals, answer, packets, channelEnds, desktop, posts, skew, overlapped>>

(* Android tells the listener of a notification it cancelled; a dismissal of one that *)
(* is gone, or that cannot be cleared, does nothing.                                  *)
DismissNotificationOnPhone(k) ==
    /\ k \in dismissals
    /\ dismissals' = dismissals \ {k}
    /\ \/ datas[k] # None /\ Forget(k)
       \/ UNCHANGED <<datas, removals, removed>>
    /\ UNCHANGED <<senders, list, signals, answer, packets, channelEnds, desktop, posts, ghosts>>

Signal(n) ==
    /\ senders[n].at = "spawned"
    /\ IF phoneEnd = "CONNECTED"
       THEN senders' = [senders EXCEPT ![n].at = "signalled"] /\ signals' = signals + 1
       ELSE senders' = [senders EXCEPT ![n] = Over] /\ UNCHANGED signals
    /\ UNCHANGED <<datas, list, removals, dismissals, answer, packets, channelEnds, desktop, counts, ghosts>>

(* The notification is looked up after its signal: what is sent may be a later version. *)
LookUp(n) ==
    LET k == senders[n].packet.key IN
    /\ senders[n].at = "signalled"
    /\ IF datas[k] # None
       THEN senders' = [senders EXCEPT ![n] = Reader("sending", Record(k, datas[k]))] /\ UNCHANGED skew
       ELSE senders' = [senders EXCEPT ![n] = Over] /\ skew' = TRUE
    /\ UNCHANGED <<datas, list, wire, channelEnds, desktop, counts, overlapped, apart>>

(* Channel Send: a packet is written whole, or the writer finds the channel cut. *)
Writes(r) ==
    IF phoneEnd = "CONNECTED" /\ alive
    THEN packets' = Append(packets, r) /\ UNCHANGED phoneEnd
    ELSE phoneEnd' = "DISCONNECTED" /\ UNCHANGED packets

SendPacket(n) ==
    /\ senders[n].at = "sending"
    /\ Writes(senders[n].packet)
    /\ senders' = [senders EXCEPT ![n] = Over]
    /\ UNCHANGED <<datas, list, signals, removals, dismissals, answer, deskEnd, alive, desktop, counts, ghosts>>

(* Variant: the count is taken, and the answer sent, before the lock. *)
AnswerListEarly ==
    /\ fetcher.at = "asked" /\ answer = {}
    /\ fetcher' = [fetcher EXCEPT !.at = "answered"]
    /\ answer' = {Cardinality(Posted)}
    /\ \E p \in SUBSET Posted : list' = {Record(k, datas[k]) : k \in p}
    /\ UNCHANGED <<datas, senders, signals, removals, dismissals, packets, channelEnds>>
    /\ UNCHANGED <<handlers, notifications, idsByKey, counts, ghosts>>

(* ALL_NOTIFICATIONS_REQUEST: the count and the copy are taken under one lock. *)
AnswerList ==
    /\ fetcher.at = "asked"
    /\ fetcher' = [fetcher EXCEPT !.at = "answered"]
    /\ answer' = {Cardinality(Posted)}
    /\ list' = IF phoneEnd = "CONNECTED" THEN {Record(k, datas[k]) : k \in Posted} ELSE {}
    /\ UNCHANGED <<datas, senders, signals, removals, dismissals, packets, channelEnds>>
    /\ UNCHANGED <<handlers, notifications, idsByKey, counts, ghosts>>

SendListed ==
    /\ \E r \in list : Writes(r) /\ list' = list \ {r}
    /\ UNCHANGED <<datas, senders, signals, removals, dismissals, answer, deskEnd, alive, desktop, counts, ghosts>>

-------------------------------------------------------------------------------
(* The channel. *)

PhoneConnects ==
    /\ phoneEnd = "CONNECTING"
    /\ phoneEnd' = "CONNECTED"
    /\ UNCHANGED <<phone, wire, deskEnd, alive, desktop, counts, ghosts>>

DesktopAccepts ==
    /\ phoneEnd # "CONNECTING" /\ deskEnd = "CONNECTING"
    /\ deskEnd' = "CONNECTED"
    /\ UNCHANGED <<phone, wire, phoneEnd, alive, desktop, counts, ghosts>>

(* The network fails; what was written may be lost. *)
Cut ==
    /\ alive /\ phoneEnd = "CONNECTED" /\ deskEnd = "CONNECTED"
    /\ alive' = FALSE /\ packets' = <<>>
    /\ UNCHANGED <<phone, signals, removals, dismissals, answer, phoneEnd, deskEnd, desktop, counts, ghosts>>

-------------------------------------------------------------------------------
(* The desktop. *)

SetRecord(i, r) == [notifications EXCEPT ![i] = r]
Processing(k) ==
    \/ \E n \in Versions : handlers[n].at \in {"remove", "insert"} /\ handlers[n].packet.key = k
    \/ fetcher.at \in {"remove", "insert"} /\ fetcher.packet.key = k

(* Variant: only the record of the index is removed, not the index. *)
ProcessRemovalOfRecord(k) ==
    /\ IF idsByKey[k] # None
       THEN notifications' = SetRecord(idsByKey[k], NoRecord)
       ELSE UNCHANGED notifications
    /\ UNCHANGED idsByKey

(* ProcessNotificationRemoval: through the index or, when the key has no entry, the *)
(* first record the scan meets.                                                     *)
ProcessRemoval(k) ==
    LET found == {i \in Ids : notifications[i].key = k} IN
    IF idsByKey[k] # None
    THEN /\ notifications' = SetRecord(idsByKey[k], NoRecord)
         /\ idsByKey' = [idsByKey EXCEPT ![k] = None]
    ELSE /\ IF found = {} THEN UNCHANGED notifications
            ELSE \E i \in found : notifications' = SetRecord(i, NoRecord)
         /\ UNCHANGED idsByKey

Insert(r) ==
    LET i == CHOOSE j \in Ids : notifications[j] = NoRecord IN
    /\ notifications' = SetRecord(i, r)
    /\ idsByKey' = [idsByKey EXCEPT ![r.key] = i]

FreeHandler == CHOOSE n \in Versions : handlers[n] = Over

(* The handler of NEW_NOTIFICATION looks at its own end before it reads. *)
HandleNew ==
    /\ signals > 0
    /\ signals' = signals - 1
    /\ IF deskEnd = "CONNECTED"
       THEN /\ handlers' = [handlers EXCEPT ![FreeHandler] = Reader("reading", NoRecord)]
            /\ UNCHANGED skew
       ELSE skew' = TRUE /\ UNCHANGED handlers
    /\ UNCHANGED <<phone, removals, dismissals, answer, packets, channelEnds>>
    /\ UNCHANGED <<fetcher, notifications, idsByKey, counts, overlapped, apart>>

Takes ==
    /\ packets # <<>> /\ deskEnd = "CONNECTED"
    /\ packets' = Tail(packets)
    /\ overlapped' = (overlapped \/ Processing(Head(packets).key))

(* Channel Receive fails only when the channel was cut; it closes this end. *)
FindsCut ==
    /\ ~alive /\ packets = <<>>
    /\ deskEnd' = "DISCONNECTED"

Read(n) ==
    /\ handlers[n].at = "reading"
    /\ \/ /\ Takes /\ UNCHANGED deskEnd
          /\ handlers' = [handlers EXCEPT ![n] = Reader("remove", Head(packets))]
       \/ /\ FindsCut /\ UNCHANGED <<packets, overlapped>>
          /\ handlers' = [handlers EXCEPT ![n] = Over]
    /\ UNCHANGED <<phone, signals, removals, dismissals, answer, phoneEnd, alive>>
    /\ UNCHANGED <<fetcher, notifications, idsByKey, counts, skew, apart>>

(* ProcessNotificationPacket: the old record goes under one lock and the new one comes *)
(* under another; the desktop notification is emitted in between.                      *)
RemoveOld(n) ==
    /\ handlers[n].at = "remove"
    /\ ProcessRemoval(handlers[n].packet.key)
    /\ handlers' = [handlers EXCEPT ![n].at = "insert"]
    /\ UNCHANGED <<phone, wire, channelEnds, fetcher, counts, ghosts>>

InsertNew(n) ==
    /\ handlers[n].at = "insert"
    /\ Insert(handlers[n].packet)
    /\ handlers' = [handlers EXCEPT ![n] = Over]
    /\ UNCHANGED <<phone, wire, channelEnds, fetcher, counts, ghosts>>

(* A picture cannot be stored, before the old record goes, or the desktop notification *)
(* cannot be emitted, after it went: the packet becomes no record.                      *)
PacketFails(n) ==
    /\ handlers[n].at \in {"remove", "insert"}
    /\ handlers' = [handlers EXCEPT ![n] = Over]
    /\ apart' = FALSE
    /\ UNCHANGED <<phone, wire, channelEnds, fetcher, notifications, idsByKey, counts, skew, overlapped>>

HandleRemoved(k) ==
    /\ removals[k] > 0
    /\ removals' = [removals EXCEPT ![k] = @ - 1]
    /\ ProcessRemoval(k)
    /\ UNCHANGED <<phone, signals, dismissals, answer, packets, channelEnds, handlers, fetcher, counts, ghosts>>

(* The user dismisses a notification the desktop shows. *)
DismissNotificationByKey(k) ==
    /\ idsByKey[k] # None /\ deskEnd = "CONNECTED" /\ removed < MaxRemovals
    /\ dismissals' = dismissals \cup {k}
    /\ apart' = (apart /\ Quiet)
    /\ UNCHANGED <<phone, signals, removals, answer, packets, channelEnds, desktop, counts, skew, overlapped>>

-------------------------------------------------------------------------------
(* FetchNotificationList, run once by OnEnable when both ends say they are up. *)

Fetch ==
    /\ fetcher.at = "idle" /\ deskEnd = "CONNECTED"
    /\ fetcher' = [fetcher EXCEPT !.at = "asked"]
    /\ apart' = (apart /\ Quiet)
    /\ UNCHANGED <<phone, wire, channelEnds, handlers, notifications, idsByKey, counts, skew, overlapped>>

FetchAnswered ==
    /\ fetcher.at = "answered" /\ answer # {}
    /\ \E c \in answer :
          fetcher' = [fetcher EXCEPT !.left = c, !.at = IF c = 0 THEN "over" ELSE "reading"]
    /\ answer' = {}
    /\ notifications' = [i \in Ids |-> NoRecord] /\ idsByKey' = [k \in Keys |-> None]
    /\ UNCHANGED <<phone, signals, removals, dismissals, packets, channelEnds, handlers, counts, ghosts>>

FetchRead ==
    /\ fetcher.at = "reading"
    /\ \/ /\ Takes /\ UNCHANGED deskEnd
          /\ fetcher' = [fetcher EXCEPT !.at = "remove", !.left = @ - 1, !.packet = Head(packets)]
       \/ /\ FindsCut /\ UNCHANGED <<packets, overlapped>>
          /\ fetcher' = [fetcher EXCEPT !.at = "over", !.left = 0]
    /\ UNCHANGED <<phone, signals, removals, dismissals, answer, phoneEnd, alive>>
    /\ UNCHANGED <<handlers, notifications, idsByKey, counts, skew, apart>>

FetchRemoveOld ==
    /\ fetcher.at = "remove"
    /\ ProcessRemoval(fetcher.packet.key)
    /\ fetcher' = [fetcher EXCEPT !.at = "insert"]
    /\ UNCHANGED <<phone, wire, channelEnds, handlers, counts, ghosts>>

(* Variant: the loop counts to the number it was told, and one more. *)
FetchInsertsOneMore ==
    /\ fetcher.at = "insert"
    /\ Insert(fetcher.packet)
    /\ fetcher' = [fetcher EXCEPT !.packet = NoRecord, !.at = IF fetcher.left < 0 THEN "over" ELSE "reading"]
    /\ UNCHANGED <<phone, wire, channelEnds, handlers, counts, ghosts>>

FetchInsertNew ==
    /\ fetcher.at = "insert"
    /\ Insert(fetcher.packet)
    /\ fetcher' = [fetcher EXCEPT !.packet = NoRecord, !.at = IF fetcher.left = 0 THEN "over" ELSE "reading"]
    /\ UNCHANGED <<phone, wire, channelEnds, handlers, counts, ghosts>>

(* A packet of the list is not emitted; its pictures are stored too. *)
FetchPacketFails ==
    /\ fetcher.at = "remove"
    /\ fetcher' = [fetcher EXCEPT !.packet = NoRecord, !.at = IF fetcher.left = 0 THEN "over" ELSE "reading"]
    /\ apart' = FALSE
    /\ UNCHANGED <<phone, wire, channelEnds, handlers, notifications, idsByKey, counts, skew, overlapped>>

-------------------------------------------------------------------------------

Handler(n) == Signal(n) \/ LookUp(n) \/ SendPacket(n) \/ Read(n) \/ RemoveOld(n) \/ InsertNew(n)
Fetching == Fetch \/ AnswerList \/ SendListed \/ FetchAnswered \/ FetchRead \/ FetchRemoveOld \/ FetchInsertNew

NotesNext ==
    \/ \E k \in Keys : \/ Post(k) \/ Removed(k)
                       \/ DismissNotificationByKey(k) \/ DismissNotificationOnPhone(k)
                       \/ HandleRemoved(k)
    \/ \E n \in Versions : Handler(n) \/ PacketFails(n)
    \/ HandleNew
    \/ Fetching \/ FetchPacketFails
    \/ PhoneConnects \/ DesktopAccepts \/ Cut

NotesFairness ==
    /\ WF_notesVars(HandleNew \/ \E n \in Versions : Handler(n))
    /\ WF_notesVars(\E k \in Keys : HandleRemoved(k) \/ DismissNotificationOnPhone(k))
    /\ WF_notesVars(Fetching) /\ WF_notesVars(PhoneConnects) /\ WF_notesVars(DesktopAccepts)

NotesSpec == NotesInit /\ [][NotesNext]_notesVars /\ NotesFairness

-------------------------------------------------------------------------------

CountAt(coroutines, places) == Cardinality({n \in Versions : coroutines[n].at \in places})

(* What the fetcher waits for, or is about to. *)
Awaited == IF answer = {} THEN fetcher.left ELSE CHOOSE c \in answer : TRUE

(* As long as every signal was obeyed and found its notification, the desktop waits for *)
(* exactly as many packets as are on the way: nobody reads a packet meant for another    *)
(* and nobody waits in Receive for one that does not come.                               *)
ReadersMatchPackets ==
    ~skew /\ alive =>
        signals + CountAt(handlers, {"reading"}) + Awaited
        = CountAt(senders, {"signalled", "sending"}) + Cardinality(list) + Len(packets)

(* The two maps of the desktop agree: a key has one record, the one its index names, *)
(* unless two packets of the key were processed at once.                             *)
OneRecordPerKey ==
    ~overlapped =>
        \A k \in Keys : {i \in Ids : notifications[i].key = k} = {idsByKey[k]} \ {None}

(* A reader of the desktop's table gets the packet of the key it asked for, and a key *)
(* has one record.                                                                    *)
NotificationsAreKept == ReadersMatchPackets /\ OneRecordPerKey

(* When each event comes after the one before has settled, no signal was ignored and   *)
(* every packet became a record, the desktop ends up showing what the phone shows.      *)
Shown(k) == {notifications[i].version : i \in {j \in Ids : notifications[j].key = k}}
EventuallyAgrees ==
    <>[](apart /\ alive /\ ~skew => \A k \in Keys : Shown(k) = {datas[k]} \ {None})

================================================================================
