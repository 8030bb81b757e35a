-------------------------------- MODULE SmsBridge --------------------------------
(***************************************************************************)
(* The conversations of the desktop (SmsBridgeController.cpp), the         *)
(* coroutines that ask the phone for them (desktop SmsBridgeModule.cpp)    *)
(* and the queue of the Qt thread between the two.                         *)
(*                                                                         *)
(* A key is a written form of a phone number; Person says which forms are  *)
(* one number (areEquivalentPhoneKeys).  Of a thread what matters is that  *)
(* it is held, which messages it shows as pending and what has become of   *)
(* its attachments; names, previews, unread counts, time stamps and the    *)
(* order of the list are left out.  A session begins when the coroutines   *)
(* of the last one have ended and its events are handled.                  *)
(***************************************************************************)
EXTENDS Integers, Sequences, SequencesExt

CONSTANTS
    Keys, Person,           \* written forms of numbers, and whose they are
    Targets,                \* attachments
    Sends,                  \* identities of the messages the user may send
    MaxHappenings,          \* refreshes, selections and messages that arrive
    MaxSessions

None == "none"

VARIABLES
    ui,                     \* the fields of SmsBridgeController
    disk,                   \* attachments with a file in the session's directory
    work,                   \* coroutines of the module, by what they were asked
    posted,                 \* events posted to the Qt thread and not yet handled
    joined,                 \* the link
    lost,                   \* ghost: requests that ended without an event
    unsent, happened, calls

smsVars == <<ui, disk, work, posted, joined, lost, unsent, happened, calls>>

Media == [Targets -> {"absent", "loading", "shown", "failed"}]
Asked == [what : {"contacts"}, of : {None}] \cup [what : {"thread"}, of : Keys]
         \cup [what : {"send"}, of : Sends] \cup [what : {"media"}, of : Targets]

TypeOK ==
    /\ ui \in [connected : BOOLEAN, ready : BOOLEAN, contacts : SUBSET Keys, selected : Keys \cup {None},
               held : SUBSET Keys, media : [Keys -> Media],
               pendingIn : [Sends -> Keys \cup {None}], awaited : [Sends -> Keys \cup {None}],
               refreshing : BOOLEAN, fetching : SUBSET Keys,
               cache : SUBSET Targets, requested : SUBSET Targets, retried : SUBSET Targets,
               queue : Seq(Targets), active : Targets \cup {None}, busy : BOOLEAN, asked : {{}}]
    /\ disk \subseteq Targets /\ work \subseteq Asked /\ lost \subseteq Asked
    /\ \A i \in DOMAIN posted : posted[i].what \in {"connected", "disconnected", "text", "contacts", "thread", "send", "media"}
    /\ joined \in BOOLEAN /\ unsent \subseteq Sends
    /\ happened \in 0 .. MaxHappenings /\ calls \in 0 .. MaxSessions

NoThread == [t \in Targets |-> "absent"]
Nobody   == [i \in Sends |-> None]

Init ==
    /\ ui = [connected |-> FALSE, ready |-> FALSE, contacts |-> {}, selected |-> None,
             held |-> {}, media |-> [k \in Keys |-> NoThread], pendingIn |-> Nobody, awaited |-> Nobody,
             refreshing |-> FALSE, fetching |-> {},
             cache |-> {}, requested |-> {}, retried |-> {}, queue |-> <<>>, active |-> None,
             busy |-> FALSE, asked |-> {}]
    /\ disk = {} /\ work = {} /\ posted = <<>> /\ joined = FALSE /\ lost = {}
    /\ unsent = Sends /\ happened = 0 /\ calls = 0

Event(what, of, list, good) == [what |-> what, of |-> of, list |-> list, good |-> good]
Post(e) == posted' = Append(posted, e)

-------------------------------------------------------------------------------
(* The controller: each takes its fields `u` and returns them changed. *)

(* updateBusyState. *)
Busy(u) ==
    [u EXCEPT !.busy = u.refreshing \/ u.fetching # {} \/ u.awaited # Nobody \/ u.queue # <<>> \/ u.active # None]

Ask(u, what, of) == [u EXCEPT !.asked = @ \cup {[what |-> what, of |-> of]}]

clearConversationState(u) ==
    Busy([u EXCEPT !.contacts = {}, !.selected = None, !.held = {}, !.media = [k \in Keys |-> NoThread],
                   !.pendingIn = Nobody, !.awaited = Nobody, !.refreshing = FALSE, !.fetching = {},
                   !.cache = {}, !.requested = {}, !.retried = {}, !.queue = <<>>, !.active = None])

(* findEquivalentContactIndex: the contact of that number, or the key itself. *)
Contact(u, k) ==
    IF \E c \in u.contacts : Person[c] = Person[k]
       THEN CHOOSE c \in u.contacts : Person[c] = Person[k]
       ELSE k

ensureContactExists(u, k) ==
    LET c == Contact(u, k)
    IN  [u EXCEPT !.contacts = @ \cup {c}, !.selected = IF @ = k THEN c ELSE @]

requestSelectedConversationMessages(u, force) ==
    IF /\ u.connected /\ u.selected \in u.contacts /\ u.selected \notin u.fetching
       /\ force \/ u.selected \notin u.held
       THEN Ask(Busy([u EXCEPT !.fetching = @ \cup {u.selected}]), "thread", u.selected)
       ELSE u

refreshConversations(u) ==
    IF u.connected /\ ~u.refreshing THEN Ask(Busy([u EXCEPT !.refreshing = TRUE]), "contacts", None) ELSE u

startNextMmsContentFetch(u) ==
    IF u.active # None \/ u.queue = <<>>
       THEN u
       ELSE Ask([u EXCEPT !.active = Head(u.queue), !.queue = Tail(@)], "media", Head(u.queue))

(* Every attachment of that target, in whatever thread, is marked. *)
Marked(u, t, mark) ==
    [u EXCEPT !.media = [k \in Keys |-> IF @[k][t] = "absent" THEN @[k] ELSE [@[k] EXCEPT ![t] = mark]]]

queueMmsContentFetch(u, t) ==
    IF t \in u.requested THEN u
    ELSE IF t \in u.cache \cup disk THEN Marked([u EXCEPT !.cache = @ \cup {t}], t, "shown")
    ELSE startNextMmsContentFetch(Busy([u EXCEPT !.requested = @ \cup {t}, !.queue = Append(@, t)]))

(* For one attachment of a thread that was just read. *)
requestMmsContentFetch(u, t) ==
    IF t \in u.cache \cup u.requested THEN u
    ELSE IF t \in disk THEN [u EXCEPT !.cache = @ \cup {t}]
    ELSE queueMmsContentFetch(u, t)


(* A file that did not come is asked for once more. *)
MediaContent(u, t, good) ==
    LET again == ~good /\ t \notin u.cache /\ t \notin u.retried
        first == [u EXCEPT !.active = IF @ = t THEN None ELSE @, !.requested = @ \ {t}]
        next  == IF good THEN [first EXCEPT !.retried = @ \ {t}, !.cache = @ \cup {t}]
                 ELSE IF again THEN queueMmsContentFetch([first EXCEPT !.retried = @ \cup {t}], t)
                 ELSE first
    IN  Busy(startNextMmsContentFetch(
            Marked(next, t, IF good \/ t \in u.cache THEN "shown" ELSE IF again THEN "loading" ELSE "failed")))

(* What a thread that was just read shows of its attachments. *)
applyCachedMmsContent(u, list) ==
    [t \in Targets |-> IF \A i \in DOMAIN list : list[i] # t THEN "absent"
                       ELSE IF t \in u.cache THEN "shown" ELSE "loading"]

(* The answer takes the place of the thread, with the messages that are still pending. *)
Thread(u, number, list) ==
    LET key  == Contact(u, number)
        read == ensureContactExists(Busy([u EXCEPT !.fetching = @ \ {key}]), key)
        next == FoldLeft(requestMmsContentFetch, read, list)
    IN  [next EXCEPT
           !.held = @ \cup {key},
           !.media[key] = applyCachedMmsContent(next, list),
           !.pendingIn = [i \in Sends |-> IF @[i] = key THEN None ELSE @[i]]]

Sent(u, i) ==
    Busy([u EXCEPT !.awaited[i] = None, !.pendingIn[i] = IF @ = u.awaited[i] THEN None ELSE @])

(* What came is put under the form it came with, whatever the contact's. *)
Text(u, k) == LET known == ensureContactExists(u, k) IN [known EXCEPT !.held = @ \cup {k}]

(* The fields are written, and the coroutines that were asked for begin. *)
Becomes(u) ==
    /\ ui' = [u EXCEPT !.asked = {}]
    /\ work' = work \cup u.asked

-------------------------------------------------------------------------------
(* The Qt thread: an event, the poll timer, the user. *)

Takes(what) == posted # <<>> /\ Head(posted).what = what /\ posted' = Tail(posted)

Rest == UNCHANGED <<disk, joined, unsent, happened, calls>>

ConnectedEvent ==
    /\ Takes("connected")
    /\ Becomes(refreshConversations([clearConversationState(ui) EXCEPT !.connected = TRUE]))
    /\ lost' = {} /\ Rest

DisconnectedEvent ==
    /\ Takes("disconnected")
    /\ Becomes([clearConversationState(ui) EXCEPT !.connected = FALSE, !.ready = FALSE])
    /\ lost' = {} /\ Rest

FetchContactListResult ==
    /\ Takes("contacts")
    /\ LET read == FoldLeft(ensureContactExists, ui, Head(posted).list)
       IN  \E k \in (IF read.selected = None /\ read.contacts # {} THEN read.contacts ELSE {read.selected}) :
             Becomes(requestSelectedConversationMessages(
                         Busy([read EXCEPT !.selected = k, !.refreshing = FALSE]), TRUE))
    /\ UNCHANGED lost /\ Rest

FetchMessageListResult ==
    /\ Takes("thread")
    /\ Becomes(Thread(ui, Head(posted).of, Head(posted).list))
    /\ UNCHANGED lost /\ Rest

SendSmsResult ==
    /\ Takes("send")
    /\ Becomes(Sent(ui, Head(posted).of))
    /\ UNCHANGED lost /\ Rest

NewSmsReceived ==
    /\ Takes("text")
    /\ Becomes(Text(ui, Head(posted).of))
    /\ UNCHANGED lost /\ Rest

MMSContentReceived ==
    /\ Takes("media")
    /\ Becomes(MediaContent(ui, Head(posted).of, Head(posted).good))
    /\ UNCHANGED lost /\ Rest

(* refreshState: the module may be in any state. *)
Poll ==
    /\ \E on \in BOOLEAN : ui' = [ui EXCEPT !.ready = ui.connected /\ on]
    /\ UNCHANGED <<work, posted, lost>> /\ Rest

UserRefreshes ==
    /\ happened < MaxHappenings /\ happened' = happened + 1
    /\ Becomes(refreshConversations(ui))
    /\ UNCHANGED <<disk, posted, joined, lost, unsent, calls>>

UserSelects(k) ==
    /\ happened < MaxHappenings /\ happened' = happened + 1
    /\ Becomes(requestSelectedConversationMessages([ui EXCEPT !.selected = Contact(ui, k)], FALSE))
    /\ UNCHANGED <<disk, posted, joined, lost, unsent, calls>>

UserSends(i) ==
    /\ ui.connected /\ ui.ready /\ ui.selected \in ui.contacts
    /\ i \in unsent /\ unsent' = unsent \ {i}
    /\ Becomes(Ask(Busy([ui EXCEPT !.held = @ \cup {ui.selected}, !.pendingIn[i] = ui.selected,
                                   !.awaited[i] = ui.selected]), "send", i))
    /\ UNCHANGED <<disk, posted, joined, lost, happened, calls>>

-------------------------------------------------------------------------------
(* The coroutines of the module, on the pool. *)

Ends(request) == request \in work /\ work' = work \ {request}

Others == UNCHANGED <<ui, unsent, happened, calls>>

(* What the phone lists: each written form once, the latest first; *)
getAllContacts == {s \in SeqOf(Keys, Cardinality(Keys)) : IsInjective(s)}

(* the attachments of the messages of a number; nothing without the permission. *)
getMessagesFromNumber == {SetToSeq(s) : s \in SUBSET Targets}

Answered(request) ==
    /\ request.what # "media" /\ Ends(request)
    /\ \E list \in CASE request.what = "contacts" -> getAllContacts
                      [] request.what = "thread"   -> getMessagesFromNumber
                      [] request.what = "send"     -> {<<>>} :
         Post(Event(request.what, request.of, list, TRUE))
    /\ UNCHANGED <<disk, joined, lost>> /\ Others

(* A request that is not answered in time fails the module; its caller is told nothing. *)
NotAnswered(request) ==
    /\ request.what # "media" /\ Ends(request)
    /\ lost' = lost \cup {request}
    /\ UNCHANGED <<disk, posted, joined>> /\ Others

(* FetchMMSContentAwaitable: the file is there already, or is received, *)
FileFetched(t) ==
    /\ Ends([what |-> "media", of |-> t])
    /\ disk' = disk \cup {t}
    /\ Post(Event("media", t, <<>>, TRUE))
    /\ UNCHANGED <<joined, lost>> /\ Others

(* or the phone does not answer or has none, or names a channel that is not there, *)
FileNotFetched(t) ==
    /\ t \notin disk /\ Ends([what |-> "media", of |-> t])
    /\ \/ Post(Event("media", t, <<>>, FALSE)) /\ UNCHANGED joined
       \/ joined /\ joined' = FALSE
          /\ posted' = posted \o <<Event("media", t, <<>>, FALSE), Event("disconnected", None, <<>>, TRUE)>>
    /\ UNCHANGED <<disk, lost>> /\ Others

(* or the channel throws: what was received stays, and nobody is told. *)
FetchThrows(t) ==
    /\ t \notin disk /\ Ends([what |-> "media", of |-> t])
    /\ lost' = lost \cup {[what |-> "media", of |-> t]}
    /\ disk' \in {disk, disk \cup {t}}
    /\ UNCHANGED <<posted, joined>> /\ Others

-------------------------------------------------------------------------------
(* The link, and the texts that reach the phone. *)

Connects ==
    /\ ~joined /\ work = {} /\ posted = <<>> /\ calls < MaxSessions
    /\ joined' = TRUE /\ calls' = calls + 1
    /\ Post(Event("connected", None, <<>>, TRUE))
    /\ UNCHANGED <<ui, disk, work, lost, unsent, happened>>

Cut ==
    /\ joined /\ joined' = FALSE
    /\ Post(Event("disconnected", None, <<>>, TRUE))
    /\ UNCHANGED <<ui, disk, work, lost, unsent, happened, calls>>

TextArrives(k) ==
    /\ joined /\ happened < MaxHappenings /\ happened' = happened + 1
    /\ Post(Event("text", k, <<>>, TRUE))
    /\ UNCHANGED <<ui, disk, work, joined, lost, unsent, calls>>

Next ==
    \/ ConnectedEvent \/ DisconnectedEvent \/ FetchContactListResult \/ FetchMessageListResult
    \/ SendSmsResult \/ NewSmsReceived \/ MMSContentReceived
    \/ Poll \/ UserRefreshes \/ \E k \in Keys : UserSelects(k) \/ TextArrives(k)
    \/ \E i \in Sends : UserSends(i)
    \/ \E request \in work : Answered(request) \/ NotAnswered(request)
    \/ \E t \in Targets : FileFetched(t) \/ FileNotFetched(t) \/ FetchThrows(t)
    \/ Connects \/ Cut

Spec == Init /\ [][Next]_smsVars

-------------------------------------------------------------------------------

(* What the controller waits for: the list, threads, results and the one attachment. *)
Awaited ==
    {[what |-> "contacts", of |-> None] : x \in {y \in {1} : ui.refreshing}}
    \cup {[what |-> "thread", of |-> k] : k \in ui.fetching}
    \cup {[what |-> "send", of |-> i] : i \in {j \in Sends : ui.awaited[j] # None}}
    \cup {[what |-> "media", of |-> t] : t \in {ui.active} \ {None}}

(* While a session lasts the controller waits for nothing that nobody works on: a coroutine *)
(* has it, its event is in the queue of the Qt thread, or the module lost it (a timeout, an  *)
(* exception).                                                                               *)
WaitsAreAnswered ==
    \A request \in Awaited :
        \/ request \in work \cup lost
        \/ \E i \in DOMAIN posted : posted[i].what = request.what /\ posted[i].of = request.of

(* An attachment that is shown loading is the one being fetched or waits behind it, and     *)
(* nothing waits behind nobody.                                                              *)
LoadingIsPursued ==
    /\ \A k \in Keys, t \in Targets :
          ui.media[k][t] = "loading" =>
              /\ t \in ui.requested
              /\ t = ui.active \/ \E i \in DOMAIN ui.queue : ui.queue[i] = t
    /\ ui.queue # <<>> => ui.active # None

(* A message shown pending is found when its result comes, and the page says it is busy      *)
(* exactly while something is awaited.                                                        *)
PendingIsAwaited == \A i \in Sends : ui.pendingIn[i] # None => ui.awaited[i] = ui.pendingIn[i]
BusyIsTrue       == ui.busy <=> Awaited # {} \/ ui.queue # <<>>

WaitsAreTracked ==
    /\ ui.connected => WaitsAreAnswered /\ LoadingIsPursued
    /\ PendingIsAwaited /\ BusyIsTrue

================================================================================
