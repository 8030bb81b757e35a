------------------------- MODULE ConnectionScreens -------------------------
(***************************************************************************)
(* What the two users see of a connection: the desktop's                   *)
(* DeviceConnectionController and the event-driven                         *)
(* MobileConnectionController.  Each keeps flags for a pending connection, *)
(* a code to type or to read out, an approval to give and the session, and *)
(* changes them as events of the network reach its Qt thread.              *)
(*                                                                         *)
(* The network is here only as far as it posts those events: the           *)
(* handshakes (InitialConnection has them in full), one after the other,   *)
(* and the two ends of the primary connection (PrimaryConnection).  Codes  *)
(* are right or wrong, error texts are failed or not.                      *)
(***************************************************************************)
EXTENDS Naturals, Sequences

CONSTANTS
    MaxAttempts, \* how many handshakes the desktop begins
    MaxTries,    \* wrong codes the phone accepts
    MaxTyped,    \* how many codes the desktop's user types
    MaxCuts      \* sockets the network cuts

Attempts == 1..MaxAttempts
Sides == {"desk", "phone"}
Other(s) == IF s = "desk" THEN "phone" ELSE "desk"
None == 0

VARIABLES
    desk,     \* m_connected, m_pending, m_verificationPending, m_verificationEvent,
              \* m_approvalPending, m_verificationTriesLeft, m_lastError
    hand,     \* the phone's m_connected, m_challengeVisible, m_approvalEvent, m_lastError:
              \* a challenge or an approval is the handshake it belongs to
    shake,    \* the handshakes: what each side's InitialConnection knows of them
    inbox,    \* packages on their way in each of them
    primary,  \* each side's PrimaryConnection
    events,   \* posted to each side's controller
    pairedOn, \* the sides that know the other as paired
    banned,   \* the phone refuses the desktop for five minutes
    overrun,  \* ghost: an approval of an ended handshake took the place of a session
    typed, cuts

screenVars == <<desk, hand, shake, inbox, primary, events, pairedOn, banned, overrun, typed, cuts>>
counters == <<typed, cuts>>

Init ==
    /\ desk = [connected |-> FALSE, pending |-> FALSE, asked |-> FALSE, prompt |-> None,
               approving |-> FALSE, tries |-> 0, failed |-> FALSE]
    /\ hand = [connected |-> FALSE, challenge |-> None, approval |-> None, failed |-> FALSE]
    /\ shake = [a \in Attempts |-> [mode |-> "pair", open |-> {}, begun |-> FALSE, quiet |-> {},
                                    tries |-> 0, proven |-> FALSE, approved |-> FALSE]]
    /\ inbox = [s \in Sides |-> [a \in Attempts |-> <<>>]]
    /\ primary = [s \in Sides |-> [state |-> "down", of |-> None]]
    /\ events = [s \in Sides |-> <<>>]
    /\ pairedOn \in {{}, {"desk"}, Sides}
    /\ banned = FALSE /\ overrun = FALSE /\ typed = 0 /\ cuts = 0

----------------------------------------------------------------------------
(* The handshakes, as far as their events go. *)

Posted(queues, s, event) == [queues EXCEPT ![s] = Append(@, event)]
Scanner(benign) == [k |-> "Scanner", benign |-> benign]
OfShake(kind, a) == [k |-> kind, a |-> a]

\* A package leaves only a socket that is open, and is read only at an open one.
Sent(boxes, from, a, package) ==
    IF from \in shake[a].open THEN [boxes EXCEPT ![Other(from)][a] = Append(@, package)] ELSE boxes

\* The handshakes side s has open when it disconnects all of them, and the events
\* their reading coroutines post: none when the handshake is final or was refused.
OpenOn(s) == {a \in Attempts : s \in shake[a].open}
Loud(s) == {a \in OpenOn(s) : s \notin shake[a].quiet}
ShutOn(s, as) == [a \in Attempts |->
    IF a \in as THEN [shake[a] EXCEPT !.open = @ \ {s}] ELSE shake[a]]
HungUp(boxes, s, as) == [boxes EXCEPT ![Other(s)] = [a \in Attempts |->
    IF a \in as /\ Other(s) \in shake[a].open THEN Append(@[a], [k |-> "closed"]) ELSE @[a]],
                                      ![s] = [a \in Attempts |-> IF a \in as THEN <<>> ELSE @[a]]]

\* ConnectionManager::Disconnect: the primary connection first, which posts its event
\* unless it is down, then the handshakes.
ManagerDisconnects(s, boxes) ==
    /\ shake' = ShutOn(s, OpenOn(s)) /\ inbox' = HungUp(boxes, s, OpenOn(s))
    /\ primary' = [primary EXCEPT ![s] = [state |-> "down", of |-> None]]
    /\ events' = [events EXCEPT ![s] = @
           \o (IF primary[s].state = "down" THEN <<>> ELSE <<[k |-> "Disconnected"]>>)
           \o (IF Loud(s) = {} THEN <<>> ELSE <<Scanner(TRUE)>>)]

\* SeekPrimary for handshake a: whatever the connection was doing is cleaned up.
SeeksPrimary(a) ==
    /\ overrun' = (overrun \/ primary["phone"].state = "up")
    /\ primary' = [primary EXCEPT !["phone"] = [state |-> "seeking", of |-> a]]

PhoneReads(a) ==
    /\ "phone" \in shake[a].open /\ inbox["phone"][a] # <<>>
    /\ LET package == Head(inbox["phone"][a])
           rest == [inbox EXCEPT !["phone"][a] = Tail(@)]
           Refuses(answer) == /\ shake' = ShutOn("phone", {a})
                              /\ inbox' = HungUp(Sent(rest, "phone", a, answer), "phone", {a})
                              /\ UNCHANGED <<events, primary, overrun>>
       IN \/ /\ package.k = "hello" /\ banned
             /\ Refuses([k |-> "cooldown"]) /\ UNCHANGED banned
          \/ /\ package.k = "hello" /\ ~banned /\ shake[a].mode = "known" /\ "phone" \notin pairedOn
             /\ Refuses([k |-> "unpaired"]) /\ UNCHANGED banned
          \/ /\ package.k = "hello" /\ ~banned /\ shake[a].mode = "known" /\ "phone" \in pairedOn
             /\ shake' = [shake EXCEPT ![a].quiet = @ \cup {"phone"}]
             /\ SeeksPrimary(a) /\ inbox' = rest /\ UNCHANGED <<events, banned>>
          \/ /\ package.k = "hello" /\ ~banned /\ shake[a].mode = "pair"
             /\ events' = Posted(events, "phone", OfShake("Pending", a)) /\ inbox' = rest
             /\ UNCHANGED <<shake, primary, overrun, banned>>
          \/ /\ package.k = "answer" /\ package.right
             /\ shake' = [shake EXCEPT ![a].proven = TRUE]
             /\ inbox' = Sent(rest, "phone", a, [k |-> "approval"])
             /\ events' = Posted(events, "phone", OfShake("ApprovalRequested", a))
             /\ UNCHANGED <<primary, overrun, banned>>
          \/ LET left == IF shake[a].tries > 0 THEN shake[a].tries - 1 ELSE 0
                 told == Sent(rest, "phone", a, [k |-> "wrong", left |-> left])
             IN /\ package.k = "answer" /\ ~package.right
                /\ shake' = [(IF left = 0 THEN ShutOn("phone", {a}) ELSE shake) EXCEPT ![a].tries = left]
                /\ inbox' = IF left = 0 THEN HungUp(told, "phone", {a}) ELSE told
                /\ banned' = (banned \/ left = 0)
                /\ UNCHANGED <<events, primary, overrun>>
          \/ /\ package.k = "closed"
             /\ shake' = ShutOn("phone", {a}) /\ inbox' = rest
             /\ events' = IF "phone" \in shake[a].quiet THEN events
                          ELSE Posted(events, "phone", Scanner(FALSE))
             /\ UNCHANGED <<primary, overrun, banned>>
    /\ UNCHANGED <<desk, hand, pairedOn, counters>>

\* The reasons the desktop is told, after which the end of the socket is no news.
Terminal == [denied |-> "Denied", unpaired |-> "NotPaired", cooldown |-> "Cooldown"]
Question == [question |-> "Verification", approval |-> "ApprovalRequested"]

DeskReads(a) ==
    /\ "desk" \in shake[a].open /\ inbox["desk"][a] # <<>>
    /\ LET package == Head(inbox["desk"][a])
           rest == [inbox EXCEPT !["desk"][a] = Tail(@)]
       IN \/ /\ package.k \in DOMAIN Question
             /\ events' = Posted(events, "desk", OfShake(Question[package.k], a))
             /\ inbox' = rest /\ UNCHANGED <<shake, primary>>
          \/ /\ package.k = "wrong"
             /\ events' = Posted(events, "desk", [k |-> "FailedVerification", left |-> package.left])
             /\ inbox' = rest /\ UNCHANGED <<shake, primary>>
          \/ /\ package.k \in DOMAIN Terminal
             /\ events' = Posted(events, "desk", [k |-> Terminal[package.k]])
             /\ shake' = [shake EXCEPT ![a].quiet = @ \cup {"desk"}]
             /\ inbox' = rest /\ UNCHANGED primary
          \/ /\ package.k = "final"
             /\ primary' = [primary EXCEPT !["desk"] = [state |-> "connecting", of |-> a]]
             /\ shake' = ShutOn("desk", {a}) /\ inbox' = HungUp(rest, "desk", {a})
             /\ UNCHANGED events
          \/ /\ package.k = "closed"
             /\ shake' = ShutOn("desk", {a}) /\ inbox' = rest
             /\ events' = IF "desk" \in shake[a].quiet THEN events
                          ELSE Posted(events, "desk", Scanner(FALSE))
             /\ UNCHANGED primary
    /\ UNCHANGED <<desk, hand, pairedOn, banned, overrun, counters>>

\* The network cuts a handshake: both ends read an error.
Cut(a) ==
    /\ cuts < MaxCuts /\ cuts' = cuts + 1 /\ shake[a].open = Sides
    /\ shake' = [shake EXCEPT ![a].open = {}]
    /\ inbox' = [s \in Sides |-> [inbox[s] EXCEPT ![a] = <<>>]]
    /\ events' = [s \in Sides |-> IF s \in shake[a].quiet THEN events[s]
                                  ELSE Append(events[s], Scanner(FALSE))]
    /\ UNCHANGED <<desk, hand, primary, pairedOn, banned, overrun, typed>>

----------------------------------------------------------------------------
(* The primary connection, as far as its events go. *)

\* The listener is there: CoPrimaryConnectionCallback sends its port and hangs up.
Listens ==
    /\ primary["phone"].state = "seeking"
    /\ LET a == primary["phone"].of
       IN /\ primary' = [primary EXCEPT !["phone"].state = "listening"]
          /\ inbox' = HungUp(Sent(inbox, "phone", a, [k |-> "final"]), "phone", {a} \cap OpenOn("phone"))
          /\ shake' = ShutOn("phone", {a})
    /\ UNCHANGED <<desk, hand, events, pairedOn, banned, overrun, counters>>

Meets ==
    /\ primary["desk"].state = "connecting" /\ primary["phone"].state = "listening"
    /\ primary["phone"].of = primary["desk"].of
    /\ primary' = [s \in Sides |-> [state |-> "up", of |-> primary[s].of]]
    /\ events' = [s \in Sides |-> Append(events[s], [k |-> "Connected", ok |-> TRUE])]
    /\ pairedOn' = Sides
    /\ UNCHANGED <<desk, hand, shake, inbox, banned, overrun, counters>>

\* Nobody listens there any more, or the network fails, and then perhaps for both.
FailsToMeet ==
    /\ primary["desk"].state = "connecting"
    /\ LET listened == primary["phone"] = [state |-> "listening", of |-> primary["desk"].of]
       IN \E failing \in {{"desk"}, Sides} :
             /\ "phone" \in failing => listened
             /\ listened => cuts < MaxCuts
             /\ cuts' = IF listened THEN cuts + 1 ELSE cuts
             /\ primary' = [s \in Sides |-> IF s \in failing THEN [state |-> "down", of |-> None]
                                            ELSE primary[s]]
             /\ events' = [s \in Sides |-> IF s \in failing
                                           THEN events[s] \o <<[k |-> "Connected", ok |-> FALSE],
                                                               [k |-> "Disconnected"]>>
                                           ELSE events[s]]
    /\ UNCHANGED <<desk, hand, shake, inbox, pairedOn, banned, overrun, typed>>

\* The session's socket fails or the other side has closed it.
Breaks(s) ==
    /\ primary[s].state = "up"
    /\ \/ primary[Other(s)] # primary[s] /\ UNCHANGED cuts
       \/ primary[Other(s)] = primary[s] /\ cuts < MaxCuts /\ cuts' = cuts + 1
    /\ primary' = [primary EXCEPT ![s] = [state |-> "down", of |-> None]]
    /\ events' = Posted(events, s, [k |-> "Disconnected"])
    /\ UNCHANGED <<desk, hand, shake, inbox, pairedOn, banned, overrun, typed>>

----------------------------------------------------------------------------
(* The desktop's controller. *)

Connects ==
    \E a \in Attempts, mode \in {"pair", "known"} :
        /\ ~shake[a].begun /\ \A b \in Attempts : b < a => shake[b].begun /\ shake[b].open = {}
        /\ ~desk.pending /\ ~desk.connected /\ ~desk.asked
        /\ mode = "known" => "desk" \in pairedOn
        /\ desk' = [desk EXCEPT !.pending = TRUE, !.failed = FALSE]
        /\ \/ /\ shake' = [shake EXCEPT ![a] = [@ EXCEPT !.begun = TRUE, !.mode = mode, !.open = Sides]]
              /\ inbox' = [inbox EXCEPT !["phone"][a] = <<[k |-> "hello"]>>]
              /\ UNCHANGED <<events, cuts>>
           \/ /\ cuts < MaxCuts /\ cuts' = cuts + 1
              /\ shake' = [shake EXCEPT ![a].begun = TRUE] /\ UNCHANGED inbox
              /\ events' = Posted(events, "desk", Scanner(FALSE))
    /\ UNCHANGED <<hand, primary, pairedOn, banned, overrun, typed>>

SubmitsCode(right) ==
    /\ desk.asked /\ desk.prompt # None /\ ~desk.approving
    /\ typed < MaxTyped /\ typed' = typed + 1
    /\ inbox' = Sent(inbox, "desk", desk.prompt, [k |-> "answer", right |-> right])
    /\ UNCHANGED <<desk, hand, shake, primary, events, pairedOn, banned, overrun, cuts>>

CancelsVerification ==
    /\ desk.asked
    /\ desk' = [desk EXCEPT !.asked = FALSE, !.prompt = None, !.tries = 0,
                            !.approving = FALSE, !.pending = FALSE]
    /\ ManagerDisconnects("desk", IF desk.prompt = None THEN inbox
           ELSE Sent(inbox, "desk", desk.prompt, [k |-> "answer", right |-> FALSE]))
    /\ UNCHANGED <<hand, pairedOn, banned, overrun, counters>>

DeskDisconnects ==
    /\ desk.connected
    /\ desk' = [desk EXCEPT !.pending = FALSE]
    /\ ManagerDisconnects("desk", inbox)
    /\ UNCHANGED <<hand, pairedOn, banned, overrun, counters>>

\* As WithError would be if it only showed the text.
WithTextOnly(screen) == [screen EXCEPT !.failed = TRUE]
WithError(screen) == [screen EXCEPT !.pending = FALSE, !.failed = TRUE]
NoDialogue(screen) == [screen EXCEPT !.asked = FALSE, !.prompt = None, !.approving = FALSE]

ShowsConnected(e) ==
    LET shown == [NoDialogue(desk) EXCEPT !.connected = e.ok, !.pending = FALSE]
    IN IF e.ok THEN shown ELSE WithError(shown)
ShowsDisconnected ==
    [NoDialogue(desk) EXCEPT !.connected = FALSE, !.pending = FALSE, !.tries = 0]
ShowsScannerError(e) == IF e.benign THEN [desk EXCEPT !.pending = FALSE] ELSE WithError(desk)
AsksForTheCode(e) == [desk EXCEPT !.tries = 0, !.prompt = e.a, !.approving = FALSE, !.asked = TRUE]
ShowsTriesLeft(e) ==
    IF desk.asked THEN [desk EXCEPT !.tries = e.left, !.approving = FALSE] ELSE desk
ShowsDenied == WithError(NoDialogue(desk))

DeskHandles(e) ==
    CASE e.k = "Connected" -> ShowsConnected(e)
      [] e.k = "Disconnected" -> ShowsDisconnected
      [] e.k = "Scanner" -> ShowsScannerError(e)
      [] e.k = "Verification" -> AsksForTheCode(e)
      [] e.k = "FailedVerification" -> ShowsTriesLeft(e)
      [] e.k = "ApprovalRequested" -> [desk EXCEPT !.approving = TRUE]
      [] e.k = "Denied" -> ShowsDenied
      [] e.k \in {"NotPaired", "Cooldown"} -> WithError(desk)

DeskEvent ==
    /\ events["desk"] # <<>>
    /\ LET e == Head(events["desk"])
       IN /\ desk' = DeskHandles(e)
          /\ pairedOn' = IF e.k = "NotPaired" THEN pairedOn \ {"desk"} ELSE pairedOn
    /\ events' = [events EXCEPT !["desk"] = Tail(@)]
    /\ UNCHANGED <<hand, shake, inbox, primary, banned, overrun, counters>>

----------------------------------------------------------------------------
(* The phone's controller. *)

PhoneHandles(e) ==
    CASE e.k = "Connected" ->
            IF e.ok THEN [connected |-> TRUE, challenge |-> None, approval |-> None, failed |-> FALSE]
            ELSE [hand EXCEPT !.connected = FALSE, !.failed = TRUE]
      [] e.k = "Disconnected" ->
            [connected |-> FALSE, challenge |-> None, approval |-> None, failed |-> TRUE]
      [] e.k = "Scanner" -> [hand EXCEPT !.failed = TRUE]
      [] e.k = "Pending" -> [hand EXCEPT !.challenge = e.a]
      [] e.k = "ApprovalRequested" -> [hand EXCEPT !.challenge = None, !.approval = e.a]

\* Showing the code is also what lets the handshake ask for it.
PhoneEvent ==
    /\ events["phone"] # <<>>
    /\ LET e == Head(events["phone"])
       IN /\ hand' = PhoneHandles(e)
          /\ shake' = IF e.k = "Pending" THEN [shake EXCEPT ![e.a].tries = MaxTries] ELSE shake
          /\ inbox' = IF e.k = "Pending" THEN Sent(inbox, "phone", e.a, [k |-> "question"]) ELSE inbox
    /\ events' = [events EXCEPT !["phone"] = Tail(@)]
    /\ UNCHANGED <<desk, primary, pairedOn, banned, overrun, counters>>

\* The approval shown may be of a handshake that has ended: nothing takes it back.
Approves ==
    /\ hand.approval # None
    /\ shake' = [shake EXCEPT ![hand.approval] = [@ EXCEPT !.approved = TRUE, !.quiet = @ \cup {"phone"}]]
    /\ SeeksPrimary(hand.approval)
    /\ hand' = [hand EXCEPT !.approval = None]
    /\ UNCHANGED <<desk, inbox, events, pairedOn, banned, counters>>

Denies ==
    /\ hand.approval # None
    /\ LET a == {hand.approval} \cap OpenOn("phone")
       IN /\ shake' = ShutOn("phone", a)
          /\ inbox' = HungUp(Sent(inbox, "phone", hand.approval, [k |-> "denied"]), "phone", a)
          /\ events' = IF a \cap Loud("phone") = {} THEN events
                       ELSE Posted(events, "phone", Scanner(TRUE))
    /\ hand' = [hand EXCEPT !.approval = None]
    /\ UNCHANGED <<desk, primary, pairedOn, banned, overrun, counters>>

\* Disconnect, or removing the pairing, which disconnects as well.
PhoneLeaves ==
    /\ hand.connected
    /\ \/ UNCHANGED pairedOn \/ pairedOn' = pairedOn \ {"phone"}
    /\ ManagerDisconnects("phone", inbox)
    /\ UNCHANGED <<desk, hand, banned, overrun, counters>>

Next ==
    \/ \E a \in Attempts : PhoneReads(a) \/ DeskReads(a) \/ Cut(a)
    \/ Listens \/ Meets \/ FailsToMeet
    \/ \E s \in Sides : Breaks(s)
    \/ Connects \/ CancelsVerification \/ DeskDisconnects \/ DeskEvent
    \/ \E right \in BOOLEAN : SubmitsCode(right)
    \/ PhoneEvent \/ Approves \/ Denies \/ PhoneLeaves

Spec == Init /\ [][Next]_screenVars

----------------------------------------------------------------------------
\* Every flag, queue and counter keeps its type.
TypeOK ==
    /\ desk \in [connected : BOOLEAN, pending : BOOLEAN, asked : BOOLEAN, prompt : 0..MaxAttempts,
                 approving : BOOLEAN, tries : 0..MaxTries, failed : BOOLEAN]
    /\ hand \in [connected : BOOLEAN, challenge : 0..MaxAttempts, approval : 0..MaxAttempts,
                 failed : BOOLEAN]
    /\ shake \in [Attempts -> [mode : {"pair", "known"}, open : SUBSET Sides, begun : BOOLEAN,
                               quiet : SUBSET Sides, tries : 0..MaxTries, proven : BOOLEAN,
                               approved : BOOLEAN]]
    /\ primary \in [Sides -> [state : {"down", "seeking", "listening", "connecting", "up"},
                              of : 0..MaxAttempts]]
    /\ pairedOn \subseteq Sides /\ banned \in BOOLEAN /\ overrun \in BOOLEAN
    /\ typed \in 0..MaxTyped /\ cuts \in 0..MaxCuts

Queued(s) == {events[s][i] : i \in 1..Len(events[s])}

\* A desktop that shows a pending connection waits for something that ends it: a
\* handshake still open on its side, the primary connection it makes, or an event on its
\* way.  The handshake suppresses its errors for reasons that must not leave a hole
\* (DeviceConnectionController.cpp:157, InitialConnection.cpp:581).
PendingEnds ==
    desk.pending =>
        \/ OpenOn("desk") # {} \/ primary["desk"].state = "connecting"
        \/ \E e \in Queued("desk") : e.k \in {"Connected", "Disconnected", "Scanner", "Denied",
                                              "NotPaired", "Cooldown"}

\* What a screen will show when it has handled its events is whether there is a session,
\* unless an approval of an ended handshake took its place.
LastNews(s, shown) ==
    LET news == SelectSeq(events[s], LAMBDA e : e.k \in {"Connected", "Disconnected"})
    IN IF news = <<>> THEN shown ELSE news[Len(news)] = [k |-> "Connected", ok |-> TRUE]
ConnectedIsTheSession ==
    overrun \/ \A s \in Sides :
        LastNews(s, IF s = "desk" THEN desk.connected ELSE hand.connected) = (primary[s].state = "up")

\* A session was made by a handshake that proved its code and was approved on the phone,
\* or by one between devices that knew each other: never by the prompt of another attempt.
SessionWasApproved ==
    \A s \in Sides : primary[s].state = "up" =>
        LET a == shake[primary[s].of] IN a.mode = "pair" => a.proven /\ a.approved

ScreensAreHonest == PendingEnds /\ ConnectedIsTheSession /\ SessionWasApproved
=============================================================================
