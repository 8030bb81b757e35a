--------------------------- MODULE InitialConnection ---------------------------
(***************************************************************************)
(* The handshake before the primary connection (InitialConnection.cpp):    *)
(* device data, pairing code, approval by the user, and the hand-over of   *)
(* the endpoint on which the peer seeks its primary connection.            *)
(*                                                                         *)
(* End 0 is m_initialConnectionOut, one object that a device uses for one  *)
(* attempt after another; end s > 0 is the object that accepts attempt s   *)
(* on the other device.  Each end has its strand, and an action is what    *)
(* its coroutines do between two suspensions.  Disconnect called on the    *)
(* strand runs CoDisconnect inline up to its drain loop.                   *)
(*                                                                         *)
(* TCP keeps the order and may be reset at any time.  A code is the number *)
(* of its session: two sessions never draw the same one.  Attempts follow  *)
(* each other: Connect is called when the last attempt's coroutines are    *)
(* over.  Bounds: MaxSession, MaxSeek, MaxInputs, MaxCuts.                 *)
(***************************************************************************)
EXTENDS Naturals, Sequences, FiniteSets

CONSTANTS
    MaxTries,       \* MAX_NUMBER_OF_VERIFICATION_TRIES
    MaxSession,     \* bound on the number of attempts
    MaxSeek,        \* bound on the number of SeekPrimary calls
    MaxInputs,      \* bound on the answers the user types and the cuts, together
    MaxCuts         \* bound on the cuts: resets, drain timeouts, calls of Disconnect

ASSUME HandshakeBounds ==
    /\ MaxTries \in Nat \ {0} /\ MaxSession \in Nat /\ MaxSeek \in Nat
    /\ MaxInputs \in Nat /\ MaxCuts \in Nat

VARIABLES
    attempt,        \* how many times Connect was called
    mode,           \* per session: its InitialConnectionMode
    end,            \* per end: members and coroutines of its InitialConnection
    wire,           \* per end: packages on their way to it
    reset,          \* sessions whose TCP connection was reset
    asked,          \* sessions whose ConnectionPendingEvent is not answered
    approving,      \* session of the ConnectionApprovalRequestedEvent the user sees
    verifying,      \* session of the ConnectionVerificationEvent the user sees
    abandoned,      \* attempts the application disconnected
    seeks,          \* SeekPrimary calls: their sessions
    listening,      \* seeks whose callback has not run
    banned,         \* the connecting device is in g_connectionBanExpirations
    accepted,       \* ghost: sessions the application accepted
    typed,          \* ghost: answers the user typed: <<session, code>>
    approved,       \* ghost: sessions the user approved
    told,           \* ghost: the last event of the attempt on the connecting device
    handed,         \* ghost: seeks whose endpoint the connecting device got
    broken,         \* ghost: sessions cut by the network, a user or the drain timeout
    cuts            \* ghost: how many times

app     == <<asked, approving, verifying, abandoned>>
primary == <<seeks, listening>>
ghosts  == <<accepted, typed, approved, told, handed, broken, cuts>>
vars == <<attempt, mode, end, wire, reset, app, primary, banned, ghosts>>

-------------------------------------------------------------------------------

Sessions == 1 .. MaxSession
Ends     == 0 .. MaxSession
Modes    == {"PAIR_AND_CONNECT", "CONNECT_WITH_PAIR", "CONNECTION_WITHOUT_PAIR"}
States   == {"DISCONNECTED", "CONNECTING", "CONNECTED", "DISCONNECTING"}

None == [type |-> "none", about |-> 0]
Pkg(type, about) == [type |-> type, about |-> about]

PackageTypes ==
    {"DEVICE_DATA_FOR_CONNECTION", "DEVICE_DATA_FOR_SEEKING_CONNECTION",
     "CHALLENGE_ANSWER_REQUEST", "CHALLENGE_RESPONSE", "CHALLENGE_WRONG_ANSWER",
     "DEVICE_IS_UNPAIRED", "DEVICE_CONNECT_COOLDOWN", "CONNECTION_APPROVAL_REQUEST",
     "CONNECTION_APPROVAL_DENIED"}

(* What "about" holds: the code of a response, the tries left, or the seek.  *)
Packages == [type : PackageTypes, about : Nat]

EndRecord ==
    [state : States,            \* m_connectionState
     dialing : BOOLEAN,         \* CoConnect waits in async_connect
     closing : BOOLEAN,         \* CoDisconnect is in its drain loop
     sending : BOOLEAN,         \* CoSend runs
     receiving : BOOLEAN,       \* CoReceive runs
     out : Seq(Packages),       \* m_packagesOut
     writing : Packages \cup {None},    \* the package of m_sendInFlight
     final : BOOLEAN,           \* m_finalHandshakeCompleted
     quiet : BOOLEAN,           \* m_suppressDisconnectErrors
     terminal : BOOLEAN,        \* m_receivedTerminalHandshakeReason
     code : Nat,                \* m_challengeResult, 0 when empty
     tries : Nat]               \* m_challengeLeftTries

Told == {"nothing", "prompt", "missed", "reason", "error"}

TypeOK ==
    /\ attempt \in Ends
    /\ mode \in [Sessions -> Modes]
    /\ end \in [Ends -> EndRecord]
    /\ wire \in [Ends -> Seq(Packages)]
    /\ reset \subseteq Sessions
    /\ asked \subseteq Sessions
    /\ approving \in Ends /\ verifying \in Ends
    /\ abandoned \subseteq Sessions
    /\ seeks \in Seq(Sessions)
    /\ listening \subseteq DOMAIN seeks
    /\ banned \in BOOLEAN
    /\ accepted \subseteq Sessions /\ approved \subseteq Sessions
    /\ typed \subseteq Sessions \X Nat
    /\ told \in Told
    /\ handed \subseteq DOMAIN seeks
    /\ broken \subseteq Sessions /\ cuts \in 0 .. MaxCuts

Idle(state) ==
    [state |-> state, dialing |-> FALSE, closing |-> FALSE, sending |-> FALSE,
     receiving |-> FALSE, out |-> <<>>, writing |-> None, final |-> FALSE,
     quiet |-> FALSE, terminal |-> FALSE, code |-> 0, tries |-> 0]

(* The accepting ends are in CoSeek already: see AcceptLoop for how they get *)
(* there.                                                                    *)
Init ==
    /\ attempt = 0
    /\ mode = [s \in Sessions |-> "CONNECTION_WITHOUT_PAIR"]
    /\ end = [e \in Ends |-> Idle(IF e = 0 THEN "DISCONNECTED" ELSE "CONNECTING")]
    /\ wire = [e \in Ends |-> <<>>]
    /\ reset = {} /\ asked = {} /\ approving = 0 /\ verifying = 0 /\ abandoned = {}
    /\ seeks = <<>> /\ listening = {}
    /\ banned = FALSE
    /\ accepted = {} /\ typed = {} /\ approved = {} /\ handed = {} /\ broken = {}
    /\ told = "nothing" /\ cuts = 0

Session(e) == IF e = 0 THEN attempt ELSE e

Closed(e) == end[e].state = "DISCONNECTED"
PeerClosed(e) == IF e = 0 THEN attempt > 0 /\ Closed(attempt) ELSE attempt # e \/ Closed(0)

(* A package written by e is on the wire to its peer, if the peer will still *)
(* read; what nobody reads any more is not kept.                             *)
Put(e, p) ==
    LET to == IF e = 0 THEN attempt ELSE 0
    IN  IF (e = 0 \/ attempt = e) /\ (end[to].receiving \/ end[to].state = "CONNECTING")
        THEN [wire EXCEPT ![to] = Append(@, p)] ELSE wire
NoReader(e) == [wire EXCEPT ![e] = <<>>]

Queued(r, p) == [r EXCEPT !.out = Append(@, p)]

(* CoDisconnect up to its first suspension: with nothing to drain it closes *)
(* the socket at once.                                                      *)
CoDisconnect(r) ==
    IF r.state \in {"DISCONNECTED", "DISCONNECTING"} THEN r
    ELSE IF r.writing = None /\ r.out = <<>> THEN [r EXCEPT !.state = "DISCONNECTED"]
    ELSE [r EXCEPT !.state = "DISCONNECTING", !.closing = TRUE]

(* The errors of an end that has given a reason, or handed over, are its own *)
(* business; only what the connecting device is told is kept.                *)
Reports(r) == ~r.final /\ ~r.terminal /\ ~r.quiet
Tells(e, what) == told' = IF e = 0 THEN what ELSE told
TellsError(e) == Tells(e, IF Reports(end[e]) THEN "error" ELSE told)

MoreInputs == Cardinality(typed) + cuts < MaxInputs

(* The session is cut, by the network, a timeout or an application. *)
Cuts(s) == cuts < MaxCuts /\ MoreInputs /\ cuts' = cuts + 1 /\ broken' = broken \cup {s}

SetsEnd(e, r) == end' = [end EXCEPT ![e] = r]
-------------------------------------------------------------------------------
(* CoConnect and CoSeek *)

LastAttemptIsOver == ~end[0].dialing /\ ~end[0].closing /\ ~end[0].sending /\ ~end[0].receiving

(* m_packagesOut is kept, unless ConnectionManager::Disconnect replaced the  *)
(* object.                                                                   *)
Connect(how) ==
    /\ attempt < MaxSession /\ end[0].state = "DISCONNECTED" /\ LastAttemptIsOver
    /\ attempt' = attempt + 1 /\ mode' = [mode EXCEPT ![attempt'] = how]
    /\ SetsEnd(0, [end[0] EXCEPT !.state = "CONNECTING", !.dialing = TRUE, !.final = FALSE,
                                 !.quiet = FALSE, !.terminal = FALSE,
                                 !.out = IF attempt \in abandoned THEN <<>> ELSE @])
    /\ wire' = [wire EXCEPT ![0] = <<>>]
    /\ told' = "nothing"
    /\ UNCHANGED <<reset, app, primary, banned, accepted, typed, approved, handed, broken, cuts>>

(* A CoDisconnect that still drains does not stop it: the state is CONNECTED *)
(* again until the socket is closed.                                         *)
ConnectSucceeds ==
    /\ end[0].dialing /\ ~Closed(0) /\ attempt \notin reset
    /\ SetsEnd(0, [end[0] EXCEPT !.dialing = FALSE, !.state = "CONNECTED", !.sending = TRUE,
                                 !.receiving = TRUE,
                                 !.out = Append(@, Pkg("DEVICE_DATA_FOR_CONNECTION", 0))])
    /\ UNCHANGED <<attempt, mode, wire, reset, app, primary, banned, ghosts>>

ConnectFails ==
    /\ end[0].dialing
    /\ SetsEnd(0, CoDisconnect([end[0] EXCEPT !.dialing = FALSE]))
    /\ Tells(0, "error")
    /\ UNCHANGED <<attempt, mode, wire, reset, app, primary, banned, accepted, typed,
                   approved, handed, broken, cuts>>

(* CoSeek, after async_accept. *)
Accepts(s) ==
    /\ end[s].state = "CONNECTING" /\ attempt = s /\ ~end[0].dialing
    /\ end[0].state # "CONNECTING"
    /\ SetsEnd(s, [end[s] EXCEPT !.state = "CONNECTED", !.sending = TRUE, !.receiving = TRUE])
    /\ UNCHANGED <<attempt, mode, wire, reset, app, primary, banned, ghosts>>
-------------------------------------------------------------------------------
(* CoSend *)

Cut(e) == Closed(e) \/ PeerClosed(e) \/ Session(e) \in reset

(* The loop ends, and clears m_packagesOut. *)
Ended(r) == [r EXCEPT !.sending = FALSE, !.out = <<>>]
TakesNext(r) == [r EXCEPT !.writing = Head(r.out), !.out = Tail(r.out)]

(* Variant: the loop ends with the connection, whatever is still queued. *)
CoSendStops(e) ==
    /\ end[e].sending /\ end[e].writing = None
    /\ \/ end[e].state = "CONNECTED" /\ end[e].out # <<>> /\ SetsEnd(e, TakesNext(end[e]))
       \/ end[e].state # "CONNECTED" /\ SetsEnd(e, Ended(end[e]))
    /\ UNCHANGED <<attempt, mode, wire, reset, app, primary, banned, ghosts>>

CoSendWakes(e) ==
    /\ end[e].sending /\ end[e].writing = None
    /\ \/ ~Closed(e) /\ end[e].out # <<>> /\ SetsEnd(e, TakesNext(end[e]))
       \/ Closed(e) /\ SetsEnd(e, Ended(end[e]))
       \/ end[e].state = "DISCONNECTING" /\ end[e].out = <<>> /\ SetsEnd(e, Ended(end[e]))
    /\ UNCHANGED <<attempt, mode, wire, reset, app, primary, banned, ghosts>>

CoSendWrites(e) ==
    /\ end[e].writing # None /\ ~Closed(e) /\ Session(e) \notin reset
    /\ wire' = Put(e, end[e].writing)
    /\ LET r == [end[e] EXCEPT !.writing = None]
       IN  SetsEnd(e, IF r.out # <<>> THEN TakesNext(r)
                      ELSE IF r.state # "CONNECTED" THEN Ended(r) ELSE r)
    /\ UNCHANGED <<attempt, mode, reset, app, primary, banned, ghosts>>

CoSendFails(e) ==
    /\ end[e].writing # None /\ Cut(e)
    /\ SetsEnd(e, Ended(CoDisconnect([end[e] EXCEPT !.writing = None])))
    /\ TellsError(e)
    /\ UNCHANGED <<attempt, mode, wire, reset, app, primary, banned, accepted, typed,
                   approved, handed, broken, cuts>>
-------------------------------------------------------------------------------
(* CoReceive *)

(* A whole package of this type was read while CONNECTED. *)
Reads(e, type) ==
    /\ end[e].receiving /\ end[e].state = "CONNECTED" /\ Session(e) \notin reset
    /\ wire[e] # <<>> /\ Head(wire[e]).type = type

Consumes(e) ==
    wire' = IF end'[e].receiving THEN [wire EXCEPT ![e] = Tail(@)] ELSE NoReader(e)

Content(e) == Head(wire[e]).about

(* Disconnect and co_return, from CoReceive. *)
Leaves(r) == CoDisconnect([r EXCEPT !.receiving = FALSE])

(* The package came after CoDisconnect had begun. *)
DropsAndEnds(e) ==
    /\ end[e].receiving /\ end[e].state # "CONNECTED" /\ wire[e] # <<>>
    /\ SetsEnd(e, [end[e] EXCEPT !.receiving = FALSE]) /\ wire' = NoReader(e)
    /\ UNCHANGED <<attempt, mode, reset, app, primary, banned, ghosts>>

(* Variant: an attempt that was cut off ends in silence. *)
CoReceiveFailsSilently(e) ==
    /\ end[e].receiving
    /\ Closed(e) \/ Session(e) \in reset \/ (PeerClosed(e) /\ wire[e] = <<>>)
    /\ SetsEnd(e, Leaves(end[e])) /\ wire' = NoReader(e)
    /\ UNCHANGED <<attempt, mode, reset, app, primary, banned, ghosts>>

CoReceiveFails(e) ==
    /\ end[e].receiving
    /\ Closed(e) \/ Session(e) \in reset \/ (PeerClosed(e) /\ wire[e] = <<>>)
    /\ SetsEnd(e, Leaves(end[e])) /\ wire' = NoReader(e)
    /\ TellsError(e)
    /\ UNCHANGED <<attempt, mode, reset, app, primary, banned, accepted, typed,
                   approved, handed, broken, cuts>>

(* DEVICE_DATA_FOR_CONNECTION: refused by the ban, or because this device    *)
(* does not know the other; or the application is asked; or, in              *)
(* CONNECT_WITH_PAIR, CoProcessConnectionPendingCallback is called at once.  *)
ReceivesDeviceData(s) ==
    /\ Reads(s, "DEVICE_DATA_FOR_CONNECTION")
    /\ \/ /\ banned
          /\ SetsEnd(s, Leaves(Queued(end[s], Pkg("DEVICE_CONNECT_COOLDOWN", 0))))
          /\ UNCHANGED <<asked, primary>>
       \/ /\ ~banned /\ mode[s] = "CONNECT_WITH_PAIR"
          /\ SetsEnd(s, Leaves(Queued(end[s], Pkg("DEVICE_IS_UNPAIRED", 0))))
          /\ UNCHANGED <<asked, primary>>
       \/ /\ ~banned /\ mode[s] = "CONNECT_WITH_PAIR" /\ Len(seeks) < MaxSeek
          /\ SetsEnd(s, [end[s] EXCEPT !.tries = MaxTries, !.quiet = TRUE])
          /\ seeks' = Append(seeks, s) /\ listening' = listening \cup {Len(seeks')}
          /\ UNCHANGED asked
       \/ /\ ~banned /\ mode[s] # "CONNECT_WITH_PAIR"
          /\ asked' = asked \cup {s}
          /\ UNCHANGED <<end, primary>>
    /\ UNCHANGED <<attempt, mode, reset, approving, verifying, abandoned, banned, ghosts>>
    /\ Consumes(s)

(* Variant: any answer will do. *)
ReceivesAnyAnswer(s) ==
    /\ Reads(s, "CHALLENGE_RESPONSE")
    /\ SetsEnd(s, Queued(end[s], Pkg("CONNECTION_APPROVAL_REQUEST", 0)))
    /\ approving' = s
    /\ UNCHANGED <<attempt, mode, reset, asked, verifying, abandoned, primary, banned, ghosts>>
    /\ Consumes(s)

ReceivesRightAnswer(s) ==
    /\ Reads(s, "CHALLENGE_RESPONSE") /\ Content(s) = end[s].code
    /\ SetsEnd(s, Queued(end[s], Pkg("CONNECTION_APPROVAL_REQUEST", 0)))
    /\ approving' = s
    /\ UNCHANGED <<attempt, mode, reset, asked, verifying, abandoned, primary, banned, ghosts>>
    /\ Consumes(s)

(* Variant: the tries are counted down without a look at zero. *)
ReceivesWrongAnswerBlindly(s) ==
    /\ Reads(s, "CHALLENGE_RESPONSE") /\ Content(s) # end[s].code
    /\ LET left == end[s].tries - 1
           r == Queued([end[s] EXCEPT !.tries = left], Pkg("CHALLENGE_WRONG_ANSWER", left))
       IN  /\ SetsEnd(s, IF left = 0 THEN Leaves(r) ELSE r)
           /\ banned' = (banned \/ (left = 0 /\ s \in asked \cup accepted))
    /\ UNCHANGED <<attempt, mode, reset, app, primary, ghosts>>
    /\ Consumes(s)

(* The ban needs a key, which comes with the device data: asked or answered  *)
(* sessions have it, a session that begins with a response does not.         *)
ReceivesWrongAnswer(s) ==
    /\ Reads(s, "CHALLENGE_RESPONSE") /\ Content(s) # end[s].code
    /\ LET left == IF end[s].tries > 0 THEN end[s].tries - 1 ELSE 0
           r == Queued([end[s] EXCEPT !.tries = left], Pkg("CHALLENGE_WRONG_ANSWER", left))
       IN  /\ SetsEnd(s, IF left = 0 THEN Leaves(r) ELSE r)
           /\ banned' = (banned \/ (left = 0 /\ s \in asked \cup accepted))
    /\ UNCHANGED <<attempt, mode, reset, app, primary, ghosts>>
    /\ Consumes(s)

(* DEVICE_DATA_FOR_SEEKING_CONNECTION: ConnectPrimary to the peer's endpoint. *)
ReceivesEndpoint ==
    /\ Reads(0, "DEVICE_DATA_FOR_SEEKING_CONNECTION")
    /\ handed' = handed \cup {Content(0)}
    /\ SetsEnd(0, Leaves([end[0] EXCEPT !.final = TRUE, !.quiet = TRUE]))
    /\ UNCHANGED <<attempt, mode, reset, app, primary, banned, accepted, typed, approved,
                   told, broken, cuts>>
    /\ Consumes(0)

ReceivesWrongAnswerReport ==
    /\ Reads(0, "CHALLENGE_WRONG_ANSWER") /\ Tells(0, "missed")
    /\ UNCHANGED <<attempt, mode, end, reset, app, primary, banned, accepted, typed,
                   approved, handed, broken, cuts>>
    /\ Consumes(0)

ReceivesPrompt ==
    /\ \/ Reads(0, "CONNECTION_APPROVAL_REQUEST") /\ UNCHANGED verifying
       \/ Reads(0, "CHALLENGE_ANSWER_REQUEST") /\ verifying' = attempt
    /\ Tells(0, "prompt")
    /\ UNCHANGED <<attempt, mode, end, reset, asked, approving, abandoned, primary, banned, accepted,
                   typed, approved, handed, broken, cuts>>
    /\ Consumes(0)

(* Variant: the reason is told and not remembered. *)
ForgetsReason ==
    /\ \E type \in {"CONNECTION_APPROVAL_DENIED", "DEVICE_IS_UNPAIRED",
                     "DEVICE_CONNECT_COOLDOWN"} : Reads(0, type)
    /\ Tells(0, "reason")
    /\ UNCHANGED <<attempt, mode, end, reset, app, primary, banned, accepted, typed, approved,
                   handed, broken, cuts>>
    /\ Consumes(0)

ReceivesReason ==
    /\ \E type \in {"CONNECTION_APPROVAL_DENIED", "DEVICE_IS_UNPAIRED",
                     "DEVICE_CONNECT_COOLDOWN"} : Reads(0, type)
    /\ SetsEnd(0, [end[0] EXCEPT !.terminal = TRUE])
    /\ Tells(0, "reason")
    /\ UNCHANGED <<attempt, mode, reset, app, primary, banned, accepted, typed, approved,
                   handed, broken, cuts>>
    /\ Consumes(0)
-------------------------------------------------------------------------------
(* The applications and their users *)

(* The ConnectionPendingEvent's callback, with a challenge or without. *)
AppRejects(s) ==
    /\ s \in asked /\ asked' = asked \ {s}
    /\ SetsEnd(s, CoDisconnect(end[s])) /\ broken' = broken \cup {s}
    /\ UNCHANGED <<attempt, mode, wire, reset, approving, verifying, abandoned, primary, banned,
                   accepted, typed, approved, told, handed, cuts>>

AppAccepts(s) ==
    /\ s \in asked /\ asked' = asked \ {s} /\ accepted' = accepted \cup {s}
    /\ LET r == [end[s] EXCEPT !.tries = MaxTries]
       IN  \/ /\ mode[s] = "PAIR_AND_CONNECT"
              /\ SetsEnd(s, CoDisconnect(r)) /\ UNCHANGED primary
           \/ /\ mode[s] # "PAIR_AND_CONNECT" /\ Len(seeks) < MaxSeek
              /\ SetsEnd(s, [r EXCEPT !.quiet = TRUE])
              /\ seeks' = Append(seeks, s) /\ listening' = listening \cup {Len(seeks')}
    /\ UNCHANGED <<attempt, mode, wire, reset, approving, verifying, abandoned, banned, typed,
                   approved, told, handed, broken, cuts>>

AppAcceptsIfVerified(s) ==
    /\ s \in asked /\ asked' = asked \ {s} /\ accepted' = accepted \cup {s}
    /\ SetsEnd(s, Queued([end[s] EXCEPT !.tries = MaxTries, !.code = s],
                         Pkg("CHALLENGE_ANSWER_REQUEST", 0)))
    /\ UNCHANGED <<attempt, mode, wire, reset, approving, verifying, abandoned, primary, banned,
                   typed, approved, told, handed, broken, cuts>>

(* The user answers the last prompt, even when its session is over.  What    *)
(* cancelVerification sends, an empty answer, is a wrong one, as the prompt  *)
(* comes after m_challengeResult is set; the ConnectionManager::Disconnect   *)
(* that follows replaces the object, so that the empty answer never opens    *)
(* another attempt, before whose challenge it would be equal.                *)
UserAnswers(code) ==
    /\ verifying # 0 /\ MoreInputs
    /\ <<verifying, code>> \notin typed /\ typed' = typed \cup {<<verifying, code>>}
    /\ SetsEnd(0, Queued(end[0], Pkg("CHALLENGE_RESPONSE", code)))
    /\ UNCHANGED <<attempt, mode, wire, reset, app, primary, banned, accepted, approved, told,
                   handed, broken, cuts>>

UserDenies ==
    /\ approving # 0 /\ approving' = 0
    /\ SetsEnd(approving, CoDisconnect(Queued(end[approving],
                                              Pkg("CONNECTION_APPROVAL_DENIED", 0))))
    /\ UNCHANGED <<attempt, mode, wire, reset, asked, verifying, abandoned, primary, banned, ghosts>>

(* Whatever became of the session, the primary connection is sought. *)
UserApproves ==
    /\ approving # 0 /\ approving' = 0 /\ approved' = approved \cup {approving}
    /\ Len(seeks) < MaxSeek
    /\ SetsEnd(approving, [end[approving] EXCEPT !.quiet = TRUE])
    /\ seeks' = Append(seeks, approving) /\ listening' = listening \cup {Len(seeks')}
    /\ UNCHANGED <<attempt, mode, wire, reset, asked, verifying, abandoned, banned, accepted,
                   typed, told, handed, broken, cuts>>

(* CoPrimaryConnectionCallback: the listener of seek k is open. *)
PrimaryListens(k) ==
    /\ k \in listening /\ listening' = listening \ {k}
    /\ LET s == seeks[k]
       IN  SetsEnd(s, CoDisconnect([Queued(end[s], Pkg("DEVICE_DATA_FOR_SEEKING_CONNECTION", k))
                                    EXCEPT !.final = TRUE, !.quiet = TRUE]))
    /\ UNCHANGED <<attempt, mode, wire, reset, app, seeks, banned, ghosts>>

(* ConnectionManager::Disconnect, which replaces m_initialConnectionOut. *)
AppDisconnects(e) ==
    /\ Session(e) # 0 /\ ~Closed(e) /\ (e # 0 => end[e].state # "CONNECTING")
    /\ SetsEnd(e, CoDisconnect(end[e]))
    /\ Cuts(Session(e))
    /\ abandoned' = IF e = 0 THEN abandoned \cup {attempt} ELSE abandoned
    /\ verifying' = IF e = 0 THEN 0 ELSE verifying
    /\ UNCHANGED <<attempt, mode, wire, reset, asked, approving, primary, banned, accepted,
                   typed, approved, told, handed>>
-------------------------------------------------------------------------------
(* CoDisconnect's drain, the network and the clock *)

Drained(r) == r.writing = None /\ r.out = <<>>

CloseDrained(e) ==
    /\ end[e].closing /\ Drained(end[e])
    /\ SetsEnd(e, [end[e] EXCEPT !.closing = FALSE, !.state = "DISCONNECTED"])
    /\ UNCHANGED <<attempt, mode, wire, reset, app, primary, banned, ghosts>>

(* DISCONNECT_DRAIN_TIMEOUT *)
CloseTimesOut(e) ==
    /\ end[e].closing /\ ~Drained(end[e])
    /\ SetsEnd(e, [end[e] EXCEPT !.closing = FALSE, !.state = "DISCONNECTED"])
    /\ Cuts(Session(e))
    /\ UNCHANGED <<attempt, mode, wire, reset, app, primary, banned, accepted, typed,
                   approved, told, handed>>

NetworkResets ==
    /\ attempt > 0 /\ attempt \notin reset
    /\ reset' = reset \cup {attempt} /\ Cuts(attempt)
    /\ UNCHANGED <<attempt, mode, end, wire, app, primary, banned, accepted, typed, approved,
                   told, handed>>

BanExpires ==
    /\ banned /\ banned' = FALSE
    /\ UNCHANGED <<attempt, mode, end, wire, reset, app, primary, ghosts>>
-------------------------------------------------------------------------------

CoSend(e) == CoSendWakes(e) \/ CoSendWrites(e) \/ CoSendFails(e)

ServerReceives(s) ==
    ReceivesDeviceData(s) \/ ReceivesRightAnswer(s) \/ ReceivesWrongAnswer(s)

ClientReceives ==
    \/ ReceivesEndpoint \/ ReceivesWrongAnswerReport \/ ReceivesPrompt \/ ReceivesReason

CoReceive(e) ==
    \/ DropsAndEnds(e) \/ CoReceiveFails(e)
    \/ e = 0 /\ ClientReceives
    \/ e # 0 /\ ServerReceives(e)

AppStep(s) == AppRejects(s) \/ AppAccepts(s) \/ AppAcceptsIfVerified(s)

Next ==
    \/ \E how \in Modes : Connect(how)
    \/ ConnectSucceeds \/ ConnectFails
    \/ \E s \in Sessions : Accepts(s) \/ AppStep(s)
    \/ \E e \in Ends : CoSend(e) \/ CoReceive(e) \/ CloseDrained(e) \/ CloseTimesOut(e)
    \/ \E e \in Ends : AppDisconnects(e)
    \/ \E code \in {verifying, MaxSession + 1} : UserAnswers(code)
    \/ UserDenies \/ UserApproves
    \/ \E k \in 1 .. MaxSeek : PrimaryListens(k)
    \/ NetworkResets \/ BanExpires

Spec == Init /\ [][Next]_vars

(* The pool goes on running coroutines whose I/O is ready.  Nothing is       *)
(* assumed of users, applications, timeouts or the network.                  *)
Fairness == WF_vars(\E e \in Ends : CoSend(e) \/ CoReceive(e))

FairSpec == Spec /\ Fairness
-------------------------------------------------------------------------------
(* Properties *)

(* The primary connection is sought for a session only when the application  *)
(* accepted it and, if it has a pairing code, when the other user typed that *)
(* code and this user approved.  CONNECT_WITH_PAIR asks nobody.              *)
SeekNeedsConsent ==
    \A k \in DOMAIN seeks :
        LET s == seeks[k]
        IN  \/ mode[s] = "CONNECT_WITH_PAIR"
            \/ /\ s \in accepted
               /\ (mode[s] = "PAIR_AND_CONNECT" \/ end[s].code # 0) =>
                      <<s, s>> \in typed /\ s \in approved

(* An attempt never ends in silence: the application is told of an error or  *)
(* a reason, or the primary connection takes over, or it asked for the end.  *)
EndsAreTold ==
    (attempt > 0 /\ Closed(0) /\ LastAttemptIsOver) =>
        told \in {"reason", "error"} \/ end[0].final \/ attempt \in abandoned

(* A reason the peer gave is the last thing the application hears of the     *)
(* attempt: no connection error covers it up.                                *)
ReasonIsLast == [][told = "reason" /\ attempt' = attempt => told' = "reason"]_vars

HandsOver(k) ==
    \E s \in Sessions :
        /\ end[s].state = "DISCONNECTING" /\ end[s].sending
        /\ \E i \in DOMAIN end[s].out :
              end[s].out[i] = Pkg("DEVICE_DATA_FOR_SEEKING_CONNECTION", k)

(* The package that hands over the endpoint gets through CoDisconnect's      *)
(* drain: it arrives, or the session was cut, or had another endpoint.       *)
(* Not when the user typed any other answer than the right one, once: the    *)
(* peer may close before it reads it, the connecting device then fails to    *)
(* send it and leaves before it reads the endpoint, while its peer seeks.    *)
EndpointArrives ==
    \A k \in 1 .. MaxSeek :
        HandsOver(k) ~> (/\ k \in DOMAIN seeks
                         /\ \/ seeks[k] \in broken
                            \/ typed \ {<<seeks[k], seeks[k]>>} # {}
                            \/ \E j \in handed : seeks[j] = seeks[k])
===============================================================================
