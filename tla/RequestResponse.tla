---------------------------- MODULE RequestResponse ----------------------------
(***************************************************************************)
(* Requests that wait for an answer: ConnectionManager::SendRequest, the   *)
(* answers CoProcessPackages hands back, and CancelPendingRequests.        *)
(*                                                                         *)
(* Callers are coroutines on the pool, the package loop is another, and    *)
(* CancelPendingRequests runs on the strand (inside CoDisconnect) and on   *)
(* whatever thread calls ConnectionManager::Disconnect.  They meet only in *)
(* m_requestAwaitableMap and m_requestPackageMap, whose operations are     *)
(* atomic one by one, so one action is at most one operation on a map.     *)
(*                                                                         *)
(* The connection is a session number and whether it is CONNECTED; see     *)
(* PrimaryConnection for the rest of it.  A peer may answer late, even in  *)
(* a later session, or never.                                              *)
(* Bounds: MaxRequest, MaxSession (guards only).                           *)
(***************************************************************************)
EXTENDS Naturals, FiniteSets

CONSTANTS
    Callers,        \* coroutines that call SendRequest, one call at a time
    MaxRequest,     \* bound on m_currentRequestID
    MaxSession      \* bound on the number of sessions

ASSUME RequestBounds == MaxRequest \in Nat \ {0} /\ MaxSession \in Nat

VARIABLES
    connected,      \* the primary connection is CONNECTED
    session,        \* how many sessions there have been
    nextRequest,    \* m_currentRequestID
    caller,         \* per caller: where it is in SendRequest, and for which request
    awaitableMap,   \* m_requestAwaitableMap: requests whose flag is in it
    packageMap,     \* m_requestPackageMap: requests whose answer is in it
    signalled,      \* requests whose flag is set
    asked,          \* requests that reached the peer and are not answered
    inbox,          \* answers in m_packageIn
    processor,      \* CoProcessPackages: where it is, and the answer it holds
    canceller,      \* per thread in CancelPendingRequests: where, and the flags it holds
    gaveUp,         \* ghost: requests that timed out
    cancelled       \* ghost: requests whose flag or answer was taken by a canceller

link     == <<connected, session>>
maps     == <<awaitableMap, packageMap, signalled>>
traffic  == <<asked, inbox>>
ghosts   == <<gaveUp, cancelled>>
vars == <<link, nextRequest, caller, maps, traffic, processor, canceller, ghosts>>

-------------------------------------------------------------------------------

Requests   == 0 .. MaxRequest - 1
Cancellers == {"strand", "manager"}

InSendRequest == {"register", "send", "wait", "answered", "timedOut", "pop", "drop"}

At(c, steps) == caller[c].at \in steps
Moves(c, where) == caller' = [caller EXCEPT ![c].at = where]

TypeOK ==
    /\ connected \in BOOLEAN /\ session \in 0 .. MaxSession
    /\ nextRequest \in 0 .. MaxRequest
    /\ caller \in [Callers -> [at : InSendRequest \cup {"idle"}, request : Requests]]
    /\ awaitableMap \subseteq Requests /\ packageMap \subseteq Requests
    /\ signalled \subseteq Requests
    /\ asked \subseteq Requests /\ inbox \subseteq Requests
    /\ processor \in [at : {"take", "store", "signal"}, request : Requests]
    /\ canceller \in [Cancellers -> [at : {"away", "flags", "packages", "signal"},
                                     flags : SUBSET Requests]]
    /\ gaveUp \subseteq Requests /\ cancelled \subseteq Requests

Init ==
    /\ connected = FALSE /\ session = 0
    /\ nextRequest = 0
    /\ caller = [c \in Callers |-> [at |-> "idle", request |-> 0]]
    /\ awaitableMap = {} /\ packageMap = {} /\ signalled = {}
    /\ asked = {} /\ inbox = {}
    /\ processor = [at |-> "take", request |-> 0]
    /\ canceller = [k \in Cancellers |-> [at |-> "away", flags |-> {}]]
    /\ gaveUp = {} /\ cancelled = {}

-------------------------------------------------------------------------------
(* SendRequest *)

(* Variant: the counter is stepped only when the request is sent, and two    *)
(* callers may draw the same number.                                         *)
DrawsSharedNumber(c) ==
    /\ At(c, {"idle"}) /\ connected /\ nextRequest < MaxRequest
    /\ nextRequest' = nextRequest
    /\ caller' = [caller EXCEPT ![c] = [at |-> "register", request |-> nextRequest]]
    /\ UNCHANGED <<link, maps, traffic, processor, canceller, ghosts>>

(* Not connected: std::nullopt at once, which changes nothing. *)
SendRequest(c) ==
    /\ At(c, {"idle"}) /\ connected /\ nextRequest < MaxRequest
    /\ nextRequest' = nextRequest + 1
    /\ caller' = [caller EXCEPT ![c] = [at |-> "register", request |-> nextRequest]]
    /\ UNCHANGED <<link, maps, traffic, processor, canceller, ghosts>>

Registers(c) ==
    /\ At(c, {"register"}) /\ Moves(c, "send")
    /\ awaitableMap' = awaitableMap \cup {caller[c].request}
    /\ UNCHANGED <<link, nextRequest, packageMap, signalled, traffic, processor,
                   canceller, ghosts>>

(* Variant: the package carries the counter, not the number drawn from it. *)
SendsCounter(c) ==
    /\ At(c, {"send"}) /\ Moves(c, "wait")
    /\ asked' = IF connected THEN asked \cup {nextRequest} ELSE asked
    /\ UNCHANGED <<link, nextRequest, maps, inbox, processor, canceller, ghosts>>

(* SendWithFlag drops the package when the connection is gone; the caller *)
(* waits all the same.                                                    *)
Sends(c) ==
    /\ At(c, {"send"}) /\ Moves(c, "wait")
    /\ asked' = IF connected THEN asked \cup {caller[c].request} ELSE asked
    /\ UNCHANGED <<link, nextRequest, maps, inbox, processor, canceller, ghosts>>

WaitSucceeds(c) ==
    /\ At(c, {"wait"}) /\ caller[c].request \in signalled
    /\ signalled' = signalled \ {caller[c].request}
    /\ Moves(c, "answered")
    /\ UNCHANGED <<link, nextRequest, awaitableMap, packageMap, traffic, processor,
                   canceller, ghosts>>

(* The timer expired first; the flag may have been set since. *)
WaitTimesOut(c) ==
    /\ At(c, {"wait"}) /\ Moves(c, "timedOut")
    /\ gaveUp' = gaveUp \cup {caller[c].request}
    /\ UNCHANGED <<link, nextRequest, maps, traffic, processor, canceller, cancelled>>

(* Variant: the flag of a request that timed out stays in the map. *)
ErasesFlagOfAnswered(c) ==
    /\ At(c, {"answered", "timedOut"})
    /\ Moves(c, IF At(c, {"answered"}) THEN "pop" ELSE "drop")
    /\ awaitableMap' = IF At(c, {"answered"}) THEN awaitableMap \ {caller[c].request}
                       ELSE awaitableMap
    /\ UNCHANGED <<link, nextRequest, packageMap, signalled, traffic, processor,
                   canceller, ghosts>>

ErasesFlag(c) ==
    /\ At(c, {"answered", "timedOut"})
    /\ Moves(c, IF At(c, {"answered"}) THEN "pop" ELSE "drop")
    /\ awaitableMap' = awaitableMap \ {caller[c].request}
    /\ UNCHANGED <<link, nextRequest, packageMap, signalled, traffic, processor,
                   canceller, ghosts>>

(* Variant: the answer is read and left in the map. *)
ReturnsCopy(c) ==
    /\ At(c, {"pop", "drop"}) /\ Moves(c, "idle")
    /\ UNCHANGED packageMap
    /\ UNCHANGED <<link, nextRequest, awaitableMap, signalled, traffic, processor,
                   canceller, ghosts>>

(* m_requestPackageMap.Pop, or Erase after a timeout: SendRequest returns the *)
(* answer if it pops one.                                                     *)
Returns(c) ==
    /\ At(c, {"pop", "drop"}) /\ Moves(c, "idle")
    /\ packageMap' = packageMap \ {caller[c].request}
    /\ UNCHANGED <<link, nextRequest, awaitableMap, signalled, traffic, processor,
                   canceller, ghosts>>
-------------------------------------------------------------------------------
(* The peer's handler answers (SendRequestResponse), if a session is up, *)
(* whichever it is.                                                      *)

PeerAnswers(r) ==
    /\ connected /\ r \in asked
    /\ asked' = asked \ {r} /\ inbox' = inbox \cup {r}
    /\ UNCHANGED <<link, nextRequest, caller, maps, processor, canceller, ghosts>>
-------------------------------------------------------------------------------
(* CoProcessPackages, for packages that are answers *)

(* Variant: the flag is read and left in the map. *)
TakesAnswerByGet(r) ==
    /\ processor.at = "take" /\ r \in inbox
    /\ inbox' = inbox \ {r}
    /\ processor' = IF r \in awaitableMap THEN [at |-> "store", request |-> r]
                    ELSE processor
    /\ UNCHANGED <<link, nextRequest, caller, awaitableMap, packageMap, signalled, asked,
                   canceller, ghosts>>

(* m_requestAwaitableMap.Pop: whoever pops the flag is the one to set it. *)
TakesAnswer(r) ==
    /\ processor.at = "take" /\ r \in inbox
    /\ inbox' = inbox \ {r}
    /\ awaitableMap' = awaitableMap \ {r}
    /\ processor' = IF r \in awaitableMap THEN [at |-> "store", request |-> r]
                    ELSE processor
    /\ UNCHANGED <<link, nextRequest, caller, packageMap, signalled, asked,
                   canceller, ghosts>>

StoresAnswer ==
    /\ processor.at = "store" /\ processor' = [processor EXCEPT !.at = "signal"]
    /\ packageMap' = packageMap \cup {processor.request}
    /\ UNCHANGED <<link, nextRequest, caller, awaitableMap, signalled, traffic,
                   canceller, ghosts>>

(* Variant: the flag is never set, the answer waits for the timeout. *)
ForgetsToSignal ==
    /\ processor.at = "signal" /\ processor' = [processor EXCEPT !.at = "take"]
    /\ UNCHANGED <<link, nextRequest, caller, maps, traffic, canceller, ghosts>>

SignalsAnswer ==
    /\ processor.at = "signal" /\ processor' = [processor EXCEPT !.at = "take"]
    /\ signalled' = signalled \cup {processor.request}
    /\ UNCHANGED <<link, nextRequest, caller, awaitableMap, packageMap, traffic,
                   canceller, ghosts>>
-------------------------------------------------------------------------------
(* Disconnect and CancelPendingRequests *)

Enters(k, where, flags) == canceller' = [canceller EXCEPT ![k] = [at |-> where, flags |-> flags]]

(* ConnectionManager::Disconnect, on any thread. *)
ManagerDisconnects ==
    /\ canceller["manager"].at = "away" /\ Enters("manager", "flags", {})
    /\ UNCHANGED <<link, nextRequest, caller, maps, traffic, processor, ghosts>>

(* CoDisconnect, asked for by the manager or by the session itself. *)
CoDisconnect ==
    /\ connected /\ connected' = FALSE
    /\ canceller["strand"].at = "away" /\ Enters("strand", "flags", {})
    /\ UNCHANGED <<session, nextRequest, caller, maps, traffic, processor, ghosts>>

(* m_requestAwaitableMap.PopAll *)
PopsFlags(k) ==
    /\ canceller[k].at = "flags" /\ Enters(k, "packages", awaitableMap)
    /\ cancelled' = cancelled \cup awaitableMap
    /\ awaitableMap' = {}
    /\ UNCHANGED <<link, nextRequest, caller, packageMap, signalled, traffic,
                   processor, gaveUp>>

(* m_requestPackageMap.PopAll *)
PopsPackages(k) ==
    /\ canceller[k].at = "packages" /\ Enters(k, "signal", canceller[k].flags)
    /\ cancelled' = cancelled \cup packageMap
    /\ packageMap' = {}
    /\ UNCHANGED <<link, nextRequest, caller, awaitableMap, signalled, traffic,
                   processor, gaveUp>>

SignalsFlag(k) ==
    /\ canceller[k].at = "signal"
    /\ \E r \in canceller[k].flags :
         /\ signalled' = signalled \cup {r}
         /\ Enters(k, "signal", canceller[k].flags \ {r})
    /\ UNCHANGED <<link, nextRequest, caller, awaitableMap, packageMap, traffic,
                   processor, ghosts>>

(* The strand goes on to ClearQueuedPackages. *)
CancelEnds(k) ==
    /\ canceller[k].at = "signal" /\ canceller[k].flags = {}
    /\ Enters(k, "away", {})
    /\ inbox' = IF k = "strand" THEN {} ELSE inbox
    /\ UNCHANGED <<link, nextRequest, caller, maps, asked, processor, ghosts>>

(* A CoConnect or CoSeek succeeded. *)
Reconnects ==
    /\ ~connected /\ canceller["strand"].at = "away" /\ session < MaxSession
    /\ connected' = TRUE /\ session' = session + 1
    /\ UNCHANGED <<nextRequest, caller, maps, traffic, processor, canceller, ghosts>>
-------------------------------------------------------------------------------

CallerStep(c) ==
    \/ SendRequest(c) \/ Registers(c) \/ Sends(c)
    \/ WaitSucceeds(c) \/ WaitTimesOut(c) \/ ErasesFlag(c) \/ Returns(c)

ProcessorStep ==
    \/ \E r \in Requests : TakesAnswer(r)
    \/ StoresAnswer \/ SignalsAnswer

CancelStep(k) == PopsFlags(k) \/ PopsPackages(k) \/ SignalsFlag(k) \/ CancelEnds(k)

Next ==
    \/ \E c \in Callers : CallerStep(c)
    \/ \E r \in Requests : PeerAnswers(r)
    \/ ProcessorStep
    \/ \E k \in Cancellers : CancelStep(k)
    \/ ManagerDisconnects \/ CoDisconnect \/ Reconnects

Spec == Init /\ [][Next]_vars

(* The pool runs every coroutine and AwaitableFlag polls every 250 ms, so a  *)
(* set flag is seen; nothing is assumed of the 30 s timer or of the peer.    *)
Fairness ==
    /\ WF_vars(ProcessorStep)
    /\ \A k \in Cancellers : WF_vars(CancelStep(k))
    /\ \A c \in Callers : WF_vars(WaitSucceeds(c))

FairSpec == Spec /\ Fairness
-------------------------------------------------------------------------------
(* Properties *)

Pending(r) == \E c \in Callers : At(c, InSendRequest) /\ caller[c].request = r

(* m_requestAwaitableMap holds only flags somebody will erase: whatever      *)
(* times out or is cancelled, no entry outlives its SendRequest.             *)
NoFlagIsLeft == \A r \in awaitableMap : Pending(r)

(* m_requestPackageMap holds answers nobody will take only when their        *)
(* request timed out while the package loop had its flag (CancelPending-     *)
(* Requests of the next disconnect drops those).                             *)
AnswersLeftAreLate == \A r \in packageMap : Pending(r) \/ r \in gaveUp

(* A request that is woken and finds no answer was cancelled: an answer the  *)
(* package loop matched is never lost to the caller otherwise.               *)
EmptyHandedIsCancelled ==
    [][\A c \in Callers :
         (At(c, {"pop"}) /\ Returns(c) /\ caller[c].request \notin packageMap)
             => caller[c].request \in cancelled]_vars

(* The flag of a request is with exactly one of the map, the package loop    *)
(* and the cancellers: nobody wakes a caller behind another's back.          *)
OneHolderPerFlag ==
    /\ processor.at # "take" => processor.request \notin awaitableMap
    /\ \A k \in Cancellers :
         /\ canceller[k].flags \cap awaitableMap = {}
         /\ processor.at # "take" => processor.request \notin canceller[k].flags
    /\ canceller["strand"].flags \cap canceller["manager"].flags = {}

(* An answer that is there ends the wait, without the timeout's help, and so *)
(* does a cancelled request.                                                 *)
AnsweredReturns ==
    \A c \in Callers :
        (At(c, {"wait"}) /\ caller[c].request \in inbox \cup cancelled) ~> ~At(c, {"wait"})
===============================================================================
