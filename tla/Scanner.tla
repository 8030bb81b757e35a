------------------------------ MODULE Scanner ------------------------------
(***************************************************************************)
(* LanDeviceScanner (utilities/p2p-network/src/Scanner.cpp) and the page   *)
(* that drives it on the desktop (apps/desktop/src/DeviceDiscovery.h).     *)
(*                                                                         *)
(* The static functions are called on the Qt thread: they look at the      *)
(* atomic m_isScanning and spawn a coroutine on the scanner's strand, so   *)
(* what they saw may be untrue when the coroutine runs.  Each scan opens   *)
(* two sockets and starts a loop on each; closing a socket ends the loop   *)
(* that waits on it, and the others look at m_isScanning when they wake.   *)
(*                                                                         *)
(* A socket is named by the number of the Join that opened it, 0 is a null *)
(* pointer.  The devices heard and their ages are left out.                *)
(***************************************************************************)
EXTENDS Naturals, Sequences

CONSTANTS AsksFirst,   \* the builds: TRUE is macOS, which asks for permission
          MaxJoins,    \* scans that are begun
          MaxFailures, \* socket errors
          MaxMoves,    \* changes of the transport medium
          MaxTurns     \* what the user and the pages do

VARIABLES scanning,    \* m_isScanning
          inSocket, outSocket,
          strand,      \* coroutines spawned on m_strand and not yet run
          probes,      \* the Co_SendProbes of each join
          receivers,   \* the Co_ReceiveResponses of each join: the state
          waitsOn,     \* ... and the socket it receives on
          page,        \* the DeviceDiscovery of the page that is shown
          answers,     \* permission answers on their way to the page
          permitted,   \* what they say: it is asked of the system once
          medium,      \* the network the machine is on
          member,      \* the network whose groups inSocket has joined
          crashed,     \* a null socket was used
          failed,      \* ghost: this scan lost a socket or a loop to an error
          missed,      \* ghost: a call was decided on what a queued one undid,
                       \* or a page left with its scan running
          joins, failures, turns

scanVars == <<scanning, inSocket, outSocket, strand, probes, receivers, waitsOn,
              page, answers, permitted, medium, member, crashed, failed,
              missed, joins, failures, turns>>

sockets == <<scanning, inSocket, outSocket, probes, receivers, waitsOn, member,
             crashed, failed, permitted, joins, failures>>

Joins == 1..MaxJoins

NoPage == [shown |-> FALSE, searching |-> FALSE, started |-> FALSE, token |-> 0]

Holds(kind) == \E i \in 1..Len(strand) : strand[i] = kind

(***************************************************************************)
(* The static functions.                                                   *)
(***************************************************************************)
\* BeginScan: a scan that is active is left as it is, whatever waits on the
\* strand; every caller takes the default options, so they never change.
BeginScan(queue) == IF scanning THEN queue ELSE Append(queue, "join")

BeginsInVain == scanning /\ Holds("leave")

\* EndScan: ignored while the flag is down, even with a join on the strand.
EndScan == IF scanning THEN Append(strand, "leave") ELSE strand

EndsInVain == IF scanning THEN Holds("restart") ELSE Holds("join")

\* The transport medium changes: RestartScan, when the flag is up.
TransportMediumChanged ==
  /\ medium < MaxMoves
  /\ medium' = medium + 1
  /\ strand' = IF scanning THEN Append(strand, "restart") ELSE strand
  /\ missed' = (missed \/ (scanning /\ Holds("leave")))
  /\ UNCHANGED <<sockets, page, answers, turns>>

(***************************************************************************)
(* The page.                                                               *)
(***************************************************************************)
\* startScanner, and the permission it waits for on macOS.
StartScanner(p) ==
  IF p.started
    THEN /\ page' = p
         /\ UNCHANGED <<strand, missed>>
    ELSE /\ page' = [p EXCEPT !.started = TRUE]
         /\ strand' = BeginScan(strand)
         /\ missed' = IF strand = <<>> THEN FALSE ELSE missed \/ BeginsInVain

StartScanAfterPermissionCheck(p) ==
  /\ page' = p
  /\ answers' = Append(answers, p.token)
  /\ UNCHANGED <<strand, missed>>

Discovers(p) ==
  LET q == [p EXCEPT !.searching = TRUE, !.token = @ + 1]
  IN  IF AsksFirst THEN StartScanAfterPermissionCheck(q)
      ELSE StartScanner(q) /\ UNCHANGED answers

Turn == turns < MaxTurns /\ turns' = turns + 1

\* A page with a list of devices takes the place of the one before: its
\* DeviceDiscovery is new, and the old one goes without EndScan and takes the
\* answers it waited for with it.
PageShown ==
  /\ Turn
  /\ IF AsksFirst
       THEN /\ page' = [NoPage EXCEPT !.shown = TRUE, !.searching = TRUE,
                                      !.token = 1]
            /\ answers' = <<1>>
            /\ missed' = (missed \/ page.started)
            /\ UNCHANGED strand
       ELSE Discovers([NoPage EXCEPT !.shown = TRUE])
  /\ UNCHANGED <<sockets, medium>>

\* discover() of the Refresh button: a search under way only polls at once.
Refresh ==
  /\ Turn
  /\ page.shown /\ ~page.searching
  /\ Discovers(page)
  /\ UNCHANGED <<sockets, medium>>

\* cancelScan(): the connection was made.
CancelScan ==
  /\ Turn
  /\ page.searching
  /\ page' = [page EXCEPT !.searching = FALSE, !.started = FALSE,
                          !.token = @ + 1]
  /\ IF page.started
       THEN /\ strand' = EndScan
            /\ missed' = IF strand = <<>> /\ scanning THEN FALSE
                         ELSE missed \/ EndsInVain
       ELSE UNCHANGED <<strand, missed>>
  /\ UNCHANGED <<sockets, medium, answers>>

\* The answer about the local network reaches the page it was asked for.
PermissionAnswered ==
  /\ answers # <<>>
  /\ answers' = Tail(answers)
  /\ IF ~page.searching \/ Head(answers) # page.token
       THEN UNCHANGED <<page, strand, missed>>
       ELSE IF permitted THEN StartScanner(page)
       ELSE page' = [page EXCEPT !.searching = FALSE]
            /\ UNCHANGED <<strand, missed>>
  /\ UNCHANGED <<sockets, medium, turns>>

(***************************************************************************)
(* The coroutines of the strand.                                           *)
(***************************************************************************)
\* What the close of the scan's sockets does to the loops: a send or a receive
\* in progress on them completes with operation_aborted.
CutReceivers == [j \in Joins |-> IF receivers[j] = "waits" /\ waitsOn[j] = inSocket
                                   THEN "aborted" ELSE receivers[j]]

CutProbes == [j \in Joins |-> IF probes[j] = "sends" THEN "aborted" ELSE probes[j]]

\* Co_LeaveMulticastGroup; the flag goes down with it.
LeaveOfInput ==
  /\ inSocket' = 0 /\ outSocket' = outSocket
  /\ receivers' = CutReceivers /\ probes' = probes

Leave ==
  /\ inSocket' = 0 /\ outSocket' = 0
  /\ receivers' = CutReceivers /\ probes' = CutProbes

EndScanRuns ==
  /\ strand # <<>> /\ Head(strand) = "leave"
  /\ strand' = Tail(strand)
  /\ scanning' = FALSE
  /\ Leave
  /\ UNCHANGED <<waitsOn, member, page, answers, permitted, medium, crashed, failed,
                 missed, joins, failures, turns>>

\* Co_RestartScan: it leaves, then BeginScan finds the flag down.  A scan that
\* ended before it ran is begun all the same.
RestartRuns ==
  /\ strand # <<>> /\ Head(strand) = "restart"
  /\ strand' = Append(Tail(strand), "join")
  /\ scanning' = FALSE
  /\ Leave
  /\ UNCHANGED <<waitsOn, member, page, answers, permitted, medium, crashed, failed,
                 missed, joins, failures, turns>>

\* Co_JoinMulticastGroup: it leaves, raises the flag, opens both sockets, joins
\* the groups of every interface and starts the loops.
JoinRuns ==
  /\ strand # <<>> /\ Head(strand) = "join"
  /\ joins < MaxJoins
  /\ strand' = Tail(strand)
  /\ joins' = joins + 1
  /\ scanning' = TRUE
  /\ inSocket' = joins' /\ outSocket' = joins'
  /\ receivers' = [CutReceivers EXCEPT ![joins'] = "waits"]
  /\ waitsOn' = [waitsOn EXCEPT ![joins'] = joins']
  /\ probes' = [CutProbes EXCEPT ![joins'] = "sends"]
  /\ member' = medium
  /\ failed' = FALSE
  /\ UNCHANGED <<page, answers, permitted, medium, crashed, missed, failures, turns>>

\* ... or a call on a socket throws: the flag stays up, and no loop is started.
JoinFails ==
  /\ strand # <<>> /\ Head(strand) = "join"
  /\ joins < MaxJoins /\ failures < MaxFailures
  /\ strand' = Tail(strand)
  /\ joins' = joins + 1
  /\ failures' = failures + 1
  /\ scanning' = TRUE
  /\ failed' = TRUE
  /\ \E opened \in {<<0, joins'>>, <<joins', joins'>>} :
       inSocket' = opened[1] /\ outSocket' = opened[2]
  /\ receivers' = CutReceivers /\ probes' = CutProbes
  /\ UNCHANGED <<waitsOn, member, page, answers, permitted, medium, crashed, missed, turns>>

others == <<scanning, inSocket, outSocket, strand, page, answers, permitted,
            medium, member, missed, joins, turns>>

\* Co_SendProbes: one send per interface, then a second of sleep, while the
\* flag is up.  Nothing asks whether the scan is still the one it belongs to.
ProbeSent(j) ==
  /\ probes[j] = "sends"
  /\ probes' = [probes EXCEPT ![j] = "sent"]
  /\ UNCHANGED <<others, receivers, waitsOn, crashed, failed, failures>>

NextInterface(j) ==
  /\ probes[j] = "sent"
  /\ crashed' = (outSocket = 0)
  /\ probes' = [probes EXCEPT ![j] = "sends"]
  /\ UNCHANGED <<others, receivers, waitsOn, failed, failures>>

AllInterfacesDone(j) ==
  /\ probes[j] = "sent"
  /\ probes' = [probes EXCEPT ![j] = "sleeps"]
  /\ UNCHANGED <<others, receivers, waitsOn, crashed, failed, failures>>

ProbeLoopWakes(j) ==
  /\ probes[j] = "sleeps"
  /\ probes' = [probes EXCEPT ![j] = IF scanning THEN "sends" ELSE "off"]
  /\ UNCHANGED <<others, receivers, waitsOn, crashed, failed, failures>>

\* Co_ReceiveResponses.
Received(j) ==
  /\ receivers[j] = "waits"
  /\ receivers' = [receivers EXCEPT ![j] = "got"]
  /\ UNCHANGED <<others, probes, waitsOn, crashed, failed, failures>>

ReceivesAgain(j) ==
  /\ receivers[j] = "got"
  /\ receivers' = [receivers EXCEPT ![j] = IF scanning THEN "waits" ELSE "off"]
  /\ waitsOn' = [waitsOn EXCEPT ![j] = IF scanning THEN inSocket ELSE @]
  /\ crashed' = (scanning /\ inSocket = 0)
  /\ UNCHANGED <<others, probes, failed, failures>>

\* ProcessError: a loop ends by the error of its socket, one that is aborted by
\* the close like any other.
LoopAborted(j) ==
  /\ \/ /\ probes[j] = "aborted"
        /\ probes' = [probes EXCEPT ![j] = "off"]
        /\ UNCHANGED receivers
     \/ /\ receivers[j] = "aborted"
        /\ receivers' = [receivers EXCEPT ![j] = "off"]
        /\ UNCHANGED probes
  /\ UNCHANGED <<others, waitsOn, crashed, failed, failures>>

LoopFails(j) ==
  /\ failures < MaxFailures
  /\ failures' = failures + 1
  /\ failed' = TRUE
  /\ \/ /\ probes[j] = "sends"
        /\ probes' = [probes EXCEPT ![j] = "off"]
        /\ UNCHANGED receivers
     \/ /\ receivers[j] = "waits"
        /\ receivers' = [receivers EXCEPT ![j] = "off"]
        /\ UNCHANGED probes
  /\ UNCHANGED <<others, waitsOn, crashed>>

Init ==
  /\ scanning = FALSE /\ inSocket = 0 /\ outSocket = 0
  /\ strand = <<>>
  /\ probes = [j \in Joins |-> "off"]
  /\ receivers = [j \in Joins |-> "off"]
  /\ waitsOn = [j \in Joins |-> 0]
  /\ page = NoPage /\ answers = <<>>
  /\ permitted \in (IF AsksFirst THEN BOOLEAN ELSE {TRUE})
  /\ medium = 0 /\ member = 0
  /\ crashed = FALSE /\ failed = FALSE /\ missed = FALSE
  /\ joins = 0 /\ failures = 0 /\ turns = 0

Next ==
  /\ ~crashed
  /\ \/ TransportMediumChanged
     \/ PageShown \/ Refresh \/ CancelScan \/ PermissionAnswered
     \/ EndScanRuns \/ RestartRuns \/ JoinRuns \/ JoinFails
     \/ \E j \in Joins :
          \/ ProbeSent(j) \/ NextInterface(j) \/ AllInterfacesDone(j)
          \/ ProbeLoopWakes(j) \/ Received(j) \/ ReceivesAgain(j)
          \/ LoopAborted(j) \/ LoopFails(j)

Spec == Init /\ [][Next]_scanVars

TypeOK ==
  /\ {scanning, crashed, failed, missed} \subseteq BOOLEAN
  /\ {inSocket, outSocket} \subseteq 0..MaxJoins
  /\ strand \in Seq({"leave", "restart", "join"})
  /\ probes \in [Joins -> {"off", "sends", "sent", "sleeps", "aborted"}]
  /\ receivers \in [Joins -> {"off", "waits", "got", "aborted"}]
  /\ waitsOn \in [Joins -> 0..MaxJoins]
  /\ page \in [shown : BOOLEAN, searching : BOOLEAN, started : BOOLEAN,
               token : 0..MaxTurns + 1]
  /\ answers \in Seq(1..MaxTurns + 1)
  /\ permitted \in BOOLEAN
  /\ member \in 0..medium /\ medium \in 0..MaxMoves

(***************************************************************************)
(* Once the strand has run what was asked of it and no page waits for a    *)
(* permission, but for the two ways in which a scan is known to go astray  *)
(* (an error; a call decided on a flag that a queued coroutine was about   *)
(* to turn, or a page that left before it could end its scan):             *)
(*  - the page believes it scans exactly when the scanner does             *)
(*    (DeviceDiscovery.h:57-69, 124-132);                                  *)
(*  - a scan has both loops alive, the receiver on the scan's own socket,  *)
(*    and has joined the groups of the network the machine is on now       *)
(*    (Scanner.cpp:39-46, 138-231);                                        *)
(*  - an ended scan has left no socket and no receiver (Scanner.cpp:233).  *)
(***************************************************************************)
SearchIsReal ==
  strand = <<>> /\ answers = <<>> /\ ~failed /\ ~missed /\ ~crashed =>
    /\ page.started = scanning
    /\ scanning =>
         /\ member = medium
         /\ \E j \in Joins : probes[j] \notin {"off", "aborted"}
         /\ \E j \in Joins : receivers[j] = "got"
                             \/ (receivers[j] = "waits" /\ waitsOn[j] = inSocket)
    /\ ~scanning => /\ inSocket = 0 /\ outSocket = 0
                    /\ \A j \in Joins : receivers[j] # "waits"
=============================================================================
