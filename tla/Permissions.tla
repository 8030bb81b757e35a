------------------------------ MODULE Permissions ------------------------------
(***************************************************************************)
(* Permissions of the phone: the flows that ask for them (PermissionManager*)
(* .cpp, and AndroidPermissionBridge.kt under them), begun by the app's    *)
(* own page (MobileConnectionController) in the process of the interface   *)
(* or by the desktop's request (ModulesManager) in that of the back end,   *)
(* the reports to the desktop, and what the desktop shows of them          *)
(* (PermissionStateController).                                            *)
(*                                                                         *)
(* A permission is one the system asks for in a dialogue or one that is    *)
(* switched in the settings.  Android kills the app's processes when it    *)
(* takes a permission of the first kind away; of the second kind it may    *)
(* leave them running (the notification listener, the battery exemption),  *)
(* and nobody tells them.  Calls over JNI, intents and SDK versions are    *)
(* left out.                                                               *)
(***************************************************************************)
EXTENDS Integers, Sequences, FiniteSets, SequencesExt

CONSTANTS
    Dialogs, Settings,  \* the permissions of either kind
    Types, Needs,       \* PermissionType, and the permissions of each in order
    Flows,              \* bound: "ui", and coroutines of PERMISSION_REQUEST
    MaxAsks,            \* bound: requests of both users
    MaxShots,           \* single shots of requestPermissionSyncSnapshot, 8 in the code
    MaxUnderWay,        \* bound: packages, or snapshots, under way
    MaxMoves            \* bound: grants in the settings, revocations, sessions

VARIABLES
    granted,            \* what the system has granted
    app,                \* the activity is on the screen
    flows, inProgress,  \* the coroutines; g_permissionFlowInProgress of each process
    dialogues, pending, \* dialogues asked for; pendingPermissionRequest, by its code
    answers, codes,     \* codes whose answer was yes; codes used
    pad,                \* MobileConnectionController
    reads,              \* snapshots read and not yet sent
    asked, toDesktop,   \* packages to the phone, packages and events to the desktop
    desk, shots,        \* PermissionStateController and its single shots, by generation
    inSession,          \* the session is up
    requests, moves,
    withdrawn           \* ghost: switched off in the settings since the processes began

permissionVars == <<granted, app, flows, inProgress, dialogues, pending, answers, codes, pad, reads, asked,
                    toDesktop, desk, shots, inSession, requests, moves, withdrawn>>

Permission == Dialogs \cup Settings
Places     == {"idle", "waits", "holds", "blocked", "denied", "leaves", "away", "again", "reports", "queued"}
ProcessOf(f) == IF f = "ui" THEN "ui" ELSE "backend"
NoFlow     == [at |-> "idle", todo |-> <<>>, type |-> "none", good |-> TRUE, code |-> 0, seen |-> {}]
Begun(type, todo) == [at |-> "waits", todo |-> todo, type |-> type, good |-> TRUE, code |-> 0, seen |-> {}]

Coroutines == [at : Places, todo : Seq(Permission), type : Types \cup {"none"}, good : BOOLEAN, code : Nat,
               seen : SUBSET Permission]

(* What is assumed of the constants: the app's own flow is one of them, permissions and their     *)
(* types are finitely many, and each type needs at least one, in the order of the code's requests. *)
PermissionBounds ==
    /\ "ui" \in Flows /\ IsFiniteSet(Types) /\ IsFiniteSet(Permission) /\ Permission # {}
    /\ Needs \in [Types -> Seq(Permission) \ {<<>>}]
    /\ {MaxAsks, MaxShots, MaxMoves} \subseteq Nat

Questions == [permission : Permission, code : 1 .. codes]
Messages  == [event : {TRUE}, kind : {"connected", "disconnected"}]
               \cup [event : {FALSE}, kind : {"status"}, type : Types, good : BOOLEAN]

PermissionTypeOK ==
    /\ granted \subseteq Permission /\ withdrawn \subseteq Settings /\ app \in {"active", "background"}
    /\ flows \in [Flows -> Coroutines] /\ inProgress \in [{"ui", "backend"} -> BOOLEAN]
    /\ dialogues \in Seq(Questions) /\ codes \in Nat /\ pending \in 0 .. codes /\ answers \subseteq 1 .. codes
    /\ pad \in [busy : BOOLEAN, shown : SUBSET Permission]
    /\ reads \in Seq(SUBSET Types) /\ asked \in Seq(Types \cup {"sync"}) /\ toDesktop \in Seq(Messages)
    /\ desk \in [connected : BOOLEAN, shown : SUBSET Types, generation : Nat] /\ shots \in Seq(Nat)
    /\ inSession \in BOOLEAN /\ requests \in 0 .. MaxAsks /\ moves \in 0 .. MaxMoves

PermissionInit ==
    /\ granted \in SUBSET Permission /\ withdrawn = {} /\ app = "active" /\ flows = [f \in Flows |-> NoFlow]
    /\ inProgress = [p \in {"ui", "backend"} |-> FALSE]
    /\ dialogues = <<>> /\ pending = 0 /\ answers = {} /\ codes = 0
    /\ pad = [busy |-> FALSE, shown |-> granted] /\ reads = <<>> /\ asked = <<>> /\ toDesktop = <<>>
    /\ desk = [connected |-> FALSE, shown |-> {}, generation |-> 0] /\ shots = <<>>
    /\ inSession = FALSE /\ requests = 0 /\ moves = 0

theLink  == <<asked, toDesktop, desk, shots, inSession, moves, withdrawn>>
theFlow  == <<dialogues, pending, answers, codes>>

-------------------------------------------------------------------------------
(* A flow. *)

(* The coroutine is done with the first permission: the lock goes.  A      *)
(* refusal ends the request for notifications; that for SMS goes on.       *)
Finished(f, good, further) ==
    /\ inProgress' = [inProgress EXCEPT ![ProcessOf(f)] = FALSE]
    /\ flows' = [flows EXCEPT ![f].todo = IF further THEN Tail(@) ELSE <<>>, ![f].good = @ /\ good, ![f].code = 0,
                              ![f].at = IF further /\ Len(flows[f].todo) > 1 THEN "waits" ELSE "reports"]

Returns(f, good) ==
    \E further \in BOOLEAN :
        /\ good => further
        /\ Finished(f, good, further)

MovesOn(f, place) == flows' = [flows EXCEPT ![f].at = place] /\ UNCHANGED inProgress

(* Were the flag only looked at, two flows could find it down. *)
AcquiresAnyway(f) ==
    /\ flows[f].at = "waits"
    /\ inProgress' = [inProgress EXCEPT ![ProcessOf(f)] = TRUE]
    /\ flows' = [flows EXCEPT ![f].at = "holds"]
    /\ UNCHANGED <<granted, app, theFlow, pad, reads, requests, theLink>>

(* AcquirePermissionFlowLock: tried every 50 ms. *)
Acquires(f) ==
    /\ flows[f].at = "waits" /\ ~inProgress[ProcessOf(f)]
    /\ inProgress' = [inProgress EXCEPT ![ProcessOf(f)] = TRUE]
    /\ flows' = [flows EXCEPT ![f].at = "holds"]
    /\ UNCHANGED <<granted, app, theFlow, pad, reads, requests, theLink>>

(* WaitForReturnToApp begins; the back end has no window and goes on. *)
Opens(f) ==
    \/ Returns(f, FALSE)                                 \* no activity or context takes the intent
    \/ MovesOn(f, IF f = "ui" THEN "leaves" ELSE "again")

(* The wanted permission is there, or the settings are opened, or the      *)
(* dialogue is asked for: only by the process with the activity, and only  *)
(* when no other request is pending (requestPermissionBlocking).           *)
ChecksNext(f) ==
    /\ flows[f].at = "holds"
    /\ LET p == Head(flows[f].todo)
       IN  IF p \in granted THEN Returns(f, TRUE) /\ UNCHANGED theFlow
           ELSE IF p \in Settings THEN Opens(f) /\ UNCHANGED theFlow
           ELSE IF f # "ui" \/ pending # 0 THEN MovesOn(f, "denied") /\ UNCHANGED theFlow
           ELSE /\ codes' = codes + 1 /\ pending' = codes + 1
                /\ dialogues' = Append(dialogues, [permission |-> p, code |-> codes + 1])
                /\ flows' = [flows EXCEPT ![f].at = "blocked", ![f].code = codes + 1]
                /\ UNCHANGED <<answers, inProgress>>
    /\ UNCHANGED <<granted, app, pad, reads, requests, theLink>>

(* requestPermissionBlocking returns: the latch is down, or two minutes    *)
(* are over and the request is withdrawn; either way the system is asked.  *)
Unblocks(f) ==
    /\ flows[f].at = "blocked"
    /\ pending' = IF pending = flows[f].code THEN 0 ELSE pending
    /\ IF flows[f].code \in answers \/ Head(flows[f].todo) \in granted
          THEN Returns(f, TRUE) ELSE MovesOn(f, "denied")
    /\ UNCHANGED <<granted, app, dialogues, answers, codes, pad, reads, requests, theLink>>

(* RequestPermission after a refusal: it can be asked again later, or the *)
(* settings are the only way left.                                        *)
Denied(f) ==
    /\ flows[f].at = "denied"
    /\ (f = "ui" /\ Returns(f, FALSE)) \/ Opens(f)
    /\ UNCHANGED <<granted, app, theFlow, pad, reads, requests, theLink>>

(* WaitForReturnToApp: a second and a half to leave, two minutes to come *)
(* back; both waits may end by their timer.                              *)
Waits(f) ==
    /\ \/ flows[f].at = "leaves" /\ MovesOn(f, IF app = "background" THEN "away" ELSE "again")
       \/ flows[f].at = "away" /\ MovesOn(f, "again")
    /\ UNCHANGED <<granted, app, theFlow, pad, reads, requests, theLink>>

Again(f) ==
    /\ flows[f].at = "again"
    /\ Returns(f, Head(flows[f].todo) \in granted)
    /\ UNCHANGED <<granted, app, theFlow, pad, reads, requests, theLink>>

(* onRequestPermissionsResult: an answer to another request is nobody's. *)
UserAnswers(yes) ==
    /\ dialogues # <<>>
    /\ LET dialogue == Head(dialogues)
       IN  /\ granted' = IF yes THEN granted \cup {dialogue.permission} ELSE granted
           /\ pending' = IF pending = dialogue.code THEN 0 ELSE pending
           /\ answers' = IF yes /\ pending = dialogue.code THEN answers \cup {dialogue.code} ELSE answers
    /\ dialogues' = Tail(dialogues)
    /\ UNCHANGED <<app, flows, inProgress, codes, pad, reads, requests, theLink>>

(* A dialogue asked for under another is answered at once, with nothing. *)
SystemCancels ==
    /\ Len(dialogues) > 1
    /\ pending' = IF pending = dialogues[2].code THEN 0 ELSE pending
    /\ dialogues' = RemoveAt(dialogues, 2)
    /\ UNCHANGED <<granted, app, flows, inProgress, answers, codes, pad, reads, requests, theLink>>

-------------------------------------------------------------------------------
(* The app's page. *)

(* runPermissionRequest, while no other one runs. *)
RunPermissionRequest(todo) ==
    /\ app = "active" /\ ~pad.busy /\ requests < MaxAsks
    /\ pad' = [pad EXCEPT !.busy = TRUE]
    /\ flows' = [flows EXCEPT !["ui"] = Begun("none", todo)]
    /\ requests' = requests + 1
    /\ UNCHANGED <<granted, app, inProgress, theFlow, reads, theLink>>

(* Its coroutine reads all permissions and posts them to the Qt thread. *)
ReadsAll ==
    /\ flows["ui"].at = "reports"
    /\ flows' = [flows EXCEPT !["ui"].at = "queued", !["ui"].seen = granted]
    /\ UNCHANGED <<granted, app, inProgress, theFlow, pad, reads, requests, theLink>>

StatusOf(permissions) == {t \in Types : ToSet(Needs[t]) \subseteq permissions}
Status == StatusOf(granted)

(* setPermissionSnapshot, and the back end is told to send its snapshot *)
(* when the page believes that the phone is connected.                  *)
ShowsAll ==
    /\ flows["ui"].at = "queued"
    /\ pad' = [busy |-> FALSE, shown |-> flows["ui"].seen]
    /\ flows' = [flows EXCEPT !["ui"] = NoFlow]
    /\ reads' \in {reads, IF inSession THEN Append(reads, Status) ELSE reads}
    /\ UNCHANGED <<granted, app, inProgress, theFlow, requests, theLink>>

(* The user leaves the app and comes back: updatePermissionsFromSystem, and *)
(* the back end is told as in ShowsAll (while no snapshot waits: bound).    *)
AppLeaves ==
    /\ app = "active" /\ app' = "background"
    /\ UNCHANGED <<granted, flows, inProgress, theFlow, pad, reads, requests, theLink>>
AppReturns ==
    /\ app = "background" /\ app' = "active"
    /\ pad' = [pad EXCEPT !.shown = granted]
    /\ reads' \in {reads, IF inSession /\ reads = <<>> THEN Append(reads, Status) ELSE reads}
    /\ UNCHANGED <<granted, flows, inProgress, theFlow, requests, theLink>>

(* Of what is on its way to the desktop the packages are lost with the      *)
(* session; its own event, posted before the first of them, is not.         *)
Remaining == IF toDesktop # <<>> /\ Head(toDesktop).event THEN <<Head(toDesktop)>> ELSE <<>>

(* In the settings a permission is given, or taken: then both processes *)
(* die, and with the back end the session ...                           *)
UserGrants(p) ==
    /\ app = "background" /\ p \notin granted /\ moves < MaxMoves
    /\ granted' = granted \cup {p} /\ moves' = moves + 1
    /\ UNCHANGED <<app, flows, inProgress, theFlow, pad, reads, asked, toDesktop, desk, shots, inSession, requests,
                   withdrawn>>

UserRevokes(p) ==
    /\ p \in granted /\ moves < MaxMoves
    /\ granted' = granted \ {p} /\ withdrawn' = {} /\ moves' = moves + 1
    /\ flows' = [f \in Flows |-> NoFlow] /\ inProgress' = [q \in DOMAIN inProgress |-> FALSE]
    /\ dialogues' = <<>> /\ pending' = 0 /\ answers' = {} /\ codes' = 0 /\ app' = "background"
    /\ pad' = [busy |-> FALSE, shown |-> granted \ {p}] /\ reads' = <<>> /\ asked' = <<>>
    /\ inSession' = FALSE
    /\ toDesktop' = IF inSession THEN Remaining \o <<[event |-> TRUE, kind |-> "disconnected"]>> ELSE toDesktop
    /\ UNCHANGED <<desk, shots, requests>>

(* ... or, for one of the settings, run on and do not hear of it. *)
UserSwitchesOff(p) ==
    /\ p \in granted \cap Settings /\ moves < MaxMoves
    /\ granted' = granted \ {p} /\ withdrawn' = withdrawn \cup {p} /\ moves' = moves + 1
    /\ UNCHANGED <<app, flows, inProgress, theFlow, pad, reads, asked, toDesktop, desk, shots, inSession, requests>>

-------------------------------------------------------------------------------
(* The phone's reports: SendAndroidPermissionSnapshot of ModulesManager,   *)
(* its retries, and SendAndroidPermissionSnapshotToPeer of the back end.   *)

Report(t, good) == [event |-> FALSE, kind |-> "status", type |-> t, good |-> good]

(* A snapshot is read, one value after the other, before it is sent; the   *)
(* retries after 0 s to 40 s are as many more of them.                     *)
Snapshots ==
    /\ inSession /\ reads = <<>> /\ toDesktop = <<>>
    /\ reads' = Append(reads, Status)
    /\ UNCHANGED <<granted, app, flows, inProgress, theFlow, pad, requests, theLink>>

SendsSnapshot ==
    /\ reads # <<>> /\ Len(toDesktop) < MaxUnderWay
    /\ reads' = Tail(reads)
    /\ toDesktop' = IF inSession THEN toDesktop \o [i \in 1 .. Cardinality(Types) |->
                                          LET t == SetToSeq(Types)[i] IN Report(t, t \in Head(reads))]
                          ELSE toDesktop
    /\ UNCHANGED <<granted, app, flows, inProgress, theFlow, pad, asked, desk, shots, inSession, requests, moves, withdrawn>>

(* PERMISSION_REQUEST: a coroutine of its own for each; of those there are here, *)
(* any that is idle will do.                                                      *)
Requested ==
    /\ asked # <<>> /\ Len(reads) < MaxUnderWay
    /\ asked' = Tail(asked)
    /\ IF Head(asked) = "sync"
          THEN reads' = Append(reads, Status) /\ UNCHANGED flows
          ELSE /\ \E f \in Flows \ {"ui"} :
                     /\ flows[f].at = "idle" /\ f = CHOOSE g \in Flows \ {"ui"} : flows[g].at = "idle"
                     /\ flows' = [flows EXCEPT ![f] = Begun(Head(asked), Needs[Head(asked)])]
               /\ UNCHANGED reads
    /\ UNCHANGED <<granted, app, inProgress, theFlow, pad, toDesktop, desk, shots, inSession, requests, moves, withdrawn>>

Answers(f) ==
    /\ f # "ui" /\ flows[f].at = "reports"
    /\ toDesktop' = IF inSession THEN Append(toDesktop, Report(flows[f].type, flows[f].good)) ELSE toDesktop
    /\ flows' = [flows EXCEPT ![f] = NoFlow]
    /\ UNCHANGED <<granted, app, inProgress, theFlow, pad, reads, asked, desk, shots, inSession, requests, moves, withdrawn>>

-------------------------------------------------------------------------------
(* The desktop. *)

(* requestPermissionSyncSnapshot: a new generation of single shots. *)
Synced(d)     == [d EXCEPT !.generation = @ + 1]
NewShots(d)   == shots \o [i \in 1 .. MaxShots |-> d.generation + 1]
ClearsNone(d) == d
ClearsAll(d)  == [d EXCEPT !.shown = {}]        \* clearPermissionState

(* The handlers post events, and the event handler shows them. *)
Handles ==
    /\ toDesktop # <<>>
    /\ toDesktop' = Tail(toDesktop)
    /\ LET e == Head(toDesktop)
       IN  CASE e.kind = "connected" ->
                  /\ desk' = [Synced(ClearsAll(desk)) EXCEPT !.connected = TRUE]
                  /\ shots' = NewShots(desk)
             [] e.kind = "disconnected" ->
                  /\ desk' = [Synced(ClearsAll(desk)) EXCEPT !.connected = FALSE]
                  /\ UNCHANGED shots
             [] e.kind = "status" ->
                  /\ desk' = [desk EXCEPT !.shown = IF e.good THEN @ \cup {e.type} ELSE @ \ {e.type}]
                  /\ UNCHANGED shots
    /\ UNCHANGED <<granted, app, flows, inProgress, theFlow, pad, reads, asked, inSession, requests, moves, withdrawn>>

(* A single shot of an older generation sends nothing. *)
Shot ==
    /\ shots # <<>> /\ Len(asked) < MaxUnderWay
    /\ shots' = Tail(shots)
    /\ asked' = IF Head(shots) = desk.generation /\ desk.connected /\ inSession THEN Append(asked, "sync") ELSE asked
    /\ UNCHANGED <<granted, app, flows, inProgress, theFlow, pad, reads, toDesktop, desk, inSession, requests, moves, withdrawn>>

RequestPermission(t) ==
    /\ desk.connected /\ requests < MaxAsks
    /\ requests' = requests + 1
    /\ asked' = IF inSession THEN Append(asked, t) ELSE asked
    /\ desk' = Synced(desk) /\ shots' = NewShots(desk)
    /\ UNCHANGED <<granted, app, flows, inProgress, theFlow, pad, reads, toDesktop, inSession, moves, withdrawn>>

Connects ==
    /\ ~inSession /\ toDesktop = <<>> /\ moves < MaxMoves
    /\ inSession' = TRUE /\ moves' = moves + 1
    /\ toDesktop' = <<[event |-> TRUE, kind |-> "connected"]>>
    /\ UNCHANGED <<granted, app, flows, inProgress, theFlow, pad, reads, asked, desk, shots, requests, withdrawn>>

PermissionNext ==
    \/ \E f \in Flows : \/ Acquires(f) \/ ChecksNext(f) \/ Unblocks(f) \/ Denied(f) \/ Waits(f) \/ Again(f)
                        \/ Answers(f)
    \/ \E yes \in BOOLEAN : UserAnswers(yes)
    \/ \E t \in Types : RunPermissionRequest(Needs[t]) \/ RequestPermission(t)
    \/ RunPermissionRequest(SetToSeq(Permission))       \* PermissionRequest::All
    \/ \E p \in Permission : UserGrants(p) \/ UserRevokes(p) \/ UserSwitchesOff(p)
    \/ SystemCancels \/ ReadsAll \/ ShowsAll \/ AppLeaves \/ AppReturns \/ Snapshots \/ SendsSnapshot
    \/ Requested \/ Handles \/ Shot \/ Connects

PermissionSpec == PermissionInit /\ [][PermissionNext]_permissionVars

-------------------------------------------------------------------------------
(* What the processes may take for granted: what is, and what was until it *)
(* was switched off in the settings under them.                            *)
Held == granted \cup withdrawn

(* What the desktop shows as granted, and every yes under way to it, is    *)
(* granted on the phone, whatever flows, dialogues, time-outs, snapshots,  *)
(* revocations and sessions lie between; the app's page shows nothing      *)
(* more.  Of one switched off in the settings while the processes run on   *)
(* nobody hears, so it may still be shown; one of a dialogue never is.     *)
ShownIsGranted ==
    /\ inSession /\ desk.connected => desk.shown \subseteq StatusOf(Held) \/ \E i \in DOMAIN toDesktop : toDesktop[i].event
    /\ \A i \in DOMAIN toDesktop : ~toDesktop[i].event /\ toDesktop[i].good => toDesktop[i].type \in StatusOf(Held)
    /\ pad.shown \subseteq Held
    /\ ~desk.connected => desk.shown = {}

(* One flow of a process at a time holds the screen, and a request for a   *)
(* dialogue is pending only for a flow that waits for it.                  *)
FlowIsAlone ==
    /\ \A p \in {"ui", "backend"} :
          Cardinality({f \in Flows : ProcessOf(f) = p
                                     /\ flows[f].at \in Places \ {"idle", "waits", "reports", "queued"}})
            = IF inProgress[p] THEN 1 ELSE 0
    /\ pending # 0 => \E f \in Flows : flows[f].at = "blocked" /\ flows[f].code = pending

(* Both. *)
PermissionsAreHonest == ShownIsGranted /\ FlowIsAlone
=============================================================================
