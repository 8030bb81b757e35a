------------------------------ MODULE PhoneBackend ------------------------------
(***************************************************************************)
(* The phone's two processes.  The service runs the back end on a Qt       *)
(* thread of its own (MainServiceBackendBridge.cpp, MainService.kt); the   *)
(* activity (MobileConnectionController.cpp, QtActivity.java) sends it     *)
(* intents, is told of pairing prompts by intents, and reads whether a     *)
(* peer is connected from a file that any thread of the service rewrites.  *)
(*                                                                         *)
(* Threads of the service: "main" handles intents in order, a "starter"    *)
(* and a "quitter" are created by two of them, "qt" runs the back end,     *)
(* "pool" is the connection's and "pool" another coroutine.  A prompt is *)
(* its number; which of the two kinds it is does not matter to the code    *)
(* that keeps it, and each kind has a slot of its own.                     *)
(*                                                                         *)
(* Bounds: MaxIntents sent by the activity, MaxEvents prompts and          *)
(* connections made, MaxFaults crashes and failed starts.                  *)
(***************************************************************************)
EXTENDS Integers, Sequences

CONSTANTS MaxIntents, MaxEvents, MaxFaults

VARIABLES
    alive,          \* the service's process exists
    started,        \* MainService.backendStarted
    context,        \* AndroidContextProvider has the service's context
    backend,        \* g_backendState
    runtime,        \* where the thread of BackendQtRuntimeMain is, "none" without one
    joinable, app, ready, stopping,   \* g_qtRuntimeThread, ...App, ...Ready, ...Stopping
    queue,          \* what is posted to the Qt application
    threads,        \* where main, the starter and the quitter are, and main's task
    writing,        \* the snapshot each thread is about to put in place
    held,           \* g_downloadPathMutex is held by the Qt thread
    slot,           \* g_pendingConnectionPrompt: a prompt's number, 0 if null
    link,           \* the connection: "down", "up", or "closing": CONNECTED, CoDisconnect posted
    toTell,         \* its event is still to be published
    file,           \* "connected" in backend_state.json
    intents,        \* sent by the activity, not yet handled
    screen,         \* the activity: connected as shown, the prompt asked about, the last intent
    sent, prompts, links, faults,
    answered,       \* ghost: <<prompt answered, prompt the answer was meant for>>
    doubtful,       \* ghost: the last snapshot was written beside another, or one was not written
    status          \* ghost: a refresh without a connection: "none", "asked", "told"

service   == <<started, context, backend, runtime, joinable, app, ready, stopping, queue, threads, held, slot>>
activity  == <<intents, screen, sent>>
snapshot  == <<writing, file, doubtful, status>>
outside   == <<prompts, links, faults>>
phoneVars == <<alive, service, activity, snapshot, outside, link, toTell, answered>>

-------------------------------------------------------------------------------

Writers == {"qt", "pool"}
Idle == [at |-> "idle", task |-> "none", meant |-> 0]
Silence == [w \in Writers |-> "idle"]

TypeOK ==
    /\ backend \in {"Stopped", "Starting", "Running", "Stopping"}
    /\ runtime \in {"none", "born", "starts", "started", "exec", "stops", "stopped"}
    /\ threads.main.at \in {"idle", "ensure", "joins", "asks", "waits"}
    /\ threads.starter.at \in {"idle", "begin", "ensure", "joins", "asks", "waits"}
    /\ threads.quitter.at \in {"idle", "begin", "stop", "awaits", "joins", "kill"}
    /\ writing \in [Writers -> {"idle", "up", "down"}]
    /\ slot \in 0 .. MaxEvents /\ screen.asks \in 0 .. MaxEvents /\ file \in BOOLEAN

NewService ==
    /\ started' = FALSE /\ context' = FALSE /\ backend' = "Stopped" /\ runtime' = "none"
    /\ joinable' = FALSE /\ app' = FALSE /\ ready' = FALSE /\ stopping' = FALSE
    /\ queue' = <<>> /\ held' = FALSE /\ slot' = 0 /\ link' = "down" /\ toTell' = FALSE
    /\ threads' = [main |-> Idle, starter |-> Idle, quitter |-> Idle]
    /\ writing' = Silence

Init ==
    /\ alive = TRUE
    /\ started = FALSE /\ context = FALSE /\ backend = "Stopped" /\ runtime = "none"
    /\ joinable = FALSE /\ app = FALSE /\ ready = FALSE /\ stopping = FALSE
    /\ queue = <<>> /\ held = FALSE /\ slot = 0 /\ link = "down" /\ toTell = FALSE
    /\ threads = [main |-> Idle, starter |-> Idle, quitter |-> Idle]
    /\ writing = Silence /\ file = FALSE /\ doubtful = FALSE /\ status = "none"
    /\ intents = <<[what |-> "start", meant |-> 0]>> /\ screen = [connected |-> FALSE, asks |-> 0, last |-> 0]
    /\ sent = 1 /\ prompts = 0 /\ links = 0 /\ faults = 0 /\ answered = <<>>

-------------------------------------------------------------------------------
(* WriteBackendStateSnapshot: the caller says what to write; the file is replaced later. *)
(* Two writers use one temporary file, so either's text, or neither's, may be left.      *)

CONNECTED == link # "down"
Up == IF CONNECTED THEN "up" ELSE "down"

BeginsToWrite(w, what) ==
    /\ writing' = [writing EXCEPT ![w] = what]
    /\ doubtful' = \E v \in Writers \ {w} : writing[v] # "idle"

Writes(w) ==
    /\ writing[w] # "idle" /\ ~held
    /\ writing' = [writing EXCEPT ![w] = "idle"]
    /\ IF doubtful \/ \E v \in Writers \ {w} : writing[v] # "idle"
          THEN file' \in BOOLEAN ELSE file' = (writing[w] = "up")
    /\ status' = IF w = "qt" /\ status = "asked" THEN "told" ELSE status
    /\ UNCHANGED <<alive, service, activity, outside, link, toTell, answered, doubtful>>

-------------------------------------------------------------------------------
(* The Qt thread. *)

Runs(there) == runtime = there /\ writing["qt"] = "idle"

BackendQtRuntimeMain ==
    /\ runtime = "born"
    /\ runtime' = "starts" /\ app' = TRUE /\ ready' = FALSE
    /\ UNCHANGED <<alive, activity, snapshot, outside, link, toTell, answered,
                   started, context, backend, joinable, stopping, queue, threads, held, slot>>

StartBackendIfNeeded ==
    /\ Runs("starts")
    /\ runtime' = "started"
    /\ \/ /\ backend' = "Running" /\ BeginsToWrite("qt", Up)
          /\ UNCHANGED faults
       \/ /\ faults < MaxFaults /\ faults' = faults + 1
          /\ UNCHANGED <<backend, writing, doubtful>>
    /\ UNCHANGED <<alive, activity, prompts, links, link, toTell, answered, file, status,
                   started, context, joinable, app, ready, stopping, queue, threads, held, slot>>

IsReady ==
    /\ Runs("started")
    /\ runtime' = "exec" /\ ready' = TRUE
    /\ UNCHANGED <<alive, activity, snapshot, outside, link, toTell, answered,
                   started, context, backend, joinable, app, stopping, queue, threads, held, slot>>

(* Variant: the prompt is used where it is kept. *)
AnswersInPlace(meant) ==
    /\ answered' = IF slot = 0 THEN answered ELSE Append(answered, <<slot, meant>>)
    /\ UNCHANGED <<slot, link, writing, doubtful, status, held>>

(* The slot is emptied under its mutex; what was in it is answered, whichever prompt the *)
(* answer was meant for.                                                                 *)
Answers(meant) ==
    /\ answered' = IF slot = 0 THEN answered ELSE Append(answered, <<slot, meant>>)
    /\ slot' = 0
    /\ UNCHANGED <<link, writing, doubtful, status, held>>

(* nativeSetClipboardSyncEnabled and its like: the module, then a snapshot of what is. *)
Toggles ==
    /\ BeginsToWrite("qt", Up)
    /\ UNCHANGED <<answered, slot, link, status, held>>

(* nativeDisconnect: Disconnect only posts; the strand does it. *)
Disconnects ==
    /\ link' = IF CONNECTED THEN "closing" ELSE link
    /\ BeginsToWrite("qt", "down")
    /\ UNCHANGED <<answered, slot, status, held>>

(* nativeRefreshDownloadPath: without a connection the snapshot is written with *)
(* g_downloadPathMutex held, which the writer takes too.                        *)
Refreshes ==
    /\ BeginsToWrite("qt", Up)
    /\ held' = ~CONNECTED
    /\ status' = IF CONNECTED THEN status ELSE "asked"
    /\ UNCHANGED <<answered, slot, link>>

Does(task) ==
    \/ task.do = "answer" /\ Answers(task.meant)
    \/ task.do = "toggle" /\ Toggles
    \/ task.do = "disconnect" /\ Disconnects
    \/ task.do = "refresh" /\ Refreshes

RunsTask ==
    /\ Runs("exec") /\ queue # <<>>
    /\ queue' = Tail(queue)
    /\ IF Head(queue).do = "quit"
          THEN runtime' = "stops" /\ UNCHANGED <<answered, slot, link, writing, doubtful, status, held>>
          ELSE Does(Head(queue)) /\ UNCHANGED runtime
    /\ UNCHANGED <<alive, activity, outside, toTell, file, started, context, backend, joinable, app, ready,
                   stopping, threads>>

(* StopBackendIfNeeded: the pool's threads are joined, so what they were writing is written *)
(* and what they had not begun is not.                                                      *)
StopBackendIfNeeded ==
    /\ Runs("stops")
    /\ writing["pool"] = "idle"
    /\ runtime' = "stopped"
    /\ IF backend = "Running"
          THEN /\ backend' = "Stopped" /\ link' = "down" /\ toTell' = FALSE
               /\ BeginsToWrite("qt", "down")
          ELSE UNCHANGED <<backend, link, toTell, writing, doubtful>>
    /\ UNCHANGED <<alive, activity, outside, answered, file, status,
                   started, context, joinable, app, ready, stopping, queue, threads, held, slot>>

RuntimeEnds ==
    /\ Runs("stopped")
    /\ runtime' = "none" /\ app' = FALSE /\ ready' = FALSE /\ stopping' = FALSE /\ queue' = <<>>
    /\ UNCHANGED <<alive, activity, snapshot, outside, link, toTell, answered,
                   started, context, backend, joinable, threads, held, slot>>

-------------------------------------------------------------------------------
(* EnsureBackendQtRuntime and PostToBackendQt, called by the main thread and the starter. *)

At(t, pc) == threads[t].at = pc
Goes(t, pc) == threads' = [threads EXCEPT ![t].at = pc]

(* Main posts its task if the runtime is there. *)
Returns(t, ok) ==
    /\ queue' = IF ok /\ t = "main" /\ app
                  THEN Append(queue, [do |-> threads.main.task, meant |-> threads.main.meant]) ELSE queue
    /\ threads' = [threads EXCEPT ![t] = Idle]
    /\ UNCHANGED <<runtime, joinable>>

(* A runtime that has not yet registered its application looks like one that has ended: *)
(* whoever asks then joins it.                                                          *)
JoinsFinished(t) ==
    /\ At(t, "ensure")
    /\ IF joinable /\ ~app /\ ~stopping
          THEN joinable' = FALSE /\ Goes(t, "joins")
          ELSE Goes(t, "asks") /\ UNCHANGED joinable
    /\ UNCHANGED <<queue, runtime>>

Joined(t) ==
    /\ At(t, "joins") /\ runtime = "none"
    /\ Goes(t, "asks")
    /\ UNCHANGED <<queue, joinable, runtime>>

Asks(t) ==
    /\ At(t, "asks")
    /\ \/ ready /\ Returns(t, TRUE)
       \/ ~ready /\ stopping /\ Returns(t, FALSE)
       \/ /\ ~ready /\ ~stopping /\ Goes(t, "waits")
          /\ IF joinable THEN UNCHANGED <<runtime, joinable>>
                         ELSE runtime = "none" /\ runtime' = "born" /\ joinable' = TRUE
          /\ UNCHANGED queue

Waited(t) ==
    /\ At(t, "waits")
    /\ ready \/ stopping
    /\ Returns(t, ready)

EnsureBackendQtRuntime(t) ==
    /\ JoinsFinished(t) \/ Joined(t) \/ Asks(t) \/ Waited(t)
    /\ UNCHANGED <<alive, activity, snapshot, outside, link, toTell, answered,
                   started, context, backend, app, ready, stopping, held, slot>>

(* The starter: backendStarted is set first, then nativeStartBackend is called. *)
StartBackend ==
    /\ At("starter", "begin")
    /\ IF started THEN threads' = [threads EXCEPT !.starter = Idle] /\ UNCHANGED <<started, context>>
                  ELSE started' = TRUE /\ context' = TRUE /\ Goes("starter", "ensure")
    /\ UNCHANGED <<alive, activity, snapshot, outside, link, toTell, answered,
                   backend, runtime, joinable, app, ready, stopping, queue, held, slot>>

(* The quitter: StopBackendQtRuntime if the starter got that far. *)
StopBackend ==
    /\ \/ /\ At("quitter", "begin")
          /\ Goes("quitter", IF started THEN "stop" ELSE "kill")
          /\ started' = FALSE
          /\ UNCHANGED <<context, stopping, joinable, queue>>
       \/ /\ At("quitter", "stop")
          /\ Goes("quitter", IF joinable THEN "awaits" ELSE "kill")
          /\ stopping' = (joinable \/ stopping)
          /\ context' = (context /\ joinable)
          /\ UNCHANGED <<started, joinable, queue>>
       \/ /\ At("quitter", "awaits") /\ app
          /\ Goes("quitter", "joins")
          /\ joinable' = FALSE
          /\ queue' = Append(queue, [do |-> "quit", meant |-> 0])
          /\ UNCHANGED <<started, context, stopping>>
       \/ /\ At("quitter", "joins") /\ runtime = "none"
          /\ Goes("quitter", "kill")
          /\ context' = FALSE
          /\ UNCHANGED <<started, stopping, joinable, queue>>
    /\ UNCHANGED <<alive, activity, snapshot, outside, link, toTell, answered,
                   backend, runtime, app, ready, held, slot>>

(* Process.killProcess, or a crash: nothing of the process is left, the file is. *)
ProcessEnds ==
    /\ alive
    /\ \/ At("quitter", "kill") /\ UNCHANGED faults
       \/ faults < MaxFaults /\ faults' = faults + 1
    /\ alive' = FALSE /\ NewService
    /\ doubtful' = (doubtful \/ writing # Silence)
    /\ status' = IF status = "asked" THEN "none" ELSE status
    /\ UNCHANGED <<activity, prompts, links, answered, file>>

-------------------------------------------------------------------------------
(* The connection and its events: PublishBackendEvent runs on the thread that raises them. *)

Unblocked == alive /\ backend = "Running" /\ writing["pool"] = "idle" /\ ~toTell

LinkChanges ==
    /\ Unblocked
    /\ \/ CONNECTED /\ link' = "down" /\ UNCHANGED links
       \/ ~CONNECTED /\ link' = "up" /\ prompts + links < MaxEvents /\ links' = links + 1
    /\ toTell' = TRUE
    /\ UNCHANGED <<alive, service, activity, snapshot, prompts, faults, answered>>

Tells ==
    /\ toTell
    /\ toTell' = FALSE
    /\ IF CONNECTED \/ context THEN BeginsToWrite("pool", Up)
                               ELSE doubtful' = TRUE /\ UNCHANGED writing
    /\ UNCHANGED <<alive, service, activity, outside, link, answered, file, status>>

(* A media event, a clipboard, an answer about the download path. *)
OtherSnapshot ==
    /\ alive /\ backend = "Running" /\ writing["pool"] = "idle" /\ CONNECTED
    /\ BeginsToWrite("pool", Up)
    /\ UNCHANGED <<alive, service, activity, outside, link, toTell, answered, file, status>>

(* A prompt replaces the one that is kept, and an intent brings it to the activity. *)
PublishesPrompt ==
    /\ Unblocked /\ prompts + links < MaxEvents
    /\ prompts' = prompts + 1 /\ slot' = prompts + 1
    /\ screen' = IF context THEN [screen EXCEPT !.last = prompts + 1] ELSE screen
    /\ UNCHANGED <<alive, snapshot, links, faults, link, toTell, answered, intents, sent,
                   started, context, backend, runtime, joinable, app, ready, stopping, queue, threads, held>>

-------------------------------------------------------------------------------
(* The activity. *)

Sends(what, meant) ==
    /\ sent < MaxIntents /\ sent' = sent + 1
    /\ intents' = Append(intents, [what |-> what, meant |-> meant])

(* The activity's last intent is handled when it comes, and again when the activity is made *)
(* anew: the prompt is shown, or answered at once.                                          *)
ShowsPrompt ==
    /\ screen.last # 0
    /\ screen' = [screen EXCEPT !.asks = screen.last]
    /\ UNCHANGED <<alive, service, snapshot, outside, link, toTell, answered, intents, sent>>

UserAnswers ==
    /\ screen.asks # 0
    /\ Sends("answer", screen.asks)
    /\ screen' = [screen EXCEPT !.asks = 0]
    /\ UNCHANGED <<alive, service, snapshot, outside, link, toTell, answered>>

UserAsks ==
    /\ \E what \in {"toggle", "disconnect", "refresh", "quit", "start"} : Sends(what, 0)
    /\ UNCHANGED <<alive, service, snapshot, outside, link, toTell, answered, screen>>

(* refreshBackendStateSnapshot, every 500 ms. *)
Polls ==
    /\ file # screen.connected
    /\ screen' = [screen EXCEPT !.connected = file, !.asks = 0]
    /\ UNCHANGED <<alive, service, snapshot, outside, link, toTell, answered, intents, sent>>

(* MainService.onStartCommand; an intent starts the process if there is none. *)
OnStartCommand ==
    /\ intents # <<>> /\ At("main", "idle")
    /\ alive' = TRUE
    /\ intents' = Tail(intents)
    /\ LET what == Head(intents).what IN
          threads' = CASE what = "start" -> IF At("starter", "idle")
                                               THEN [threads EXCEPT !.starter.at = "begin"] ELSE threads
                       [] what = "quit"  -> IF At("quitter", "idle")
                                               THEN [threads EXCEPT !.quitter.at = "begin"] ELSE threads
                       [] OTHER -> [threads EXCEPT !.main = [at |-> "ensure", task |-> what,
                                                             meant |-> Head(intents).meant]]
    /\ UNCHANGED <<snapshot, outside, link, toTell, answered, screen, sent, started, context, backend, runtime,
                   joinable, app, ready, stopping, queue, held, slot>>

-------------------------------------------------------------------------------

QtThread ==
    \/ BackendQtRuntimeMain \/ StartBackendIfNeeded \/ IsReady \/ RunsTask \/ StopBackendIfNeeded \/ RuntimeEnds
    \/ Writes("qt")

Next ==
    \/ QtThread
    \/ Writes("pool")
    \/ EnsureBackendQtRuntime("main") \/ EnsureBackendQtRuntime("starter")
    \/ StartBackend \/ StopBackend \/ ProcessEnds
    \/ LinkChanges \/ Tells \/ OtherSnapshot \/ PublishesPrompt
    \/ ShowsPrompt \/ UserAnswers \/ UserAsks \/ Polls \/ OnStartCommand

Spec == Init /\ [][Next]_phoneVars

(* What the Qt thread can do, it does. *)
FairSpec == Spec /\ WF_phoneVars(QtThread)

-------------------------------------------------------------------------------

(* A prompt is answered at most once, and never by an answer to a later one: a second tap, *)
(* or the same intent handled again, finds the slot empty or a newer prompt.               *)
AnsweredOnce ==
    /\ \A i, j \in DOMAIN answered : answered[i][1] = answered[j][1] => i = j
    /\ \A i \in DOMAIN answered : answered[i][1] >= answered[i][2]

(* When no thread is writing and no event is untold, the file the activity polls says      *)
(* whether a peer is connected, unless two threads wrote it at once or an event came to a  *)
(* back end that was started without the service's context.                                *)
SnapshotSettles ==
    (/\ alive /\ backend = "Running" /\ runtime \in {"started", "exec"}
     /\ writing = Silence /\ link # "closing" /\ ~toTell /\ ~doubtful)
    => (file <=> CONNECTED)

(* The user who asks for the download path without a connection is told to connect. *)
RefreshIsReported == (status = "asked") ~> (status # "asked")

===============================================================================
