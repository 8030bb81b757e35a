---------------------------- MODULE MCApplications -----------------------------
(* The applications' components and the services under them, one small instance of *)
(* each; of four there are two, where one that holds all cases is too big: the back *)
(* end stopped and started (Backend) or with two prompts and a crash (Prompts), the *)
(* messages with two attachments (Sms) or with one to send (Replies), permissions   *)
(* that move (Permissions) or are asked for twice (Asking), the microphone's ring   *)
(* (VirtualMicrophone) or its two devices (Table).                                  *)
(* `subject` names the component a behaviour is of.  As the others do nothing, all  *)
(* keep their variables in v1, v2, ... (the substitutions below say which is        *)
(* which); FileExport, VirtualMicrophone, Identity and Permissions, which proofs    *)
(* are about, have their own.                                                       *)
EXTENDS FileExport, VirtualMicrophone, Identity, Permissions

CONSTANTS window1, window2, device1, device2

FolderContents == [home |-> {"a", "b"}, other |-> {}]
PersonOf       == [k |-> "p", kp |-> "p"]
NeedsOf        == [Notifications |-> <<"post", "listener">>]
ChordsOfKeys   == {<<"ctrl", "shift">>}

VARIABLES
    subject,
    v1, v2, v3, v4, v5, v6, v7, v8, v9, v10, v11, v12, v13, v14, v15, v16, v17, v18,
    v19, v20, v21, v22, v23, v24, v25, v26

Files ==
    INSTANCE FileManager WITH
        Contents <- FolderContents, Files <- {"l"}, MaxClicks <- 2, MaxOffs <- 1,
        MaxSessions <- 2,
        ui <- v1, moduleOn <- v2, posted <- v3, vanished <- v4, linked <- v5,
        clicks <- v6, offs <- v7, sessions <- v8
Backend ==
    INSTANCE PhoneBackend WITH
        MaxIntents <- 3, MaxEvents <- 1, MaxFaults <- 0,
        alive <- v1, started <- v2, context <- v3, backend <- v4, runtime <- v5,
        joinable <- v6, app <- v7, ready <- v8, stopping <- v9, queue <- v10,
        threads <- v11, writing <- v12, held <- v13, slot <- v14, link <- v15,
        toTell <- v16, file <- v17, intents <- v18, screen <- v19, sent <- v20,
        prompts <- v21, links <- v22, faults <- v23, answered <- v24,
        doubtful <- v25, status <- v26
Prompts ==
    INSTANCE PhoneBackend WITH
        MaxIntents <- 2, MaxEvents <- 2, MaxFaults <- 1,
        alive <- v1, started <- v2, context <- v3, backend <- v4, runtime <- v5,
        joinable <- v6, app <- v7, ready <- v8, stopping <- v9, queue <- v10,
        threads <- v11, writing <- v12, held <- v13, slot <- v14, link <- v15,
        toTell <- v16, file <- v17, intents <- v18, screen <- v19, sent <- v20,
        prompts <- v21, links <- v22, faults <- v23, answered <- v24,
        doubtful <- v25, status <- v26
Sms ==
    INSTANCE SmsBridge WITH
        Keys <- {"k", "kp"}, Person <- PersonOf, Targets <- {"t", "u"},
        Sends <- {}, MaxHappenings <- 1, MaxSessions <- 1,
        ui <- v1, disk <- v2, work <- v3, posted <- v4, joined <- v5, lost <- v6,
        unsent <- v7, happened <- v8, calls <- v9
Replies ==
    INSTANCE SmsBridge WITH
        Keys <- {"k", "kp"}, Person <- PersonOf, Targets <- {"t"},
        Sends <- {"m"}, MaxHappenings <- 1, MaxSessions <- 1,
        ui <- v1, disk <- v2, work <- v3, posted <- v4, joined <- v5, lost <- v6,
        unsent <- v7, happened <- v8, calls <- v9
Clipboard ==
    INSTANCE ClipboardSync WITH
        Small <- {"s"}, Big <- {"b"}, Screened <- {"phone"}, MaxMoves <- 2,
        MaxTravels <- 2,
        clip <- v1, lastText <- v2, memory <- v3, buffer <- v4, left <- v5,
        strand <- v6, setting <- v7, asking <- v8, finishing <- v9, notices <- v10,
        wire <- v11, on <- v12, shown <- v13, screen <- v14, used <- v15,
        travels <- v16, excused <- v17, disturbed <- v18, syncs <- v19, moves <- v20
Setting ==
    INSTANCE SyncSettings WITH
        MaxDecisions <- 2, MaxSessions <- 2, MaxFailedEnables <- 1,
        kind <- v1, set <- v2, allowed <- v3, display <- v4, items <- v5,
        module <- v6, orders <- v7, inSession <- v8, manager <- v9, events <- v10,
        wish <- v11, failed <- v12, raced <- v13, decisions <- v14, begun <- v15,
        failures <- v16
Screens ==
    INSTANCE ConnectionScreens WITH
        MaxAttempts <- 2, MaxTries <- 2, MaxTyped <- 1, MaxCuts <- 1,
        desk <- v1, hand <- v2, shake <- v3, inbox <- v4, primary <- v5,
        events <- v6, pairedOn <- v7, banned <- v8, overrun <- v9, typed <- v10,
        cuts <- v11
Alert ==
    INSTANCE FindMyPhone WITH
        MaxPresses <- 3, MaxSessions <- 2,
        flag <- v1, known <- v2, session <- v3, toPhone <- v4, toDesk <- v5,
        posted <- v6, handler <- v7, qt <- v8, alert <- v9, player <- v10,
        setting <- v11, shown <- v12, context <- v13, mute <- v14,
        overlapped <- v15, crossed <- v16, earlier <- v17, presses <- v18,
        sessions <- v19
Asking ==
    INSTANCE Permissions WITH
        MaxAsks <- 2, MaxMoves <- 1,
        granted <- v1, app <- v2, flows <- v3, inProgress <- v4, dialogues <- v5,
        pending <- v6, answers <- v7, codes <- v8, pad <- v9, reads <- v10,
        asked <- v11, toDesktop <- v12, desk <- v13, shots <- v14, inSession <- v15,
        requests <- v16, moves <- v17, withdrawn <- v18
Local ==
    INSTANCE LocalNetwork WITH
        Callers <- {"a", "b", "c"}, MaxProbes <- 2,
        known <- v1, busy <- v2, callers <- v3, probe <- v4, probes <- v5
Loop ==
    INSTANCE AcceptLoop WITH
        MaxCommands <- 3, MaxSeeks <- 3, MaxPeers <- 1, MaxFailures <- 1,
        accepting <- v1, generation <- v2, out <- v3, inbound <- v4,
        listeners <- v5, calls <- v6, dropping <- v7, commands <- v8, peers <- v9,
        failures <- v10, failed <- v11
Camera ==
    INSTANCE CameraStream WITH
        MaxQueuedFrameJobs <- 1, MaxEncoded <- 1, MaxPaced <- 1, MaxCaptured <- 2,
        MaxEnables <- 1,
        toPhone <- v1, toDesktop <- v2, phone <- v3, jobs <- v4, air <- v5,
        desktop <- v6, rx <- v7, encoded <- v8, decoder <- v9, taken <- v10,
        captured <- v11, enables <- v12, crossed <- v13
Table ==
    INSTANCE VirtualMicrophone WITH
        Slots <- 2, RingFrames <- 1, MaxPush <- 1, MaxRequest <- 1, MaxFrames <- 1,
        MaxTurns <- 2,
        devices <- v1, list <- v2, selected <- v3, asks <- v4, posted <- v5,
        chosen <- v6, calls <- v7, module <- v8, late <- v9, open <- v10,
        sounds <- v11, writeHead <- v12, readHead <- v13, writer <- v14,
        reader <- v15, frames <- v16, turns <- v17, accepted <- v18, heard <- v19,
        hurt <- v20, crossed <- v21
Microphone ==
    INSTANCE MicrophoneStream WITH
        MaxEnables <- 2, MaxOffs <- 3,
        desk <- v1, phone <- v2, toPhone <- v3, toDesk <- v4, keys <- v5,
        enables <- v6, offs <- v7, crossed <- v8
Input ==
    INSTANCE RemoteInput WITH
        Builds <- {"android", "other"}, Positions <- {0, 4}, Chords <- ChordsOfKeys,
        MaxTaps <- 1, MaxTurns <- 2,
        build <- v1, pad <- v2, timers <- v3, tasks <- v4, outgoing <- v5,
        incoming <- v6, notices <- v7, snapshot <- v8, phoneOn <- v9, host <- v10,
        strand <- v11, linked <- v12, taps <- v13, turns <- v14, whole <- v15,
        cut <- v16
Scan ==
    INSTANCE Scanner WITH
        AsksFirst <- FALSE, MaxJoins <- 2, MaxFailures <- 1, MaxMoves <- 1,
        MaxTurns <- 3,
        scanning <- v1, inSocket <- v2, outSocket <- v3, strand <- v4, probes <- v5,
        receivers <- v6, waitsOn <- v7, page <- v8, answers <- v9, permitted <- v10,
        medium <- v11, member <- v12, crashed <- v13, failed <- v14, missed <- v15,
        joins <- v16, failures <- v17, turns <- v18
Daemon ==
    INSTANCE WindowDaemon WITH
        Windows <- {window1, window2}, MaxLinks <- 2, MaxTurns <- 3,
        process <- v1, hasPhone <- v2, sender <- v3, asking <- v4, link <- v5,
        toTell <- v6, clients <- v7, daemon <- v8, shown <- v9, grounds <- v10,
        created <- v11, turns <- v12

(* The constants are ones the theorems of ServiceProofs are about. *)
ASSUME PermissionAssumption == PermissionBounds
ASSUME AcceptAssumption == Loop!AcceptBounds
ASSUME DaemonAssumption == Daemon!DaemonBounds

(* The variables a component leaves unused: they keep 0. *)
From22 == <<v22, v23, v24, v25, v26>>
From21 == <<v21, From22>>
From20 == <<v20, From21>>
From19 == <<v19, From20>>
From17 == <<v17, v18, From19>>
From14 == <<v14, v15, v16, From17>>
From13 == <<v13, From14>>
From12 == <<v12, From13>>
From10 == <<v10, v11, From12>>
From9 == <<v9, From10>>
From6 == <<v6, v7, v8, From9>>
From1 == <<v1, v2, v3, v4, v5, From6>>

Idle22 == v22 = 0 /\ v23 = 0 /\ v24 = 0 /\ v25 = 0 /\ v26 = 0
Idle21 == v21 = 0 /\ Idle22
Idle20 == v20 = 0 /\ Idle21
Idle19 == v19 = 0 /\ Idle20
Idle17 == v17 = 0 /\ v18 = 0 /\ Idle19
Idle14 == v14 = 0 /\ v15 = 0 /\ v16 = 0 /\ Idle17
Idle13 == v13 = 0 /\ Idle14
Idle12 == v12 = 0 /\ Idle13
Idle10 == v10 = 0 /\ v11 = 0 /\ Idle12
Idle9 == v9 = 0 /\ Idle10
Idle6 == v6 = 0 /\ v7 = 0 /\ v8 = 0 /\ Idle9
Idle1 == v1 = 0 /\ v2 = 0 /\ v3 = 0 /\ v4 = 0 /\ v5 = 0 /\ Idle6

xVars == <<subject, From1, exportVars, micVars, identityVars, permissionVars>>

OwnInit == Init /\ MicInit /\ IdentityInit /\ PermissionInit
OwnVars == <<exportVars, micVars, identityVars, permissionVars>>

XInit ==
    /\ OwnInit
    /\ \/ subject \in {"export", "device", "identity", "permission"} /\ Idle1
       \/ subject = "files" /\ Files!Init /\ Idle9
       \/ subject = "backend" /\ Backend!Init
       \/ subject = "prompts" /\ Prompts!Init
       \/ subject = "sms" /\ Sms!Init /\ Idle10
       \/ subject = "replies" /\ Replies!Init /\ Idle10
       \/ subject = "table" /\ Table!MicInit /\ Idle22
       \/ subject = "asking" /\ Asking!PermissionInit /\ Idle19 /\ v1 = Settings
       \/ subject = "clipboard" /\ Clipboard!Init /\ Idle21
       \/ subject = "setting" /\ Setting!Init /\ Idle17
       \/ subject = "screens" /\ Screens!Init /\ Idle12
       \/ subject = "alert" /\ Alert!Init /\ Idle20
       \/ subject = "local" /\ Local!LocalInit /\ Idle6
       \/ subject = "loop" /\ Loop!AcceptInit /\ Idle12
       \/ subject = "camera" /\ Camera!Init /\ Idle14
       \/ subject = "microphone" /\ Microphone!Init /\ Idle9
       \/ subject = "input" /\ Input!Init /\ Idle17
       \/ subject = "scan" /\ Scan!Init /\ Idle19
       \/ subject = "daemon" /\ Daemon!DaemonInit /\ Idle13
    /\ granted = IF subject = "permission" THEN Settings ELSE {}

XNext ==
    \/ subject = "files" /\ Files!Next /\ UNCHANGED <<subject, From9, OwnVars>>
    \/ subject = "backend" /\ Backend!Next /\ UNCHANGED <<subject, OwnVars>>
    \/ subject = "prompts" /\ Prompts!Next /\ UNCHANGED <<subject, OwnVars>>
    \/ subject = "sms" /\ Sms!Next /\ UNCHANGED <<subject, From10, OwnVars>>
    \/ subject = "replies" /\ Replies!Next /\ UNCHANGED <<subject, From10, OwnVars>>
    \/ subject = "table" /\ Table!MicNext /\ UNCHANGED <<subject, From22, OwnVars>>
    \/ subject = "asking" /\ Asking!PermissionNext /\ UNCHANGED <<subject, From19, OwnVars>>
    \/ subject = "clipboard" /\ Clipboard!Next /\ UNCHANGED <<subject, From21, OwnVars>>
    \/ subject = "setting" /\ Setting!Next /\ UNCHANGED <<subject, From17, OwnVars>>
    \/ subject = "screens" /\ Screens!Next /\ UNCHANGED <<subject, From12, OwnVars>>
    \/ subject = "alert" /\ Alert!Next /\ UNCHANGED <<subject, From20, OwnVars>>
    \/ subject = "local" /\ Local!LocalNext /\ UNCHANGED <<subject, From6, OwnVars>>
    \/ subject = "loop" /\ Loop!AcceptNext /\ UNCHANGED <<subject, From12, OwnVars>>
    \/ subject = "camera" /\ Camera!Next /\ UNCHANGED <<subject, From14, OwnVars>>
    \/ subject = "microphone" /\ Microphone!Next /\ UNCHANGED <<subject, From9, OwnVars>>
    \/ subject = "input" /\ Input!Next /\ UNCHANGED <<subject, From17, OwnVars>>
    \/ subject = "scan" /\ Scan!Next /\ UNCHANGED <<subject, From19, OwnVars>>
    \/ subject = "daemon" /\ Daemon!DaemonNext /\ UNCHANGED <<subject, From13, OwnVars>>
    \/ subject = "export" /\ Next /\ UNCHANGED <<subject, From1, micVars, identityVars, permissionVars>>
    \/ subject = "device" /\ MicNext /\ UNCHANGED <<subject, From1, exportVars, identityVars, permissionVars>>
    \/ subject = "identity" /\ IdentityNext /\ UNCHANGED <<subject, From1, exportVars, micVars, permissionVars>>
    \/ subject = "permission" /\ PermissionNext /\ UNCHANGED <<subject, From1, exportVars, micVars, identityVars>>

XSpec == XInit /\ [][XNext]_xVars

(* Each component's own type invariant. *)
XTypeOK ==
    CASE subject = "files" -> Files!TypeOK
      [] subject = "backend" -> Backend!TypeOK
      [] subject = "prompts" -> Prompts!TypeOK
      [] subject = "sms" -> Sms!TypeOK
      [] subject = "replies" -> Replies!TypeOK
      [] subject = "table" -> Table!MicTypeOK
      [] subject = "asking" -> Asking!PermissionTypeOK
      [] subject = "clipboard" -> Clipboard!TypeOK
      [] subject = "setting" -> Setting!TypeOK
      [] subject = "screens" -> Screens!TypeOK
      [] subject = "alert" -> Alert!TypeOK
      [] subject = "permission" -> PermissionTypeOK
      [] subject = "local" -> Local!LocalTypeOK
      [] subject = "loop" -> Loop!AcceptTypeOK
      [] subject = "camera" -> Camera!TypeOK
      [] subject = "microphone" -> Microphone!TypeOK
      [] subject = "input" -> Input!TypeOK
      [] subject = "scan" -> Scan!TypeOK
      [] subject = "daemon" -> Daemon!DaemonTypeOK
      [] subject = "export" -> TypeOK
      [] subject = "device" -> MicTypeOK
      [] subject = "identity" -> IdentityTypeOK

(* What the desktop shows of connecting is true: whoever is told to accept listens,  *)
(* and nobody does who is told not to, whatever commands overtook each other; a      *)
(* dialogue or a "connecting" on a screen ends, and a connection shown is the one     *)
(* that was approved; a page that shows a search has a scan behind it; the local      *)
(* network is asked for once; and a window that exits because another is connected    *)
(* was not told so of itself.                                                         *)
ConnectingIsHonest ==
    /\ subject = "loop"    => Loop!ListensWhileAccepting /\ Loop!SilentWhenStopped
    /\ subject = "screens" => Screens!ScreensAreHonest
    /\ subject = "scan"    => Scan!SearchIsReal
    /\ subject = "local"   => Local!AskedOnce
    /\ subject = "daemon"  => Daemon!AnotherWindowIsThere

(* The phone's back end gives a prompt one answer, and its snapshot settles on what   *)
(* is true; of two flows that ask for a permission one has the screen; a phone that is *)
(* told to ring rings as the user and the desktop believe, and leaves the volume as it *)
(* was.                                                                                *)
PhoneIsSound ==
    /\ subject = "backend" => Backend!AnsweredOnce /\ Backend!SnapshotSettles
    /\ subject = "prompts" => Prompts!AnsweredOnce /\ Prompts!SnapshotSettles
    /\ subject = "asking"  => Asking!PermissionsAreHonest
    /\ subject = "alert"   => Alert!AlertIsKnown


(* What the user chose for a module outlives sessions, and a copied text reaches the  *)
(* other device and no further.                                                       *)
ChoicesAreKept ==
    /\ subject = "setting"   => Setting!SettingIsKept
    /\ subject = "clipboard" => Clipboard!ClipboardIsFaithful

(* The camera's frames keep their order and their slots and its threads end; the       *)
(* phone's microphone is on only for a desktop that plays it, with the keys of one     *)
(* exchange, and its sound is heard in order; a chord of keys is typed whole and what  *)
(* the phone hopes for is waited for by a timer.                                       *)
StreamsAreSafe ==
    /\ subject = "camera"     => Camera!CameraIsSafe
    /\ subject = "microphone" => Microphone!MicrophoneIsHonest
    /\ subject = "device"     => MicrophoneWorks
    /\ subject = "table"      => Table!MicrophoneWorks
    /\ subject = "input"      => Input!InputIsFaithful

================================================================================
