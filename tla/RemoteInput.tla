------------------------------ MODULE RemoteInput ------------------------------
(***************************************************************************)
(* Remote input: the phone's controller (MobileRemoteInputController.cpp), *)
(* which shows at once what a tap should lead to and corrects itself by    *)
(* the desktop's answers and three timers; the Android back end it acts    *)
(* through (MainServiceBackendBridge.cpp); and the two RemoteInputModule   *)
(* .cpp, with the strand on which the desktop presses keys.                *)
(*                                                                         *)
(* A key event is a chord: its modifiers are pressed, the key is pressed   *)
(* and released, and the modifiers are released, each in a package of its  *)
(* own.  A media state is whether it plays, where it is and how loud.      *)
(* Titles, covers, status lines, the mapping of characters to keys and the *)
(* mirroring of the phone's own player are left out.                       *)
(***************************************************************************)
EXTENDS Integers, Sequences, SequencesExt

CONSTANTS
    Builds,         \* of {"android", "other"}: #ifdef ANDROID_DEVICE
    Positions,      \* seconds, with the distances 1, 1.5 and 2 between them
    Chords,         \* sequences of modifiers
    MaxTaps,        \* bound: actions of the phone's user
    MaxTurns        \* bound: changes at the desktop and of the connection

VARIABLES
    build,          \* the phone's build
    pad,            \* MobileRemoteInputController
    timers,         \* its single-shot timers that run
    tasks,          \* Android: actions posted to the back end, packages each
    outgoing,       \* packages to the desktop
    incoming,       \* packages to the phone
    notices,        \* events posted to the phone's Qt thread
    snapshot,       \* Android: the state file
    phoneOn,        \* the phone's module is Enabling (it never becomes Enabled)
    host,           \* the desktop: module, permission, player, keys held down
    strand,         \* m_moduleStrand of the desktop's module
    linked,         \* the session is up
    taps, turns,
    whole, cut      \* ghosts: keys met their modifiers; a package of a chord was dropped

remoteVars == <<build, pad, timers, tasks, outgoing, incoming, notices, snapshot, phoneOn, host, strand,
                linked, taps, turns, whole, cut>>

Hopes  == {"playing", "position", "volume"}
Levels == 0 .. 1
Media  == [playing : BOOLEAN, position : Positions, volume : Levels]
Silent == [playing |-> FALSE, position |-> 0, volume |-> 0]
Nothing(kind) == [kind |-> kind]

TypeOK ==
    /\ build \in Builds
    /\ pad \in [connected : BOOLEAN, ready : BOOLEAN, granted : BOOLEAN, lasts : BOOLEAN, shown : Media,
                backend : Media, hoped : SUBSET Hopes, target : Positions, before : Positions]
    /\ timers \subseteq Hopes \cup {"info"}
    /\ snapshot \in [connected : BOOLEAN, media : Media]
    /\ host \in [on : BOOLEAN, trusted : BOOLEAN, reported : {"none", "yes", "no"}, media : Media,
                 held : SUBSET UNION {ToSet(c) : c \in Chords}]
    /\ phoneOn \in BOOLEAN /\ linked \in BOOLEAN /\ whole \in BOOLEAN /\ cut \in BOOLEAN
    /\ taps \in 0 .. MaxTaps /\ turns \in 0 .. MaxTurns

Init ==
    /\ build \in Builds /\ host \in [on : {FALSE}, trusted : BOOLEAN, reported : {"none"},
                                     media : {[Silent EXCEPT !.playing = TRUE]}, held : {{}}]
    /\ pad = [connected |-> FALSE, ready |-> FALSE, granted |-> TRUE, lasts |-> FALSE, shown |-> Silent,
              backend |-> Silent, hoped |-> {}, target |-> 0, before |-> 0]
    /\ snapshot = [connected |-> FALSE, media |-> Silent]
    /\ timers = {} /\ tasks = <<>> /\ outgoing = <<>> /\ incoming = <<>> /\ notices = <<>> /\ strand = <<>>
    /\ phoneOn = FALSE /\ linked = FALSE /\ taps = 0 /\ turns = 0 /\ whole = TRUE /\ cut = FALSE

(* ConnectionManager::Send: without a session the package goes nowhere. *)
SendAll(packages) == outgoing' = IF linked THEN outgoing \o packages ELSE outgoing
IsInput(p) == p.kind = "input"
Inputs(s)  == \E i \in DOMAIN s : IsInput(s[i])

-------------------------------------------------------------------------------
(* What is shown while an answer is awaited. *)

Distance(a, b) == IF a < b THEN b - a ELSE a - b

(* The answer comes from after the seek, as far as one can tell: half     *)
(* seconds do not occur, so more than 1.5 is at least 2, under 1 is none. *)
SeekProcessed(position) ==
    IF Distance(pad.target, pad.before) > 2
       THEN Distance(position, pad.target) < 2 /\ Distance(position, pad.before) >= 2
       ELSE position = pad.target

(* Which hopes the answer leaves open. *)
StillHoped(media) ==
    {h \in pad.hoped : CASE h = "playing"  -> media.playing # pad.shown.playing
                         [] h = "position" -> ~SeekProcessed(media.position)
                         [] h = "volume"   -> media.volume # pad.shown.volume}

(* setNowPlayingInfo and the Android half of refreshState. *)
NowPlaying(media, left) ==
    [pad EXCEPT !.backend = media, !.hoped = left,
                !.shown = [playing  |-> IF "playing" \in left THEN @.playing ELSE media.playing,
                           position |-> IF "position" \in left THEN pad.target ELSE media.position,
                           volume   |-> IF "volume" \in left THEN @.volume ELSE media.volume]]

TimersStopped(left) == timers \ pad.hoped
TimersLeft(left) == (timers \ (pad.hoped \ left)) \cup (IF build = "other" /\ left # {} THEN {"info"} ELSE {})

(* onOptimistic...Timeout: back to what the desktop last said. *)
Reverts(h) ==
    /\ h \in timers
    /\ timers' = timers \ {h}
    /\ pad' = IF h \in pad.hoped
                 THEN [pad EXCEPT !.hoped = @ \ {h}, !.shown = [@ EXCEPT ![h] = pad.backend[h]]]
                 ELSE pad
    /\ UNCHANGED <<build, tasks, outgoing, incoming, notices, snapshot, phoneOn, host, strand, linked, taps, turns,
                   whole, cut>>

RequestNowPlaying(p) == IF p.connected /\ p.ready THEN <<Nothing("request")>> ELSE <<>>

AsksAgain ==
    /\ "info" \in timers
    /\ timers' = timers \ {"info"}
    /\ SendAll(RequestNowPlaying(pad))
    /\ UNCHANGED <<build, pad, tasks, incoming, notices, snapshot, phoneOn, host, strand, linked, taps, turns,
                   whole, cut>>

-------------------------------------------------------------------------------
(* Taps. *)

(* On Android every action goes through the service, whatever its state. *)
Acts(packages, more) ==
    IF build = "android" THEN tasks' = Append(tasks, packages) /\ UNCHANGED outgoing
                         ELSE SendAll(packages \o more) /\ UNCHANGED tasks

Hope(h, value) == [pad EXCEPT !.hoped = @ \cup {h}, !.shown = [@ EXCEPT ![h] = value]]
May == build = "android" \/ (pad.connected /\ pad.ready)
Rest == UNCHANGED <<build, incoming, notices, snapshot, host, strand, linked, turns, whole, cut>>
Tapped == taps < MaxTaps /\ taps' = taps + 1

(* sendMediaSignal and sendQtKeyEvent of a module that is not ready begin *)
(* it: Enable(true) tells the desktop.                                    *)
Starts ==
    /\ build = "other" /\ pad.connected /\ ~pad.ready
    /\ phoneOn' = TRUE
    /\ SendAll(IF phoneOn THEN <<>> ELSE <<Nothing("enable")>>)
    /\ Tapped /\ Rest /\ UNCHANGED <<pad, timers, tasks>>

PlayPause ==
    /\ May /\ (build = "android" \/ pad.granted)
    /\ Acts(<<Nothing("playPause")>>, <<>>)
    /\ pad' = Hope("playing", ~pad.shown.playing)
    /\ timers' = timers \cup {"playing"} \cup (IF build = "other" THEN {"info"} ELSE {})
    /\ Tapped /\ Rest /\ UNCHANGED phoneOn

SeekTo(seconds) ==
    /\ May /\ (build = "android" \/ pad.lasts)
    /\ Acts(<<[kind |-> "position", seconds |-> seconds]>>, <<>>)
    /\ pad' = [Hope("position", seconds) EXCEPT !.target = seconds, !.before = pad.backend.position]
    /\ timers' = timers \cup {"position"} \cup (IF build = "other" THEN {"info"} ELSE {})
    /\ Tapped /\ Rest /\ UNCHANGED phoneOn

(* The volume is shown even when it is sent nowhere. *)
SetVolume(volume) ==
    /\ Acts(IF May THEN <<[kind |-> "volume", volume |-> volume]>> ELSE <<>>, <<>>)
    /\ pad' = Hope("volume", volume)
    /\ timers' = timers \cup {"volume"} \cup (IF May /\ build = "other" THEN {"info"} ELSE {})
    /\ Tapped /\ Rest /\ UNCHANGED phoneOn

Input(type, key, chord) == [kind |-> "input", type |-> type, key |-> key, chord |-> ToSet(chord)]

(* sendMappedKey of both: modifiers down, the key, modifiers up in reverse. *)
SendMappedKey(chord) ==
    [i \in 1 .. Len(chord) |-> Input("press", chord[i], chord)]
        \o <<Input("pressAndRelease", "key", chord)>>
        \o Reverse([i \in 1 .. Len(chord) |-> Input("release", chord[i], chord)])

SendQtKeyEvent(chord) ==
    /\ May /\ (build = "android" \/ pad.granted)
    /\ Acts(SendMappedKey(chord), <<>>)
    /\ Tapped /\ Rest /\ UNCHANGED <<pad, timers, phoneOn>>

-------------------------------------------------------------------------------
(* The phone's back end and its events. *)

(* Android: a task posted to the back end's Qt thread. *)
BackendActs ==
    /\ tasks # <<>>
    /\ tasks' = Tail(tasks)
    /\ SendAll(Head(tasks))
    /\ cut' = (cut \/ (~linked /\ Inputs(Head(tasks))))
    /\ UNCHANGED <<build, pad, timers, incoming, notices, snapshot, phoneOn, host, strand, linked, taps, turns, whole>>

(* setReadyState, which asks for the track when the module becomes ready. *)
Readied(p, ready) == [p EXCEPT !.ready = ready]
ReadyAsks(p, ready) == IF ready /\ ~p.ready THEN RequestNowPlaying(Readied(p, TRUE)) ELSE <<>>

(* refreshState of the other build, every 350 ms: a module that is off is *)
(* enabled again.                                                         *)
RefreshState ==
    /\ build = "other"
    /\ LET ready == pad.connected /\ phoneOn /\ pad.granted
       IN  /\ pad' = Readied(pad, ready)
           /\ SendAll(ReadyAsks(pad, ready)
                        \o (IF pad.connected /\ ~phoneOn THEN <<Nothing("enable")>> ELSE <<>>))
           /\ phoneOn' = (phoneOn \/ pad.connected)
    /\ UNCHANGED <<build, timers, tasks, incoming, notices, snapshot, host, strand, linked, taps, turns, whole, cut>>

(* refreshState of the Android build: the snapshot.  Its remoteInputReady *)
(* asks for Enabled, which the module is not before it has ended.         *)
ReadsSnapshot ==
    /\ build = "android"
    /\ LET left == StillHoped(snapshot.media)
       IN  /\ pad' = [NowPlaying(snapshot.media, left) EXCEPT !.connected = snapshot.connected, !.ready = FALSE]
           /\ timers' = TimersLeft(left)
    /\ UNCHANGED <<build, tasks, outgoing, incoming, notices, snapshot, phoneOn, host, strand, linked, taps, turns,
                   whole, cut>>

(* The event handler of the controller (other build). *)
ControllerHandles(n) ==
    /\ UNCHANGED snapshot
    /\ CASE n.kind = "connected" ->
              \E seen \in {phoneOn, TRUE} :     \* refreshState before Enable has run, or after it
                  LET on == [pad EXCEPT !.connected = TRUE]
                  IN  /\ pad' = Readied(on, seen /\ pad.granted)
                      /\ SendAll((IF phoneOn THEN <<>> ELSE <<Nothing("enable")>>)
                                   \o RequestNowPlaying(on) \o ReadyAsks(on, seen /\ pad.granted))
                      /\ phoneOn' = TRUE /\ UNCHANGED timers
         [] n.kind = "disconnected" ->
              LET left == StillHoped(Silent)
              IN  /\ pad' = [NowPlaying(Silent, left) EXCEPT !.connected = FALSE, !.granted = TRUE,
                                                             !.ready = FALSE, !.lasts = FALSE]
                  /\ timers' = TimersLeft(left) /\ UNCHANGED <<phoneOn, outgoing>>
         [] n.kind = "media" ->
              LET left == StillHoped(n.media)
              IN  /\ pad' = [NowPlaying(n.media, left) EXCEPT !.lasts = TRUE]
                  /\ timers' = TimersLeft(left) /\ UNCHANGED <<phoneOn, outgoing>>
         [] n.kind = "permission" ->
              pad' = [pad EXCEPT !.granted = n.granted] /\ UNCHANGED <<timers, phoneOn, outgoing>>

(* PublishBackendEvent (Android): the module follows the connection, and *)
(* the last media state stays in the snapshot when the session ends.     *)
BackendHandles(n) ==
    /\ UNCHANGED <<pad, timers>>
    /\ snapshot' = [connected |-> linked, media |-> IF n.kind = "media" THEN n.media ELSE snapshot.media]
    /\ CASE n.kind = "connected" ->
              phoneOn' = TRUE /\ SendAll(IF phoneOn THEN <<>> ELSE <<Nothing("enable")>>)
         [] n.kind = "disconnected" ->
              /\ phoneOn' = (phoneOn /\ linked)
              /\ UNCHANGED outgoing
         [] OTHER -> UNCHANGED <<phoneOn, outgoing>>

PhoneEvent ==
    /\ notices # <<>>
    /\ notices' = Tail(notices)
    /\ IF build = "android" THEN BackendHandles(Head(notices)) ELSE ControllerHandles(Head(notices))
    /\ UNCHANGED <<build, tasks, incoming, host, strand, linked, taps, turns, whole, cut>>

(* The handlers of the phone's module. *)
PhoneHandles ==
    /\ incoming # <<>>
    /\ incoming' = Tail(incoming)
    /\ LET package == Head(incoming)
       IN  CASE package.kind = "enable" ->
                  /\ phoneOn' = TRUE /\ UNCHANGED notices
                  /\ SendAll(IF phoneOn THEN <<>> ELSE <<Nothing("enable")>>)
             [] OTHER -> notices' = Append(notices, package) /\ UNCHANGED <<phoneOn, outgoing>>
    /\ UNCHANGED <<build, pad, timers, tasks, snapshot, host, strand, linked, taps, turns, whole, cut>>

(* OnEnable of the phone's module asks at every MEDIA_INFO_POLL_INTERVAL. *)
PhonePolls ==
    /\ phoneOn /\ linked /\ outgoing = <<>> /\ incoming = <<>> /\ notices = <<>>
    /\ SendAll(<<Nothing("request")>>)
    /\ UNCHANGED <<build, pad, timers, tasks, incoming, notices, snapshot, phoneOn, host, strand, linked, taps, turns,
                   whole, cut>>

-------------------------------------------------------------------------------
(* The desktop. *)

(* ReportRemoteInputPermissionState: told when it changed, or forced. *)
Report(force) ==
    LET now == IF host.trusted THEN "yes" ELSE "no"
    IN  [host |-> [host EXCEPT !.reported = now],
         told |-> IF force \/ host.reported # now
                     THEN <<[kind |-> "permission", granted |-> host.trusted]>> ELSE <<>>]

(* The handlers of the desktop's module: input is for the strand, and a *)
(* request for the track is answered at once.                           *)
HostHandles ==
    /\ outgoing # <<>>
    /\ outgoing' = Tail(outgoing)
    /\ LET package == Head(outgoing)
       IN  CASE package.kind = "enable" ->
                  strand' = Append(strand, package) /\ UNCHANGED <<host, incoming, cut>>
             [] package.kind = "request" ->
                  /\ incoming' = IF host.on THEN Append(incoming, [kind |-> "media", media |-> host.media])
                                            ELSE incoming
                  /\ UNCHANGED <<host, strand, cut>>
             [] OTHER ->
                  IF ~host.on
                     THEN cut' = (cut \/ IsInput(package)) /\ UNCHANGED <<host, incoming, strand>>
                     ELSE /\ host' = Report(FALSE).host
                          /\ incoming' = incoming \o Report(FALSE).told
                          /\ strand' = IF host.trusted THEN Append(strand, package) ELSE strand
                          /\ cut' = (cut \/ (~host.trusted /\ IsInput(package)))
    /\ UNCHANGED <<build, pad, timers, tasks, notices, snapshot, phoneOn, linked, taps, turns, whole>>

(* What the strand runs next; were it posted to the pool, as anything else *)
(* is, the later could run first.                                         *)
NextOnPool   == Len(strand)
NextOnStrand == 1

(* PressKey, ReleaseKey and PressAndReleaseKey; whole notes whether the *)
(* key met its own modifiers and no others.                             *)
Presses(input) ==
    /\ host' = [host EXCEPT !.held = CASE input.type = "press"   -> @ \cup {input.key}
                                       [] input.type = "release" -> @ \ {input.key}
                                       [] OTHER                  -> @]
    /\ whole' = (whole /\ (input.type = "pressAndRelease" => host.held = input.chord))
    /\ UNCHANGED incoming

(* OnEnable: it asks for the permission, tells the phone and then loops, *)
(* so that the module stays Enabling and takes input.                    *)
HostEnables ==
    /\ UNCHANGED whole
    /\ IF host.on \/ ~linked
          THEN UNCHANGED <<host, incoming>>
          ELSE /\ host' = [Report(TRUE).host EXCEPT !.on = TRUE]
               /\ incoming' = incoming \o Report(TRUE).told \o <<Nothing("enable")>>

(* The player and the mixer obey; what they do else is a turn. *)
Plays(package) ==
    /\ host' = [host EXCEPT !.media =
                   CASE package.kind = "playPause" -> [@ EXCEPT !.playing = ~@]
                     [] package.kind = "position"  -> [@ EXCEPT !.position = package.seconds]
                     [] package.kind = "volume"    -> [@ EXCEPT !.volume = package.volume]]
    /\ UNCHANGED <<incoming, whole>>

StrandRuns ==
    /\ strand # <<>>
    /\ LET task == strand[NextOnStrand]
       IN  /\ strand' = RemoveAt(strand, NextOnStrand)
           /\ CASE task.kind = "input"  -> Presses(task)
                [] task.kind = "enable" -> HostEnables
                [] task.kind = "stop"   -> host' = [host EXCEPT !.on = FALSE] /\ UNCHANGED <<incoming, whole>>
                [] OTHER                -> Plays(task)
    /\ UNCHANGED <<build, pad, timers, tasks, outgoing, notices, snapshot, phoneOn, linked, taps, turns, cut>>

(* The loop of OnEnable looks at the permission again. *)
HostLooks ==
    /\ host.on /\ linked /\ Report(FALSE).told # <<>>
    /\ host' = Report(FALSE).host /\ incoming' = incoming \o Report(FALSE).told
    /\ UNCHANGED <<build, pad, timers, tasks, outgoing, notices, snapshot, phoneOn, strand, linked, taps, turns,
                   whole, cut>>

Turned == turns < MaxTurns /\ turns' = turns + 1

(* The user of the desktop: the player, or the system's settings. *)
HostTurns ==
    /\ Turned
    /\ \/ host' = [host EXCEPT !.media = [@ EXCEPT !.playing = ~@]]
       \/ host' = [host EXCEPT !.trusted = ~@]
    /\ UNCHANGED <<build, pad, timers, tasks, outgoing, incoming, notices, snapshot, phoneOn, strand, linked, taps,
                   whole, cut>>

(* The session begins when both sides have done with the last one. *)
Connects ==
    /\ ~linked /\ notices = <<>> /\ strand = <<>> /\ Turned
    /\ linked' = TRUE /\ notices' = <<Nothing("connected")>>
    /\ UNCHANGED <<build, pad, timers, tasks, outgoing, incoming, snapshot, phoneOn, host, strand, taps, whole, cut>>

(* It ends: what is under way is lost and the modules are shut down. *)
Disconnects ==
    /\ linked /\ Turned
    /\ linked' = FALSE /\ outgoing' = <<>> /\ incoming' = <<>> /\ phoneOn' = FALSE
    /\ notices' = Append(notices, Nothing("disconnected"))
    /\ strand' = Append(strand, Nothing("stop"))
    /\ cut' = (cut \/ Inputs(outgoing))
    /\ UNCHANGED <<build, pad, timers, tasks, snapshot, host, taps, whole>>

Next ==
    \/ \E h \in Hopes : Reverts(h)
    \/ AsksAgain \/ Starts \/ PlayPause
    \/ \E s \in Positions : SeekTo(s)
    \/ \E v \in Levels : SetVolume(v)
    \/ \E c \in Chords : SendQtKeyEvent(c)
    \/ BackendActs \/ RefreshState \/ ReadsSnapshot \/ PhoneEvent \/ PhoneHandles \/ PhonePolls
    \/ HostHandles \/ StrandRuns \/ HostLooks \/ HostTurns \/ Connects \/ Disconnects

Spec == Init /\ [][Next]_remoteVars

-------------------------------------------------------------------------------
(* A key reaches the desktop under its own modifiers and leaves none held *)
(* down, over the back end, the session and the strand, unless a package  *)
(* of a chord was dropped on the way.                                     *)
ChordsAreWhole ==
    ~cut => /\ whole
            /\ ~Inputs(outgoing) /\ ~Inputs(strand) => host.held = {}

(* Nothing hoped for is shown for good: it has a timer that takes it back, *)
(* and what is not hoped for is what the desktop said last.                *)
HopesAreTimed ==
    /\ pad.hoped \subseteq timers
    /\ \A h \in Hopes \ pad.hoped : pad.shown[h] = pad.backend[h]

(* Input is faithful on the way there and on the screen. *)
InputIsFaithful == ChordsAreWhole /\ HopesAreTimed
=============================================================================
