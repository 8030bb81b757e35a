---------------------------- MODULE FindMyPhone ----------------------------
(***************************************************************************)
(* "Find my phone": the desktop's flag and its two packages, the phone's   *)
(* back end, which answers them on the thread that processes packages and  *)
(* its own user on the Qt thread, and FindMyPhone.kt, which rings on a     *)
(* thread of its own.  Who is ringing is kept in four places: the          *)
(* desktop's flag, the setting findMyPhone/alertActive, the phone's screen *)
(* and the player itself; each is told of the others by a message.         *)
(*                                                                         *)
(* Choice of the ringtone and the text of the notification are left out.   *)
(***************************************************************************)
EXTENDS Naturals, Sequences

CONSTANTS
    MaxPresses,  \* how often a user starts or stops the alert
    MaxSessions  \* sessions begun

VARIABLES
    flag,      \* m_findMyPhoneAlertActive on the desktop
    known,     \* its m_connected
    session,   \* there is a session
    toPhone, toDesk, \* START_RINGING and STOP_RINGING on their way
    posted,    \* to the desktop's Qt thread
    handler,   \* the back end's package thread: what it is in the middle of
    qt,        \* the back end's Qt thread: stops posted to it, and whether one has begun
    alert,     \* posted to alertHandler
    player,    \* [ringing, notice, volume, original]: mediaPlayer, the notification,
               \* the alarm stream's volume and originalVolume
    setting,   \* findMyPhone/alertActive
    shown,     \* the phone's screen
    context,   \* g_serviceContextGlobal and the methods are there
    mute,      \* ghost: the last start found nothing to play
    overlapped,\* ghost: a start and a stop ran at the same time
    crossed,   \* ghost: a start met a stop on its way
    earlier,   \* ghost: it has been ringing since an earlier session
    presses, sessions

alertVars == <<flag, known, session, toPhone, toDesk, posted, handler, qt, alert, player, setting,
               shown, context, mute, overlapped, crossed, earlier, presses, sessions>>
desktop == <<flag, known, posted>>
phone == <<handler, qt, alert, player, setting, shown, mute, overlapped>>
bounds == <<context, presses, sessions>>

Silence == [ringing |-> FALSE, notice |-> FALSE, volume |-> "own", original |-> "none"]

Init ==
    /\ flag = FALSE /\ known = FALSE /\ session = FALSE /\ toPhone = <<>> /\ toDesk = <<>>
    /\ posted = <<>> /\ handler = "idle" /\ qt = [begun |-> FALSE, waiting |-> 0] /\ alert = <<>>
    /\ player = Silence /\ setting = FALSE /\ shown = FALSE
    /\ context \in BOOLEAN
    /\ mute = FALSE /\ overlapped = FALSE /\ crossed = FALSE /\ earlier = FALSE
    /\ presses = 0 /\ sessions = 0

Presses == presses < MaxPresses /\ presses' = presses + 1 /\ UNCHANGED <<context, sessions>>

----------------------------------------------------------------------------
(* The session, as far as it carries packages and posts events. *)

\* Made from the desktop's screen, which has handled the end of the last one.
Begins ==
    /\ ~session /\ posted = <<>> /\ sessions < MaxSessions /\ sessions' = sessions + 1
    /\ session' = TRUE /\ posted' = Append(posted, "Connected")
    /\ earlier' = (setting \/ handler = "starting")
    /\ UNCHANGED <<flag, known, toPhone, toDesk, phone, crossed, context, presses>>

Ends ==
    /\ session /\ session' = FALSE
    /\ toPhone' = <<>> /\ toDesk' = <<>> /\ posted' = Append(posted, "Disconnected")
    /\ UNCHANGED <<flag, known, phone, crossed, earlier, bounds>>

SentIf(wire, package) == IF session THEN Append(wire, package) ELSE wire

----------------------------------------------------------------------------
(* The desktop. *)

StopUnderWay ==
    \/ "stop" \in {toPhone[i] : i \in 1..Len(toPhone)} \cup {toDesk[i] : i \in 1..Len(toDesk)}
    \/ "stop" \in {posted[i] : i \in 1..Len(posted)} \/ handler = "stopping"
    \/ qt.begun \/ qt.waiting > 0

startFindMyPhoneAlert ==
    /\ known /\ ~flag /\ Presses
    /\ toPhone' = SentIf(toPhone, "start") /\ flag' = TRUE
    /\ crossed' = (crossed \/ StopUnderWay \/ ~session)
    /\ UNCHANGED <<known, session, toDesk, posted, phone, earlier>>

stopFindMyPhoneAlert ==
    /\ flag /\ Presses
    /\ toPhone' = IF known THEN SentIf(toPhone, "stop") ELSE toPhone
    /\ flag' = FALSE
    /\ UNCHANGED <<known, session, toDesk, posted, phone, crossed, earlier>>

\* The handler of the phone's stop only posts to the Qt thread.
DesktopIsTold ==
    /\ toDesk # <<>> /\ toDesk' = Tail(toDesk) /\ posted' = Append(posted, "stop")
    /\ UNCHANGED <<flag, known, session, toPhone, phone, crossed, earlier, bounds>>

DesktopHandles ==
    /\ posted # <<>> /\ posted' = Tail(posted)
    /\ CASE Head(posted) = "stop" -> flag' = FALSE /\ UNCHANGED known
         [] Head(posted) = "Connected" -> known' = TRUE /\ UNCHANGED flag
         [] Head(posted) = "Disconnected" -> known' = FALSE /\ flag' = FALSE
    /\ UNCHANGED <<session, toPhone, toDesk, phone, crossed, earlier, bounds>>

----------------------------------------------------------------------------
(* The back end: each function first calls FindMyPhone.kt, then notes the  *)
(* outcome in the setting and tells the others.                            *)

StopNoted ==
    /\ setting' = FALSE /\ shown' = FALSE /\ earlier' = FALSE
    /\ toDesk' = SentIf(toDesk, "stop")
    /\ crossed' = (crossed \/ "start" \in {toPhone[i] : i \in 1..Len(toPhone)})

StartFindMyPhoneAlertFromService ==
    \/ /\ handler = "idle" /\ toPhone # <<>> /\ Head(toPhone) = "start"
       /\ toPhone' = Tail(toPhone)
       /\ IF context THEN handler' = "starting" /\ alert' = Append(alert, "start") /\ UNCHANGED mute
          ELSE mute' = TRUE /\ UNCHANGED <<handler, alert>>
       /\ overlapped' = (overlapped \/ qt.begun)
       /\ UNCHANGED <<setting, shown>>
    \/ /\ handler = "starting" /\ handler' = "idle"
       /\ setting' = TRUE /\ shown' = TRUE
       /\ UNCHANGED <<toPhone, alert, mute, overlapped>>

StopsFromPackage ==
    \/ /\ handler = "idle" /\ toPhone # <<>> /\ Head(toPhone) = "stop"
       /\ toPhone' = Tail(toPhone) /\ handler' = "stopping"
       /\ alert' = IF context THEN Append(alert, "stop") ELSE alert
       /\ UNCHANGED <<setting, shown, earlier, toDesk, crossed>>
    \/ /\ handler = "stopping" /\ handler' = "idle"
       /\ StopNoted /\ UNCHANGED <<toPhone, alert>>

\* The same on the Qt thread, for the phone's own user.
StopsFromUser ==
    \/ /\ ~qt.begun /\ qt.waiting > 0
       /\ qt' = [begun |-> TRUE, waiting |-> qt.waiting - 1]
       /\ alert' = IF context THEN Append(alert, "stop") ELSE alert
       /\ overlapped' = (overlapped \/ handler = "starting")
       /\ UNCHANGED <<setting, shown, earlier, toDesk, crossed>>
    \/ /\ qt.begun /\ qt' = [qt EXCEPT !.begun = FALSE]
       /\ StopNoted /\ UNCHANGED <<alert, overlapped>>

BackEnd ==
    \/ StartFindMyPhoneAlertFromService /\ UNCHANGED <<toDesk, qt, crossed, earlier>>
    \/ StopsFromPackage /\ UNCHANGED <<qt, mute, overlapped>>
    \/ StopsFromUser /\ UNCHANGED <<toPhone, handler, mute>>

BackEndStep == BackEnd /\ UNCHANGED <<desktop, session, player, bounds>>

\* The Stop button of the phone's screen and the one of the notification.  The screen
\* also writes the setting, and calls a FindMyPhone of its own process, which rings nothing.
UserStops ==
    /\ Presses
    /\ \/ shown /\ shown' = FALSE /\ setting' = FALSE
       \/ player.notice /\ UNCHANGED <<shown, setting>>
    /\ qt' = [qt EXCEPT !.waiting = @ + 1]
    /\ overlapped' = (overlapped \/ handler = "starting")
    /\ UNCHANGED <<desktop, session, toPhone, toDesk, handler, alert, player, mute, crossed, earlier>>

----------------------------------------------------------------------------
(* FindMyPhone.kt, one task of its thread after the other. *)

\* As Louder would be if it kept the volume at every start.
LouderAgain(p) == [p EXCEPT !.original = p.volume, !.volume = "most"]
Louder(p) == [p EXCEPT !.original = IF @ = "none" THEN p.volume ELSE @, !.volume = "most"]
stopAlertInternal(p) ==
    [Silence EXCEPT !.volume = IF p.original = "none" THEN p.volume ELSE p.original]

startAlertInternal ==
    /\ alert # <<>> /\ Head(alert) = "start" /\ alert' = Tail(alert)
    /\ \/ player' = [Louder(player) EXCEPT !.ringing = TRUE, !.notice = TRUE] /\ mute' = FALSE
       \/ player' = stopAlertInternal(Louder(player)) /\ mute' = TRUE
    /\ UNCHANGED <<desktop, session, toPhone, toDesk, handler, qt, setting, shown, overlapped,
                   crossed, earlier, bounds>>

stopAlert ==
    /\ alert # <<>> /\ Head(alert) = "stop" /\ alert' = Tail(alert)
    /\ player' = stopAlertInternal(player)
    /\ UNCHANGED <<desktop, session, toPhone, toDesk, handler, qt, setting, shown, mute, overlapped,
                   crossed, earlier, bounds>>

Next ==
    \/ Begins \/ Ends \/ startFindMyPhoneAlert \/ stopFindMyPhoneAlert \/ DesktopIsTold
    \/ DesktopHandles \/ BackEndStep \/ UserStops \/ startAlertInternal \/ stopAlert

Spec == Init /\ [][Next]_alertVars

----------------------------------------------------------------------------
\* Every flag, queue and player field keeps its type.
TypeOK ==
    /\ flag \in BOOLEAN /\ known \in BOOLEAN /\ session \in BOOLEAN
    /\ toPhone \in Seq({"start", "stop"}) /\ toDesk \in Seq({"stop"})
    /\ posted \in Seq({"stop", "Connected", "Disconnected"})
    /\ handler \in {"idle", "starting", "stopping"}
    /\ qt \in [begun : BOOLEAN, waiting : 0..MaxPresses] /\ alert \in Seq({"start", "stop"})
    /\ player \in [ringing : BOOLEAN, notice : BOOLEAN, volume : {"own", "most"},
                   original : {"none", "own", "most"}]
    /\ setting \in BOOLEAN /\ shown \in BOOLEAN /\ context \in BOOLEAN
    /\ mute \in BOOLEAN /\ overlapped \in BOOLEAN /\ crossed \in BOOLEAN /\ earlier \in BOOLEAN
    /\ presses \in 0..MaxPresses /\ sessions \in 0..MaxSessions

PhoneAtRest == handler = "idle" /\ ~qt.begun /\ qt.waiting = 0 /\ alert = <<>>
AtRest == PhoneAtRest /\ toPhone = <<>> /\ toDesk = <<>> /\ posted = <<>>

\* The alarm volume that a start turned up is the user's again whenever it does not ring,
\* however starts and stops followed each other and whether or not a ringtone was found
\* (FindMyPhone.kt:208, 281).
VolumeIsRestored == ~player.ringing => player = Silence

\* With nothing under way, the phone's setting and its screen say what the player does,
\* unless nothing could be played or a start and a stop overlapped
\* (MainServiceBackendBridge.cpp:898, 938).
SettingIsTrue ==
    PhoneAtRest /\ ~mute /\ ~overlapped => setting = player.ringing /\ shown = setting

\* With nothing on its way either, the desktop's flag says what the phone's setting says,
\* unless a start met a stop, or it has been ringing since an earlier session
\* (DeviceConnectionController.cpp:79, 226).
FlagIsTrue ==
    AtRest /\ ~mute /\ ~overlapped /\ ~crossed =>
        /\ flag => setting
        /\ setting /\ session => flag \/ earlier

AlertIsKnown == VolumeIsRestored /\ SettingIsTrue /\ FlagIsTrue
=============================================================================
