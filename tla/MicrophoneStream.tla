---------------------------- MODULE MicrophoneStream ----------------------------
(***************************************************************************)
(* The network microphone: how the desktop has the phone capture and send  *)
(* sound (OnEnable, OnDisable and the response handlers of both            *)
(* NetworkMicrophoneModule.cpp).  What becomes of the sound on the desktop *)
(* is VirtualMicrophone's.                                                 *)
(*                                                                         *)
(* A key is a number; a request and a port are named by the desktop's key  *)
(* of the same OnEnable.  A module that was disabled while its OnEnable    *)
(* waited may be enabled again, so several OnEnables may wait, and each    *)
(* goes on with what m_localKey and m_remoteKey are by then.  BaseModule's *)
(* state goes through Disabling in one step, as neither OnDisable waits.   *)
(* InitializeStream of the phone, which the pool runs, has run before the  *)
(* next package is handled.  The desktop's handlers of ENABLE and DISABLE  *)
(* are there for a phone that sends them, which it never does.             *)
(***************************************************************************)
EXTENDS Integers, Sequences

CONSTANTS
    MaxEnables,     \* bound: enablings by the desktop's user
    MaxOffs         \* bound: disablings by either user

VARIABLES
    desk, phone,        \* the two modules
    toPhone, toDesk,    \* packages of the primary connection under way
    keys,               \* keys generated so far
    enables, offs,
    crossed             \* ghost: the ends where an OnEnable that was disabled went on, and was not closed since

streamVars == <<desk, phone, toPhone, toDesk, keys, enables, offs, crossed>>

None == [local |-> 0, remote |-> 0, port |-> 0]

(* An SRTP::Stream with a module's keys, bound to a port. *)
Stream(m, port) == [local |-> m.local, remote |-> m.remote, port |-> port]

Package(what, key, id) == [what |-> what, key |-> key, id |-> id]

TypeOK ==
    LET Streams == [local : Nat, remote : Nat, port : Nat]
    IN  /\ desk \in [state : {"Disabled", "Enabling", "Enabled"}, peer : BOOLEAN, asking : SUBSET (1 .. keys),
                     local : Nat, remote : Nat, stream : Streams]
        /\ phone \in [state : {"Disabled", "Enabling", "Enabled"}, peer : BOOLEAN, dialogs : Nat,
                      local : Nat, remote : Nat, stream : Streams, captures : BOOLEAN]
        /\ \A i \in DOMAIN toPhone : toPhone[i].what \in {"key", "enable", "start", "disable", "off"}
        /\ \A i \in DOMAIN toDesk : toDesk[i].what \in {"key", "on", "off"}
        /\ keys \in 0 .. 2 * MaxEnables /\ enables \in 0 .. MaxEnables /\ offs \in 0 .. MaxOffs
        /\ crossed \subseteq {"desk", "phone"}

Init ==
    /\ desk = [state |-> "Disabled", peer |-> FALSE, asking |-> {}, local |-> 0, remote |-> 0, stream |-> None]
    /\ phone = [state |-> "Disabled", peer |-> FALSE, dialogs |-> 0, local |-> 0, remote |-> 0,
                stream |-> None, captures |-> FALSE]
    /\ toPhone = <<>> /\ toDesk = <<>>
    /\ keys = 0 /\ enables = 0 /\ offs = 0 /\ crossed = {}

(* EnableAwaitable when OnEnable returned, on whatever way. *)
Returned(m) == [m EXCEPT !.state = IF @ = "Enabling" THEN "Enabled" ELSE @]

-------------------------------------------------------------------------------
(* The desktop. *)

(* setVirtualMicrophoneEnabled and OnEnable up to the answer it waits for. *)
UserEnables ==
    /\ enables < MaxEnables /\ enables' = enables + 1
    /\ desk.state = "Disabled" /\ keys' = keys + 1
    /\ desk' = [desk EXCEPT !.state = "Enabling", !.asking = @ \cup {keys'}, !.local = keys']
    /\ toPhone' = Append(toPhone, Package("key", keys', keys'))
    /\ UNCHANGED <<phone, toDesk, offs, crossed>>

(* OnDisable: the phone is told, then device and stream are closed. *)
MayDisable(m) == m.state \in {"Enabling", "Enabled"}
DisabledDesk  == [desk EXCEPT !.state = "Disabled", !.stream = None]
Closed(end)   == crossed' = IF (IF end = "desk" THEN desk.asking = {} ELSE phone.dialogs = 0) THEN crossed \ {end} ELSE crossed

(* Variant: the phone hears of the state only. *)
TellsStateOnly(wire) == Append(wire, Package("off", 0, 0))
TellsPhone(wire) == wire \o <<Package("disable", 0, 0), Package("off", 0, 0)>>

UserDisables ==
    /\ offs < MaxOffs /\ offs' = offs + 1
    /\ MayDisable(desk) /\ desk' = DisabledDesk /\ toPhone' = TellsPhone(toPhone)
    /\ Closed("desk")
    /\ UNCHANGED <<phone, toDesk, keys, enables>>

(* The phone's key is there: it is told to enable, the device is opened (or *)
(* is not) and the port of the new stream told.  Nothing looks whether the  *)
(* module was disabled, or enabled anew, while the answer was under way.    *)
KeyAnswered(opened) ==
    /\ toDesk # <<>> /\ Head(toDesk).what = "key" /\ Head(toDesk).id \in desk.asking
    /\ toDesk' = Tail(toDesk)
    /\ LET answer == Head(toDesk)
           keyed  == [desk EXCEPT !.asking = @ \ {answer.id}, !.remote = answer.key]
       IN  /\ desk' = Returned([keyed EXCEPT !.stream = IF opened THEN Stream(keyed, answer.id) ELSE @])
           /\ toPhone' = toPhone \o <<Package("enable", 0, 0)>>
                             \o (IF opened THEN <<Package("start", answer.id, 0)>> ELSE <<>>)
           /\ crossed' = crossed \cup {end \in {"desk"} : desk.state # "Enabling" \/ answer.id # desk.local}
    /\ UNCHANGED <<phone, keys, enables, offs>>

(* No answer in time: OnEnable returns, and the module is Enabled. *)
KeyTimesOut ==
    /\ \E id \in desk.asking : desk' = Returned([desk EXCEPT !.asking = @ \ {id}])
    /\ UNCHANGED <<phone, toPhone, toDesk, keys, enables, offs, crossed>>

(* STATE_CHANGED, and an answer nobody waits for any more. *)
DeskHandles ==
    /\ toDesk # <<>> /\ toDesk' = Tail(toDesk)
    /\ LET package == Head(toDesk)
       IN  \/ package.what = "key" /\ package.id \notin desk.asking /\ UNCHANGED <<desk, toPhone, crossed>>
           \/ package.what = "on" /\ desk' = [desk EXCEPT !.peer = TRUE] /\ UNCHANGED <<toPhone, crossed>>
           \/ /\ package.what = "off"
              /\ IF MayDisable(desk)
                    THEN /\ desk' = [DisabledDesk EXCEPT !.peer = FALSE] /\ toPhone' = TellsPhone(toPhone)
                         /\ Closed("desk")
                    ELSE desk' = [desk EXCEPT !.peer = FALSE] /\ UNCHANGED <<toPhone, crossed>>
    /\ UNCHANGED <<phone, keys, enables, offs>>

-------------------------------------------------------------------------------
(* The phone. *)

DisabledPhone == [phone EXCEPT !.state = "Disabled", !.stream = None, !.captures = FALSE]
TellsDesk(on) == toDesk' = Append(toDesk, Package(IF on THEN "on" ELSE "off", 0, 0))

PhoneHandles ==
    /\ toPhone # <<>> /\ toPhone' = Tail(toPhone)
    /\ LET package == Head(toPhone)
       IN  CASE package.what = "key" ->        \* REMOTE_KEY_REQUEST
                  /\ keys' = keys + 1
                  /\ phone' = [phone EXCEPT !.remote = package.key, !.local = keys']
                  /\ toDesk' = Append(toDesk, Package("key", keys', package.id))
             [] package.what = "enable" ->     \* OnEnable opens the permission's dialogue
                  /\ phone' = IF phone.state = "Disabled"
                                 THEN [phone EXCEPT !.state = "Enabling", !.dialogs = @ + 1] ELSE phone
                  /\ IF phone.state = "Enabled" THEN TellsDesk(TRUE) ELSE UNCHANGED toDesk
                  /\ UNCHANGED keys
             [] package.what = "start" ->      \* InitializeStream
                  /\ phone' = [phone EXCEPT !.stream = Stream(phone, package.key)]
                  /\ UNCHANGED <<keys, toDesk>>
             [] package.what = "disable" ->
                  /\ phone' = IF MayDisable(phone) THEN DisabledPhone ELSE phone
                  /\ TellsDesk(FALSE) /\ UNCHANGED keys
             [] OTHER -> phone' = [phone EXCEPT !.peer = FALSE] /\ UNCHANGED <<keys, toDesk>>
    /\ IF Head(toPhone).what = "disable" /\ MayDisable(phone) THEN Closed("phone") ELSE UNCHANGED crossed
    /\ UNCHANGED <<desk, enables, offs>>

(* OnEnable goes on.  Granted, it captures without a look at the state;  *)
(* denied, the module disables itself.                                   *)
PermissionAnswered(granted) ==
    /\ phone.dialogs > 0
    /\ LET answered(m) == [m EXCEPT !.dialogs = @ - 1]
       IN  IF granted
              THEN /\ phone' = answered(Returned([phone EXCEPT !.captures = TRUE]))
                   /\ TellsDesk(TRUE)
                   /\ crossed' = crossed \cup {end \in {"phone"} : phone.state = "Disabled"}
              ELSE /\ phone' = answered(IF MayDisable(phone) THEN DisabledPhone ELSE phone)
                   /\ IF MayDisable(phone) THEN TellsDesk(FALSE) ELSE UNCHANGED toDesk
                   /\ UNCHANGED crossed
    /\ UNCHANGED <<desk, toPhone, keys, enables, offs>>

(* nativeDisableMicrophoneModule: the button of the phone's notification. *)
PhoneUserDisables ==
    /\ offs < MaxOffs /\ offs' = offs + 1
    /\ MayDisable(phone) /\ phone' = DisabledPhone /\ TellsDesk(FALSE) /\ Closed("phone")
    /\ UNCHANGED <<desk, toPhone, keys, enables>>

-------------------------------------------------------------------------------
Next ==
    \/ UserEnables \/ UserDisables \/ KeyTimesOut \/ DeskHandles
    \/ \E opened \in BOOLEAN : KeyAnswered(opened)
    \/ PhoneHandles \/ PhoneUserDisables
    \/ \E granted \in BOOLEAN : PermissionAnswered(granted)

Spec == Init /\ [][Next]_streamVars

-------------------------------------------------------------------------------
(* What the phone sends to the desktop's port the desktop can decrypt: the *)
(* keys of the two ends are of one exchange, whatever was disabled, denied *)
(* or timed out on the way.                                                *)
KeysMatch ==
    "desk" \notin crossed /\ desk.stream # None /\ phone.stream.port = desk.stream.port =>
        phone.stream.local = desk.stream.remote /\ phone.stream.remote = desk.stream.local

AtRest == toPhone = <<>> /\ toDesk = <<>> /\ desk.asking = {} /\ phone.dialogs = 0

(* The phone's microphone is on only for a desktop that wants it, and a *)
(* desktop that plays a stream is sent one: both modules end in the     *)
(* same state, unless an OnEnable went on after it was disabled.        *)
EndsAgree ==
    AtRest /\ crossed = {} =>
        /\ phone.captures => desk.state = "Enabled"
        /\ desk.stream # None =>
              desk.state = "Enabled" /\ phone.captures /\ phone.stream.port = desk.stream.port

MicrophoneIsHonest == KeysMatch /\ EndsAgree
=============================================================================
