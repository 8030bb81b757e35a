------------------------------ MODULE CameraStream ------------------------------
(***************************************************************************)
(* The network camera: how the desktop has the phone start a stream        *)
(* (OnEnable and the response handlers of both NetworkCameraModule.cpp),   *)
(* the phone's bounded queue of encoded frames (_Android.cpp), the packets *)
(* of an SRTP stream (SRTP_Stream.cpp), and the desktop's receiver,        *)
(* decoder thread and pacer with the OnDisable that stops them.            *)
(*                                                                         *)
(* A frame is the sequence of its packets, and a packet is its sequence    *)
(* number, the time stamp of its frame, what it carries (parameter sets,   *)
(* an IDR slice, the first or a further part of another slice) and the     *)
(* marker.  A packet that is never received is lost; they are received in  *)
(* any order, each once (srtp_unprotect refuses a replay).  Keys, codecs,  *)
(* pictures, colours and rates are left out.  The coroutine a handler      *)
(* posts runs before the next package is handled (ModuleLifecycle has the  *)
(* other orders), and OnDisable's second of waiting is long enough.        *)
(***************************************************************************)
EXTENDS Integers, Sequences, FiniteSets

CONSTANTS
    MaxQueuedFrameJobs,     \* kMaxQueuedFrameJobs, 8 in the code
    MaxEncoded,             \* length of m_encodedQueue that is cleared, 30
    MaxPaced,               \* length of m_pacerQueue that drops its head, 5
    MaxCaptured,            \* bound: samples of the encoder
    MaxEnables              \* bound: enablings of the desktop's module

VARIABLES
    toPhone, toDesktop,     \* packages of the primary connection under way
    phone,                  \* the phone's module
    jobs,                   \* SendEncodedFrame coroutines, in the order of the strand
    air,                    \* packets sent and not yet received
    desktop,                \* the desktop's module
    rx,                     \* the AsyncReceive under way
    encoded,                \* m_encodedQueue
    decoder,                \* where the decode thread is
    taken,                  \* the payload it works on
    captured, enables,
    crossed                 \* ghost: StartStream ran in a module that was disabled

cameraVars == <<toPhone, toDesktop, phone, jobs, air, desktop, rx, encoded, decoder, taken,
                captured, enables, crossed>>

Nals    == {"config", "idr", "first", "further"}
Packets == [seq : 1 .. 3 * MaxCaptured, ts : 1 .. MaxCaptured, nal : Nals, marker : BOOLEAN]
Package(what, good) == [what |-> what, good |-> good]

TypeOK ==
    /\ phone \in [state : {"Disabled", "Enabling", "Enabled"}, enabling : {"none", "permission", "peer"},
                  peer : BOOLEAN, port : BOOLEAN, starting : BOOLEAN, active : BOOLEAN, generation : Nat,
                  slots : 0 .. MaxQueuedFrameJobs, waitKey : BOOLEAN, sets : BOOLEAN, configSent : BOOLEAN,
                  sequence : Nat, timestamp : 0 .. MaxCaptured]
    /\ desktop \in [state : {"Disabled", "Enabling", "Enabled", "Disabling"},
                    enabling : {"none", "key", "start", "peer"}, disabling : {"none", "waits", "notifies", "joins"},
                    peer : BOOLEAN, stream : BOOLEAN, accept : BOOLEAN,
                    receiver : {"none", "spawned", "polls", "receives", "returned", "pushes"},
                    pacer : BOOLEAN, paced : 0 .. MaxPaced, waitIdr : BOOLEAN, flush : BOOLEAN, seen : BOOLEAN]
    /\ \A i \in DOMAIN jobs : jobs[i].kind \in {"config", "key", "delta"}
    /\ air \subseteq Packets
    /\ rx.pending \subseteq Packets /\ rx.loss \in BOOLEAN
    /\ decoder \in {"none", "loops", "locks", "decides", "asleep", "works", "ended"}
    /\ captured \in 0 .. MaxCaptured /\ enables \in 0 .. MaxEnables /\ crossed \in BOOLEAN

Idle == [active |-> FALSE, ts |-> 0, expected |-> 0, last |-> 0, pending |-> {}, payload |-> <<>>, loss |-> FALSE]

Init ==
    /\ toPhone = <<>> /\ toDesktop = <<>> /\ jobs = <<>> /\ air = {} /\ rx = Idle
    /\ phone = [state |-> "Disabled", enabling |-> "none", peer |-> FALSE, port |-> FALSE, starting |-> FALSE,
                active |-> FALSE, generation |-> 0, slots |-> 0, waitKey |-> FALSE, sets |-> FALSE,
                configSent |-> FALSE, sequence |-> 0, timestamp |-> 0]
    /\ desktop = [state |-> "Disabled", enabling |-> "none", disabling |-> "none", peer |-> FALSE,
                  stream |-> FALSE, accept |-> FALSE, receiver |-> "none", pacer |-> FALSE, paced |-> 0,
                  waitIdr |-> FALSE, flush |-> FALSE, seen |-> FALSE]
    /\ encoded = <<>> /\ decoder = "none" /\ taken = <<>>
    /\ captured = 0 /\ enables = 0 /\ crossed = FALSE

Tell(p, d) == toPhone' = toPhone \o p /\ toDesktop' = toDesktop \o d

-------------------------------------------------------------------------------
(* The phone: handlers, OnEnable, StartStream, OnDisable. *)

(* OnEnable of the phone up to its first await; only from Disabled. *)
Enabled(p) ==
    IF p.state = "Disabled"
       THEN [p EXCEPT !.state = "Enabling", !.enabling = "permission", !.peer = FALSE, !.waitKey = FALSE]
       ELSE p
Announces(p) == IF p.state = "Disabled" THEN <<Package("enable", TRUE)>> ELSE <<>>

(* OnDisable of the phone: the stream is closed and its jobs become stale. *)
Stopped(p) ==
    IF p.state = "Disabled" THEN p
    ELSE [p EXCEPT !.state = "Disabled", !.peer = FALSE, !.port = FALSE, !.active = FALSE,
                   !.generation = @ + 1, !.sets = FALSE, !.configSent = FALSE, !.waitKey = FALSE]
Says(p) == IF p.state = "Disabled" THEN <<>> ELSE <<Package("state", FALSE)>>

PhoneHandles ==
    /\ toPhone # <<>>
    /\ LET package == Head(toPhone)
       IN  /\ toPhone' = Tail(toPhone)
           /\ CASE package.what = "enable" ->
                     /\ phone.enabling = "none" \/ phone.state # "Disabled"
                     /\ phone' = Enabled(phone)
                     /\ toDesktop' = toDesktop \o (IF phone.state = "Enabled" THEN <<Package("state", TRUE)>>
                                                                              ELSE Announces(phone))
                [] package.what = "key" ->
                     /\ phone.enabling = "none" \/ phone.state # "Disabled"
                     /\ phone' = Enabled([phone EXCEPT !.peer = FALSE, !.port = FALSE])
                     /\ toDesktop' = toDesktop \o <<Package("key", TRUE)>> \o Announces(phone)
                [] package.what = "port" -> phone' = [phone EXCEPT !.port = TRUE] /\ UNCHANGED toDesktop
                [] package.what = "start" -> phone' = [phone EXCEPT !.starting = TRUE] /\ UNCHANGED toDesktop
                [] package.what = "stop" ->
                     /\ phone' = Stopped([phone EXCEPT !.peer = FALSE])
                     /\ toDesktop' = toDesktop \o <<Package("state", FALSE)>> \o Says(phone)
                [] OTHER -> phone' = [phone EXCEPT !.peer = package.good] /\ UNCHANGED toDesktop
    /\ UNCHANGED <<jobs, air, desktop, rx, encoded, decoder, taken, captured, enables, crossed>>

(* OnEnable goes on: the user answers the permission dialogue. *)
PermissionAnswered(granted) ==
    /\ phone.enabling = "permission"
    /\ IF granted
          THEN /\ phone' = [phone EXCEPT !.enabling = IF phone.state = "Enabling" THEN "peer" ELSE "none"]
               /\ UNCHANGED <<toPhone, toDesktop>>
          ELSE phone' = [Stopped(phone) EXCEPT !.enabling = "none"] /\ Tell(<<>>, Says(phone))
    /\ UNCHANGED <<jobs, air, desktop, rx, encoded, decoder, taken, captured, enables, crossed>>

(* ... and waits for the desktop, or finds that it was disabled. *)
PhoneSeesPeer ==
    /\ phone.enabling = "peer" /\ (phone.peer \/ phone.state # "Enabling")
    /\ phone' = [phone EXCEPT !.enabling = "none", !.state = IF @ = "Enabling" THEN "Enabled" ELSE @]
    /\ UNCHANGED <<toPhone, toDesktop, jobs, air, desktop, rx, encoded, decoder, taken, captured, enables, crossed>>

(* StartStream once it has the port: a new generation, a stream, the camera. *)
StartStream(good) ==
    /\ phone.starting /\ phone.port
    /\ phone' = [phone EXCEPT !.starting = FALSE, !.generation = @ + 1, !.active = good \/ @,
                              !.sets = FALSE, !.configSent = FALSE]
    /\ Tell(<<>>, <<Package("start", good), Package("state", TRUE)>>)
    /\ UNCHANGED <<jobs, air, desktop, rx, encoded, decoder, taken, captured, enables, crossed>>

(* The port does not come in 30 seconds. *)
NoPort ==
    /\ phone.starting /\ ~phone.port /\ \A i \in DOMAIN toPhone : toPhone[i].what # "port"
    /\ phone' = [phone EXCEPT !.starting = FALSE]
    /\ Tell(<<>>, <<Package("start", FALSE)>>)
    /\ UNCHANGED <<jobs, air, desktop, rx, encoded, decoder, taken, captured, enables, crossed>>

PhoneUserDisables ==
    /\ phone.state # "Disabled" /\ phone' = Stopped(phone) /\ Tell(<<>>, Says(phone))
    /\ UNCHANGED <<jobs, air, desktop, rx, encoded, decoder, taken, captured, enables, crossed>>

-------------------------------------------------------------------------------
(* The phone: encoded frames. *)

(* Variant: the limit is the last number that is refused no more. *)
FullPastTheLimit == phone.slots > MaxQueuedFrameJobs
Full == phone.slots >= MaxQueuedFrameJobs

(* TryReserveFrameSlot, and the coroutine that holds the slot. *)
Captures(kind) ==
    /\ phone.active /\ captured < MaxCaptured
    /\ captured' = captured + 1
    /\ IF Full
          THEN phone' = [phone EXCEPT !.waitKey = TRUE] /\ UNCHANGED jobs
          ELSE /\ phone' = [phone EXCEPT !.slots = @ + 1]
               /\ jobs' = Append(jobs, [kind |-> kind, generation |-> phone.generation])
    /\ UNCHANGED <<toPhone, toDesktop, air, desktop, rx, encoded, decoder, taken, enables, crossed>>

(* AsyncSendNal: the packets of a frame; one NAL longer than a packet is *)
(* sent in parts, and only the last packet has the marker.               *)
Cut(kind, withConfig) ==
    (IF withConfig THEN <<"config">> ELSE <<>>)
        \o (CASE kind = "config" -> <<"config">> [] kind = "key" -> <<"idr">> [] OTHER -> <<"first", "further">>)

(* Variant: a frame that is not sent keeps its slot. *)
ReleaseWhenSent(p) == IF p.active THEN [p EXCEPT !.slots = @ - 1] ELSE p

(* SendEncodedFrame: the slot is given back on every way out. *)
ReleaseFrameSlot(p) == [p EXCEPT !.slots = @ - 1]

SendEncodedFrame ==
    /\ jobs # <<>>
    /\ jobs' = Tail(jobs)
    /\ LET job   == Head(jobs)
           stale == ~phone.active \/ job.generation # phone.generation
           sets  == phone.sets \/ job.kind = "config"
           with  == job.kind # "config" /\ (~phone.configSent \/ job.kind = "key") /\ sets
           nals  == Cut(job.kind, with)
           ts    == phone.timestamp + 1
       IN  IF stale \/ (phone.waitKey /\ job.kind = "delta")
              THEN phone' = ReleaseFrameSlot(phone) /\ UNCHANGED air
              ELSE /\ phone' = ReleaseFrameSlot([phone EXCEPT !.waitKey = @ /\ job.kind # "key", !.sets = sets,
                                 !.configSent = @ \/ with \/ job.kind = "config", !.timestamp = ts,
                                 !.sequence = @ + Len(nals)])
                   /\ air' = IF desktop.stream
                              THEN air \cup {[seq |-> phone.sequence + i, ts |-> ts, nal |-> nals[i],
                                              marker |-> i = Len(nals)] : i \in DOMAIN nals}
                              ELSE air
    /\ UNCHANGED <<toPhone, toDesktop, desktop, rx, encoded, decoder, taken, captured, enables, crossed>>

-------------------------------------------------------------------------------
(* The desktop: OnEnable, its handlers, StartStream, OnDisable. *)

AtRest ==
    /\ desktop.enabling = "none" /\ desktop.disabling = "none" /\ desktop.receiver = "none"
    /\ ~desktop.pacer /\ decoder = "none" /\ ~crossed

(* OnEnable up to its first await. *)
DesktopEnables ==
    /\ enables' = enables + 1
    /\ desktop' = [desktop EXCEPT !.state = "Enabling", !.enabling = "key", !.peer = FALSE]

UserEnables ==
    /\ enables < MaxEnables /\ desktop.state = "Disabled" /\ AtRest
    /\ DesktopEnables /\ Tell(<<Package("enable", TRUE), Package("key", TRUE)>>, <<>>)
    /\ UNCHANGED <<phone, jobs, air, rx, encoded, decoder, taken, captured, crossed>>

(* OnDisable up to its first await: nothing is accepted any more and the *)
(* stream is closed, so what is in the air for its port is lost.         *)
Closing(d) ==
    [d EXCEPT !.state = "Disabling", !.disabling = "waits", !.peer = FALSE, !.accept = FALSE,
              !.waitIdr = FALSE, !.flush = FALSE, !.stream = FALSE]
MayClose == desktop.state \in {"Enabling", "Enabled"}

UserDisables ==
    /\ MayClose /\ desktop' = Closing(desktop) /\ air' = {} /\ Tell(<<Package("state", FALSE)>>, <<>>)
    /\ UNCHANGED <<phone, jobs, rx, encoded, decoder, taken, captured, enables, crossed>>

(* The answer to the key request: the stream is bound and its port told. *)
KeyAnswered ==
    /\ desktop.enabling = "key" /\ toDesktop # <<>> /\ Head(toDesktop).what = "key"
    /\ toDesktop' = Tail(toDesktop)
    /\ IF MayClose
          THEN /\ desktop' = [desktop EXCEPT !.enabling = "start", !.stream = TRUE]
               /\ toPhone' = toPhone \o <<Package("port", TRUE), Package("start", TRUE)>>
          ELSE desktop' = [desktop EXCEPT !.enabling = "none"] /\ UNCHANGED toPhone
    /\ UNCHANGED <<phone, jobs, air, rx, encoded, decoder, taken, captured, enables, crossed>>

(* OnEnable returns early: EnableAwaitable still makes the module Enabled. *)
Returned(d) == [d EXCEPT !.enabling = "none", !.state = IF @ = "Enabling" THEN "Enabled" ELSE @]

StartAnswered ==
    /\ desktop.enabling = "start" /\ toDesktop # <<>> /\ Head(toDesktop).what = "start"
    /\ toDesktop' = Tail(toDesktop)
    /\ desktop' = IF MayClose /\ Head(toDesktop).good THEN [desktop EXCEPT !.enabling = "peer"] ELSE Returned(desktop)
    /\ UNCHANGED <<toPhone, phone, jobs, air, rx, encoded, decoder, taken, captured, enables, crossed>>

(* No answer in time: Timeout is reported. *)
RequestTimesOut ==
    /\ desktop.enabling \in {"key", "start"} /\ desktop' = Returned(desktop)
    /\ UNCHANGED <<toPhone, toDesktop, phone, jobs, air, rx, encoded, decoder, taken, captured, enables, crossed>>

(* The loop that waits for the peer ends either way; only the way out    *)
(* without the peer looks whether the module was disabled.  StartStream  *)
(* (which may fail: no such camera) starts decoder, pacer and receiver.  *)
PeerSeen(good) ==
    /\ desktop.enabling = "peer" /\ desktop.peer
    /\ crossed' = (crossed \/ (good /\ ~MayClose))
    /\ LET started == [desktop EXCEPT !.accept = TRUE, !.receiver = "spawned", !.pacer = TRUE, !.paced = 0,
                                      !.waitIdr = FALSE, !.flush = FALSE, !.seen = FALSE]
       IN  desktop' = Returned(IF good THEN started ELSE desktop)
    /\ decoder' = IF good THEN "loops" ELSE decoder
    /\ encoded' = IF good THEN <<>> ELSE encoded
    /\ rx' = IF good THEN Idle ELSE rx
    /\ Tell(IF MayClose THEN <<Package("state", TRUE)>> ELSE <<>>, <<>>)
    /\ UNCHANGED <<phone, jobs, air, taken, captured, enables>>

Aborts ==
    /\ desktop.enabling = "peer" /\ ~desktop.peer /\ ~MayClose
    /\ desktop' = [desktop EXCEPT !.enabling = "none"]
    /\ UNCHANGED <<toPhone, toDesktop, phone, jobs, air, rx, encoded, decoder, taken, captured, enables, crossed>>

(* The handlers of ENABLE and STATE_CHANGED; an answer nobody waits for *)
(* is dropped.                                                          *)
DesktopHandles ==
    /\ toDesktop # <<>> /\ toDesktop' = Tail(toDesktop)
    /\ LET package == Head(toDesktop)
           closes  == package.what = "state" /\ ~package.good /\ MayClose
           begins  == package.what = "enable" /\ desktop.state = "Disabled" /\ AtRest /\ enables < MaxEnables
       IN  /\ desktop.enabling # package.what
           /\ air' = IF closes THEN {} ELSE air
           /\ IF begins THEN DesktopEnables
              ELSE /\ UNCHANGED enables
                   /\ desktop' = IF closes THEN Closing(desktop)
                                 ELSE IF package.what = "state" THEN [desktop EXCEPT !.peer = package.good]
                                 ELSE desktop
           /\ toPhone' = toPhone \o (IF begins THEN <<Package("enable", TRUE), Package("key", TRUE)>>
                                     ELSE IF closes THEN <<Package("state", FALSE)>>
                                     ELSE IF package.what = "enable" /\ desktop.state = "Enabled"
                                     THEN <<Package("state", TRUE)>> ELSE <<>>)
    /\ UNCHANGED <<phone, jobs, rx, encoded, decoder, taken, captured, crossed>>

(* Variant: the queue is left alone, and so is its mutex. *)
NoMutex == TRUE

(* OnDisable goes on when receiver and pacer have ended: m_encodedMutex *)
(* is free unless the decoder thread is between its look and its sleep. *)
MutexFree == decoder # "decides"

ClearsQueue ==
    /\ desktop.disabling = "waits" /\ desktop.receiver \in {"none", "spawned"} /\ ~desktop.pacer
    /\ MutexFree
    /\ encoded' = <<>> /\ desktop' = [desktop EXCEPT !.disabling = "notifies"]
    /\ Tell(<<Package("stop", TRUE)>>, <<>>)
    /\ UNCHANGED <<phone, jobs, air, rx, decoder, taken, captured, enables, crossed>>

NotifiesAll ==
    /\ desktop.disabling = "notifies"
    /\ desktop' = [desktop EXCEPT !.disabling = "joins"]
    /\ decoder' = IF decoder = "asleep" THEN "locks" ELSE decoder
    /\ UNCHANGED <<toPhone, toDesktop, phone, jobs, air, rx, encoded, taken, captured, enables, crossed>>

Joined ==
    /\ desktop.disabling = "joins" /\ decoder \in {"none", "ended"}
    /\ desktop' = [desktop EXCEPT !.disabling = "none", !.state = "Disabled", !.paced = 0, !.seen = FALSE]
    /\ decoder' = "none"
    /\ UNCHANGED <<toPhone, toDesktop, phone, jobs, air, rx, encoded, taken, captured, enables, crossed>>

-------------------------------------------------------------------------------
(* The desktop: the stream. *)

(* Variant: what there is of the frame before is kept. *)
BegunOverTheOld(r, p) ==
    IF r.active /\ p.ts = r.ts THEN r
    ELSE [r EXCEPT !.active = TRUE, !.ts = p.ts, !.expected = p.seq, !.last = 0, !.loss = @ \/ r.active]

(* The first packet of a frame, and the first of another frame, begin anew. *)
Begun(r, p) ==
    IF r.active /\ p.ts = r.ts THEN r
    ELSE [r EXCEPT !.active = TRUE, !.ts = p.ts, !.expected = p.seq, !.last = 0, !.pending = {},
                   !.payload = <<>>, !.loss = @ \/ r.active]

Put(r, p) == [r EXCEPT !.pending = @ \cup {p}, !.last = IF p.marker THEN p.seq ELSE @]

Numbered(r, n) == CHOOSE p \in r.pending : p.seq = n
Ready(r) ==
    LET seqs == {p.seq : p \in r.pending}
    IN  CHOOSE n \in r.expected .. r.expected + Cardinality(seqs) :
            n \notin seqs /\ \A m \in r.expected .. n - 1 : m \in seqs

(* BuildChunkFromRtpPayload: only a further part has no start code. *)
StartsNal(p) == p.nal # "further"

(* The packets that are next in order go to the payload, up to the marker; *)
(* a payload cannot begin with a further part of a NAL.                    *)
Drained(r) ==
    LET end == IF r.last \in r.expected .. Ready(r) - 1 THEN r.last ELSE Ready(r) - 1
    IN  IF end < r.expected THEN r
        ELSE IF r.payload = <<>> /\ ~StartsNal(Numbered(r, r.expected))
        THEN [Idle EXCEPT !.loss = TRUE]
        ELSE [r EXCEPT !.payload = @ \o [i \in 1 .. end - r.expected + 1 |-> Numbered(r, r.expected + i - 1)],
                       !.pending = {p \in @ : p.seq \notin r.expected .. end},
                       !.expected = end + 1]
Complete(r) == r.last # 0 /\ r.expected = r.last + 1

(* AsyncReceive: one packet; it returns with the packet of the marker. *)
Receives(p) ==
    /\ desktop.receiver = "receives" /\ desktop.stream
    /\ air' = air \ {p}
    /\ LET r == Drained(Put(Begun(rx, p), p))
       IN  /\ rx' = r
           /\ desktop' = [desktop EXCEPT !.receiver = IF Complete(r) THEN "returned" ELSE @]
    /\ UNCHANGED <<toPhone, toDesktop, phone, jobs, encoded, decoder, taken, captured, enables, crossed>>

(* A packet that comes twice is not unprotected. *)
Refuses ==
    /\ desktop.receiver = "receives" /\ desktop.stream /\ phone.sequence > 0
    /\ rx' = [rx EXCEPT !.loss = TRUE]
    /\ UNCHANGED <<toPhone, toDesktop, phone, jobs, air, desktop, encoded, decoder, taken, captured, enables, crossed>>

(* The socket was closed. *)
ReceiveFails ==
    /\ desktop.receiver = "receives" /\ ~desktop.stream
    /\ rx' = [rx EXCEPT !.payload = <<>>]
    /\ desktop' = [desktop EXCEPT !.receiver = "returned"]
    /\ UNCHANGED <<toPhone, toDesktop, phone, jobs, air, encoded, decoder, taken, captured, enables, crossed>>

(* ReceiveFrames: it polls until the module is enabled, ... *)
ReceiverRuns ==
    /\ desktop.receiver \in {"spawned", "polls"}
    /\ desktop' = [desktop EXCEPT !.receiver =
                      IF desktop.state = "Enabling" THEN "polls"
                      ELSE IF desktop.state = "Enabled" /\ desktop.accept /\ desktop.stream THEN "receives" ELSE "none"]
    /\ UNCHANGED <<toPhone, toDesktop, phone, jobs, air, rx, encoded, decoder, taken, captured, enables, crossed>>

(* ... looks at the loss signal after each AsyncReceive ... *)
Checks ==
    /\ desktop.receiver = "returned"
    /\ IF desktop.state # "Enabled" \/ ~desktop.accept
          THEN desktop' = [desktop EXCEPT !.receiver = "none"] /\ rx' = Idle
          ELSE /\ desktop' = [desktop EXCEPT !.waitIdr = @ \/ rx.loss,
                                             !.receiver = IF rx.payload = <<>> THEN "receives" ELSE "pushes"]
               /\ rx' = [Idle EXCEPT !.payload = rx.payload]
    /\ UNCHANGED <<toPhone, toDesktop, phone, jobs, air, encoded, decoder, taken, captured, enables, crossed>>

(* ... and queues the payload, whatever has happened since it looked. *)
Pushes ==
    /\ desktop.receiver = "pushes" /\ decoder # "decides"
    /\ encoded' = Append(IF Len(encoded) >= MaxEncoded THEN <<>> ELSE encoded, rx.payload)
    /\ rx' = Idle
    /\ LET over == Len(encoded) >= MaxEncoded
       IN  desktop' = [desktop EXCEPT !.waitIdr = @ \/ over, !.flush = @ \/ (over /\ ~desktop.waitIdr),
                                      !.receiver = IF desktop.state = "Enabled" /\ desktop.accept THEN "receives" ELSE "none"]
    /\ decoder' = IF decoder = "asleep" THEN "locks" ELSE decoder
    /\ UNCHANGED <<toPhone, toDesktop, phone, jobs, air, taken, captured, enables, crossed>>

(* DecodeFramesLoop: the loop's condition, then with the mutex the queue; *)
(* the wait's look and its sleep are one step for who takes the mutex,    *)
(* but not for who only notifies.                                         *)
Loops ==
    /\ decoder = "loops" /\ decoder' = IF desktop.accept THEN "locks" ELSE "ended"
    /\ UNCHANGED <<toPhone, toDesktop, phone, jobs, air, desktop, rx, encoded, taken, captured, enables, crossed>>

Looks ==
    /\ decoder = "locks"
    /\ decoder' = IF encoded # <<>> THEN (IF desktop.accept THEN "works" ELSE "ended")
                  ELSE IF desktop.accept THEN "decides" ELSE "ended"
    /\ taken' = IF encoded # <<>> THEN Head(encoded) ELSE taken
    /\ encoded' = IF encoded # <<>> THEN Tail(encoded) ELSE encoded
    /\ UNCHANGED <<toPhone, toDesktop, phone, jobs, air, desktop, rx, captured, enables, crossed>>

Sleeps ==
    /\ decoder = "decides" /\ decoder' = "asleep"
    /\ UNCHANGED <<toPhone, toDesktop, phone, jobs, air, desktop, rx, encoded, taken, captured, enables, crossed>>

Carries(payload, nal) == \E i \in DOMAIN payload : payload[i].nal = nal

(* A decoded picture goes to the pacer's queue, which drops its oldest. *)
Paced(d) == [d EXCEPT !.paced = IF @ < MaxPaced THEN @ + 1 ELSE @]

(* The decoder gives a picture once it has seen the parameter sets. *)
Decoded(d, payload) ==
    LET seen == d.seen \/ Carries(payload, "config")
    IN  IF seen THEN Paced([d EXCEPT !.seen = TRUE]) ELSE d

(* ProcessEncodedFrame: without an IDR the wait for one ends only after *)
(* kMaxWaitForIdrAfterLossMs; what was seen of the parameter sets stays. *)
Decodes(waitedEnough) ==
    /\ decoder = "works" /\ decoder' = "loops" /\ taken' = <<>>
    /\ LET blocked == desktop.waitIdr /\ ~Carries(taken, "idr") /\ ~waitedEnough
           d       == [desktop EXCEPT !.flush = FALSE]
       IN  desktop' = IF ~desktop.accept \/ blocked THEN d ELSE Decoded([d EXCEPT !.waitIdr = FALSE], taken)
    /\ UNCHANGED <<toPhone, toDesktop, phone, jobs, air, rx, encoded, captured, enables, crossed>>

FramePacer ==
    /\ desktop.pacer
    /\ desktop' = IF desktop.accept THEN [desktop EXCEPT !.paced = IF @ > 0 THEN @ - 1 ELSE 0]
                                    ELSE [desktop EXCEPT !.pacer = FALSE]
    /\ UNCHANGED <<toPhone, toDesktop, phone, jobs, air, rx, encoded, decoder, taken, captured, enables, crossed>>

-------------------------------------------------------------------------------
(* A stream started in a disabled module is not followed any further. *)
Next ==
    /\ ~crossed
    /\ \/ PhoneHandles \/ PhoneSeesPeer \/ NoPort \/ PhoneUserDisables \/ SendEncodedFrame
       \/ \E b \in BOOLEAN : PermissionAnswered(b) \/ StartStream(b) \/ PeerSeen(b) \/ Decodes(b)
       \/ \E kind \in {"config", "key", "delta"} : Captures(kind)
       \/ UserEnables \/ UserDisables \/ KeyAnswered \/ StartAnswered \/ RequestTimesOut \/ Aborts
       \/ DesktopHandles \/ ClearsQueue \/ NotifiesAll \/ Joined
       \/ \E p \in air : Receives(p)
       \/ Refuses \/ ReceiveFails \/ ReceiverRuns \/ Checks \/ Pushes \/ Loops \/ Looks \/ Sleeps \/ FramePacer

Spec == Init /\ [][Next]_cameraVars

-------------------------------------------------------------------------------
(* What the decoder is given is the end of one frame, whole and in order, *)
(* and begins with a NAL: AsyncReceive against loss and reordering.       *)
WholeTails ==
    \A payload \in {taken} \cup {encoded[i] : i \in DOMAIN encoded} :
        payload # <<>> =>
            /\ StartsNal(payload[1]) /\ payload[Len(payload)].marker
            /\ \A i \in 1 .. Len(payload) - 1 :
                  payload[i + 1].seq = payload[i].seq + 1 /\ payload[i + 1].ts = payload[1].ts

(* OnDisable never joins a decoder thread that sleeps with nobody left to *)
(* wake it: m_acceptFrames is stored outside the mutex, so the look and   *)
(* the sleep of the thread may fall around the store.                     *)
SleeperIsWoken == desktop.disabling = "joins" /\ ~crossed => decoder \notin {"decides", "asleep"}

(* A module that is disabled has nothing running or queued that a later *)
(* stream would meet.                                                   *)
DisabledIsQuiet ==
    desktop.state = "Disabled" /\ ~crossed =>
        /\ ~desktop.stream /\ ~desktop.accept /\ ~desktop.pacer /\ desktop.paced = 0
        /\ desktop.receiver \in {"none", "spawned", "polls"} /\ decoder = "none" /\ encoded = <<>>

(* Every slot belongs to a coroutine that will give it back, so refusing *)
(* frames cannot become the camera's permanent state.                    *)
SlotsAreHeld == phone.slots = Len(jobs)

(* The stream through loss, overload and disabling at any moment. *)
CameraIsSafe == WholeTails /\ SleeperIsWoken /\ DisabledIsQuiet /\ SlotsAreHeld
=============================================================================
