---------------------------- MODULE VirtualMicrophone ----------------------------
(***************************************************************************)
(* The desktop's virtual microphone (virtual-microphone/linux/VMicAPI.cpp) *)
(* as NetworkMicrophoneModule and VirtualMicrophoneController use it: the  *)
(* table of devices, the list the user picks from, and the ring buffer     *)
(* between the coroutine that receives sound (VMic_PushSamples) and        *)
(* PipeWire's thread (onProcess), which share no lock: each moves its own  *)
(* head, in bytes never wrapped, and reads the other's.                    *)
(*                                                                         *)
(* Sound is counted in frames, and a frame is its number.  The bytes of a  *)
(* frame, the names of devices and PipeWire's own objects are left out.    *)
(* onProcess plays silence when too little is there, which is not heard.   *)
(* VMic_Flush, VMic_DestroyDevice and VMic_GetAvailableSpace are not used  *)
(* by the program.                                                         *)
(*                                                                         *)
(* What goes over the network is MicrophoneStream's: here an OnEnable that *)
(* waits for the phone's key is a number in `module` or `late`, as one may *)
(* go on after the module was disabled, or enabled anew.  Assumed: the     *)
(* coroutine of a stream that was closed or replaced has ended before the  *)
(* next stream starts.  A context whose handle was overwritten is not      *)
(* followed further; nobody writes to it any more.                         *)
(***************************************************************************)
EXTENDS Integers, Sequences

CONSTANTS
    Slots,          \* MAX_VMIC_DEVICES, 16 in the code
    RingFrames,     \* frames of the ring buffer, 48000
    MaxPush,        \* bound: frames of a packet
    MaxRequest,     \* bound: frames PipeWire asks for
    MaxFrames,      \* bound: frames that are received
    MaxTurns        \* bound: enablings, and restarts of the module

ASSUME MicrophoneBounds ==
    /\ Slots \in Nat \ {0} /\ RingFrames \in Nat \ {0}
    /\ MaxPush \in Nat /\ MaxRequest \in Nat /\ MaxFrames \in Nat /\ MaxTurns \in Nat

VARIABLES
    devices,        \* g_devices: not initialized, or isUsed
    list, selected, \* the controller's m_audioDevices and m_selectedDeviceIndex
    asks,           \* GetAudioDeviceList lambdas on the module's strand
    posted,         \* AudioDeviceListEvents under way
    chosen,         \* the slot m_deviceID names, 0 for none
    calls,          \* coroutines of Enable that have not begun
    module,         \* the module's state; Enabling while its last OnEnable waits
    late,           \* OnEnables that wait though they were disabled or overtaken
    open,           \* the slot m_handle is of, 0 without one
    sounds, writeHead, readHead,
    writer,         \* VMic_PushSamples in the stream's coroutine
    reader,         \* onProcess in PipeWire's thread
    frames,         \* frames received so far
    turns,
    accepted,       \* ghost: the frames that were not refused, since VMic_OpenDevice
    heard,          \* ghost: the frames handed to PipeWire
    hurt,           \* ghost: a context was deleted under VMic_PushSamples
    crossed         \* ghost: such an OnEnable went on, since the table was cleared

micVars == <<devices, list, selected, asks, posted, chosen, calls, module, late, open, sounds, writeHead, readHead,
             writer, reader, frames, turns, accepted, heard, hurt, crossed>>

picking == <<list, selected, asks, posted>>
enabling == <<chosen, calls, module, late, crossed>>
sound   == <<sounds, writeHead, readHead, writer, reader, frames, accepted, heard>>

Idle   == [at |-> "idle", from |-> 0, n |-> 0, done |-> 0]
Absent == [Idle EXCEPT !.at = "none"]

MicTypeOK ==
    /\ devices \in [1 .. Slots -> {"free", "made", "used"}]
    /\ list \in Seq(1 .. Slots) /\ selected \in Int /\ asks \in Nat /\ posted \in Seq(Seq(1 .. Slots))
    /\ chosen \in 0 .. Slots /\ calls \in Nat /\ module \in {"Disabled", "Enabling", "Enabled"} /\ late \in Nat
    /\ open \in 0 .. Slots /\ crossed \in BOOLEAN
    /\ sounds \in [0 .. RingFrames - 1 -> Nat] /\ writeHead \in Nat /\ readHead \in Nat
    /\ writer \in [at : {"none", "idle", "copies"}, from : Nat, n : Nat, done : Nat]
    /\ reader \in [at : {"none", "idle", "copies"}, from : Nat, n : Nat, done : Nat]
    /\ frames \in Nat /\ turns \in Nat
    /\ accepted \in Seq(Nat) /\ heard \in Seq(Nat) /\ hurt \in BOOLEAN

Empty == [i \in 0 .. RingFrames - 1 |-> 0]

MicInit ==
    /\ devices = [s \in 1 .. Slots |-> "free"]
    /\ list = <<>> /\ selected = -1 /\ asks = 0 /\ posted = <<>> /\ open = 0
    /\ chosen = 0 /\ calls = 0 /\ module = "Disabled" /\ late = 0 /\ crossed = FALSE
    /\ sounds = Empty /\ writeHead = 0 /\ readHead = 0
    /\ writer = Absent /\ reader = Absent
    /\ frames = 0 /\ turns = 0 /\ accepted = <<>> /\ heard = <<>> /\ hurt = FALSE

-------------------------------------------------------------------------------
(* The table and the list. *)

(* VMic_GetAvailableDevices: in the order of the table, without the used. *)
Available(shown) ==
    /\ {shown[i] : i \in DOMAIN shown} = {s \in 1 .. Slots : devices[s] = "made"}
    /\ \A i, j \in DOMAIN shown : i < j => shown[i] < shown[j]

(* CreateAudioDevice: VMic_CreateDevice takes the first slot that is free, *)
(* and the list is asked for.                                              *)
CreateDevice ==
    /\ asks < 2
    /\ \E s \in 1 .. Slots :
          /\ devices[s] = "free" /\ \A t \in 1 .. s - 1 : devices[t] # "free"
          /\ devices' = [devices EXCEPT ![s] = "made"]
    /\ asks' = asks + 1
    /\ UNCHANGED <<list, selected, posted, open, enabling, sound, turns, hurt>>

(* The controller's timer asks too (again only once the list was shown: bound). *)
RefreshAudioDevices ==
    /\ asks = 0 /\ posted = <<>> /\ asks' = 1
    /\ UNCHANGED <<devices, list, selected, posted, open, enabling, sound, turns, hurt>>

GetAudioDeviceList ==
    /\ asks > 0 /\ asks' = asks - 1
    /\ \E n \in 0 .. Slots : \E shown \in [1 .. n -> 1 .. Slots] :
          Available(shown) /\ posted' = Append(posted, shown)
    /\ UNCHANGED <<devices, list, selected, open, enabling, sound, turns, hurt>>

(* The controller's event(): a selection out of the new list is the first. *)
Reselected(i, shown) == IF shown = <<>> THEN -1 ELSE IF i \in 0 .. Len(shown) - 1 THEN i ELSE 0

ShowsList ==
    /\ posted # <<>>
    /\ posted' = Tail(posted) /\ list' = Head(posted) /\ selected' = Reselected(selected, Head(posted))
    /\ UNCHANGED <<devices, asks, open, enabling, sound, turns, hurt>>

SelectsDevice ==
    /\ \E i \in 0 .. Len(list) - 1 : i # selected /\ selected' = i
    /\ UNCHANGED <<devices, list, asks, posted, open, enabling, sound, turns, hurt>>

-------------------------------------------------------------------------------
(* Opening and closing. *)

(* setVirtualMicrophoneEnabled: the device is chosen at once, the module enabled *)
(* on its strand, where EnableAwaitable asks the phone for its key.              *)
SetEnabled ==
    /\ turns < MaxTurns /\ ~hurt /\ selected \in 0 .. Len(list) - 1
    /\ chosen' = list[selected + 1] /\ calls' = calls + 1 /\ turns' = turns + 1
    /\ UNCHANGED <<devices, picking, module, late, open, sound, hurt, crossed>>

Enable ==
    /\ calls > 0 /\ calls' = calls - 1
    /\ module' = IF module = "Disabled" THEN "Enabling" ELSE module
    /\ UNCHANGED <<devices, picking, chosen, late, open, sound, turns, hurt, crossed>>

(* InitializeStream and StartStream: VMic_OpenDevice makes a fresh context, unless *)
(* the device is unknown or used; whether m_handle still held one, nobody looks.   *)
(* PipeWire's thread runs if there is a PipeWire (starts), and the coroutine that  *)
(* receives ends at once in a module that is disabled.  Threads of a context that  *)
(* was still held here are left out from now on.                                   *)
OpenDevice(starts) ==
    IF chosen # 0 /\ devices[chosen] = "made"
    THEN /\ devices' = [devices EXCEPT ![chosen] = "used"] /\ open' = chosen
         /\ sounds' = Empty /\ writeHead' = 0 /\ readHead' = 0 /\ accepted' = <<>> /\ heard' = <<>>
         /\ reader' = IF starts THEN Idle ELSE Absent
         /\ writer' = IF starts /\ module # "Disabled" THEN Idle ELSE Absent
         /\ UNCHANGED frames
    ELSE UNCHANGED <<devices, open, sound>>

NoAnswer == UNCHANGED <<devices, open, sound>>

(* OnEnable goes on with the phone's key, or returns without one; the module *)
(* is Enabled then, if it is Enabling still.                                 *)
OnEnable(answered, starts) ==
    /\ module = "Enabling" /\ ~hurt /\ module' = "Enabled"
    /\ IF answered THEN OpenDevice(starts) ELSE NoAnswer
    /\ UNCHANGED <<picking, chosen, calls, late, turns, hurt, crossed>>

(* So does one that was disabled while it waited: nothing looks.  In a module that *)
(* is Enabling again it takes the place of the one that waits now.                 *)
OnEnableLate(answered, starts) ==
    /\ late > 0 /\ ~hurt
    /\ IF module = "Enabling" THEN module' = "Enabled" /\ UNCHANGED late ELSE late' = late - 1 /\ UNCHANGED module
    /\ IF answered THEN OpenDevice(starts) ELSE NoAnswer
    /\ crossed' = (crossed \/ answered)
    /\ UNCHANGED <<picking, chosen, calls, turns, hurt>>

(* VMic_StopStream and VMic_Close in OnDisable.  PipeWire's thread is        *)
(* joined; the coroutine is not, and may be in the context that is deleted.  *)
Closes(table) ==
    IF open # 0
    THEN /\ reader.at # "copies"
         /\ devices' = table /\ open' = 0
         /\ reader' = Absent /\ writer' = Absent /\ hurt' = (hurt \/ writer.at = "copies")
         /\ UNCHANGED <<sounds, writeHead, readHead, frames, accepted, heard>>
    ELSE devices' = table /\ UNCHANGED <<open, sound, hurt>>

(* Variant: VMic_Close deletes the context and leaves its device used. *)
StillUsed == devices
Released == IF open = 0 THEN devices ELSE [devices EXCEPT ![open] = "made"]

ModuleIsOff ==
    /\ module' = "Disabled" /\ late' = IF module = "Enabling" THEN late + 1 ELSE late
    /\ UNCHANGED <<picking, chosen, calls>>

(* By the user, or by the phone's DISABLE or STATE_CHANGED. *)
Disable ==
    /\ module # "Disabled" /\ ModuleIsOff
    /\ Closes(Released)
    /\ UNCHANGED <<turns, crossed>>

(* OnShutdown: OnDisable, then VMic_Shutdown clears the table, which the *)
(* next VMic_Initialize finds cleared.                                   *)
Shutdown ==
    /\ turns < MaxTurns /\ turns' = turns + 1 /\ ModuleIsOff
    /\ Closes([s \in 1 .. Slots |-> "free"])
    /\ crossed' = FALSE

-------------------------------------------------------------------------------
(* The ring buffer. *)

At(position) == position % RingFrames

(* Variant: a full buffer takes one frame more. *)
FitsOneMore(n) == n <= RingFrames - (writeHead - readHead) + 1
Fits(n) == n <= RingFrames - (writeHead - readHead)

(* AsyncReceiveRaw puts the fragments of a packet together and gives it whole; *)
(* one that lost a fragment is never given.                                    *)
Received(n) == frames + n <= MaxFrames /\ frames' = frames + n

(* VMic_PushSamples: both heads are read once; what does not fit is refused. *)
PushSamples(n) ==
    /\ writer.at = "idle" /\ Received(n)
    /\ IF Fits(n)
          THEN /\ writer' = [at |-> "copies", from |-> writeHead, n |-> n, done |-> 0]
               /\ accepted' = accepted \o [i \in 1 .. n |-> frames + i]
          ELSE UNCHANGED <<writer, accepted>>
    /\ UNCHANGED <<devices, picking, enabling, open, sounds, writeHead, readHead, reader, turns, heard, hurt>>

(* ... memcpy, in two parts when the end of the buffer is reached ... *)
WriterCopies ==
    /\ writer.at = "copies" /\ writer.done < writer.n
    /\ sounds' = [sounds EXCEPT ![At(writer.from + writer.done)] = accepted[writer.from + writer.done + 1]]
    /\ writer' = [writer EXCEPT !.done = @ + 1]
    /\ UNCHANGED <<devices, picking, enabling, open, writeHead, readHead, reader, frames, turns, accepted, heard, hurt>>

(* ... and the head is stored last. *)
WriterStores ==
    /\ writer.at = "copies" /\ writer.done = writer.n
    /\ writeHead' = writer.from + writer.n /\ writer' = Idle
    /\ UNCHANGED <<devices, picking, enabling, open, sounds, readHead, reader, frames, turns, accepted, heard, hurt>>

(* onProcess: fewer frames than are asked for are left for the next time. *)
Process(n) ==
    /\ reader.at = "idle" /\ n > 0 /\ writeHead - readHead >= n
    /\ reader' = [at |-> "copies", from |-> readHead, n |-> n, done |-> 0]
    /\ UNCHANGED <<devices, picking, enabling, open, sounds, writeHead, readHead, writer, frames, turns, accepted, heard, hurt>>

ReaderCopies ==
    /\ reader.at = "copies" /\ reader.done < reader.n
    /\ heard' = Append(heard, sounds[At(reader.from + reader.done)])
    /\ reader' = [reader EXCEPT !.done = @ + 1]
    /\ UNCHANGED <<devices, picking, enabling, open, sounds, writeHead, readHead, writer, frames, turns, accepted, hurt>>

ReaderStores ==
    /\ reader.at = "copies" /\ reader.done = reader.n
    /\ readHead' = reader.from + reader.n /\ reader' = Idle
    /\ UNCHANGED <<devices, picking, enabling, open, sounds, writeHead, writer, frames, turns, accepted, heard, hurt>>

-------------------------------------------------------------------------------
MicNext ==
    \/ CreateDevice \/ RefreshAudioDevices \/ GetAudioDeviceList \/ ShowsList \/ SelectsDevice
    \/ SetEnabled \/ Enable \/ Disable \/ Shutdown
    \/ \E answered, starts \in BOOLEAN : OnEnable(answered, starts) \/ OnEnableLate(answered, starts)
    \/ \E n \in 0 .. MaxPush : PushSamples(n)
    \/ WriterCopies \/ WriterStores
    \/ \E n \in 0 .. MaxRequest : Process(n)
    \/ ReaderCopies \/ ReaderStores

MicSpec == MicInit /\ [][MicNext]_micVars

-------------------------------------------------------------------------------
(* PipeWire hears the frames that were accepted, each once and in order, with *)
(* no frame overwritten before it was read or read before it was written:     *)
(* the two heads of VMic_PushSamples and onProcess, which nothing locks.      *)
HeardAsAccepted ==
    ~hurt => Len(heard) <= Len(accepted) /\ \A i \in 1 .. Len(heard) : heard[i] = accepted[i]

(* A device is marked used exactly while the module holds it, so one that the *)
(* user can pick again after the stream ended can be opened again, whatever   *)
(* enablings, disablings, shutdowns and missing answers came before; unless   *)
(* an OnEnable went on after it was disabled: what it opened may be lost.     *)
(* Even then what is held is marked, and nothing is held of a cleared table.  *)
UsedMeansOpen ==
    /\ ~crossed => \A s \in 1 .. Slots : devices[s] = "used" <=> open = s
    /\ open # 0 => devices[open] = "used"
    /\ ~crossed /\ module # "Enabled" => open = 0

MicrophoneWorks == HeardAsAccepted /\ UsedMeansOpen
=============================================================================
