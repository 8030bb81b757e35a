------------------------------- MODULE FileExport -------------------------------
(***************************************************************************)
(* A remote file dragged out to another program: a coroutine receives it   *)
(* from a transfer channel into a ring (RemoteFileBuffer.h), the thread of *)
(* the shell reads the ring (WindowsVirtualFileDrag.cpp).  Either may stop *)
(* the other: the buffer carries the failure one way, and the action that  *)
(* closes the channel the other way.                                       *)
(*                                                                         *)
(* A byte is its place in the file, 1 .. FileSize.  A Read of the shell is *)
(* one or more passes of its loop, each asking for what is left.           *)
(***************************************************************************)
EXTENDS Integers

CONSTANTS Capacity, FileSize, Chunk, MaxAsked

ASSUME SizesAssumption ==
    /\ Capacity \in Nat \ {0} /\ FileSize \in Nat
    /\ Chunk \in 1 .. Capacity /\ MaxAsked \in Nat \ {0}

VARIABLES
    data, begin, size,      \* RemoteFileBuffer::m_data, m_begin, m_size
    finished, broken,       \* m_finished, m_failed
    action,                 \* m_cancelAction is set
    producer,               \* where StreamExportFileAwaitable is
    taken,                  \* bytes it read from the channel and has yet to write
    written,                \* bytes it wrote into the ring
    wire,                   \* the transfer channel: "idle", "receiving" or "closed"
    closings,               \* times the cancel action ran: each posts TransferChannel::Disconnect
    stream,                 \* the shell's IStream
    registered, cancelled,  \* ExportState: the buffer is in m_buffers; cancelled
    position,               \* RemoteFileStream::m_position
    online,                 \* ConnectionManager: CONNECTED
    inOrder                 \* ghost: every byte read was the next one of the file

ring       == <<data, begin, size>>
shell      == <<stream, registered, cancelled, position>>
exportVars == <<ring, finished, broken, action, producer, taken, written, wire, closings, shell, online, inOrder>>

-------------------------------------------------------------------------------

Smaller(a, b) == IF a < b THEN a ELSE b
Cells == 0 .. Capacity - 1

TypeOK ==
    /\ data \in [Cells -> 0 .. FileSize] /\ begin \in Cells /\ size \in 0 .. Capacity
    /\ finished \in BOOLEAN /\ broken \in BOOLEAN /\ action \in BOOLEAN
    /\ producer \in {"none", "starts", "asks", "assigned", "header", "reads", "writes", "returns", "throws", "over"}
    /\ taken \in 0 .. Chunk /\ written \in 0 .. FileSize
    /\ wire \in {"idle", "receiving", "closed"} /\ closings \in Nat
    /\ stream \in {"unopened", "opened", "open", "ended", "failed", "released"}
    /\ registered \in BOOLEAN /\ cancelled \in BOOLEAN /\ position \in 0 .. FileSize
    /\ online \in BOOLEAN /\ inOrder \in BOOLEAN

Init ==
    /\ data = [c \in Cells |-> 0] /\ begin = 0 /\ size = 0
    /\ finished = FALSE /\ broken = FALSE /\ action = FALSE
    /\ producer = "none" /\ taken = 0 /\ written = 0 /\ wire = "idle" /\ closings = 0
    /\ stream = "unopened" /\ registered = FALSE /\ cancelled = FALSE /\ position = 0
    /\ online = TRUE /\ inOrder = TRUE

-------------------------------------------------------------------------------
(* RemoteFileBuffer: each runs under its mutex. *)

(* Variant: the second piece starts again from the first byte. *)
WrittenFromTheFirst(n) ==
    LET tail  == (begin + size) % Capacity
        first == Smaller(n, Capacity - tail)
    IN  [c \in Cells |-> IF tail <= c /\ c < tail + first THEN written + (c - tail) + 1
                         ELSE IF c < n - first THEN written + c + 1
                         ELSE data[c]]

(* The bytes go behind those that are held, and round the end of the ring. *)
Written(n) ==
    LET tail  == (begin + size) % Capacity
        first == Smaller(n, Capacity - tail)
    IN  [c \in Cells |-> IF tail <= c /\ c < tail + first THEN written + (c - tail) + 1
                         ELSE IF c < n - first THEN written + first + c + 1
                         ELSE data[c]]

HasRoom(n) == ~finished /\ n <= Capacity - size

TryWrite(n) ==
    /\ HasRoom(n)
    /\ data' = Written(n) /\ size' = size + n /\ written' = written + n
    /\ UNCHANGED <<begin, finished, broken, action>>

(* What the k-th byte of a read is. *)
ReadByte(count, k) ==
    LET first == Smaller(count, Capacity - begin)
    IN  IF k < first THEN data[begin + k] ELSE data[k - first]

TakesOut(count) ==
    /\ begin' = (begin + count) % Capacity /\ size' = size - count
    /\ position' = position + count
    /\ inOrder' = (inOrder /\ \A k \in 0 .. count - 1 : ReadByte(count, k) = position + k + 1)

Finish(success) ==
    /\ finished' = TRUE /\ broken' = (broken \/ ~success) /\ action' = FALSE
    /\ size' = IF broken \/ ~success THEN 0 ELSE size
    /\ UNCHANGED <<data, begin>>

(* A buffer already cancelled has lost its action: it does not run twice. *)
Cancel ==
    IF finished /\ ~broken
       THEN UNCHANGED <<finished, broken, size, action, closings>>
       ELSE /\ finished' = TRUE /\ broken' = TRUE /\ size' = 0 /\ action' = FALSE
            /\ closings' = IF action THEN closings + 1 ELSE closings

SetCancelAction ==
    /\ action' = (action \/ (~broken /\ ~finished))
    /\ closings' = IF broken THEN closings + 1 ELSE closings

-------------------------------------------------------------------------------
(* FileShareModule::StreamExportFileAwaitable and TransferChannel::CoReceiveFileData. *)

StartsToAsk ==
    /\ producer = "starts"
    /\ producer' = IF broken \/ ~online THEN "throws" ELSE "asks"
    /\ UNCHANGED <<ring, finished, broken, action, taken, written, wire, closings, shell, online, inOrder>>

(* The answer names a channel, or does not come, or names one that is gone. *)
Answered ==
    /\ producer = "asks"
    /\ \/ producer' = "throws" /\ UNCHANGED <<action, closings>>
       \/ online /\ producer' = "assigned" /\ SetCancelAction
    /\ UNCHANGED <<ring, finished, broken, taken, written, wire, shell, online, inOrder>>

(* The file may no longer be the size it was listed with. *)
ChecksSize ==
    /\ producer = "assigned"
    /\ \/ /\ Cancel /\ producer' = "throws"
       \/ /\ ~broken /\ producer' = "header"
          /\ UNCHANGED <<finished, broken, size, action, closings>>
    /\ UNCHANGED <<data, begin, taken, written, wire, shell, online, inOrder>>

(* A channel that is taken or closed is left alone. *)
ReceivesHeader ==
    /\ producer = "header"
    /\ \/ wire = "idle" /\ wire' = "receiving" /\ producer' = IF FileSize = 0 THEN "returns" ELSE "reads"
       \/ wire = "idle" /\ wire' = "closed" /\ producer' = "throws"
       \/ producer' = "throws" /\ UNCHANGED wire
    /\ UNCHANGED <<ring, finished, broken, action, taken, written, closings, shell, online, inOrder>>

ReadsChunk ==
    /\ producer = "reads"
    /\ \/ /\ wire = "receiving" /\ online
          /\ taken' = Smaller(Chunk, FileSize - written) /\ producer' = "writes"
          /\ UNCHANGED wire
       \/ /\ wire' = "closed" /\ producer' = "throws" /\ UNCHANGED taken
    /\ UNCHANGED <<ring, finished, broken, action, written, closings, shell, online, inOrder>>

WritesChunk ==
    /\ producer = "writes"
    /\ \/ /\ TryWrite(taken)
          /\ taken' = 0
          /\ producer' = IF written + taken = FileSize THEN "returns" ELSE "reads"
          /\ UNCHANGED wire
       \/ /\ ~HasRoom(taken) /\ (broken \/ ~online)
          /\ producer' = "throws" /\ wire' = "closed" /\ taken' = 0
          /\ UNCHANGED <<data, begin, size, finished, broken, action, written>>
    /\ UNCHANGED <<closings, shell, online, inOrder>>

(* The coroutine's completion: what it threw becomes a failure of the buffer. *)
Finishes ==
    /\ producer \in {"returns", "throws"}
    /\ Finish(producer = "returns")
    /\ producer' = "over"
    /\ wire' = IF wire = "receiving" THEN "idle" ELSE wire
    /\ UNCHANGED <<taken, written, closings, shell, online, inOrder>>

(* TransferChannel::Disconnect, posted by the cancel action or by the end of the session. *)
ChannelCloses ==
    /\ wire # "closed" /\ (closings > 0 \/ ~online)
    /\ wire' = "closed"
    /\ UNCHANGED <<ring, finished, broken, action, producer, taken, written, closings, shell, online, inOrder>>

-------------------------------------------------------------------------------
(* The shell's thread. *)

(* The first Read makes the buffer, then puts it where ExportState::Cancel finds it. *)
StreamExportFile ==
    /\ stream = "unopened" /\ ~cancelled
    /\ stream' = "opened" /\ producer' = "starts"
    /\ UNCHANGED <<ring, finished, broken, action, taken, written, wire, closings, registered, cancelled, position,
                   online, inOrder>>

Register ==
    /\ stream = "opened"
    /\ stream' = "open" /\ registered' = TRUE
    /\ IF cancelled THEN Cancel ELSE UNCHANGED <<finished, broken, size, action, closings>>
    /\ UNCHANGED <<data, begin, producer, taken, written, wire, cancelled, position, online, inOrder>>

(* One pass of the loop of RemoteFileStream::Read; without a byte for 30 s it gives up. *)
Read(asked) ==
    LET count == Smaller(asked, size)
        ended == finished /\ size = count
        fails == broken \/ cancelled \/ (ended /\ position + count # FileSize)
    IN  /\ stream = "open"
        /\ TakesOut(count)
        /\ \/ fails /\ stream' = "failed"
           \/ ~fails /\ ended /\ stream' = "ended"
           \/ ~fails /\ ~ended /\ online /\ stream' = "open"
           \/ ~fails /\ ~ended /\ (~online \/ count = 0) /\ stream' = "failed"
        /\ UNCHANGED <<data, finished, broken, action, producer, taken, written, wire, closings, registered,
                       cancelled, online>>

(* Fail, a drag that is given up, or the stream released before its end. *)
ExportCancel ==
    /\ \/ stream = "failed" /\ stream' = "released"
       \/ stream \in {"unopened", "opened", "open"} /\ UNCHANGED stream
       \/ stream = "open" /\ position < FileSize /\ stream' = "released"
    /\ cancelled' = TRUE
    /\ IF registered THEN Cancel ELSE UNCHANGED <<finished, broken, size, action, closings>>
    /\ UNCHANGED <<data, begin, producer, taken, written, wire, registered, position, online, inOrder>>

LinkLost ==
    /\ online /\ online' = FALSE
    /\ UNCHANGED <<ring, finished, broken, action, producer, taken, written, wire, closings, shell, inOrder>>

-------------------------------------------------------------------------------

Next ==
    \/ StartsToAsk \/ Answered \/ ChecksSize \/ ReceivesHeader \/ ReadsChunk \/ WritesChunk \/ Finishes
    \/ ChannelCloses \/ StreamExportFile \/ Register \/ ExportCancel \/ LinkLost
    \/ \E asked \in 1 .. MaxAsked : Read(asked)

Spec == Init /\ [][Next]_exportVars

-------------------------------------------------------------------------------

(* What the shell reads is the file from its start, each byte once and in order, however *)
(* the two threads interleave and wherever the ring wraps.  A stream that ends well has    *)
(* delivered the whole file.  And whoever gives the export up, the phone is stopped once:  *)
(* the channel is closed once if it was assigned before the file was all received.         *)
InOrder    == inOrder
WholeFile  == stream = "ended" => position = FileSize
ClosedOnce == closings <= 1 /\ (broken /\ producer \in {"header", "reads", "writes"} => closings = 1)

ExportIsFaithful == InOrder /\ WholeFile /\ ClosedOnce

===============================================================================
