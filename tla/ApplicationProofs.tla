--------------------------- MODULE ApplicationProofs ----------------------------
(***************************************************************************)
(* Proofs about components of MCApplications: the two ring buffers, that   *)
(* of an exported file (RemoteFileBuffer, FileExport.tla), whose two sides *)
(* share a mutex, and that of the virtual microphone (VMicAPI.cpp,         *)
(* VirtualMicrophone.tla), whose two sides share nothing but their heads;  *)
(* and the cryptographic identity (Identity.tla).                          *)
(***************************************************************************)
EXTENDS FileExport, VirtualMicrophone, Identity, TLAPS

(***************************************************************************)
(* ExportIsFaithful for every capacity, file, chunk and size of reads.     *)
(* What the ring holds is, round its end, the bytes written and not yet    *)
(* read: the invariant Held.  The rest follows who may have run the cancel *)
(* action by where the producer is.                                        *)
(***************************************************************************)

(* The bytes held are the next ones of the file. *)
RingHeld == \A k \in 0 .. size - 1 : data[(begin + k) % Capacity] = position + k + 1

Held ==
    /\ ~broken => written = position + size
    /\ position <= written
    /\ RingHeld
    /\ producer = "writes" => written + taken <= FileSize

(* Who has run the cancel action, or still may. *)
Closing ==
    /\ closings \in 0 .. 1
    /\ action => closings = 0 /\ ~finished
    /\ broken => size = 0 /\ ~action /\ finished
    /\ producer \in {"none", "starts", "asks"} => closings = 0 /\ ~action
    /\ producer \notin {"over"} => (finished => broken)
    /\ producer \in {"assigned", "header", "reads", "writes"} =>
          IF broken THEN closings = 1 ELSE action
    /\ producer = "over" => finished
    /\ stream = "unopened" => producer = "none"

ExportIInv == TypeOK /\ Held /\ Closing /\ ExportIsFaithful

-------------------------------------------------------------------------------
(* The ring. *)

LEMMA Wraps ==
    ASSUME NEW x \in 0 .. 2 * Capacity - 1
    PROVE  x % Capacity = IF x < Capacity THEN x ELSE x - Capacity
  BY SizesAssumption, SMT

(* Where the k-th byte from `begin` is, with and without the wrap. *)
LEMMA CellOf ==
    ASSUME begin \in Cells, NEW k \in 0 .. Capacity - 1
    PROVE  /\ (begin + k) % Capacity = IF begin + k < Capacity THEN begin + k ELSE begin + k - Capacity
           /\ (begin + k) % Capacity \in Cells
  <1>1. begin + k \in 0 .. 2 * Capacity - 1
    BY SizesAssumption DEF Cells
  <1> QED
    BY <1>1, Wraps, SizesAssumption DEF Cells

(* A read copies, in two pieces, what is held at its places. *)
LEMMA ReadsWhatIsHeld ==
    ASSUME begin \in Cells, size \in 0 .. Capacity, NEW count \in 0 .. size, NEW k \in 0 .. count - 1
    PROVE  ReadByte(count, k) = data[(begin + k) % Capacity]
  <1>1. (begin + k) % Capacity = IF begin + k < Capacity THEN begin + k ELSE begin + k - Capacity
    BY CellOf, SizesAssumption
  <1>2. CASE begin + k < Capacity
    BY <1>1, <1>2, SizesAssumption DEF ReadByte, Smaller, Cells
  <1>3. CASE ~(begin + k < Capacity)
    BY <1>1, <1>3, SizesAssumption DEF ReadByte, Smaller, Cells
  <1> QED
    BY <1>2, <1>3

(* A write leaves what is held where it is and puts the new bytes behind it. *)
LEMMA WritesBehind ==
    ASSUME begin \in Cells, size \in 0 .. Capacity, written \in Nat,
           NEW n \in Nat, n <= Capacity - size, NEW k \in 0 .. size + n - 1
    PROVE  Written(n)[(begin + k) % Capacity] =
              IF k < size THEN data[(begin + k) % Capacity] ELSE written + (k - size) + 1
  <1> DEFINE tail == (begin + size) % Capacity
             first == Smaller(n, Capacity - tail)
             c == (begin + k) % Capacity
  <1>1. /\ c = IF begin + k < Capacity THEN begin + k ELSE begin + k - Capacity
        /\ c \in Cells
    BY CellOf, SizesAssumption
  <1>2. tail = IF begin + size < Capacity THEN begin + size ELSE begin + size - Capacity
    BY Wraps, SizesAssumption DEF Cells
  <1>3. Written(n)[c] = IF tail <= c /\ c < tail + first THEN written + (c - tail) + 1
                        ELSE IF c < n - first THEN written + first + c + 1 ELSE data[c]
    BY <1>1 DEF Written
  <1>4. first = IF n < Capacity - tail THEN n ELSE Capacity - tail
    BY DEF Smaller
  <1> HIDE DEF tail, first, c
  <1>5. CASE k < size
    BY <1>1, <1>2, <1>3, <1>4, <1>5, SizesAssumption DEF Cells, c
  <1>6. CASE ~(k < size)
    <2>1. k - size \in 0 .. n - 1
      BY <1>6, SizesAssumption
    <2>2. CASE k - size < Capacity - tail
      <3>1. c = tail + (k - size)
        BY <1>1, <1>2, <1>6, <2>1, <2>2, SizesAssumption DEF Cells, c
      <3> QED
        BY <1>2, <1>3, <1>4, <1>6, <2>1, <2>2, <3>1, SizesAssumption DEF Cells
    <2>3. CASE ~(k - size < Capacity - tail)
      <3>1. c = (k - size) - (Capacity - tail) /\ first = Capacity - tail
        BY <1>1, <1>2, <1>4, <1>6, <2>1, <2>3, SizesAssumption DEF Cells, c
      <3>2. c < tail /\ c < n - first
        BY <1>2, <2>1, <2>3, <3>1, SizesAssumption DEF Cells
      <3> QED
        BY <1>2, <1>3, <1>6, <2>1, <2>3, <3>1, <3>2, SizesAssumption DEF Cells
    <2> QED
      BY <2>2, <2>3
  <1> QED
    BY <1>5, <1>6 DEF c

LEMMA BeginStays ==
    ASSUME begin \in Cells, size \in 0 .. Capacity, NEW count \in 0 .. size
    PROVE  (begin + count) % Capacity \in Cells
  <1>1. (begin + count) % Capacity = IF begin + count < Capacity THEN begin + count ELSE begin + count - Capacity
    BY Wraps, SizesAssumption DEF Cells
  <1> QED
    BY <1>1, SizesAssumption DEF Cells

(* After a read the next bytes are where the ring now begins. *)
LEMMA BeginMoves ==
    ASSUME begin \in Cells, size \in 0 .. Capacity, NEW count \in 0 .. size, NEW k \in 0 .. size - count - 1
    PROVE  /\ (begin + count) % Capacity \in Cells
           /\ (((begin + count) % Capacity) + k) % Capacity = (begin + (count + k)) % Capacity
  <1>1. (begin + count) % Capacity = IF begin + count < Capacity THEN begin + count ELSE begin + count - Capacity
    BY Wraps, SizesAssumption DEF Cells
  <1>2. (begin + (count + k)) % Capacity
           = IF begin + (count + k) < Capacity THEN begin + (count + k) ELSE begin + (count + k) - Capacity
    BY Wraps, SizesAssumption DEF Cells
  <1>3. (begin + count) % Capacity \in Cells
    BY <1>1, SizesAssumption DEF Cells
  <1>4. (((begin + count) % Capacity) + k) % Capacity
           = IF ((begin + count) % Capacity) + k < Capacity THEN ((begin + count) % Capacity) + k
             ELSE ((begin + count) % Capacity) + k - Capacity
    BY <1>3, Wraps, SizesAssumption DEF Cells
  <1> QED
    BY <1>1, <1>2, <1>3, <1>4, SizesAssumption DEF Cells

-------------------------------------------------------------------------------

LEMMA ExportInitHolds == Init => ExportIInv
  <1> SUFFICES ASSUME Init PROVE ExportIInv
    OBVIOUS
  <1>1. data \in [Cells -> 0 .. FileSize] /\ begin \in Cells /\ size \in 0 .. Capacity
    BY SizesAssumption DEF Init, Cells
  <1>2. taken \in 0 .. Chunk /\ written \in 0 .. FileSize /\ closings \in Nat /\ position \in 0 .. FileSize
    BY SizesAssumption DEF Init
  <1>3. TypeOK
    BY <1>1, <1>2 DEF Init, TypeOK
  <1>4. Held /\ Closing /\ ExportIsFaithful
    BY SizesAssumption DEF Init, Held, RingHeld, Closing, ExportIsFaithful, InOrder, WholeFile, ClosedOnce
  <1> QED
    BY <1>3, <1>4 DEF ExportIInv

(* A step that leaves the ring as it is, or empties it, leaves the rest in its place. *)
LEMMA RingKept ==
    ASSUME RingHeld, UNCHANGED <<data, begin, position>>, size' = size \/ size' = 0
    PROVE  RingHeld'
  BY DEF RingHeld

LEMMA CancelKeeps ==
    ASSUME TypeOK, Closing, Cancel
    PROVE  /\ finished' = TRUE /\ broken' \in BOOLEAN /\ size' \in 0 .. Capacity /\ action' \in BOOLEAN
           /\ closings' \in 0 .. 1 /\ (action' => closings' = 0 /\ ~finished')
           /\ size' = size \/ size' = 0
           /\ (~broken' => ~broken /\ size' = size)
           /\ (broken' => size' = 0 /\ ~action')
           /\ closings' = IF action /\ (~finished \/ broken) THEN closings + 1 ELSE closings
           /\ (~finished => broken')
           /\ (broken => broken' /\ closings' = closings)
  <1>1. CASE finished /\ ~broken
    BY <1>1, SizesAssumption DEF Cancel, TypeOK, Closing
  <1>2. CASE ~(finished /\ ~broken)
    <2>1. finished' = TRUE /\ broken' = TRUE /\ size' = 0 /\ action' = FALSE
      BY <1>2 DEF Cancel
    <2>2. closings' = IF action THEN closings + 1 ELSE closings
      BY <1>2 DEF Cancel
    <2>3. closings' \in 0 .. 1 /\ (broken => closings' = closings)
      BY <2>2 DEF Closing
    <2>4. size' \in 0 .. Capacity
      BY <2>1, SizesAssumption
    <2>5. (~finished \/ broken) /\ (~broken' => size' = size)
      BY <1>2, <2>1
    <2> QED
      BY <2>1, <2>2, <2>3, <2>4, <2>5
  <1> QED
    BY <1>1, <1>2

LEMMA FinishKeeps ==
    ASSUME TypeOK, Closing, NEW success \in BOOLEAN, Finish(success)
    PROVE  /\ finished' = TRUE /\ broken' \in BOOLEAN /\ action' = FALSE /\ size' \in 0 .. Capacity
           /\ size' = size \/ size' = 0
           /\ (~broken' => ~broken /\ size' = size)
           /\ (broken' => size' = 0)
           /\ UNCHANGED <<data, begin>>
  <1>1. finished' = TRUE /\ action' = FALSE /\ UNCHANGED <<data, begin>>
    BY DEF Finish
  <1>2. CASE broken \/ ~success
    <2>1. broken' = TRUE
      BY <1>2, Zenon DEF Finish
    <2>2. size' = 0
      BY <1>2 DEF Finish
    <2> QED
      BY <1>1, <2>1, <2>2, SizesAssumption
  <1>3. CASE ~(broken \/ ~success)
    <2>1. broken' = FALSE /\ size' = size
      BY <1>3 DEF Finish
    <2> QED
      BY <1>1, <1>3, <2>1 DEF TypeOK
  <1> QED
    BY <1>2, <1>3

-------------------------------------------------------------------------------
(* The steps that leave the ring as it is, or empty it. *)

LEMMA StartsToAskKeeps ==
    ASSUME ExportIInv, StartsToAsk
    PROVE  ExportIInv'
  <1> USE SizesAssumption DEF ExportIInv, ring, shell
  <1>1. TypeOK'
    BY SMT DEF StartsToAsk, TypeOK
  <1>2. RingHeld'
    BY RingKept DEF StartsToAsk, Held
  <1>3. Held'
    BY <1>1, <1>2 DEF StartsToAsk, Held, TypeOK, Closing
  <1>4. Closing'
    BY SMT DEF StartsToAsk, Closing, TypeOK
  <1>5. ExportIsFaithful'
    BY <1>4 DEF StartsToAsk, ExportIsFaithful, InOrder, WholeFile, ClosedOnce, Closing
  <1> QED
    BY <1>1, <1>3, <1>4, <1>5

LEMMA AnsweredKeeps ==
    ASSUME ExportIInv, Answered
    PROVE  ExportIInv'
  <1> USE SizesAssumption DEF ExportIInv, ring, shell
  <1>1. TypeOK'
    BY SMT DEF Answered, SetCancelAction, TypeOK
  <1>2. RingHeld'
    BY RingKept DEF Answered, SetCancelAction, Held
  <1>3. Held'
    BY <1>1, <1>2 DEF Answered, SetCancelAction, Held, TypeOK, Closing
  <1>4. Closing'
    BY SMT DEF Answered, SetCancelAction, Closing, TypeOK
  <1>5. ExportIsFaithful'
    BY <1>4 DEF Answered, SetCancelAction, ExportIsFaithful, InOrder, WholeFile, ClosedOnce, Closing
  <1> QED
    BY <1>1, <1>3, <1>4, <1>5

LEMMA ChecksSizeKeeps ==
    ASSUME ExportIInv, ChecksSize
    PROVE  ExportIInv'
  <1> USE SizesAssumption DEF ExportIInv, ring, shell
  <1>0. Cancel \/ UNCHANGED <<finished, broken, size, action, closings>>
    BY DEF ChecksSize
  <1>1. TypeOK'
    <2>1. data' \in [Cells -> 0 .. FileSize] /\ begin' \in Cells /\ size' \in 0 .. Capacity
      BY <1>0, CancelKeeps DEF ChecksSize, TypeOK
    <2>2. finished' \in BOOLEAN /\ broken' \in BOOLEAN /\ action' \in BOOLEAN
      <3>1. CASE Cancel
        BY <3>1, CancelKeeps
      <3>2. CASE UNCHANGED <<finished, broken, size, action, closings>>
        BY <3>2 DEF TypeOK
      <3> QED
        BY <1>0, <3>1, <3>2
    <2>5. registered' \in BOOLEAN /\ cancelled' \in BOOLEAN
      BY Zenon DEF ChecksSize, TypeOK
    <2>6. online' \in BOOLEAN /\ inOrder' \in BOOLEAN
      BY Zenon DEF ChecksSize, TypeOK
    <2>3. taken' \in 0 .. Chunk /\ written' \in 0 .. FileSize /\ position' \in 0 .. FileSize
      BY DEF ChecksSize, TypeOK
    <2>7. closings' \in Nat
      <3>1. CASE Cancel
        <4>1. closings' \in 0 .. 1
          BY <3>1, CancelKeeps
        <4> QED
          BY <4>1
      <3>2. CASE UNCHANGED <<finished, broken, size, action, closings>>
        BY <3>2 DEF TypeOK
      <3> QED
        BY <1>0, <3>1, <3>2
    <2>4. /\ producer' \in {"none", "starts", "asks", "assigned", "header", "reads", "writes", "returns", "throws", "over"}
          /\ wire' \in {"idle", "receiving", "closed"}
          /\ stream' \in {"unopened", "opened", "open", "ended", "failed", "released"}
      <3>1. producer' \in {"none", "starts", "asks", "assigned", "header", "reads", "writes", "returns", "throws", "over"}
        BY DEF ChecksSize, TypeOK
      <3>2. wire' \in {"idle", "receiving", "closed"}
        BY DEF ChecksSize, TypeOK
      <3>3. stream' \in {"unopened", "opened", "open", "ended", "failed", "released"}
        BY DEF ChecksSize, TypeOK
      <3> QED
        BY <3>1, <3>2, <3>3
    <2> QED
      BY <2>1, <2>2, <2>3, <2>4, <2>5, <2>6, <2>7 DEF TypeOK
  <1>2. RingHeld'
    BY <1>0, CancelKeeps, RingKept DEF ChecksSize, Held
  <1>3. Held'
    BY <1>0, CancelKeeps, <1>1, <1>2 DEF ChecksSize, Held, TypeOK, Closing
  <1>4. Closing'
    <2>1. CASE Cancel
      BY <2>1, CancelKeeps DEF ChecksSize, Closing, TypeOK
    <2>2. CASE UNCHANGED <<finished, broken, size, action, closings>>
      BY <2>2 DEF ChecksSize, Closing, TypeOK
    <2> QED
      BY <1>0, <2>1, <2>2
  <1>5. ExportIsFaithful'
    BY <1>0, CancelKeeps, <1>4 DEF ChecksSize, ExportIsFaithful, InOrder, WholeFile, ClosedOnce, Closing
  <1> QED
    BY <1>1, <1>3, <1>4, <1>5

LEMMA ReceivesHeaderKeeps ==
    ASSUME ExportIInv, ReceivesHeader
    PROVE  ExportIInv'
  <1> USE SizesAssumption DEF ExportIInv, ring, shell
  <1>1. TypeOK'
    BY SMT DEF ReceivesHeader, TypeOK
  <1>2. RingHeld'
    BY RingKept DEF ReceivesHeader, Held
  <1>3. Held'
    BY <1>1, <1>2 DEF ReceivesHeader, Held, TypeOK, Closing
  <1>4. Closing'
    BY SMT DEF ReceivesHeader, Closing, TypeOK
  <1>5. ExportIsFaithful'
    BY <1>4 DEF ReceivesHeader, ExportIsFaithful, InOrder, WholeFile, ClosedOnce, Closing
  <1> QED
    BY <1>1, <1>3, <1>4, <1>5

LEMMA ReadsChunkKeeps ==
    ASSUME ExportIInv, ReadsChunk
    PROVE  ExportIInv'
  <1> USE SizesAssumption DEF ExportIInv, ring, shell
  <1>1. TypeOK'
    BY SMT DEF ReadsChunk, Smaller, TypeOK
  <1>2. RingHeld'
    BY RingKept DEF ReadsChunk, Held
  <1>3. Held'
    <2>1. ASSUME producer' = "writes"
          PROVE  written' + taken' <= FileSize
      <3>1. taken' = Smaller(Chunk, FileSize - written) /\ written' = written
        BY <2>1 DEF ReadsChunk
      <3>2. written \in Nat /\ written <= FileSize
        BY DEF TypeOK
      <3> QED
        BY <3>1, <3>2 DEF Smaller
    <2>2. position' <= written' /\ (~broken' => written' = position' + size')
      BY DEF ReadsChunk, Held
    <2> QED
      BY <1>2, <2>1, <2>2 DEF Held
  <1>4. Closing'
    BY SMT DEF ReadsChunk, Closing, TypeOK
  <1>5. ExportIsFaithful'
    BY <1>4 DEF ReadsChunk, ExportIsFaithful, InOrder, WholeFile, ClosedOnce, Closing
  <1> QED
    BY <1>1, <1>3, <1>4, <1>5

LEMMA FinishesKeeps ==
    ASSUME ExportIInv, Finishes
    PROVE  ExportIInv'
  <1> USE SizesAssumption DEF ExportIInv, ring, shell
  <1>0. /\ finished' = TRUE /\ broken' \in BOOLEAN /\ action' = FALSE /\ size' \in 0 .. Capacity
        /\ size' = size \/ size' = 0
        /\ (~broken' => ~broken /\ size' = size)
        /\ (broken' => size' = 0)
        /\ UNCHANGED <<data, begin>>
    BY FinishKeeps DEF Finishes
  <1>1. TypeOK'
    BY <1>0 DEF Finishes, TypeOK
  <1>2. RingHeld'
    BY <1>0, RingKept DEF Finishes, Held
  <1>3. Held'
    BY <1>0, <1>1, <1>2 DEF Finishes, Held, TypeOK, Closing
  <1>4. Closing'
    BY <1>0 DEF Finishes, Closing, TypeOK
  <1>5. ExportIsFaithful'
    BY <1>0, <1>4 DEF Finishes, ExportIsFaithful, InOrder, WholeFile, ClosedOnce, Closing
  <1> QED
    BY <1>1, <1>3, <1>4, <1>5

LEMMA ChannelClosesKeeps ==
    ASSUME ExportIInv, ChannelCloses
    PROVE  ExportIInv'
  <1> USE SizesAssumption DEF ExportIInv, ring, shell
  <1>1. TypeOK'
    BY SMT DEF ChannelCloses, TypeOK
  <1>2. RingHeld'
    BY RingKept DEF ChannelCloses, Held
  <1>3. Held'
    BY <1>1, <1>2 DEF ChannelCloses, Held, TypeOK, Closing
  <1>4. Closing'
    BY SMT DEF ChannelCloses, Closing, TypeOK
  <1>5. ExportIsFaithful'
    BY <1>4 DEF ChannelCloses, ExportIsFaithful, InOrder, WholeFile, ClosedOnce, Closing
  <1> QED
    BY <1>1, <1>3, <1>4, <1>5

LEMMA StreamExportFileKeeps ==
    ASSUME ExportIInv, StreamExportFile
    PROVE  ExportIInv'
  <1> USE SizesAssumption DEF ExportIInv, ring, shell
  <1>1. TypeOK'
    BY SMT DEF StreamExportFile, TypeOK
  <1>2. RingHeld'
    BY RingKept DEF StreamExportFile, Held
  <1>3. Held'
    BY <1>1, <1>2 DEF StreamExportFile, Held, TypeOK, Closing
  <1>4. Closing'
    BY SMT DEF StreamExportFile, Closing, TypeOK
  <1>5. ExportIsFaithful'
    BY <1>4 DEF StreamExportFile, ExportIsFaithful, InOrder, WholeFile, ClosedOnce, Closing
  <1> QED
    BY <1>1, <1>3, <1>4, <1>5

LEMMA RegisterKeeps ==
    ASSUME ExportIInv, Register
    PROVE  ExportIInv'
  <1> USE SizesAssumption DEF ExportIInv, ring, shell
  <1>0. Cancel \/ UNCHANGED <<finished, broken, size, action, closings>>
    BY DEF Register
  <1>1. TypeOK'
    <2>1. data' \in [Cells -> 0 .. FileSize] /\ begin' \in Cells /\ size' \in 0 .. Capacity
      BY <1>0, CancelKeeps DEF Register, TypeOK
    <2>2. finished' \in BOOLEAN /\ broken' \in BOOLEAN /\ action' \in BOOLEAN
      <3>1. CASE Cancel
        BY <3>1, CancelKeeps
      <3>2. CASE UNCHANGED <<finished, broken, size, action, closings>>
        BY <3>2 DEF TypeOK
      <3> QED
        BY <1>0, <3>1, <3>2
    <2>5. registered' \in BOOLEAN /\ cancelled' \in BOOLEAN
      BY Zenon DEF Register, TypeOK
    <2>6. online' \in BOOLEAN /\ inOrder' \in BOOLEAN
      BY Zenon DEF Register, TypeOK
    <2>3. taken' \in 0 .. Chunk /\ written' \in 0 .. FileSize /\ position' \in 0 .. FileSize
      BY DEF Register, TypeOK
    <2>7. closings' \in Nat
      <3>1. CASE Cancel
        <4>1. closings' \in 0 .. 1
          BY <3>1, CancelKeeps
        <4> QED
          BY <4>1
      <3>2. CASE UNCHANGED <<finished, broken, size, action, closings>>
        BY <3>2 DEF TypeOK
      <3> QED
        BY <1>0, <3>1, <3>2
    <2>4. /\ producer' \in {"none", "starts", "asks", "assigned", "header", "reads", "writes", "returns", "throws", "over"}
          /\ wire' \in {"idle", "receiving", "closed"}
          /\ stream' \in {"unopened", "opened", "open", "ended", "failed", "released"}
      BY DEF Register, TypeOK
    <2> QED
      BY <2>1, <2>2, <2>3, <2>4, <2>5, <2>6, <2>7 DEF TypeOK
  <1>2. RingHeld'
    BY <1>0, CancelKeeps, RingKept DEF Register, Held
  <1>3. Held'
    BY <1>0, CancelKeeps, <1>1, <1>2 DEF Register, Held, TypeOK, Closing
  <1>4. Closing'
    <2>1. CASE Cancel
      <3>1. /\ finished' = TRUE /\ closings' \in 0 .. 1 /\ (action' => closings' = 0 /\ ~finished')
            /\ (broken' => size' = 0 /\ ~action') /\ (~finished => broken')
            /\ closings' = IF action /\ (~finished \/ broken) THEN closings + 1 ELSE closings
            /\ (broken => broken' /\ closings' = closings)
        BY <2>1, CancelKeeps
      <3>2. producer' = producer /\ (stream' = "unopened" => stream = "unopened")
        BY DEF Register
      <3>3. producer \in {"none", "starts", "asks"} => closings' = 0 /\ ~action'
        BY <3>1 DEF Closing
      <3>4. producer \notin {"over"} => broken'
        BY <2>1, <3>1 DEF Closing, Cancel
      <3>5. producer \in {"assigned", "header", "reads", "writes"} => broken' /\ closings' = 1
        BY <3>1, <3>4 DEF Closing
      <3> QED
        BY <3>1, <3>2, <3>3, <3>4, <3>5 DEF Closing
    <2>2. CASE UNCHANGED <<finished, broken, size, action, closings>>
      BY <2>2 DEF Register, Closing, TypeOK
    <2> QED
      BY <1>0, <2>1, <2>2
  <1>5. ExportIsFaithful'
    BY <1>0, CancelKeeps, <1>4 DEF Register, ExportIsFaithful, InOrder, WholeFile, ClosedOnce, Closing
  <1> QED
    BY <1>1, <1>3, <1>4, <1>5

LEMMA ExportCancelKeeps ==
    ASSUME ExportIInv, ExportCancel
    PROVE  ExportIInv'
  <1> USE SizesAssumption DEF ExportIInv, ring, shell
  <1>0. Cancel \/ UNCHANGED <<finished, broken, size, action, closings>>
    BY DEF ExportCancel
  <1>1. TypeOK'
    <2>1. data' \in [Cells -> 0 .. FileSize] /\ begin' \in Cells /\ size' \in 0 .. Capacity
      BY <1>0, CancelKeeps DEF ExportCancel, TypeOK
    <2>2. finished' \in BOOLEAN /\ broken' \in BOOLEAN /\ action' \in BOOLEAN
      <3>1. CASE Cancel
        BY <3>1, CancelKeeps
      <3>2. CASE UNCHANGED <<finished, broken, size, action, closings>>
        BY <3>2 DEF TypeOK
      <3> QED
        BY <1>0, <3>1, <3>2
    <2>5. registered' \in BOOLEAN /\ cancelled' \in BOOLEAN
      BY Zenon DEF ExportCancel, TypeOK
    <2>6. online' \in BOOLEAN /\ inOrder' \in BOOLEAN
      BY Zenon DEF ExportCancel, TypeOK
    <2>3. taken' \in 0 .. Chunk /\ written' \in 0 .. FileSize /\ position' \in 0 .. FileSize
      BY DEF ExportCancel, TypeOK
    <2>7. closings' \in Nat
      <3>1. CASE Cancel
        <4>1. closings' \in 0 .. 1
          BY <3>1, CancelKeeps
        <4> QED
          BY <4>1
      <3>2. CASE UNCHANGED <<finished, broken, size, action, closings>>
        BY <3>2 DEF TypeOK
      <3> QED
        BY <1>0, <3>1, <3>2
    <2>4. /\ producer' \in {"none", "starts", "asks", "assigned", "header", "reads", "writes", "returns", "throws", "over"}
          /\ wire' \in {"idle", "receiving", "closed"}
          /\ stream' \in {"unopened", "opened", "open", "ended", "failed", "released"}
      BY DEF ExportCancel, TypeOK
    <2> QED
      BY <2>1, <2>2, <2>3, <2>4, <2>5, <2>6, <2>7 DEF TypeOK
  <1>2. RingHeld'
    BY <1>0, CancelKeeps, RingKept DEF ExportCancel, Held
  <1>3. Held'
    BY <1>0, CancelKeeps, <1>1, <1>2 DEF ExportCancel, Held, TypeOK, Closing
  <1>4. Closing'
    <2>1. CASE Cancel
      <3>1. /\ finished' = TRUE /\ closings' \in 0 .. 1 /\ (action' => closings' = 0 /\ ~finished')
            /\ (broken' => size' = 0 /\ ~action') /\ (~finished => broken')
            /\ closings' = IF action /\ (~finished \/ broken) THEN closings + 1 ELSE closings
            /\ (broken => broken' /\ closings' = closings)
        BY <2>1, CancelKeeps
      <3>2. producer' = producer /\ (stream' = "unopened" => stream = "unopened")
        BY DEF ExportCancel
      <3>3. producer \in {"none", "starts", "asks"} => closings' = 0 /\ ~action'
        BY <3>1 DEF Closing
      <3>4. producer \notin {"over"} => broken'
        BY <2>1, <3>1 DEF Closing, Cancel
      <3>5. producer \in {"assigned", "header", "reads", "writes"} => broken' /\ closings' = 1
        BY <3>1, <3>4 DEF Closing
      <3> QED
        BY <3>1, <3>2, <3>3, <3>4, <3>5 DEF Closing
    <2>2. CASE UNCHANGED <<finished, broken, size, action, closings>>
      BY <2>2 DEF ExportCancel, Closing, TypeOK
    <2> QED
      BY <1>0, <2>1, <2>2
  <1>5. ExportIsFaithful'
    BY <1>0, CancelKeeps, <1>4 DEF ExportCancel, ExportIsFaithful, InOrder, WholeFile, ClosedOnce, Closing
  <1> QED
    BY <1>1, <1>3, <1>4, <1>5

LEMMA LinkLostKeeps ==
    ASSUME ExportIInv, LinkLost
    PROVE  ExportIInv'
  <1> USE SizesAssumption DEF ExportIInv, ring, shell
  <1>1. TypeOK'
    <2>1. data' \in [Cells -> 0 .. FileSize] /\ begin' \in Cells /\ size' \in 0 .. Capacity
      BY SMT DEF LinkLost, TypeOK
    <2>2. finished' \in BOOLEAN /\ broken' \in BOOLEAN /\ action' \in BOOLEAN
      BY Zenon DEF LinkLost, TypeOK
    <2>5. registered' \in BOOLEAN /\ cancelled' \in BOOLEAN
      BY Zenon DEF LinkLost, TypeOK
    <2>6. online' \in BOOLEAN /\ inOrder' \in BOOLEAN
      BY Zenon DEF LinkLost, TypeOK
    <2>3. taken' \in 0 .. Chunk /\ written' \in 0 .. FileSize /\ closings' \in Nat /\ position' \in 0 .. FileSize
      BY SMT DEF LinkLost, TypeOK
    <2>4. /\ producer' \in {"none", "starts", "asks", "assigned", "header", "reads", "writes", "returns", "throws", "over"}
          /\ wire' \in {"idle", "receiving", "closed"}
          /\ stream' \in {"unopened", "opened", "open", "ended", "failed", "released"}
      BY SMT DEF LinkLost, TypeOK
    <2> QED
      BY <2>1, <2>2, <2>3, <2>4, <2>5, <2>6 DEF TypeOK
  <1>2. RingHeld'
    BY RingKept DEF LinkLost, Held
  <1>3. Held'
    BY <1>1, <1>2 DEF LinkLost, Held, TypeOK, Closing
  <1>4. Closing'
    BY SMT DEF LinkLost, Closing, TypeOK
  <1>5. ExportIsFaithful'
    BY <1>4 DEF LinkLost, ExportIsFaithful, InOrder, WholeFile, ClosedOnce, Closing
  <1> QED
    BY <1>1, <1>3, <1>4, <1>5

LEMMA WriteStep ==
    ASSUME ExportIInv, WritesChunk
    PROVE  ExportIInv'
  <1> USE SizesAssumption DEF ExportIInv
  <1>1. CASE /\ TryWrite(taken) /\ taken' = 0
             /\ producer' = IF written + taken = FileSize THEN "returns" ELSE "reads"
             /\ UNCHANGED wire /\ UNCHANGED <<closings, shell, online, inOrder>>
    <2>1. taken \in Nat /\ taken <= Capacity - size /\ ~finished /\ ~broken
      BY <1>1 DEF TypeOK, TryWrite, HasRoom, Closing
    <2>2. \A k \in 0 .. size + taken - 1 :
             data'[(begin + k) % Capacity] = IF k < size THEN data[(begin + k) % Capacity]
                                             ELSE written + (k - size) + 1
      BY <1>1, <2>1, WritesBehind DEF TypeOK, TryWrite
    <2>3. Written(taken) \in [Cells -> 0 .. FileSize]
      BY <1>1, <2>1 DEF WritesChunk, Written, Smaller, TypeOK, Held, Cells
    <2>4. TypeOK'
      BY <1>1, <2>1, <2>3 DEF WritesChunk, TryWrite, TypeOK, Held, shell
    <2>5. Held'
      BY <1>1, <2>1, <2>2, <2>4 DEF WritesChunk, TryWrite, TypeOK, Held, RingHeld, shell
    <2>6. Closing' /\ ExportIsFaithful'
      BY <1>1, <2>1 DEF WritesChunk, TryWrite, TypeOK, Closing, ExportIsFaithful, InOrder, WholeFile, ClosedOnce, shell
    <2> QED
      BY <2>4, <2>5, <2>6
  <1>2. CASE /\ ~HasRoom(taken) /\ (broken \/ ~online)
             /\ producer' = "throws" /\ wire' = "closed" /\ taken' = 0
             /\ UNCHANGED <<data, begin, size, finished, broken, action, written>>
             /\ UNCHANGED <<closings, shell, online, inOrder>>
    BY <1>2 DEF WritesChunk, TypeOK, Held, RingHeld, Closing, ExportIsFaithful, InOrder, WholeFile, ClosedOnce, shell
  <1> QED
    BY <1>1, <1>2 DEF WritesChunk

LEMMA ReadStep ==
    ASSUME ExportIInv, NEW asked \in 1 .. MaxAsked, Read(asked)
    PROVE  ExportIInv'
  <1> USE SizesAssumption DEF ExportIInv
  <1> DEFINE count == Smaller(asked, size)
  <1>1. count \in 0 .. size
    BY DEF TypeOK, Smaller
  <1>2. /\ begin' = (begin + count) % Capacity /\ size' = size - count /\ position' = position + count
        /\ UNCHANGED <<data, finished, broken, action, producer, taken, written, wire, closings, registered, cancelled>>
        /\ UNCHANGED online
        /\ inOrder' = (inOrder /\ \A k \in 0 .. count - 1 : ReadByte(count, k) = position + k + 1)
        /\ stream' \in {"ended", "open", "failed"}
    BY DEF Read, TakesOut
  <1>3. stream' = "ended" => position + count = FileSize
    BY DEF Read
  <1>4. \A k \in 0 .. count - 1 : ReadByte(count, k) = position + k + 1
    BY <1>1, ReadsWhatIsHeld DEF TypeOK, Held, RingHeld
  <1>5. begin' \in Cells
    BY <1>1, <1>2, BeginStays DEF TypeOK
  <1>6. \A k \in 0 .. size' - 1 : data'[(begin' + k) % Capacity] = position' + k + 1
    <2> SUFFICES ASSUME NEW k \in 0 .. size - count - 1
                 PROVE  data[(((begin + count) % Capacity) + k) % Capacity] = position + count + k + 1
      BY <1>1, <1>2 DEF TypeOK
    <2>1. (((begin + count) % Capacity) + k) % Capacity = (begin + (count + k)) % Capacity
      BY <1>1, BeginMoves DEF TypeOK
    <2>2. count + k \in 0 .. size - 1
      BY <1>1 DEF TypeOK
    <2>3. data[(begin + (count + k)) % Capacity] = position + (count + k) + 1
      BY <2>2 DEF Held, RingHeld
    <2> QED
      BY <1>1, <2>1, <2>3 DEF TypeOK
  <1> HIDE DEF count
  <1>7. broken => count = 0
    BY <1>1 DEF Closing
  <1>8. position' \in 0 .. FileSize /\ position' <= written /\ (~broken => written = position' + size')
    BY <1>1, <1>2, <1>7 DEF TypeOK, Held
  <1>9. TypeOK'
    BY <1>1, <1>2, <1>5, <1>8 DEF TypeOK
  <1>10. Held'
    BY <1>2, <1>6, <1>8 DEF Held, RingHeld
  <1>11. Closing'
    BY <1>1, <1>2, <1>7 DEF Closing, TypeOK
  <1>12. ExportIsFaithful'
    BY <1>2, <1>3, <1>4 DEF ExportIsFaithful, InOrder, WholeFile, ClosedOnce
  <1> QED
    BY <1>9, <1>10, <1>11, <1>12

-------------------------------------------------------------------------------

LEMMA Inductive == Spec => []ExportIInv
  <1>1. ExportIInv /\ [Next]_exportVars => ExportIInv'
    <2> SUFFICES ASSUME ExportIInv, [Next]_exportVars PROVE ExportIInv'
      OBVIOUS
    <2>1. CASE Next
      BY <2>1, StartsToAskKeeps, AnsweredKeeps, ChecksSizeKeeps, ReceivesHeaderKeeps, ReadsChunkKeeps, FinishesKeeps,
         ChannelClosesKeeps, StreamExportFileKeeps, RegisterKeeps, ExportCancelKeeps, LinkLostKeeps, WriteStep, ReadStep DEF Next
    <2>2. CASE UNCHANGED exportVars
      BY <2>2 DEF ExportIInv, TypeOK, Held, RingHeld, Closing, ExportIsFaithful, InOrder, WholeFile, ClosedOnce, exportVars, ring, shell
    <2> QED
      BY <2>1, <2>2
  <1> QED
    BY <1>1, ExportInitHolds, PTL DEF Spec

(* Every state has its type. *)
THEOREM ExportIsTyped == Spec => []TypeOK
  <1>1. ExportIInv => TypeOK
    BY DEF ExportIInv
  <1> QED
    BY <1>1, Inductive, PTL

(* What another program gets of a dragged file is the file, whatever the sizes: its bytes in *)
(* order, all of them if the stream ends well, and the phone told once if it does not.       *)
THEOREM ExportsAreFaithful == Spec => []ExportIsFaithful
  <1>1. ExportIInv => ExportIsFaithful
    BY DEF ExportIInv
  <1> QED
    BY <1>1, Inductive, PTL

-------------------------------------------------------------------------------
(***************************************************************************)
(* HeardAsAccepted and UsedMeansOpen for every size of the ring, of the    *)
(* packets and of PipeWire's requests.  The two heads are numbers that are *)
(* never wrapped; what has to be carried is which places of the ring each  *)
(* side may touch between reading the other's head and storing its own.    *)
(***************************************************************************)

(* What VMic_PushSamples is doing: the frames it copies were accepted after *)
(* those the head counts, and had room when the heads were read.            *)
WriterHolds ==
    /\ writer.at = "copies" =>
          /\ writer.from = writeHead /\ writer.done <= writer.n
          /\ writeHead + writer.n - readHead <= RingFrames
          /\ Len(accepted) = writeHead + writer.n
    /\ writer.at # "copies" => Len(accepted) = writeHead

(* What onProcess is doing: the frames it copies are written. *)
ReaderHolds ==
    /\ reader.at = "copies" =>
          /\ reader.from = readHead /\ reader.done <= reader.n
          /\ readHead + reader.n <= writeHead
          /\ Len(heard) = readHead + reader.done
    /\ reader.at # "copies" => Len(heard) = readHead

(* How far the ring is filled, with what VMic_PushSamples has copied so far. *)
Filled == writeHead + (IF writer.at = "copies" THEN writer.done ELSE 0)

(* What was written and not yet read is still there. *)
RingHolds ==
    /\ readHead <= writeHead /\ writeHead - readHead <= RingFrames
    /\ \A p \in readHead .. Filled - 1 : sounds[At(p)] = accepted[p + 1]

(* Without a device there is no stream. *)
NoStreamWithoutDevice ==
    /\ open = 0 => reader.at = "none" /\ writer.at = "none"
    /\ hurt => open = 0

MicIInv ==
    /\ MicTypeOK /\ UsedMeansOpen /\ NoStreamWithoutDevice
    /\ ~hurt => WriterHolds /\ ReaderHolds /\ RingHolds
    /\ HeardAsAccepted

-------------------------------------------------------------------------------
(* Places of the ring. *)

(* Two positions closer than the ring is long have different places in it. *)
LEMMA PlacesDiffer ==
    ASSUME NEW p \in Nat, NEW q \in Nat, p < q, q - p < RingFrames
    PROVE  At(p) # At(q)
  <1> DEFINE r == RingFrames
  <1>1. r \in Nat /\ r > 0
    BY MicrophoneBounds
  <1>2. /\ p = r * (p \div r) + (p % r) /\ p \div r \in Nat
        /\ q = r * (q \div r) + (q % r) /\ q \div r \in Nat
    BY <1>1, SMT
  <1> DEFINE a == p \div r  b == q \div r  c == p % r
  <1>3. SUFFICES ASSUME p % r = q % r PROVE FALSE
    BY DEF At
  <1>4. a \in Nat /\ b \in Nat /\ c \in Int /\ p = r * a + c /\ q = r * b + c
    BY <1>1, <1>2, <1>3, SMT
  <1> HIDE DEF a, b, c, r
  <1>5. b - a \in Int /\ q - p = r * (b - a)
    BY <1>1, <1>4, SMT
  <1>6. CASE b - a >= 1
    <2>1. r * (b - a) >= r
      BY <1>1, <1>5, <1>6, SMT
    <2> QED
      BY <2>1, <1>5, <1>1 DEF r
  <1>7. CASE b - a <= 0
    <2>1. r * (b - a) <= 0
      BY <1>1, <1>5, <1>7, SMT
    <2> QED
      BY <2>1, <1>5
  <1> QED
    BY <1>5, <1>6, <1>7

LEMMA PlaceIsInTheRing == ASSUME NEW p \in Nat PROVE At(p) \in 0 .. RingFrames - 1
  BY MicrophoneBounds, SMT DEF At

LEMMA EmptyIsARing == Empty \in [0 .. RingFrames - 1 -> Nat]
  BY DEF Empty

(* The types of what the two sides count, for arithmetic. *)
LEMMA Counted ==
    ASSUME MicTypeOK
    PROVE  /\ writeHead \in Nat /\ readHead \in Nat /\ frames \in Nat /\ RingFrames \in Nat
           /\ writer.from \in Nat /\ writer.n \in Nat /\ writer.done \in Nat
           /\ reader.from \in Nat /\ reader.n \in Nat /\ reader.done \in Nat
           /\ Len(accepted) \in Nat /\ Len(heard) \in Nat
  <1>1. writer \in [at : {"none", "idle", "copies"}, from : Nat, n : Nat, done : Nat]
    BY DEF MicTypeOK
  <1>2. reader \in [at : {"none", "idle", "copies"}, from : Nat, n : Nat, done : Nat]
    BY DEF MicTypeOK
  <1>3. accepted \in Seq(Nat) /\ heard \in Seq(Nat)
    BY DEF MicTypeOK
  <1> QED
    BY <1>1, <1>2, <1>3, MicrophoneBounds DEF MicTypeOK

-------------------------------------------------------------------------------
(* The steps of the two sides of the ring. *)

(* The frames that are accepted come after those that were. *)
LEMMA PushSamplesKeeps ==
    ASSUME MicIInv, NEW n \in 0 .. MaxPush, PushSamples(n)
    PROVE  MicIInv'
  <1>1. /\ n \in Nat
        /\ frames \in Nat /\ writeHead \in Nat /\ readHead \in Nat
    BY Counted DEF MicIInv
  <1>s. accepted \in Seq(Nat) /\ heard \in Seq(Nat)
    BY DEF MicIInv, MicTypeOK
  <1> DEFINE new == [i \in 1 .. n |-> frames + i]
  <1>2. new \in Seq(Nat) /\ Len(new) = n
    BY <1>1
  <1>3. /\ accepted \o new \in Seq(Nat)
        /\ Len(accepted \o new) = Len(accepted) + n
        /\ \A i \in 1 .. Len(accepted) : (accepted \o new)[i] = accepted[i]
    BY <1>s, <1>2
  <1> HIDE DEF new
  <1>4. MicTypeOK'
    <2>1. frames' \in Nat
      BY <1>1 DEF PushSamples, Received
    <2>4. accepted' \in Seq(Nat)
      BY <1>s, <1>3 DEF PushSamples, new
    <2>2. writer' \in [at : {"none", "idle", "copies"}, from : Nat, n : Nat, done : Nat]
      BY <1>1 DEF PushSamples, MicIInv, MicTypeOK
    <2>3. UNCHANGED <<devices, list, selected, asks, posted, chosen, calls, module, late, crossed, open, sounds,
                     writeHead, readHead, reader, turns, heard, hurt>>
      BY DEF PushSamples, picking, enabling
    <2> QED
      BY <2>1, <2>2, <2>3, <2>4 DEF MicIInv, MicTypeOK
  <1>5. ~hurt
    BY DEF MicIInv, NoStreamWithoutDevice, PushSamples
  <1>6. CASE Fits(n)
    <2>1. /\ writer' = [at |-> "copies", from |-> writeHead, n |-> n, done |-> 0]
          /\ accepted' = accepted \o new /\ writer.at = "idle"
          /\ UNCHANGED <<devices, open, module, crossed, sounds, writeHead, readHead, reader, heard, hurt>>
      BY <1>6 DEF PushSamples, enabling, new
    <2>2. WriterHolds'
      <3>1. Len(accepted) = writeHead
        BY <2>1, <1>5 DEF MicIInv, WriterHolds
      <3>2. RingFrames \in Nat /\ writeHead + n - readHead <= RingFrames
        BY <1>1, <1>6, MicrophoneBounds DEF Fits
      <3> QED
        BY <2>1, <3>1, <3>2, <1>1, <1>3 DEF WriterHolds
    <2>5. ReaderHolds'
      BY <2>1, <1>5 DEF MicIInv, ReaderHolds
    <2>3. RingHolds'
      <3>1. Filled = writeHead /\ Filled' = writeHead /\ Len(accepted) = writeHead
        BY <2>1, <1>1, <1>5 DEF MicIInv, WriterHolds, Filled
      <3> QED
        BY <2>1, <3>1, <1>1, <1>3, <1>5 DEF MicIInv, RingHolds, At
    <2>4. HeardAsAccepted'
      <3>1. heard \in Seq(Nat)
        BY DEF MicIInv, MicTypeOK
      <3> QED
        BY <2>1, <1>1, <1>3, <1>5, <3>1 DEF MicIInv, HeardAsAccepted
    <2> QED
      BY <1>4, <2>1, <2>2, <2>3, <2>4, <2>5 DEF MicIInv, UsedMeansOpen, NoStreamWithoutDevice
  <1>7. CASE ~Fits(n)
    <2>1. UNCHANGED <<devices, open, module, crossed, sounds, writeHead, readHead, writer, reader, accepted, heard, hurt>>
      BY <1>7 DEF PushSamples, enabling
    <2> QED
      BY <2>1, <1>4 DEF MicIInv, UsedMeansOpen, NoStreamWithoutDevice, WriterHolds, ReaderHolds, RingHolds,
                        Filled, At, HeardAsAccepted
  <1> QED
    BY <1>6, <1>7

(* A frame is copied to a place that nothing to be read is in. *)
LEMMA WriterCopiesKeeps ==
    ASSUME MicIInv, WriterCopies
    PROVE  MicIInv'
  <1>1. /\ ~hurt /\ writer.at = "copies" /\ writer.done < writer.n
        /\ writer.from = writeHead /\ writeHead + writer.n - readHead <= RingFrames
        /\ Len(accepted) = writeHead + writer.n /\ readHead <= writeHead
    BY DEF MicIInv, NoStreamWithoutDevice, WriterCopies, WriterHolds, RingHolds
  <1>2. writeHead \in Nat /\ readHead \in Nat /\ writer.n \in Nat /\ writer.done \in Nat /\ RingFrames \in Nat
    BY Counted DEF MicIInv
  <1>s. accepted \in Seq(Nat) /\ heard \in Seq(Nat)
    BY DEF MicIInv, MicTypeOK
  <1>2a. /\ sounds \in [0 .. RingFrames - 1 -> Nat]
         /\ writer \in [at : {"none", "idle", "copies"}, from : Nat, n : Nat, done : Nat]
    BY DEF MicIInv, MicTypeOK
  <1> DEFINE q == writeHead + writer.done
  <1>3. q \in Nat /\ q + 1 \in 1 .. Len(accepted) /\ writer.done \in Nat
    BY <1>1, <1>2
  <1>4. /\ sounds' = [sounds EXCEPT ![At(q)] = accepted[q + 1]]
        /\ writer' = [writer EXCEPT !.done = writer.done + 1]
        /\ UNCHANGED <<devices, open, module, crossed, writeHead, readHead, reader, accepted, heard, hurt>>
    BY <1>1 DEF WriterCopies, enabling
  <1>5. accepted[q + 1] \in Nat
    BY <1>s, <1>3
  <1>6. At(q) \in 0 .. RingFrames - 1
    BY <1>3, PlaceIsInTheRing
  <1>7. writer' \in [at : {"none", "idle", "copies"}, from : Nat, n : Nat, done : Nat]
    BY <1>2, <1>2a, <1>4
  <1>8. sounds' \in [0 .. RingFrames - 1 -> Nat]
    BY <1>2a, <1>4, <1>5
  <1>9. MicTypeOK'
    BY <1>7, <1>8 DEF MicIInv, MicTypeOK, WriterCopies, picking, enabling
  <1>10. writer'.at = "copies" /\ writer'.done = writer.done + 1 /\ writer'.n = writer.n /\ writer'.from = writer.from
    BY <1>1, <1>2, <1>2a, <1>4
  <1>11. WriterHolds' /\ ReaderHolds'
    BY <1>1, <1>2, <1>3, <1>4, <1>10 DEF MicIInv, WriterHolds, ReaderHolds
  <1>12. Filled = q /\ Filled' = q + 1
    BY <1>1, <1>2, <1>3, <1>4, <1>10 DEF Filled
  <1>13. ASSUME NEW p \in readHead .. q PROVE sounds'[At(p)] = accepted[p + 1]
    <2>1. p \in Nat /\ At(p) \in 0 .. RingFrames - 1
      BY <1>2, <1>3, PlaceIsInTheRing
    <2>2. CASE p = q
      BY <2>2, <1>2a, <1>4, <1>6
    <2>3. CASE p # q
      <3>1. p < q /\ q - p < RingFrames
        <4>1. p \in Nat /\ p <= q /\ readHead <= p
          BY <2>1, <1>2, <1>3
        <4>2. q \in Nat /\ q - readHead < RingFrames
          BY <1>1, <1>2, <1>3
        <4>3. readHead \in Nat /\ RingFrames \in Nat
          BY <1>2
        <4> HIDE DEF q
        <4> QED
          BY <4>1, <4>2, <4>3, <2>3
      <3>1a. At(p) # At(q)
        BY <2>1, <3>1, <1>3, PlacesDiffer
      <3>2. sounds[At(p)] = accepted[p + 1]
        <4>1. \A k \in readHead .. q - 1 : sounds[At(k)] = accepted[k + 1]
          BY <1>1, <1>12 DEF MicIInv, RingHolds
        <4>2. p \in readHead .. q - 1
          <5> HIDE DEF q
          <5> QED
            BY <3>1, <2>1, <1>2, <1>3
        <4> QED
          BY <4>1, <4>2
      <3> QED
        BY <3>1a, <3>2, <2>1, <1>2a, <1>4
    <2> QED
      BY <2>2, <2>3
  <1>14. RingHolds'
    BY <1>1, <1>2, <1>3, <1>4, <1>12, <1>13 DEF MicIInv, RingHolds, At
  <1> HIDE DEF q
  <1> QED
    BY <1>1, <1>4, <1>9, <1>10, <1>11, <1>14
       DEF MicIInv, UsedMeansOpen, NoStreamWithoutDevice, HeardAsAccepted

LEMMA WriterStoresKeeps ==
    ASSUME MicIInv, WriterStores
    PROVE  MicIInv'
  <1>1. /\ ~hurt /\ writer.at = "copies" /\ writer.done = writer.n
        /\ writer.from = writeHead /\ writeHead + writer.n - readHead <= RingFrames
        /\ Len(accepted) = writeHead + writer.n /\ readHead <= writeHead
    BY DEF MicIInv, NoStreamWithoutDevice, WriterStores, WriterHolds, RingHolds
  <1>2. writeHead \in Nat /\ readHead \in Nat /\ writer.n \in Nat
    BY Counted DEF MicIInv
  <1>s. accepted \in Seq(Nat) /\ heard \in Seq(Nat)
    BY DEF MicIInv, MicTypeOK
  <1>3. /\ writeHead' = writeHead + writer.n /\ writer'.at = "idle"
        /\ UNCHANGED <<devices, open, module, crossed, sounds, readHead, reader, accepted, heard, hurt>>
    BY <1>1 DEF WriterStores, Idle, enabling
  <1>4. MicTypeOK'
    BY <1>1, <1>2, <1>3 DEF MicIInv, MicTypeOK, WriterStores, picking, enabling, Idle
  <1>5. WriterHolds'
    BY <1>1, <1>2, <1>3 DEF WriterHolds
  <1>6. ReaderHolds'
    <2>1. ReaderHolds /\ writeHead' \in Nat /\ writeHead' >= writeHead
      BY <1>1, <1>2, <1>3 DEF MicIInv
    <2>2. reader.n \in Nat
      BY Counted DEF MicIInv
    <2> QED
      BY <2>1, <2>2, <1>2, <1>3 DEF ReaderHolds
  <1>7. RingHolds'
    BY <1>1, <1>2, <1>3 DEF MicIInv, RingHolds, Filled, At
  <1> QED
    BY <1>1, <1>3, <1>4, <1>5, <1>6, <1>7
       DEF MicIInv, UsedMeansOpen, NoStreamWithoutDevice, HeardAsAccepted

LEMMA ProcessKeeps ==
    ASSUME MicIInv, NEW n \in 0 .. MaxRequest, Process(n)
    PROVE  MicIInv'
  <1>1. /\ n \in Nat /\ writeHead \in Nat /\ readHead \in Nat /\ reader.at = "idle" /\ ~hurt
        /\ writeHead - readHead >= n
    BY DEF MicIInv, MicTypeOK, NoStreamWithoutDevice, Process
  <1>2. /\ reader' = [at |-> "copies", from |-> readHead, n |-> n, done |-> 0]
        /\ UNCHANGED <<devices, open, module, crossed, sounds, writeHead, readHead, writer, accepted, heard, hurt>>
    BY DEF Process, enabling
  <1>3. MicTypeOK'
    BY <1>1, <1>2 DEF MicIInv, MicTypeOK, Process, picking, enabling
  <1>4. ReaderHolds'
    BY <1>1, <1>2 DEF MicIInv, ReaderHolds
  <1>5. open # 0
    BY <1>1 DEF MicIInv, NoStreamWithoutDevice
  <1> QED
    BY <1>1, <1>2, <1>3, <1>4, <1>5 DEF MicIInv, UsedMeansOpen, NoStreamWithoutDevice, WriterHolds, RingHolds,
                                  Filled, At, HeardAsAccepted

(* The frame that is heard next is the one accepted next. *)
LEMMA ReaderCopiesKeeps ==
    ASSUME MicIInv, ReaderCopies
    PROVE  MicIInv'
  <1>1. /\ ~hurt /\ reader.at = "copies" /\ reader.done < reader.n
        /\ reader.from = readHead /\ readHead + reader.n <= writeHead
        /\ Len(heard) = readHead + reader.done
    BY DEF MicIInv, NoStreamWithoutDevice, ReaderCopies, ReaderHolds
  <1>2. writeHead \in Nat /\ readHead \in Nat /\ reader.n \in Nat /\ reader.done \in Nat /\ Len(accepted) \in Nat
    BY Counted DEF MicIInv
  <1>s. accepted \in Seq(Nat) /\ heard \in Seq(Nat)
    BY DEF MicIInv, MicTypeOK
  <1>2a. reader \in [at : {"none", "idle", "copies"}, from : Nat, n : Nat, done : Nat]
    BY DEF MicIInv, MicTypeOK
  <1> DEFINE q == readHead + reader.done
  <1>3. q \in Nat /\ q + 1 = Len(heard) + 1 /\ q < writeHead /\ reader.done \in Nat
    BY <1>1, <1>2
  <1>4. /\ heard' = Append(heard, sounds[At(q)])
        /\ reader' = [reader EXCEPT !.done = reader.done + 1]
        /\ UNCHANGED <<devices, open, module, crossed, sounds, writeHead, readHead, writer, accepted, hurt>>
    BY <1>1 DEF ReaderCopies, enabling
  <1>5. sounds[At(q)] = accepted[q + 1]
    <2>1. Filled \in Nat /\ Filled >= writeHead
      BY <1>2, Counted DEF Filled, MicIInv
    <2>2. q \in readHead .. Filled - 1
      BY <1>2, <1>3, <2>1
    <2> QED
      BY <2>2, <1>1 DEF MicIInv, RingHolds
  <1>6. Len(accepted) >= writeHead
    <2>1. writer.n \in Nat /\ writeHead \in Nat
      BY Counted DEF MicIInv
    <2> QED
      BY <2>1, <1>1 DEF MicIInv, WriterHolds
  <1>7. q + 1 \in 1 .. Len(accepted) /\ accepted[q + 1] \in Nat
    <2>1. q + 1 \in 1 .. Len(accepted)
      BY <1>2, <1>3, <1>6
    <2> QED
      BY <2>1, <1>s
  <1>8. /\ heard' \in Seq(Nat) /\ Len(heard') = Len(heard) + 1 /\ heard'[q + 1] = accepted[q + 1]
        /\ \A i \in 1 .. Len(heard) : heard'[i] = heard[i]
    BY <1>s, <1>3, <1>4, <1>5, <1>7
  <1>9. reader' \in [at : {"none", "idle", "copies"}, from : Nat, n : Nat, done : Nat]
    <2>1. reader' = [reader EXCEPT !.done = reader.done + 1] /\ reader.done + 1 \in Nat
      BY <1>3, <1>4
    <2> QED
      BY <2>1, <1>2a
  <1>10. MicTypeOK'
    BY <1>8, <1>9 DEF MicIInv, MicTypeOK, ReaderCopies, picking, enabling
  <1>11. reader'.at = "copies" /\ reader'.done = reader.done + 1 /\ reader'.n = reader.n /\ reader'.from = reader.from
    BY <1>1, <1>2, <1>2a, <1>4
  <1>12. ReaderHolds'
    <2>1. reader.done + 1 <= reader.n /\ Len(heard') = readHead + (reader.done + 1)
      BY <1>1, <1>2, <1>8
    <2> QED
      BY <2>1, <1>1, <1>4, <1>11 DEF ReaderHolds
  <1>13. HeardAsAccepted'
    <2>1. Len(heard') <= Len(accepted)
      BY <1>2, <1>3, <1>7, <1>8
    <2>2. ASSUME NEW i \in 1 .. Len(heard') PROVE heard'[i] = accepted[i]
      <3>1. CASE i \in 1 .. Len(heard)
        BY <3>1, <1>1, <1>8 DEF MicIInv, HeardAsAccepted
      <3>2. CASE i \notin 1 .. Len(heard)
        <4>1. i = q + 1
          BY <3>2, <1>2, <1>3, <1>8
        <4> QED
          BY <4>1, <1>8
      <3> QED
        BY <3>1, <3>2
    <2> QED
      BY <2>1, <2>2, <1>4 DEF HeardAsAccepted
  <1>14. WriterHolds' /\ RingHolds'
    BY <1>1, <1>4 DEF MicIInv, WriterHolds, RingHolds, Filled, At
  <1> HIDE DEF q
  <1> QED
    BY <1>1, <1>4, <1>10, <1>11, <1>12, <1>13, <1>14 DEF MicIInv, UsedMeansOpen, NoStreamWithoutDevice

LEMMA ReaderStoresKeeps ==
    ASSUME MicIInv, ReaderStores
    PROVE  MicIInv'
  <1>1. /\ ~hurt /\ reader.at = "copies" /\ reader.done = reader.n
        /\ reader.from = readHead /\ readHead + reader.n <= writeHead
        /\ Len(heard) = readHead + reader.done
    BY DEF MicIInv, NoStreamWithoutDevice, ReaderStores, ReaderHolds
  <1>2. writeHead \in Nat /\ readHead \in Nat /\ reader.n \in Nat /\ writer.n \in Nat /\ RingFrames \in Nat
    BY Counted DEF MicIInv
  <1>s. accepted \in Seq(Nat) /\ heard \in Seq(Nat)
    BY DEF MicIInv, MicTypeOK
  <1>3. /\ readHead' = readHead + reader.n /\ reader'.at = "idle"
        /\ UNCHANGED <<devices, open, module, crossed, sounds, writeHead, writer, accepted, heard, hurt>>
    BY <1>1 DEF ReaderStores, Idle, enabling
  <1>4. MicTypeOK'
    BY <1>1, <1>2, <1>3 DEF MicIInv, MicTypeOK, ReaderStores, picking, enabling, Idle
  <1>5. ReaderHolds'
    BY <1>1, <1>2, <1>3 DEF ReaderHolds
  <1>6. WriterHolds'
    <2>1. WriterHolds
      BY <1>1 DEF MicIInv
    <2>2. readHead' \in Nat /\ readHead' >= readHead /\ readHead \in Nat /\ writeHead \in Nat /\ writer.n \in Nat
      BY <1>2, <1>3
    <2>3. RingFrames \in Nat
      BY MicrophoneBounds
    <2>4. writeHead + writer.n - readHead <= RingFrames => writeHead + writer.n - readHead' <= RingFrames
      BY <2>2, <2>3
    <2> QED
      BY <2>1, <2>4, <1>3 DEF WriterHolds
  <1>7. RingHolds'
    <2>1. RingHolds
      BY <1>1 DEF MicIInv
    <2>2. readHead' \in Nat /\ readHead' >= readHead /\ readHead' <= writeHead
      BY <1>1, <1>2, <1>3
    <2>3. Filled' = Filled /\ Filled \in Nat
      BY <1>3, Counted DEF Filled, MicIInv
    <2>4. writeHead - readHead' <= RingFrames
      <3>1. writeHead - readHead <= RingFrames
        BY <2>1 DEF RingHolds
      <3>2. \A w, was, now, r \in Nat : w - was <= r /\ was <= now => w - now <= r
        OBVIOUS
      <3>3. writeHead \in Nat /\ readHead \in Nat /\ readHead' \in Nat /\ RingFrames \in Nat /\ readHead <= readHead'
        BY <1>2, <2>2
      <3> QED
        BY <3>1, <3>2, <3>3
    <2>5. \A p \in readHead' .. Filled - 1 : p \in readHead .. Filled - 1
      BY <2>2, <2>3, <1>2
    <2> QED
      BY <2>1, <2>2, <2>3, <2>4, <2>5, <1>3 DEF RingHolds, At
  <1> QED
    BY <1>1, <1>3, <1>4, <1>5, <1>6, <1>7
       DEF MicIInv, UsedMeansOpen, NoStreamWithoutDevice, HeardAsAccepted

-------------------------------------------------------------------------------
(* The table, the list, and the device. *)

(* A device is made, which nobody holds. *)
LEMMA CreateDeviceKeeps ==
    ASSUME MicIInv, CreateDevice
    PROVE  MicIInv'
  <1>1. PICK s \in 1 .. Slots : devices[s] = "free" /\ devices' = [devices EXCEPT ![s] = "made"]
    BY DEF CreateDevice
  <1>2. devices \in [1 .. Slots -> {"free", "made", "used"}]
    BY DEF MicIInv, MicTypeOK
  <1>3. devices' \in [1 .. Slots -> {"free", "made", "used"}]
    BY <1>1, <1>2
  <1>4. /\ asks' = asks + 1
        /\ UNCHANGED <<list, selected, posted, chosen, calls, module, late, crossed, open,
                       sounds, writeHead, readHead, writer, reader, frames, turns, accepted, heard, hurt>>
    BY DEF CreateDevice, enabling, sound
  <1>5. MicTypeOK'
    BY <1>3, <1>4 DEF MicIInv, MicTypeOK
  <1>6. UsedMeansOpen'
    BY <1>1, <1>2, <1>4 DEF MicIInv, UsedMeansOpen
  <1> QED
    BY <1>4, <1>5, <1>6 DEF MicIInv, NoStreamWithoutDevice, WriterHolds, ReaderHolds, RingHolds,
                            Filled, At, HeardAsAccepted

(* The list is asked for, made, shown and picked from. *)
LEMMA ListKeeps ==
    ASSUME MicIInv, RefreshAudioDevices \/ GetAudioDeviceList \/ ShowsList \/ SelectsDevice
    PROVE  MicIInv'
  <1>1. UNCHANGED <<devices, chosen, calls, module, late, crossed, open, sounds, writeHead, readHead,
                    writer, reader, frames, turns, accepted, heard, hurt>>
    BY DEF RefreshAudioDevices, GetAudioDeviceList, ShowsList, SelectsDevice, enabling, sound
  <1>2. list \in Seq(1 .. Slots) /\ selected \in Int /\ asks \in Nat /\ posted \in Seq(Seq(1 .. Slots))
    BY DEF MicIInv, MicTypeOK
  <1>3. asks' \in Nat
    BY <1>2 DEF RefreshAudioDevices, GetAudioDeviceList, ShowsList, SelectsDevice
  <1>4. posted' \in Seq(Seq(1 .. Slots))
    <2>1. CASE GetAudioDeviceList
      <3>1. PICK n \in 0 .. Slots : \E shown \in [1 .. n -> 1 .. Slots] : posted' = Append(posted, shown)
        BY <2>1 DEF GetAudioDeviceList
      <3>2. PICK shown \in [1 .. n -> 1 .. Slots] : posted' = Append(posted, shown)
        BY <3>1
      <3>3. n \in Nat
        BY MicrophoneBounds
      <3>4. shown \in Seq(1 .. Slots)
        <4>1. shown = [i \in 1 .. n |-> shown[i]] /\ \A i \in 1 .. n : shown[i] \in 1 .. Slots
          OBVIOUS
        <4> QED
          BY <4>1, <3>3
      <3> QED
        BY <3>2, <3>4, <1>2
    <2>2. CASE ShowsList
      BY <2>2, <1>2 DEF ShowsList
    <2> QED
      BY <2>1, <2>2, <1>2 DEF RefreshAudioDevices, SelectsDevice
  <1>5. list' \in Seq(1 .. Slots)
    <2>1. CASE ShowsList
      BY <2>1, <1>2 DEF ShowsList
    <2> QED
      BY <2>1, <1>2 DEF RefreshAudioDevices, GetAudioDeviceList, SelectsDevice
  <1>6. selected' \in Int
    <2>1. CASE ShowsList
      BY <2>1, <1>2 DEF ShowsList, Reselected
    <2>2. CASE SelectsDevice
      BY <2>2, <1>2 DEF SelectsDevice
    <2> QED
      BY <2>1, <2>2, <1>2 DEF RefreshAudioDevices, GetAudioDeviceList
  <1>7. MicTypeOK'
    BY <1>1, <1>3, <1>4, <1>5, <1>6 DEF MicIInv, MicTypeOK
  <1> QED
    BY <1>1, <1>7 DEF MicIInv, UsedMeansOpen, NoStreamWithoutDevice, WriterHolds, ReaderHolds, RingHolds,
                      Filled, At, HeardAsAccepted

(* The device is chosen, and the module called, where nothing is held. *)
LEMMA SetEnabledKeeps ==
    ASSUME MicIInv, SetEnabled
    PROVE  MicIInv'
  <1>1. /\ chosen' = list[selected + 1] /\ selected \in 0 .. Len(list) - 1
        /\ calls' = calls + 1 /\ turns' = turns + 1
        /\ UNCHANGED <<devices, list, selected, asks, posted, module, late, crossed, open, sounds, writeHead,
                       readHead, writer, reader, frames, accepted, heard, hurt>>
    BY DEF SetEnabled, picking, sound
  <1>2. chosen' \in 0 .. Slots
    <2> DEFINE places == 1 .. Slots
    <2>1. list \in Seq(places) /\ selected + 1 \in 1 .. Len(list)
      BY <1>1 DEF MicIInv, MicTypeOK
    <2> HIDE DEF places
    <2>2. chosen' \in places
      BY <1>1, <2>1
    <2> QED
      BY <2>2, MicrophoneBounds DEF places
  <1>3. MicTypeOK'
    BY <1>1, <1>2 DEF MicIInv, MicTypeOK
  <1> QED
    BY <1>1, <1>3 DEF MicIInv, UsedMeansOpen, NoStreamWithoutDevice, WriterHolds, ReaderHolds, RingHolds,
                      Filled, At, HeardAsAccepted

LEMMA EnableKeeps ==
    ASSUME MicIInv, Enable
    PROVE  MicIInv'
  <1>1. /\ calls' = calls - 1 /\ calls > 0
        /\ module' = IF module = "Disabled" THEN "Enabling" ELSE module
        /\ UNCHANGED <<devices, list, selected, asks, posted, chosen, late, crossed, open, sounds, writeHead,
                       readHead, writer, reader, frames, turns, accepted, heard, hurt>>
    BY DEF Enable, picking, sound
  <1>2. MicTypeOK'
    BY <1>1 DEF MicIInv, MicTypeOK
  <1>3. UsedMeansOpen'
    BY <1>1 DEF MicIInv, UsedMeansOpen
  <1> QED
    BY <1>1, <1>2, <1>3 DEF MicIInv, NoStreamWithoutDevice, WriterHolds, ReaderHolds, RingHolds,
                            Filled, At, HeardAsAccepted

(* What the ring and its two sides are when a device was opened, or when none *)
(* was: what follows of the invariant but for the device and the module.      *)
Opened == OpenDevice(TRUE) \/ OpenDevice(FALSE) \/ NoAnswer

LEMMA OpenedKeepsTheRing ==
    ASSUME MicIInv, Opened, ~hurt, hurt' = hurt
    PROVE  /\ NoStreamWithoutDevice' /\ WriterHolds' /\ ReaderHolds' /\ RingHolds' /\ HeardAsAccepted'
           /\ devices' \in [1 .. Slots -> {"free", "made", "used"}] /\ open' \in 0 .. Slots
           /\ sounds' \in [0 .. RingFrames - 1 -> Nat] /\ writeHead' \in Nat /\ readHead' \in Nat
           /\ writer' \in [at : {"none", "idle", "copies"}, from : Nat, n : Nat, done : Nat]
           /\ reader' \in [at : {"none", "idle", "copies"}, from : Nat, n : Nat, done : Nat]
           /\ frames' \in Nat /\ accepted' \in Seq(Nat) /\ heard' \in Seq(Nat)
  <1>1. CASE UNCHANGED <<devices, open, sound>>
    BY <1>1 DEF MicIInv, MicTypeOK, NoStreamWithoutDevice, WriterHolds, ReaderHolds, RingHolds, Filled, At,
                HeardAsAccepted, sound
  <1>2. CASE ~ UNCHANGED <<devices, open, sound>>
    <2>1. /\ chosen # 0 /\ devices' = [devices EXCEPT ![chosen] = "used"] /\ open' = chosen
          /\ sounds' = Empty /\ writeHead' = 0 /\ readHead' = 0 /\ accepted' = <<>> /\ heard' = <<>>
          /\ reader' \in {Idle, Absent} /\ writer' \in {Idle, Absent} /\ frames' = frames
      BY <1>2 DEF Opened, OpenDevice, NoAnswer
    <2>2. /\ chosen \in 0 .. Slots /\ devices \in [1 .. Slots -> {"free", "made", "used"}] /\ frames \in Nat
          /\ Slots \in Nat
      BY MicrophoneBounds DEF MicIInv, MicTypeOK
    <2>3. devices' \in [1 .. Slots -> {"free", "made", "used"}] /\ open' \in 0 .. Slots
      BY <2>1, <2>2
    <2>4. /\ reader' \in [at : {"none", "idle", "copies"}, from : Nat, n : Nat, done : Nat]
          /\ writer' \in [at : {"none", "idle", "copies"}, from : Nat, n : Nat, done : Nat]
          /\ reader'.at # "copies" /\ writer'.at # "copies"
      BY <2>1 DEF Idle, Absent
    <2>5. accepted' \in Seq(Nat) /\ heard' \in Seq(Nat) /\ Len(accepted') = 0 /\ Len(heard') = 0
      BY <2>1
    <2>6. NoStreamWithoutDevice'
      BY <2>1 DEF NoStreamWithoutDevice
    <2>7. WriterHolds' /\ ReaderHolds' /\ HeardAsAccepted'
      BY <2>1, <2>4, <2>5 DEF WriterHolds, ReaderHolds, HeardAsAccepted
    <2>8. RingHolds'
      <3>1. Filled' = 0
        BY <2>1, <2>4 DEF Filled
      <3> QED
        BY <3>1, <2>1, MicrophoneBounds DEF RingHolds
    <2> QED
      BY <2>1, <2>2, <2>3, <2>4, <2>5, <2>6, <2>7, <2>8, EmptyIsARing
  <1> QED
    BY <1>1, <1>2

(* The table and what is held, when a device was opened where none was held. *)
LEMMA OpenedMarksWhatIsHeld ==
    ASSUME MicIInv, Opened
    PROVE  /\ open' # 0 => devices'[open'] = "used"
           /\ ~crossed /\ open = 0 => \A s \in 1 .. Slots : devices'[s] = "used" <=> open' = s
  <1>1. /\ devices \in [1 .. Slots -> {"free", "made", "used"}] /\ chosen \in 0 .. Slots /\ Slots \in Nat
        /\ open \in 0 .. Slots /\ (open # 0 => devices[open] = "used")
        /\ ~crossed => \A s \in 1 .. Slots : devices[s] = "used" <=> open = s
    BY MicrophoneBounds DEF MicIInv, MicTypeOK, UsedMeansOpen
  <1>2. CASE UNCHANGED <<devices, open>>
    BY <1>1, <1>2
  <1>3. CASE ~ UNCHANGED <<devices, open>>
    <2>1. chosen # 0 /\ devices' = [devices EXCEPT ![chosen] = "used"] /\ open' = chosen
      BY <1>3 DEF Opened, OpenDevice, NoAnswer, sound
    <2>2. chosen \in 1 .. Slots
      BY <1>1, <2>1
    <2> QED
      BY <2>1, <2>2, <1>1
  <1> QED
    BY <1>2, <1>3

(* The OnEnable of an enabling: while it waits nothing is held, unless one crossed. *)
LEMMA OnEnableKeeps ==
    ASSUME MicIInv, NEW answered \in BOOLEAN, NEW starts \in BOOLEAN, OnEnable(answered, starts)
    PROVE  MicIInv'
  <1>1. /\ module = "Enabling" /\ module' = "Enabled" /\ ~hurt /\ Opened
        /\ UNCHANGED <<list, selected, asks, posted, chosen, calls, late, turns, hurt, crossed>>
    BY DEF OnEnable, Opened, picking
  <1>2. /\ NoStreamWithoutDevice' /\ WriterHolds' /\ ReaderHolds' /\ RingHolds' /\ HeardAsAccepted'
    BY <1>1, OpenedKeepsTheRing
  <1>3. MicTypeOK'
    <2>1. /\ devices' \in [1 .. Slots -> {"free", "made", "used"}] /\ open' \in 0 .. Slots
          /\ sounds' \in [0 .. RingFrames - 1 -> Nat] /\ writeHead' \in Nat /\ readHead' \in Nat
          /\ writer' \in [at : {"none", "idle", "copies"}, from : Nat, n : Nat, done : Nat]
          /\ reader' \in [at : {"none", "idle", "copies"}, from : Nat, n : Nat, done : Nat]
          /\ frames' \in Nat /\ accepted' \in Seq(Nat) /\ heard' \in Seq(Nat)
      BY <1>1, OpenedKeepsTheRing
    <2> QED
      BY <2>1, <1>1 DEF MicIInv, MicTypeOK
  <1>4. UsedMeansOpen'
    <2>1. ~crossed => open = 0
      BY <1>1 DEF MicIInv, UsedMeansOpen
    <2> QED
      BY <2>1, <1>1, OpenedMarksWhatIsHeld DEF UsedMeansOpen
  <1> QED
    BY <1>2, <1>3, <1>4, <1>1 DEF MicIInv

(* One that was disabled crosses, if it has a key to go on with. *)
LEMMA OnEnableLateKeeps ==
    ASSUME MicIInv, NEW answered \in BOOLEAN, NEW starts \in BOOLEAN, OnEnableLate(answered, starts)
    PROVE  MicIInv'
  <1>1. /\ ~hurt /\ Opened /\ crossed' = (crossed \/ answered) /\ late > 0 /\ late' \in {late, late - 1}
        /\ module' = module \/ module' = "Enabled"
        /\ UNCHANGED <<list, selected, asks, posted, chosen, calls, turns, hurt>>
    BY DEF OnEnableLate, Opened, picking
  <1>2. /\ NoStreamWithoutDevice' /\ WriterHolds' /\ ReaderHolds' /\ RingHolds' /\ HeardAsAccepted'
    BY <1>1, OpenedKeepsTheRing
  <1>3. MicTypeOK'
    <2>1. /\ devices' \in [1 .. Slots -> {"free", "made", "used"}] /\ open' \in 0 .. Slots
          /\ sounds' \in [0 .. RingFrames - 1 -> Nat] /\ writeHead' \in Nat /\ readHead' \in Nat
          /\ writer' \in [at : {"none", "idle", "copies"}, from : Nat, n : Nat, done : Nat]
          /\ reader' \in [at : {"none", "idle", "copies"}, from : Nat, n : Nat, done : Nat]
          /\ frames' \in Nat /\ accepted' \in Seq(Nat) /\ heard' \in Seq(Nat)
      BY <1>1, OpenedKeepsTheRing
    <2>2. late' \in Nat /\ module' \in {"Disabled", "Enabling", "Enabled"} /\ crossed' \in BOOLEAN
      BY <1>1 DEF MicIInv, MicTypeOK
    <2> QED
      BY <2>1, <2>2, <1>1 DEF MicIInv, MicTypeOK
  <1>4. UsedMeansOpen'
    <2>1. CASE answered
      BY <2>1, <1>1, OpenedMarksWhatIsHeld DEF UsedMeansOpen
    <2>2. CASE ~answered
      <3>1. UNCHANGED <<devices, open>> /\ crossed' = crossed
        BY <2>2, <1>1 DEF OnEnableLate, NoAnswer, MicIInv, MicTypeOK
      <3> QED
        BY <3>1, <1>1 DEF MicIInv, UsedMeansOpen
    <2> QED
      BY <2>1, <2>2
  <1> QED
    BY <1>2, <1>3, <1>4, <1>1 DEF MicIInv

(* The stream ends with the device, if one is held: what follows of the invariant *)
(* when the table that is left has no used device, unless one crossed.            *)
LEMMA ClosesKeeps ==
    ASSUME MicIInv, NEW table \in [1 .. Slots -> {"free", "made", "used"}], Closes(table), ModuleIsOff,
           ~crossed' => \A t \in 1 .. Slots : table[t] # "used",
           crossed' \in BOOLEAN, turns' \in Nat
    PROVE  MicIInv'
  <1>1. /\ devices' = table /\ open' = 0 /\ module' = "Disabled" /\ late' \in {late, late + 1}
        /\ UNCHANGED <<list, selected, asks, posted, chosen, calls, sounds, writeHead, readHead, frames, accepted, heard>>
    BY DEF Closes, ModuleIsOff, picking, sound
  <1>2. /\ writer'.at = "none" /\ reader'.at = "none"
        /\ writer' \in [at : {"none", "idle", "copies"}, from : Nat, n : Nat, done : Nat]
        /\ reader' \in [at : {"none", "idle", "copies"}, from : Nat, n : Nat, done : Nat]
        /\ hurt' = (hurt \/ writer.at = "copies") /\ reader.at # "copies"
    <2>1. CASE open # 0
      BY <2>1 DEF Closes, Absent, Idle
    <2>2. CASE open = 0
      BY <2>2 DEF Closes, sound, MicIInv, MicTypeOK, NoStreamWithoutDevice
    <2> QED
      BY <2>1, <2>2
  <1>3. hurt' \in BOOLEAN /\ open' \in 0 .. Slots /\ late' \in Nat
    <2>1. hurt \in BOOLEAN /\ late \in Nat
      BY DEF MicIInv, MicTypeOK
    <2>2. hurt' \in BOOLEAN
      BY <2>1, <1>2
    <2>3. late' \in Nat
      BY <2>1, <1>1
    <2> QED
      BY <2>2, <2>3, <1>1, MicrophoneBounds
  <1>4. MicTypeOK'
    BY <1>1, <1>2, <1>3 DEF MicIInv, MicTypeOK
  <1>5. UsedMeansOpen'
    BY <1>1, MicrophoneBounds DEF UsedMeansOpen
  <1>6. ASSUME ~hurt' PROVE WriterHolds' /\ ReaderHolds' /\ RingHolds'
    <2>1. ~hurt /\ writer.at # "copies"
      BY <1>6, <1>2
    <2>2. WriterHolds' /\ ReaderHolds'
      BY <2>1, <1>1, <1>2 DEF MicIInv, WriterHolds, ReaderHolds
    <2>3. RingHolds'
      BY <2>1, <1>1, <1>2 DEF MicIInv, RingHolds, Filled, At
    <2> QED
      BY <2>2, <2>3
  <1>7. HeardAsAccepted'
    BY <1>1, <1>2 DEF MicIInv, HeardAsAccepted
  <1> QED
    BY <1>1, <1>2, <1>4, <1>5, <1>6, <1>7 DEF MicIInv, NoStreamWithoutDevice

LEMMA DisableKeeps ==
    ASSUME MicIInv, Disable
    PROVE  MicIInv'
  <1>1. /\ devices \in [1 .. Slots -> {"free", "made", "used"}] /\ turns \in Nat /\ crossed \in BOOLEAN
        /\ open \in 0 .. Slots /\ Slots \in Nat
    BY MicrophoneBounds DEF MicIInv, MicTypeOK
  <1>2. Released \in [1 .. Slots -> {"free", "made", "used"}]
    BY <1>1 DEF Released
  <1>3. ~crossed => \A t \in 1 .. Slots : Released[t] # "used"
    BY <1>1 DEF MicIInv, UsedMeansOpen, Released
  <1>4. Closes(Released) /\ ModuleIsOff /\ turns' = turns /\ crossed' = crossed
    BY DEF Disable
  <1> HIDE DEF Released
  <1> QED
    BY <1>1, <1>2, <1>3, <1>4, ClosesKeeps

LEMMA ShutdownKeeps ==
    ASSUME MicIInv, Shutdown
    PROVE  MicIInv'
  <1> DEFINE cleared == [s \in 1 .. Slots |-> "free"]
  <1>1. crossed' \in BOOLEAN /\ Closes(cleared) /\ ModuleIsOff
    BY DEF Shutdown
  <1>3. turns' \in Nat
    BY DEF Shutdown, MicIInv, MicTypeOK
  <1>2. cleared \in [1 .. Slots -> {"free", "made", "used"}] /\ \A t \in 1 .. Slots : cleared[t] # "used"
    OBVIOUS
  <1> HIDE DEF cleared
  <1> QED
    BY <1>1, <1>2, <1>3, ClosesKeeps

-------------------------------------------------------------------------------
LEMMA MicInitHolds == MicInit => MicIInv
  <1> SUFFICES ASSUME MicInit PROVE MicIInv
    OBVIOUS
  <1>1. /\ Len(accepted) = 0 /\ Len(heard) = 0 /\ writeHead = 0 /\ readHead = 0
        /\ writer.at = "none" /\ reader.at = "none" /\ hurt = FALSE /\ open = 0
    BY DEF MicInit, Absent, Idle
  <1>2. writer \in [at : {"none", "idle", "copies"}, from : Nat, n : Nat, done : Nat] /\ reader = writer
    BY DEF MicInit, Absent, Idle
  <1>3. MicTypeOK
    <2>1. list \in Seq(1 .. Slots) /\ posted \in Seq(Seq(1 .. Slots)) /\ accepted \in Seq(Nat) /\ heard \in Seq(Nat)
      BY DEF MicInit
    <2>2. sounds \in [0 .. RingFrames - 1 -> Nat]
      BY EmptyIsARing DEF MicInit
    <2>3. devices \in [1 .. Slots -> {"free", "made", "used"}]
      BY DEF MicInit
    <2>4. /\ selected \in Int /\ asks \in Nat /\ frames \in Nat /\ turns \in Nat /\ open \in 0 .. Slots
          /\ chosen \in 0 .. Slots /\ calls \in Nat /\ late \in Nat /\ crossed = FALSE
          /\ module \in {"Disabled", "Enabling", "Enabled"}
      BY MicrophoneBounds DEF MicInit
    <2> QED
      BY <2>1, <2>2, <2>3, <2>4, <1>1, <1>2 DEF MicTypeOK
  <1>4. UsedMeansOpen
    BY <1>1, MicrophoneBounds DEF MicInit, UsedMeansOpen
  <1>5. WriterHolds /\ ReaderHolds /\ HeardAsAccepted
    BY <1>1 DEF WriterHolds, ReaderHolds, HeardAsAccepted
  <1>6. RingHolds
    BY <1>1, MicrophoneBounds DEF RingHolds, Filled
  <1> QED
    BY <1>1, <1>3, <1>4, <1>5, <1>6 DEF MicIInv, NoStreamWithoutDevice

LEMMA NextKeeps == MicIInv /\ [MicNext]_micVars => MicIInv'
  <1> SUFFICES ASSUME MicIInv, [MicNext]_micVars PROVE MicIInv'
    OBVIOUS
  <1>1. CASE MicNext
    BY <1>1, CreateDeviceKeeps, ListKeeps, SetEnabledKeeps, EnableKeeps, OnEnableKeeps, OnEnableLateKeeps,
       DisableKeeps, ShutdownKeeps, PushSamplesKeeps, WriterCopiesKeeps, WriterStoresKeeps, ProcessKeeps,
       ReaderCopiesKeeps, ReaderStoresKeeps DEF MicNext
  <1>2. CASE UNCHANGED micVars
    BY <1>2 DEF micVars, MicIInv, MicTypeOK, UsedMeansOpen, NoStreamWithoutDevice, WriterHolds, ReaderHolds, RingHolds,
                Filled, At, HeardAsAccepted
  <1> QED
    BY <1>1, <1>2

(* Every reachable state satisfies the invariant. *)
THEOREM MicrophoneInvariance == MicSpec => []MicIInv
  BY MicInitHolds, NextKeeps, PTL DEF MicSpec

(* The table, the list, the two heads and the ring keep their types. *)
THEOREM MicrophoneIsTyped == MicSpec => []MicTypeOK
  <1>1. MicIInv => MicTypeOK
    BY DEF MicIInv
  <1> QED
    BY <1>1, MicrophoneInvariance, PTL

(* However VMic_PushSamples and onProcess interleave, and however the ring *)
(* wraps, PipeWire hears what was accepted, each frame once and in order;  *)
(* and whatever enablings, disablings and shutdowns follow one another, a  *)
(* device is marked used exactly while it is held, until an OnEnable goes  *)
(* on that was disabled while it waited for the phone's key; what is held  *)
(* is marked even then.                                                    *)
THEOREM TheMicrophoneWorks == MicSpec => []MicrophoneWorks
  <1>1. MicIInv => MicrophoneWorks
    BY DEF MicIInv, MicrophoneWorks
  <1> QED
    BY <1>1, MicrophoneInvariance, PTL

-------------------------------------------------------------------------------
(***************************************************************************)
(* IdentityIsSound, for any number of keys, failures and sessions, and     *)
(* scanners on either device.                                              *)
(***************************************************************************)

SessionOf(d) == <<d, "session">>

(* Who writes the files, and what its certificate may be made over. *)
LockHolds ==
  /\ \A c \in Callers : step[c] = "cert" <=> lock[c[1]] = c
  /\ \A c \in Callers : step[c] = "cert" => made[c] # 0
  /\ \A d \in Devices :
       /\ lock[d] = d => ~raced[d]
       /\ lock[d] # d /\ ~raced[d] => ~valid[d]
       /\ valid[d] => cert[d] # 0

(* Whatever went wrong with a device's files has its excuse. *)
ExcusesHold ==
  /\ \A d \in Devices : raced[d] \/ torn[d] => d \in excused
  /\ \A c \in Callers : step[c] = "read" /\ c[1] \notin excused => valid[c[1]]

(* What a session knows, it learned in this order. *)
SessionHolds ==
  /\ \A c \in Callers : step[c] = "load" => c[2] = "session"
  /\ \A d \in Devices :
       /\ mode = "none" => told[d] = Nothing /\ step[SessionOf(d)] = "idle"
       /\ told[d] = Nothing => chain[d] = Nothing
       /\ chain[d] = Nothing => pkey[d] = Nothing /\ step[SessionOf(d)] # "load"
       /\ pkey[d] # Nothing => step[SessionOf(d)] = "idle"

(* What is told without an excuse stays true until the session ends. *)
ToldHolds ==
  \A d \in Devices : told[d] # Nothing /\ d \notin excused =>
    /\ valid[d] /\ lock[d] = d /\ told[d] = cert[d]
    /\ {chain[d], pkey[d]} \subseteq {Nothing, told[d]}

ToldIsAnnounced ==
  \A d \in Devices : mode = "pair" /\ told[d] # Nothing => told[d] \in announced[d]

IInv ==
  /\ IdentityTypeOK /\ LockHolds /\ IdentityIsWhole /\ ExcusesHold
  /\ SessionHolds /\ ToldHolds /\ ToldIsAnnounced /\ PinWasAnnounced

USE DEF identityVars, files, session, store, Goes, SessionOf

-------------------------------------------------------------------------------
(* Types *)

LEMMA CallerFacts ==
  /\ \A c \in Callers : c[1] \in Devices /\ c \notin Devices /\ c[2] \in {"session", "probe"}
  /\ \A d \in Devices : /\ SessionOf(d) \in Callers /\ SessionOf(d)[1] = d
                        /\ SessionOf(d)[2] = "session" /\ d \notin Callers
  /\ \A c \in Callers : c[2] = "session" <=> c = SessionOf(c[1])
  BY IdentityBounds DEF Callers

LEMMA PeerFacts ==
  ASSUME NEW d \in Devices
  PROVE  Peer(d) \in Devices /\ Peer(d) # d
  <1>1. \E e \in Devices : e # d
    BY IdentityBounds
  <1> QED
    BY <1>1 DEF Peer

LEMMA NothingFacts == Nothing \in Nat /\ Nothing \notin 0 .. MaxKeys /\ 0 .. MaxKeys + 1 = 0 .. MaxKeys \cup {Nothing}
  BY IdentityBounds DEF Nothing

LEMMA InitStep == IdentityInit => IInv
  <1> SUFFICES ASSUME IdentityInit
               PROVE  IInv
    OBVIOUS
  <1>1. IdentityTypeOK
    BY NothingFacts, IdentityBounds DEF IdentityInit, IdentityTypeOK
  <1>2. /\ \A d \in Devices : /\ lock[d] = d /\ ~raced[d] /\ ~torn[d] /\ ~valid[d] /\ pin[d] = 0
                             /\ told[d] = Nothing /\ chain[d] = Nothing /\ pkey[d] = Nothing
        /\ \A c \in Callers : step[c] = "idle"
    BY DEF IdentityInit
  <1>3. LockHolds
    BY <1>2, CallerFacts DEF LockHolds
  <1>4. SessionHolds
    BY <1>2, CallerFacts DEF SessionHolds
  <1> QED
    BY <1>1, <1>2, <1>3, <1>4, CallerFacts DEF IInv, IdentityIsWhole, ExcusesHold, ToldHolds, ToldIsAnnounced, PinWasAnnounced

LEMMA ChecksStep ==
  ASSUME IInv, NEW c \in Callers, Checks(c)
  PROVE  IInv'
  <1> USE CallerFacts
  <1>1. IdentityTypeOK'
    BY NothingFacts, IdentityBounds DEF IInv, IdentityTypeOK, Checks, AfterCheck, FirstFile
  <1>2. LockHolds'
    BY DEF IInv, IdentityTypeOK, LockHolds, Checks, AfterCheck, FirstFile
  <1>3. IdentityIsWhole'
    BY DEF IInv, IdentityTypeOK, LockHolds, IdentityIsWhole, Checks, AfterCheck, FirstFile
  <1>4. ExcusesHold'
    BY DEF IInv, IdentityTypeOK, LockHolds, ExcusesHold, Checks, AfterCheck, FirstFile
  <1>5. SessionHolds'
    BY DEF IInv, IdentityTypeOK, SessionHolds, Checks, AfterCheck, FirstFile
  <1>6. ToldHolds'
    BY DEF IInv, IdentityTypeOK, LockHolds, ExcusesHold, ToldHolds, Checks, AfterCheck, FirstFile
  <1>7. ToldIsAnnounced' /\ PinWasAnnounced'
    BY DEF IInv, ToldIsAnnounced, PinWasAnnounced, Checks, Peer
  <1> QED
    BY <1>1, <1>2, <1>3, <1>4, <1>5, <1>6, <1>7 DEF IInv

LEMMA MakesKeyStep ==
  ASSUME IInv, NEW c \in Callers, MakesKey(c)
  PROVE  IInv'
  <1> USE CallerFacts
  <1>8. keys' \in 0 .. MaxKeys /\ keys' # 0 /\ keys' = keys + 1
    BY IdentityBounds DEF IInv, IdentityTypeOK, MakesKey
  <1>1. IdentityTypeOK'
    BY <1>8 DEF IInv, IdentityTypeOK, MakesKey, FirstFile
  <1>2. LockHolds'
    BY <1>8 DEF IInv, IdentityTypeOK, LockHolds, MakesKey, FirstFile
  <1>3. IdentityIsWhole'
    BY DEF IInv, IdentityTypeOK, LockHolds, IdentityIsWhole, MakesKey, AfterCheck, FirstFile
  <1>4. ExcusesHold'
    BY DEF IInv, IdentityTypeOK, LockHolds, ExcusesHold, MakesKey, AfterCheck, FirstFile
  <1>5. SessionHolds'
    BY DEF IInv, IdentityTypeOK, SessionHolds, MakesKey, AfterCheck, FirstFile
  <1>6. ToldHolds'
    BY DEF IInv, IdentityTypeOK, LockHolds, ExcusesHold, ToldHolds, MakesKey, AfterCheck, FirstFile
  <1>7. ToldIsAnnounced' /\ PinWasAnnounced'
    BY DEF IInv, ToldIsAnnounced, PinWasAnnounced, MakesKey, Peer
  <1> QED
    BY <1>1, <1>2, <1>3, <1>4, <1>5, <1>6, <1>7 DEF IInv

LEMMA MakesCertificateStep ==
  ASSUME IInv, NEW c \in Callers, MakesCertificate(c)
  PROVE  IInv'
  <1> USE CallerFacts
  <1>1. IdentityTypeOK'
    BY NothingFacts, IdentityBounds DEF IInv, IdentityTypeOK, MakesCertificate, AfterCheck, FirstFile
  <1>2. LockHolds'
    BY DEF IInv, IdentityTypeOK, LockHolds, MakesCertificate, AfterCheck, FirstFile
  <1>3. IdentityIsWhole'
    BY DEF IInv, IdentityTypeOK, LockHolds, IdentityIsWhole, MakesCertificate, AfterCheck, FirstFile
  <1>4. ExcusesHold'
    BY DEF IInv, IdentityTypeOK, LockHolds, ExcusesHold, MakesCertificate, AfterCheck, FirstFile
  <1>5. SessionHolds'
    BY DEF IInv, IdentityTypeOK, SessionHolds, MakesCertificate, AfterCheck, FirstFile
  <1>6. ToldHolds'
    BY DEF IInv, IdentityTypeOK, LockHolds, ExcusesHold, ToldHolds, MakesCertificate, AfterCheck, FirstFile
  <1>7. ToldIsAnnounced' /\ PinWasAnnounced'
    BY DEF IInv, ToldIsAnnounced, PinWasAnnounced, MakesCertificate, Peer
  <1> QED
    BY <1>1, <1>2, <1>3, <1>4, <1>5, <1>6, <1>7 DEF IInv

LEMMA CannotOpenStep ==
  ASSUME IInv, NEW c \in Callers, CannotOpen(c)
  PROVE  IInv'
  <1> USE CallerFacts
  <1>1. IdentityTypeOK'
    BY NothingFacts, IdentityBounds DEF IInv, IdentityTypeOK, CannotOpen, AfterCheck, FirstFile
  <1>2. LockHolds'
    BY DEF IInv, IdentityTypeOK, LockHolds, CannotOpen, AfterCheck, FirstFile
  <1>3. IdentityIsWhole'
    BY DEF IInv, IdentityTypeOK, LockHolds, IdentityIsWhole, CannotOpen, AfterCheck, FirstFile
  <1>4. ExcusesHold'
    BY DEF IInv, IdentityTypeOK, LockHolds, ExcusesHold, CannotOpen, AfterCheck, FirstFile
  <1>5. SessionHolds'
    BY DEF IInv, IdentityTypeOK, SessionHolds, CannotOpen, AfterCheck, FirstFile
  <1>6. ToldHolds'
    BY DEF IInv, IdentityTypeOK, LockHolds, ExcusesHold, ToldHolds, CannotOpen, AfterCheck, FirstFile
  <1>7. ToldIsAnnounced' /\ PinWasAnnounced'
    BY DEF IInv, ToldIsAnnounced, PinWasAnnounced, CannotOpen, Peer
  <1> QED
    BY <1>1, <1>2, <1>3, <1>4, <1>5, <1>6, <1>7 DEF IInv

LEMMA ProbeBeginsStep ==
  ASSUME IInv, NEW c \in Callers, ProbeBegins(c)
  PROVE  IInv'
  <1> USE CallerFacts
  <1>1. IdentityTypeOK'
    BY NothingFacts, IdentityBounds DEF IInv, IdentityTypeOK, ProbeBegins, AfterCheck, FirstFile
  <1>2. LockHolds'
    BY DEF IInv, IdentityTypeOK, LockHolds, ProbeBegins, AfterCheck, FirstFile
  <1>3. IdentityIsWhole'
    BY DEF IInv, IdentityTypeOK, LockHolds, IdentityIsWhole, ProbeBegins, AfterCheck, FirstFile
  <1>4. ExcusesHold'
    BY DEF IInv, IdentityTypeOK, LockHolds, ExcusesHold, ProbeBegins, AfterCheck, FirstFile
  <1>5. SessionHolds'
    BY DEF IInv, IdentityTypeOK, SessionHolds, ProbeBegins, AfterCheck, FirstFile
  <1>6. ToldHolds'
    BY DEF IInv, IdentityTypeOK, LockHolds, ExcusesHold, ToldHolds, ProbeBegins, AfterCheck, FirstFile
  <1>7. ToldIsAnnounced' /\ PinWasAnnounced'
    BY DEF IInv, ToldIsAnnounced, PinWasAnnounced, ProbeBegins, Peer
  <1> QED
    BY <1>1, <1>2, <1>3, <1>4, <1>5, <1>6, <1>7 DEF IInv

LEMMA ExpiresStep ==
  ASSUME IInv, NEW d \in Devices, Expires(d)
  PROVE  IInv'
  <1> USE CallerFacts
  <1>1. IdentityTypeOK'
    BY NothingFacts, IdentityBounds DEF IInv, IdentityTypeOK, Expires
  <1>2. LockHolds'
    BY DEF IInv, IdentityTypeOK, LockHolds, Expires
  <1>3. IdentityIsWhole'
    BY DEF IInv, IdentityTypeOK, LockHolds, IdentityIsWhole, Expires
  <1>4. ExcusesHold'
    BY DEF IInv, IdentityTypeOK, LockHolds, ExcusesHold, Expires
  <1>5. SessionHolds'
    BY DEF IInv, IdentityTypeOK, SessionHolds, Expires
  <1>6. ToldHolds'
    BY DEF IInv, IdentityTypeOK, LockHolds, ExcusesHold, SessionHolds, ToldHolds, Expires
  <1>7. ToldIsAnnounced'
    BY DEF IInv, IdentityTypeOK, SessionHolds, ToldIsAnnounced, Expires
  <1>8. PinWasAnnounced'
    BY PeerFacts DEF IInv, IdentityTypeOK, PinWasAnnounced, Expires
  <1> QED
    BY <1>1, <1>2, <1>3, <1>4, <1>5, <1>6, <1>7, <1>8 DEF IInv

LEMMA FingerprintStep ==
  ASSUME IInv, NEW c \in Callers, Fingerprint(c)
  PROVE  IInv'
  <1> USE CallerFacts
  <1>1. IdentityTypeOK'
    BY NothingFacts, IdentityBounds DEF IInv, IdentityTypeOK, Fingerprint
  <1>2. LockHolds'
    BY DEF IInv, IdentityTypeOK, LockHolds, Fingerprint
  <1>3. IdentityIsWhole'
    BY DEF IInv, IdentityTypeOK, LockHolds, IdentityIsWhole, Fingerprint
  <1>4. ExcusesHold'
    BY DEF IInv, IdentityTypeOK, LockHolds, ExcusesHold, Fingerprint
  <1>5. SessionHolds'
    <2>1. CASE c[2] = "probe"
      <3>1. /\ UNCHANGED <<mode, told, chain, pkey>> /\ \A b \in Callers \ {c} : step'[b] = step[b]
            /\ step'[c] = "idle" /\ \A d \in Devices : SessionOf(d) # c
        BY <2>1 DEF IInv, IdentityTypeOK, Fingerprint
      <3> QED
        BY <3>1 DEF IInv, SessionHolds
    <2>2. CASE c = SessionOf(c[1])
      <3> PICK d \in Devices : d = c[1]
        OBVIOUS
      <3>1. /\ UNCHANGED <<mode, chain, pkey>> /\ step'[SessionOf(d)] = "idle"
            /\ \A b \in Callers \ {c} : step'[b] = step[b]
            /\ \A e \in Devices \ {d} : told'[e] = told[e] /\ SessionOf(e) # c
            /\ told[d] = Nothing /\ step[SessionOf(d)] = "read"
        <4>1. step' = [step EXCEPT ![c] = "idle"] /\ DOMAIN step = Callers
          BY DEF IInv, IdentityTypeOK, Fingerprint, Goes
        <4>2. told' = [told EXCEPT ![d] = cert[d]] /\ DOMAIN told = Devices
          BY <2>2 DEF IInv, IdentityTypeOK, Fingerprint
        <4>3. UNCHANGED <<mode, chain, pkey>> /\ told[d] = Nothing /\ step[SessionOf(d)] = "read"
          BY <2>2 DEF Fingerprint
        <4>4. \A e \in Devices \ {d} : SessionOf(e) # c
          BY <2>2 DEF SessionOf
        <4> QED
          BY <2>2, <4>1, <4>2, <4>3, <4>4
      <3>2. mode # "none" /\ chain[d] = Nothing /\ pkey[d] = Nothing
        BY <3>1 DEF IInv, SessionHolds
      <3> QED
        BY <2>2, <3>1, <3>2 DEF IInv, SessionHolds
    <2> QED
      BY <2>1, <2>2
  <1>6. ToldHolds'
    BY DEF IInv, IdentityTypeOK, LockHolds, ExcusesHold, SessionHolds, ToldHolds, Fingerprint
  <1>7. ToldIsAnnounced'
    BY DEF IInv, IdentityTypeOK, SessionHolds, ToldIsAnnounced, Fingerprint
  <1>8. PinWasAnnounced'
    BY PeerFacts DEF IInv, IdentityTypeOK, PinWasAnnounced, Fingerprint
  <1> QED
    BY <1>1, <1>2, <1>3, <1>4, <1>5, <1>6, <1>7, <1>8 DEF IInv

LEMMA LoadsChainStep ==
  ASSUME IInv, NEW c \in Callers, LoadsChain(c)
  PROVE  IInv'
  <1> USE CallerFacts
  <1>1. IdentityTypeOK'
    BY NothingFacts, IdentityBounds DEF IInv, IdentityTypeOK, LoadsChain, BeingWritten
  <1>2. LockHolds'
    BY DEF IInv, IdentityTypeOK, LockHolds, LoadsChain, BeingWritten
  <1>3. IdentityIsWhole'
    BY DEF IInv, IdentityTypeOK, LockHolds, IdentityIsWhole, LoadsChain, BeingWritten
  <1>4. ExcusesHold'
    BY DEF IInv, IdentityTypeOK, LockHolds, ExcusesHold, LoadsChain, BeingWritten
  <1>5. SessionHolds'
    <2> PICK d \in Devices : d = c[1]
      OBVIOUS
    <2>1. /\ UNCHANGED <<mode, told, pkey>> /\ step[SessionOf(d)] = "read" /\ step'[SessionOf(d)] = "load"
          /\ c = SessionOf(d) /\ \A b \in Callers \ {c} : step'[b] = step[b]
          /\ \A e \in Devices \ {d} : chain'[e] = chain[e] /\ SessionOf(e) # c
          /\ told[d] # Nothing /\ chain'[d] \in 0 .. MaxKeys
      <3>1. PICK read \in {cert[d], 0} : chain' = [chain EXCEPT ![d] = read]
        BY DEF LoadsChain
      <3>2. c = SessionOf(d) /\ told[d] # Nothing /\ step[c] = "read" /\ UNCHANGED <<mode, told, pkey>>
            /\ step' = [step EXCEPT ![c] = "load"]
        BY DEF LoadsChain
      <3>3. /\ \A b \in Callers \ {c} : step'[b] = step[b]
            /\ step'[c] = "load" /\ \A e \in Devices \ {d} : SessionOf(e) # c
        BY <3>2 DEF IInv, IdentityTypeOK
      <3>4. read \in 0 .. MaxKeys
        BY IdentityBounds DEF IInv, IdentityTypeOK
      <3>5. chain'[d] = read /\ \A e \in Devices \ {d} : chain'[e] = chain[e]
        BY <3>1 DEF IInv, IdentityTypeOK
      <3> QED
        BY <3>2, <3>3, <3>4, <3>5
    <2>2. pkey[d] = Nothing /\ mode # "none" /\ chain'[d] # Nothing
      BY <2>1, NothingFacts DEF IInv, SessionHolds
    <2> QED
      BY <2>1, <2>2 DEF IInv, SessionHolds
  <1>6. ToldHolds'
    BY DEF IInv, IdentityTypeOK, LockHolds, ExcusesHold, SessionHolds, ToldHolds, LoadsChain, BeingWritten
  <1>7. ToldIsAnnounced'
    BY DEF IInv, IdentityTypeOK, SessionHolds, ToldIsAnnounced, LoadsChain, BeingWritten
  <1>8. PinWasAnnounced'
    BY PeerFacts DEF IInv, IdentityTypeOK, PinWasAnnounced, LoadsChain, BeingWritten
  <1> QED
    BY <1>1, <1>2, <1>3, <1>4, <1>5, <1>6, <1>7, <1>8 DEF IInv

LEMMA LoadsKeyStep ==
  ASSUME IInv, NEW c \in Callers, LoadsKey(c)
  PROVE  IInv'
  <1> USE CallerFacts
  <1>1. IdentityTypeOK'
    BY NothingFacts, IdentityBounds DEF IInv, IdentityTypeOK, LoadsKey
  <1>2. LockHolds'
    BY DEF IInv, IdentityTypeOK, LockHolds, LoadsKey
  <1>3. IdentityIsWhole'
    BY DEF IInv, IdentityTypeOK, LockHolds, IdentityIsWhole, LoadsKey
  <1>4. ExcusesHold'
    BY DEF IInv, IdentityTypeOK, LockHolds, ExcusesHold, LoadsKey
  <1>5. SessionHolds'
    <2> PICK d \in Devices : d = c[1]
      OBVIOUS
    <2>1. /\ UNCHANGED <<mode, told, chain>> /\ step[c] = "load" /\ step'[c] = "idle"
          /\ \A b \in Callers \ {c} : step'[b] = step[b]
          /\ \A e \in Devices \ {d} : pkey'[e] = pkey[e] /\ SessionOf(e) # c
      BY DEF IInv, IdentityTypeOK, LoadsKey
    <2>2. c = SessionOf(d) /\ chain[d] # Nothing
      BY <2>1 DEF IInv, SessionHolds
    <2> QED
      BY <2>1, <2>2 DEF IInv, SessionHolds
  <1>6. ToldHolds'
    <2> PICK d \in Devices : d = c[1]
      OBVIOUS
    <2>1. /\ UNCHANGED <<excused, told, chain, valid, lock, cert>>
          /\ pkey'[d] = key[d] /\ \A e \in Devices \ {d} : pkey'[e] = pkey[e]
      BY DEF IInv, IdentityTypeOK, LoadsKey
    <2>2. d \notin excused => told[d] = Nothing \/ (valid[d] /\ lock[d] = d /\ ~torn[d])
      BY DEF IInv, ToldHolds, ExcusesHold
    <2>3. told[d] # Nothing /\ d \notin excused => key[d] = told[d]
      BY <2>2 DEF IInv, ToldHolds, ExcusesHold, IdentityIsWhole
    <2> QED
      BY <2>1, <2>3 DEF IInv, ToldHolds
  <1>7. ToldIsAnnounced'
    BY DEF IInv, IdentityTypeOK, SessionHolds, ToldIsAnnounced, LoadsKey
  <1>8. PinWasAnnounced'
    BY PeerFacts DEF IInv, IdentityTypeOK, PinWasAnnounced, LoadsKey
  <1> QED
    BY <1>1, <1>2, <1>3, <1>4, <1>5, <1>6, <1>7, <1>8 DEF IInv

LEMMA SessionBeginsStep ==
  ASSUME IInv, SessionBegins
  PROVE  IInv'
  <1> USE CallerFacts
  <1>1. IdentityTypeOK'
    BY NothingFacts, IdentityBounds DEF IInv, IdentityTypeOK, SessionBegins
  <1>2. LockHolds'
    BY DEF IInv, IdentityTypeOK, LockHolds, SessionBegins
  <1>3. IdentityIsWhole'
    BY DEF IInv, IdentityTypeOK, LockHolds, IdentityIsWhole, SessionBegins
  <1>4. ExcusesHold'
    BY DEF IInv, IdentityTypeOK, LockHolds, ExcusesHold, SessionBegins
  <1>5. SessionHolds'
    BY DEF IInv, IdentityTypeOK, SessionHolds, SessionBegins
  <1>6. ToldHolds'
    BY DEF IInv, IdentityTypeOK, LockHolds, ExcusesHold, SessionHolds, ToldHolds, SessionBegins
  <1>7. ToldIsAnnounced'
    BY DEF IInv, IdentityTypeOK, SessionHolds, ToldIsAnnounced, SessionBegins
  <1>8. PinWasAnnounced'
    BY PeerFacts DEF IInv, IdentityTypeOK, PinWasAnnounced, SessionBegins
  <1> QED
    BY <1>1, <1>2, <1>3, <1>4, <1>5, <1>6, <1>7, <1>8 DEF IInv

LEMMA MakesContextStep ==
  ASSUME IInv, NEW d \in Devices, MakesContext(d)
  PROVE  IInv'
  <1> USE CallerFacts
  <1>1. IdentityTypeOK'
    BY NothingFacts, IdentityBounds DEF IInv, IdentityTypeOK, MakesContext
  <1>2. LockHolds'
    <2>1. /\ UNCHANGED <<lock, made, raced, valid, cert>> /\ step[SessionOf(d)] = "idle"
          /\ step'[SessionOf(d)] = "check" /\ \A b \in Callers \ {SessionOf(d)} : step'[b] = step[b]
      BY DEF IInv, IdentityTypeOK, MakesContext
    <2> QED
      BY <2>1 DEF IInv, LockHolds
  <1>3. IdentityIsWhole'
    BY DEF IInv, IdentityTypeOK, LockHolds, IdentityIsWhole, MakesContext
  <1>4. ExcusesHold'
    BY DEF IInv, IdentityTypeOK, LockHolds, ExcusesHold, MakesContext
  <1>5. SessionHolds'
    BY DEF IInv, IdentityTypeOK, SessionHolds, MakesContext
  <1>6. ToldHolds'
    BY DEF IInv, IdentityTypeOK, LockHolds, ExcusesHold, SessionHolds, ToldHolds, MakesContext
  <1>7. ToldIsAnnounced'
    BY DEF IInv, IdentityTypeOK, SessionHolds, ToldIsAnnounced, MakesContext
  <1>8. PinWasAnnounced'
    BY PeerFacts DEF IInv, IdentityTypeOK, PinWasAnnounced, MakesContext
  <1> QED
    BY <1>1, <1>2, <1>3, <1>4, <1>5, <1>6, <1>7, <1>8 DEF IInv

LEMMA RemovePairedDeviceStep ==
  ASSUME IInv, NEW d \in Devices, RemovePairedDevice(d)
  PROVE  IInv'
  <1> USE CallerFacts
  <1>1. IdentityTypeOK'
    BY NothingFacts, IdentityBounds DEF IInv, IdentityTypeOK, RemovePairedDevice
  <1>2. LockHolds'
    BY DEF IInv, IdentityTypeOK, LockHolds, RemovePairedDevice
  <1>3. IdentityIsWhole'
    BY DEF IInv, IdentityTypeOK, LockHolds, IdentityIsWhole, RemovePairedDevice
  <1>4. ExcusesHold'
    BY DEF IInv, IdentityTypeOK, LockHolds, ExcusesHold, RemovePairedDevice
  <1>5. SessionHolds'
    BY DEF IInv, IdentityTypeOK, SessionHolds, RemovePairedDevice
  <1>6. ToldHolds'
    BY DEF IInv, IdentityTypeOK, LockHolds, ExcusesHold, SessionHolds, ToldHolds, RemovePairedDevice
  <1>7. ToldIsAnnounced'
    BY DEF IInv, IdentityTypeOK, SessionHolds, ToldIsAnnounced, RemovePairedDevice
  <1>8. PinWasAnnounced'
    BY PeerFacts DEF IInv, IdentityTypeOK, PinWasAnnounced, RemovePairedDevice
  <1> QED
    BY <1>1, <1>2, <1>3, <1>4, <1>5, <1>6, <1>7, <1>8 DEF IInv

LEMMA SessionEndsStep ==
  ASSUME IInv, SessionEnds
  PROVE  IInv'
  <1> USE CallerFacts
  <1>1. IdentityTypeOK'
    BY NothingFacts, IdentityBounds DEF IInv, IdentityTypeOK, SessionEnds, Settled
  <1>2. LockHolds'
    BY DEF IInv, IdentityTypeOK, LockHolds, SessionEnds, Settled
  <1>3. IdentityIsWhole'
    BY DEF IInv, IdentityTypeOK, LockHolds, IdentityIsWhole, SessionEnds, Settled
  <1>4. ExcusesHold'
    BY DEF IInv, IdentityTypeOK, LockHolds, ExcusesHold, SessionEnds, Settled
  <1>5. SessionHolds'
    BY DEF IInv, IdentityTypeOK, SessionHolds, SessionEnds, Settled
  <1>6. ToldHolds'
    BY DEF IInv, IdentityTypeOK, LockHolds, ExcusesHold, SessionHolds, ToldHolds, SessionEnds, Settled
  <1>7. ToldIsAnnounced'
    BY DEF IInv, IdentityTypeOK, SessionHolds, ToldIsAnnounced, SessionEnds, Settled
  <1>8. PinWasAnnounced'
    BY PeerFacts DEF IInv, IdentityTypeOK, PinWasAnnounced, SessionEnds, Settled
  <1> QED
    BY <1>1, <1>2, <1>3, <1>4, <1>5, <1>6, <1>7, <1>8 DEF IInv

LEMMA CrashStep ==
  ASSUME IInv, NEW d \in Devices, Crash(d)
  PROVE  IInv'
  <1> USE CallerFacts
  <1>1. IdentityTypeOK'
    BY NothingFacts, IdentityBounds DEF IInv, IdentityTypeOK, Crash
  <1>2. LockHolds'
    BY DEF IInv, IdentityTypeOK, LockHolds, Crash
  <1>3. IdentityIsWhole'
    BY DEF IInv, IdentityTypeOK, LockHolds, IdentityIsWhole, Crash
  <1>4. ExcusesHold'
    BY DEF IInv, IdentityTypeOK, LockHolds, ExcusesHold, Crash
  <1>5. SessionHolds'
    BY DEF IInv, IdentityTypeOK, SessionHolds, Crash
  <1>6. ToldHolds'
    BY DEF IInv, IdentityTypeOK, LockHolds, ExcusesHold, SessionHolds, ToldHolds, Crash
  <1>7. ToldIsAnnounced'
    BY DEF IInv, IdentityTypeOK, SessionHolds, ToldIsAnnounced, Crash
  <1>8. PinWasAnnounced'
    BY PeerFacts DEF IInv, IdentityTypeOK, PinWasAnnounced, Crash
  <1> QED
    BY <1>1, <1>2, <1>3, <1>4, <1>5, <1>6, <1>7, <1>8 DEF IInv

LEMMA VerifiesStep ==
  ASSUME IInv, NEW d \in Devices, Verifies(d)
  PROVE  IInv'
  <1> USE CallerFacts
  <1>9. /\ pin' \in {pin, [pin EXCEPT ![d] = chain[Peer(d)]]}
        /\ pin' # pin => mode = "pair"
        /\ \E saved \in BOOLEAN : paired' = [paired EXCEPT ![d] = paired[d] \/ saved]
        /\ verified' = verified \cup {d}
        /\ UNCHANGED <<key, cert, valid, lock, step, made, mode, told, chain, pkey, announced, keys,
                       raced, torn, excused>>
    BY DEF Verifies, SavePairData, SaveCertificate, SavePeerCertificate
  <1>10. Peer(d) \in Devices /\ Whole(Peer(d)) /\ Accepts(d)
    BY PeerFacts DEF Verifies, Accepts
  <1>11. chain[Peer(d)] \in 0 .. MaxKeys
    BY <1>10, NothingFacts DEF Whole, IInv, IdentityTypeOK
  <1>1. IdentityTypeOK'
    <2>1. pin' \in [Devices -> 0 .. MaxKeys] /\ paired' \in [Devices -> BOOLEAN] /\ verified' \subseteq Devices
      BY <1>9, <1>11 DEF IInv, IdentityTypeOK
    <2> QED
      BY <1>9, <2>1 DEF IInv, IdentityTypeOK
  <1>2. LockHolds'
    BY <1>9 DEF IInv, LockHolds
  <1>3. IdentityIsWhole'
    BY <1>9 DEF IInv, IdentityIsWhole
  <1>4. ExcusesHold'
    BY <1>9 DEF IInv, ExcusesHold
  <1>5. SessionHolds'
    BY <1>9 DEF IInv, SessionHolds
  <1>6. ToldHolds'
    BY <1>9 DEF IInv, ToldHolds
  <1>7. ToldIsAnnounced'
    BY <1>9 DEF IInv, ToldIsAnnounced
  <1>8. PinWasAnnounced'
    <2>1. mode = "pair" => chain[Peer(d)] = told[Peer(d)] /\ told[Peer(d)] # Nothing
      BY <1>10, <1>11, NothingFacts DEF Accepts, Matches, PeerCertificateFingerprint
    <2>2. mode = "pair" => chain[Peer(d)] \in announced[Peer(d)]
      BY <1>10, <2>1 DEF IInv, ToldIsAnnounced
    <2>3. \A e \in Devices : pin'[e] = pin[e] \/ (e = d /\ mode = "pair" /\ pin'[e] = chain[Peer(d)])
      BY <1>9 DEF IInv, IdentityTypeOK
    <2> QED
      BY <1>9, <2>2, <2>3 DEF IInv, PinWasAnnounced
  <1> QED
    BY <1>1, <1>2, <1>3, <1>4, <1>5, <1>6, <1>7, <1>8 DEF IInv

-------------------------------------------------------------------------------

LEMMA StutterStep ==
  ASSUME IInv, UNCHANGED identityVars
  PROVE  IInv'
  BY DEF IInv, IdentityTypeOK, LockHolds, IdentityIsWhole, ExcusesHold, SessionHolds, ToldHolds,
         ToldIsAnnounced, PinWasAnnounced

LEMMA NextStep == IInv /\ [IdentityNext]_identityVars => IInv'
  <1> SUFFICES ASSUME IInv, [IdentityNext]_identityVars
               PROVE  IInv'
    OBVIOUS
  <1>1. CASE UNCHANGED identityVars
    BY <1>1, StutterStep
  <1>2. CASE IdentityNext
    BY <1>2, ChecksStep, MakesKeyStep, MakesCertificateStep, CannotOpenStep, FingerprintStep,
       LoadsChainStep, LoadsKeyStep, ProbeBeginsStep, ExpiresStep, MakesContextStep, VerifiesStep,
       RemovePairedDeviceStep, CrashStep, SessionBeginsStep, SessionEndsStep, Zenon DEF IdentityNext
  <1> QED
    BY <1>1, <1>2

(* The invariant holds of every behaviour: however many keys are made, files *)
(* fail and processes are killed, and whichever devices scan.                *)
THEOREM IdentityInvariance == IdentitySpec => []IInv
  BY InitStep, NextStep, PTL DEF IdentitySpec

(* Every variable keeps its type; in particular what is pinned is a number   *)
(* of a certificate, never one that was not loaded.                          *)
THEOREM IdentityIsTyped == IdentitySpec => []IdentityTypeOK
  <1>1. IInv => IdentityTypeOK
    BY DEF IInv
  <1> QED
    BY <1>1, IdentityInvariance, PTL

(* A certificate that passes for valid is the key's, but for the race that   *)
(* torn records; a pairing that nothing disturbed shows in its TLS handshake *)
(* the certificates that were announced; and what a device pins its peer     *)
(* announced in a pairing (CryptographicIdentityManager.cpp:46,              *)
(* PrimaryConnection.cpp:18-53 and 158-196).                                 *)
THEOREM IdentitiesAreSound == IdentitySpec => []IdentityIsSound
  <1>1. ASSUME IInv, Settled, mode = "pair", excused = {}, NEW d \in Devices
        PROVE  Accepts(d)
    <2>1. ASSUME NEW e \in Devices
          PROVE  Whole(e) /\ chain[e] = told[e]
      <3>1. pkey[e] # Nothing /\ chain[e] # Nothing /\ told[e] # Nothing
        BY <1>1 DEF Settled, IInv, SessionHolds
      <3>2. chain[e] = told[e] /\ pkey[e] = told[e] /\ valid[e] /\ told[e] = cert[e]
        BY <1>1, <3>1 DEF IInv, ToldHolds
      <3>3. cert[e] # 0
        BY <3>2, <1>1 DEF IInv, LockHolds
      <3> QED
        BY <3>1, <3>2, <3>3 DEF Whole
    <2> QED
      BY <1>1, <2>1, PeerFacts DEF Accepts, Matches, PeerCertificateFingerprint
  <1>2. IInv => IdentityIsSound
    BY <1>1 DEF IInv, IdentityIsSound, PairingMeets
  <1> QED
    BY <1>2, IdentityInvariance, PTL

================================================================================
