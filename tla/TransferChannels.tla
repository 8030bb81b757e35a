---------------------------- MODULE TransferChannels ----------------------------
(***************************************************************************)
(* Transfers of files and directory listings over the pool of transfer     *)
(* channels (TransferChannelPool.cpp, TransferChannel.cpp and the          *)
(* coroutines of both FileShareModules that use them).                     *)
(*                                                                         *)
(* A job is one transfer.  The device that wants it asks over the primary  *)
(* connection; the other borrows a channel of its own pool, answers with   *)
(* the channel's index and starts its half; the first then starts the      *)
(* other half on its channel of that index.  A channel is a TLS stream     *)
(* whose ends are two objects, one in the pool of each device; each device *)
(* knows only which of its own halves use it.                              *)
(*                                                                         *)
(* A half is a coroutine on the channel's strand; what it does between two *)
(* suspensions is one action, and a Disconnect it asks for runs at once.   *)
(* A frame is two parts, head and body; content is the job they belong to. *)
(* How a new session sets up its channels is one step (SetUp), and the     *)
(* scan of the pool for a free channel is one step.                        *)
(* Bounds: MaxSession, and each job is asked for once.                     *)
(***************************************************************************)
EXTENDS Naturals, Sequences, FiniteSets

CONSTANTS
    Jobs,           \* transfers
    Kinds,          \* which kinds of transfer there are
    Channels,       \* the indices of the pool, from 1
    MaxSession      \* bound on the number of sessions

ASSUME ChannelBounds == Channels \subseteq Nat \ {0} /\ MaxSession \in Nat \ {0}

ASSUME KindAssumption == Kinds \subseteq {"list", "mms", "fetch", "export", "upload", "share"}

VARIABLES
    primary,        \* the primary connection is CONNECTED
    session,        \* the session, of both devices
    pool,           \* per device: the session m_channels belongs to
    connected,      \* per device: channels that are CONNECTED
    closing,        \* per device: channels whose Disconnect is posted to their strand
    reserved,       \* per device: m_reservedIncomingPostChannels
    wire,           \* per device and channel: parts on their way to it
    asker,          \* per job: the coroutine that asks
    server,         \* per job: the handler that borrows, and what it borrowed
    answer,         \* per job: the index in the response on its way, or 0
    half,           \* per job and direction: the transfer's coroutine
    mixed,          \* ghost: jobs whose receiver has read what was sent for another
    stale,          \* ghost: per device: reservations erased by a guard of an old session
    alone           \* ghost: no job has met another, given up, outlived its session, or
                    \* sent a directory's header that the receiver's buffer cannot hold

link     == <<primary, session>>
channels == <<pool, connected, closing, reserved, wire>>
job      == <<asker, server, answer>>
ghosts   == <<mixed, stale, alone>>
vars == <<link, channels, job, half, ghosts>>

-------------------------------------------------------------------------------

Devices    == {"desktop", "mobile"}
Directions == {"send", "receive"}
Objects    == (1 .. MaxSession + 1) \X Channels  \* one per session and index
Parts      == Jobs \X {"head", "body"}
None       == <<0, 0>>

Other(d) == IF d = "desktop" THEN "mobile" ELSE "desktop"

(* Who asks, who serves, and on which device each half runs. *)
Asks(j)   == IF asker[j].kind = "share" THEN "mobile" ELSE "desktop"
Serves(j) == Other(Asks(j))
Sends(j)  == IF asker[j].kind = "upload" THEN "desktop" ELSE "mobile"
At(j, direction) == IF direction = "send" THEN Sends(j) ELSE Other(Sends(j))
DirectionOn(j, d) == IF Sends(j) = d THEN "send" ELSE "receive"

Running == {"head", "body"}

NoServer == [at |-> "none", on |-> None, since |-> 0]
NoHalf   == [at |-> "none", on |-> None]
HalfOver == [at |-> "over", on |-> None]

TypeOK ==
    /\ primary \in BOOLEAN /\ session \in 1 .. MaxSession
    /\ pool \in [Devices -> 1 .. MaxSession + 1]
    /\ connected \in [Devices -> SUBSET Objects]
    /\ closing \in [Devices -> SUBSET Objects]
    /\ reserved \in [Devices -> SUBSET Channels]
    /\ wire \in [Devices -> [Objects -> Seq(Parts)]]
    /\ asker \in [Jobs -> [at : {"idle", "asked", "moving", "over"}, kind : Kinds \cup {"none"}]]
    /\ server \in [Jobs -> [at : {"none", "begun", "scan", "reserve", "recheck", "serve"},
                            on : Objects \cup {None}, since : 0 .. MaxSession + 1]]
    /\ answer \in [Jobs -> Channels \cup {0}]
    /\ half \in [Jobs -> [Directions -> [at : {"none", "posted", "over"} \cup Running,
                                         on : Objects \cup {None}]]]
    /\ mixed \in SUBSET Jobs
    /\ stale \in [Devices -> SUBSET Channels]
    /\ alone \in BOOLEAN

Current(d) == {pool[d]} \X Channels

Init ==
    /\ primary = TRUE /\ session = 1
    /\ pool = [d \in Devices |-> 1]
    /\ connected = [d \in Devices |-> Current(d)]
    /\ closing = [d \in Devices |-> {}]
    /\ reserved = [d \in Devices |-> {}]
    /\ wire = [d \in Devices |-> [c \in Objects |-> <<>>]]
    /\ asker = [j \in Jobs |-> [at |-> "idle", kind |-> "none"]]
    /\ server = [j \in Jobs |-> NoServer]
    /\ answer = [j \in Jobs |-> 0]
    /\ half = [j \in Jobs |-> [x \in Directions |-> NoHalf]]
    /\ mixed = {}
    /\ stale = [d \in Devices |-> {}] /\ alone = TRUE

(* IsUsed: m_send or m_receive of the object is set. *)
IsUsed(d, c, direction) ==
    \E j \in Jobs : /\ At(j, direction) = d
                    /\ half[j][direction].on = c /\ half[j][direction].at \in Running

Available(d, c) == c \in connected[d] /\ \A x \in Directions : ~IsUsed(d, c, x)

SetsHalf(j, direction, where, c) ==
    half' = [half EXCEPT ![j][direction] = [at |-> where, on |-> c]]

EndsHalf(j, direction) == half' = [half EXCEPT ![j][direction] = HalfOver]

Open(j) ==
    \/ asker[j].at \notin {"idle", "over"}
    \/ server[j].at # "none"
    \/ \E x \in Directions : half[j][x].at \in Running \cup {"posted"}

OpenBeside(j) == \E k \in Jobs \ {j} : Open(k)
-------------------------------------------------------------------------------
(* The coroutine that asks *)

Ask(j) ==
    /\ asker[j].at = "idle" /\ primary
    /\ \E kind \in Kinds : asker' = [asker EXCEPT ![j] = [at |-> "asked", kind |-> kind]]
    /\ server' = [server EXCEPT ![j].at = "begun"]
    /\ alone' = (alone /\ ~OpenBeside(j))
    /\ UNCHANGED <<link, channels, answer, half, mixed, stale>>

(* REQUEST_TIMEOUT, or the session is over. *)
GivesUp(j) ==
    /\ asker[j].at = "asked" /\ asker' = [asker EXCEPT ![j].at = "over"]
    /\ alone' = FALSE
    /\ UNCHANGED <<link, channels, server, answer, half, mixed, stale>>

Answered(j) == asker[j].at = "asked" /\ answer[j] # 0

(* The channel the answer names, in the pool as it is by now. *)
Named(j) == <<pool[Asks(j)], answer[j]>>

Over(j) == asker' = [asker EXCEPT ![j].at = "over"] /\ answer' = [answer EXCEPT ![j] = 0]

StartsOwnHalf(j) ==
    /\ Answered(j)
    /\ asker[j].kind \in {"fetch", "upload", "share"} => Named(j) \in connected[Asks(j)]
    /\ asker[j].kind = "fetch" => ~IsUsed(Asks(j), Named(j), "receive")
    /\ asker' = [asker EXCEPT ![j].at = "moving"] /\ answer' = [answer EXCEPT ![j] = 0]
    /\ SetsHalf(j, DirectionOn(j, Asks(j)), "posted", Named(j))
    /\ UNCHANGED <<link, channels, server, ghosts>>

FindsItClosed(j) ==
    /\ Answered(j) /\ Over(j)
    /\ asker[j].kind \in {"fetch", "upload", "share"} /\ Named(j) \notin connected[Asks(j)]
    /\ UNCHANGED <<link, channels, server, half, ghosts>>

(* "Transfer channel {} is in use": ConnectionManager::Disconnect. *)
FindsItInUse(j) ==
    /\ Answered(j) /\ Over(j)
    /\ asker[j].kind = "fetch" /\ Named(j) \in connected[Asks(j)]
    /\ IsUsed(Asks(j), Named(j), "receive")
    /\ primary' = FALSE
    /\ UNCHANGED <<session, channels, server, half, ghosts>>

(* StreamExportFile: the file's size is another by now, or the export was *)
(* cancelled before it had a channel.                                     *)
RefusesExport(j) ==
    /\ Answered(j) /\ Over(j) /\ asker[j].kind = "export"
    /\ closing' = [closing EXCEPT ![Asks(j)] = @ \cup ({Named(j)} \cap connected[Asks(j)])]
    /\ UNCHANGED <<link, pool, connected, reserved, wire, server, half, ghosts>>

(* RemoteFileBuffer::Cancel while the export runs. *)
CancelsExport(j) ==
    /\ asker[j].at = "moving" /\ asker[j].kind = "export"
    /\ half[j]["receive"].on \in connected["desktop"] \ closing["desktop"]
    /\ closing' = [closing EXCEPT !["desktop"] = @ \cup {half[j]["receive"].on}]
    /\ UNCHANGED <<link, pool, connected, reserved, wire, job, half, ghosts>>

HalfIsOver(j, x) == half[j][x] = HalfOver

AskerEnds(j) ==
    /\ asker[j].at = "moving" /\ HalfIsOver(j, DirectionOn(j, Asks(j)))
    /\ asker' = [asker EXCEPT ![j].at = "over"]
    /\ UNCHANGED <<link, channels, server, answer, half, ghosts>>
-------------------------------------------------------------------------------
(* BorrowTransferChannel, and the handlers that call it *)

(* s_connectionState: the pool is the session's own. *)
PoolIsConnected(d) == primary /\ pool[d] = session

ServerIsOver(j) == server' = [server EXCEPT ![j] = NoServer]

(* What is asked for cannot be had.  Only the handler of a listing answers    *)
(* all the same, with no entries where the index is expected: that reads 0.   *)
FailsToPrepare(j) ==
    /\ server[j].at = "begun" /\ ServerIsOver(j)
    /\ IF asker[j].kind = "list" /\ primary
       THEN \E first \in Channels : /\ \A k \in Channels : first <= k
                                    /\ answer' = [answer EXCEPT ![j] = first]
       ELSE UNCHANGED answer
    /\ UNCHANGED <<link, channels, asker, half, ghosts>>

Scans(j) == server[j].at \in {"begun", "scan"}

ScanThrows(j) ==
    /\ Scans(j) /\ ~PoolIsConnected(Serves(j))
    /\ ServerIsOver(j)
    /\ UNCHANGED <<link, channels, asker, answer, half, ghosts>>

Free(d, i) == i \notin reserved[d] /\ Available(d, <<pool[d], i>>)

Scan(j) ==
    /\ Scans(j) /\ PoolIsConnected(Serves(j))
    /\ \E i \in Channels :
         /\ Free(Serves(j), i) /\ \A k \in Channels : Free(Serves(j), k) => i <= k
         /\ server' = [server EXCEPT ![j] = [at |-> "reserve", since |-> 0,
                                             on |-> <<pool[Serves(j)], i>>]]
    /\ UNCHANGED <<link, channels, asker, answer, half, ghosts>>

Rescan(j) == server' = [server EXCEPT ![j] = [NoServer EXCEPT !.at = "scan"]]

(* Variant: the reservation is taken without a look. *)
ReservesBlindly(j) ==
    /\ server[j].at = "reserve"
    /\ server' = [server EXCEPT ![j].at = "recheck", ![j].since = pool[Serves(j)]]
    /\ reserved' = [reserved EXCEPT ![Serves(j)] = @ \cup {server[j].on[2]}]
    /\ UNCHANGED <<link, pool, connected, closing, wire, asker, answer, half, ghosts>>

TryReserve(j) ==
    /\ server[j].at = "reserve"
    /\ IF server[j].on[2] \in reserved[Serves(j)]
       THEN Rescan(j) /\ UNCHANGED reserved
       ELSE /\ server' = [server EXCEPT ![j].at = "recheck", ![j].since = pool[Serves(j)]]
            /\ reserved' = [reserved EXCEPT ![Serves(j)] = @ \cup {server[j].on[2]}]
    /\ UNCHANGED <<link, pool, connected, closing, wire, asker, answer, half, ghosts>>

(* The guard's deleter erases the index, whoever has reserved it by now. *)
Releases(j) ==
    LET d == Serves(j)
        i == server[j].on[2]
    IN  /\ reserved' = [reserved EXCEPT ![d] = @ \ {i}]
        /\ stale' = [stale EXCEPT ![d] = IF server[j].since # pool[d] THEN @ \cup ({i} \cap reserved[d])
                                         ELSE @]
        /\ UNCHANGED <<pool, connected, closing, wire>>

DropsGuard(j) ==
    /\ server[j].at = "recheck" /\ ~Available(Serves(j), server[j].on)
    /\ Rescan(j) /\ Releases(j)
    /\ UNCHANGED <<link, asker, answer, half, mixed, alone>>

(* The channel is borrowed: the handler starts its half and answers. *)
Grants(j) ==
    /\ server[j].at = "recheck" /\ Available(Serves(j), server[j].on)
    /\ server' = [server EXCEPT ![j].at = "serve"]
    /\ answer' = [answer EXCEPT ![j] = IF primary THEN server[j].on[2] ELSE 0]
    /\ SetsHalf(j, DirectionOn(j, Serves(j)), "posted", server[j].on)
    /\ UNCHANGED <<link, channels, asker, ghosts>>

(* Variant: the guard is kept by the connection, not by the handler. *)
ServerKeepsGuard(j) ==
    /\ server[j].at = "serve" /\ HalfIsOver(j, DirectionOn(j, Serves(j)))
    /\ ServerIsOver(j)
    /\ UNCHANGED <<link, channels, asker, answer, half, ghosts>>

ServerEnds(j) ==
    /\ server[j].at = "serve" /\ HalfIsOver(j, DirectionOn(j, Serves(j)))
    /\ ServerIsOver(j) /\ Releases(j)
    /\ UNCHANGED <<link, asker, answer, half, mixed, alone>>
-------------------------------------------------------------------------------
(* The halves, on the strand of their channel *)

Kept == UNCHANGED <<link, pool, closing, reserved, job, stale, alone>>

(* CoDisconnect of channel c on device d. *)
Disconnects(d, c) ==
    /\ connected' = [connected EXCEPT ![d] = @ \ {c}]
    /\ wire' = [wire EXCEPT ![d][c] = <<>>]

(* A Disconnect posted to the strand before the half runs before it. *)
Starts(j, x) ==
    LET d == At(j, x)
        c == half[j][x].on
    IN  /\ half[j][x].at = "posted" /\ c \notin closing[d]
        /\ IF c \in connected[d] /\ ~IsUsed(d, c, x) THEN SetsHalf(j, x, "head", c) ELSE EndsHalf(j, x)
        /\ UNCHANGED <<connected, wire, mixed>> /\ Kept

(* The half goes on with its body, or is over. *)
Advances(j, x) ==
    IF half[j][x].at = "head" THEN SetsHalf(j, x, "body", half[j][x].on) ELSE EndsHalf(j, x)

Writes(j) ==
    LET h == half[j]["send"]
        d == Sends(j)
    IN  /\ h.at \in Running /\ h.on \in connected[d] \cap connected[Other(d)]
        /\ wire' = [wire EXCEPT ![Other(d)][h.on] = Append(@, <<j, h.at>>)]
        /\ Advances(j, "send")
        /\ UNCHANGED <<connected, mixed>> /\ Kept

Fails(j, x) == EndsHalf(j, x) /\ UNCHANGED mixed /\ Kept
DisconnectsOwn(j, x) == Disconnects(At(j, x), half[j][x].on)
LeavesOpen == UNCHANGED <<connected, wire>>

(* SendFile does not catch what its header's write throws; every other write *)
(* does, and disconnects.                                                    *)
WriteFails(j) ==
    LET h == half[j]["send"]
        d == Sends(j)
    IN  /\ h.at \in Running /\ h.on \notin connected[d] \cap connected[Other(d)]
        /\ Fails(j, "send")
        /\ DisconnectsOwn(j, "send") \/ (h.at = "head" /\ asker[j].kind # "list" /\ LeavesOpen)

(* What is to be sent cannot be read.  A directory's sender disconnects, and  *)
(* so does a file's that stops in the middle; a file whose size is not known, *)
(* before its header, or that does not open, after it, is only reported.      *)
SourceFails(j) ==
    /\ half[j]["send"].at \in Running /\ asker[j].kind # "list"
    /\ Fails(j, "send")
    /\ DisconnectsOwn(j, "send") \/ LeavesOpen

(* Content that is not its own may look wrong to the receiver, or not. *)
Reads(j) ==
    LET h == half[j]["receive"]
        d == Other(Sends(j))
    IN  /\ h.at \in Running /\ h.on \in connected[d] /\ wire[d][h.on] # <<>>
        /\ mixed' = mixed \cup {k \in {j} : Head(wire[d][h.on])[1] # j}
        /\ \/ /\ Advances(j, "receive")
              /\ wire' = [wire EXCEPT ![d][h.on] = Tail(@)] /\ UNCHANGED connected
           \/ /\ Head(wire[d][h.on]) # <<j, h.at>>
              /\ EndsHalf(j, "receive")
              /\ IF asker[j].kind = "list"
                 THEN wire' = [wire EXCEPT ![d][h.on] = Tail(@)] /\ UNCHANGED connected
                 ELSE Disconnects(d, h.on)
        /\ Kept

(* CoReceiveDirectory throws at a header longer than its buffer, CoReceiveFile *)
(* at one it cannot deserialize, and neither disconnects.                      *)
RefusesHeader(j) ==
    LET h == half[j]["receive"]
        d == Other(Sends(j))
    IN  /\ h.at = "head" /\ h.on \in connected[d] /\ wire[d][h.on] # <<>>
        /\ asker[j].kind \notin {"list", "export"}
        /\ asker[j].kind = "mms" => Head(wire[d][h.on]) # <<j, "head">>
        /\ EndsHalf(j, "receive")
        /\ wire' = [wire EXCEPT ![d][h.on] = Tail(@)]
        /\ mixed' = mixed \cup {k \in {j} : Head(wire[d][h.on])[1] # j}
        /\ alone' = FALSE
        /\ UNCHANGED <<link, pool, connected, closing, reserved, job, stale>>

(* Variant: an export that fails in the middle of a frame leaves its channel. *)
SinkFailsQuietly(j) ==
    /\ half[j]["receive"].at = "body" /\ asker[j].kind # "list"
    /\ Fails(j, "receive") /\ LeavesOpen

(* The destination cannot be written, or the export was cancelled. *)
SinkFails(j) ==
    /\ half[j]["receive"].at = "body" /\ asker[j].kind # "list"
    /\ Fails(j, "receive") /\ DisconnectsOwn(j, "receive")

(* ReceiveDirectoryEntries and the header of ReceiveFile are not caught. *)
ReadFails(j) ==
    LET h == half[j]["receive"]
        d == Other(Sends(j))
    IN  /\ h.at \in Running
        /\ h.on \notin connected[d] \/ (h.on \notin connected[Other(d)] /\ wire[d][h.on] = <<>>)
        /\ Fails(j, "receive")
        /\ \/ asker[j].kind # "list" /\ DisconnectsOwn(j, "receive")
           \/ /\ asker[j].kind = "list" \/ (asker[j].kind # "export" /\ h.at = "head")
              /\ LeavesOpen
-------------------------------------------------------------------------------
(* The session *)

ChannelCloses(d, c) ==
    /\ c \in closing[d] /\ closing' = [closing EXCEPT ![d] = @ \ {c}]
    /\ Disconnects(d, c)
    /\ UNCHANGED <<link, pool, reserved, job, half, ghosts>>

PrimaryDrops ==
    /\ primary /\ primary' = FALSE
    /\ UNCHANGED <<session, channels, job, half, ghosts>>

(* Variant: every report of the end of a session resets the pool. *)
ResetsAgain(d) ==
    /\ ~primary /\ pool[d] <= MaxSession + 1
    /\ pool' = [pool EXCEPT ![d] = @ + 1]
    /\ reserved' = [reserved EXCEPT ![d] = {}]
    /\ closing' = [closing EXCEPT ![d] = @ \cup (connected[d] \cap Current(d))]
    /\ stale' = [stale EXCEPT ![d] = {}]
    /\ UNCHANGED <<link, connected, wire, job, half, mixed, alone>>

(* Variant: the channels of the old pool are let go without a Disconnect. *)
ResetForgets(d) ==
    /\ ~primary /\ pool[d] = session
    /\ pool' = [pool EXCEPT ![d] = session + 1]
    /\ reserved' = [reserved EXCEPT ![d] = {}]
    /\ stale' = [stale EXCEPT ![d] = {}]
    /\ UNCHANGED <<link, connected, closing, wire, job, half, mixed, alone>>

(* Reset, when the application hears of the end of the session. *)
Reset(d) ==
    /\ ~primary /\ pool[d] = session
    /\ pool' = [pool EXCEPT ![d] = session + 1]
    /\ reserved' = [reserved EXCEPT ![d] = {}]
    /\ closing' = [closing EXCEPT ![d] = @ \cup (connected[d] \cap Current(d))]
    /\ stale' = [stale EXCEPT ![d] = {}]
    /\ UNCHANGED <<link, connected, wire, job, half, mixed, alone>>

(* A new session, and Connect and Seek have connected both pools. *)
SetUp ==
    /\ ~primary /\ session < MaxSession /\ \A d \in Devices : pool[d] = session + 1
    /\ primary' = TRUE /\ session' = session + 1
    /\ connected' = [d \in Devices |-> connected[d] \cup Current(d)]
    /\ alone' = (alone /\ ~\E j \in Jobs : Open(j))
    /\ UNCHANGED <<pool, closing, reserved, wire, job, half, mixed, stale>>
-------------------------------------------------------------------------------

AskerStep(j) ==
    \/ Ask(j) \/ GivesUp(j) \/ StartsOwnHalf(j) \/ FindsItClosed(j) \/ FindsItInUse(j)
    \/ RefusesExport(j) \/ CancelsExport(j) \/ AskerEnds(j)

ServerStep(j) ==
    \/ FailsToPrepare(j) \/ ScanThrows(j) \/ Scan(j) \/ TryReserve(j) \/ DropsGuard(j)
    \/ Grants(j) \/ ServerEnds(j)

Moves(j) ==
    \/ \E x \in Directions : Starts(j, x)
    \/ Writes(j) \/ WriteFails(j) \/ Reads(j) \/ ReadFails(j)

Next ==
    \/ \E j \in Jobs : AskerStep(j) \/ ServerStep(j) \/ Moves(j)
                      \/ SourceFails(j) \/ SinkFails(j) \/ RefusesHeader(j)
    \/ \E d \in Devices : Reset(d) \/ \E c \in Objects : ChannelCloses(d, c)
    \/ PrimaryDrops \/ SetUp

Spec == Init /\ [][Next]_vars

(* The pool of threads runs what is ready, and the application hears of the *)
(* end of a session; nothing is assumed of users, timers and the network.   *)
Fairness ==
    /\ \A j \in Jobs : WF_vars(Moves(j)) /\ WF_vars(ServerEnds(j))
    /\ \A d \in Devices : WF_vars(Reset(d)) /\ WF_vars(\E c \in Objects : ChannelCloses(d, c))

FairSpec == Spec /\ Fairness
-------------------------------------------------------------------------------
(* Properties *)

(* The handlers of device d that hold a guard of the pool's session.         *)
Holders(d) ==
    {j \in Jobs : Serves(j) = d /\ server[j].at \in {"recheck", "serve"}
                                /\ server[j].since = pool[d]}

(* A reserved index has a handler that will release it, and the handlers of  *)
(* the session have their index reserved, unless a guard of an old session   *)
(* erased it (TransferChannelPool.cpp:422 does not know whose it is).        *)
GuardsMatchReservations ==
    \A d \in Devices :
        LET held == {server[j].on[2] : j \in Holders(d)}
        IN  reserved[d] \subseteq held /\ held \subseteq reserved[d] \cup stale[d]

(* Two handlers of a device never hold one channel, but for that case: what  *)
(* the scan of the pool saw may be old, the reservation decides.             *)
OneBorrower ==
    \A d \in Devices : \A j, k \in Holders(d) :
        j # k /\ server[j].on[2] = server[k].on[2] => server[j].on[2] \in stale[d]

(* As long as jobs come one after the other, each to its end, a receiver     *)
(* reads only what was sent for it, whatever failed before; but for a        *)
(* directory's header that is too long (see alone).                          *)
AloneReadsItsOwn == alone => mixed = {}

(* A transfer does not outlive its session: whatever it waits for, Reset     *)
(* closes its channel and its coroutine ends ("PeerDisappearingDuringFile-   *)
(* FailsAndReleasesChannel").                                                *)
TransfersEndWithTheSession ==
    \A j \in Jobs, x \in Directions :
        (~primary /\ half[j][x].at \in Running) ~> (half[j][x].at \notin Running)

(* "The stream cannot be reused after a partial frame": no frame follows a   *)
(* header whose content never came.                                          *)
NotReusedAfterPartialFrame ==
    \A d \in Devices, c \in Objects :
        \A n \in 1 .. Len(wire[d][c]) - 1 :
            wire[d][c][n][2] = "head" => wire[d][c][n + 1][1] = wire[d][c][n][1]
===============================================================================
