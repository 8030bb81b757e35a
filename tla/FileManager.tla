------------------------------ MODULE FileManager ------------------------------
(* The desktop's file manager: FileManagerController, which runs on the Qt thread *)
(* alone, and the coroutines of FileShareModule that it starts and whose results  *)
(* come back as posted events.  One action is under way at a time; what the user  *)
(* asks for meanwhile waits in one queue per kind.  `ui` is the controller: its    *)
(* handlers call each other, so each is a function of it.  ui.tasks are the        *)
(* coroutines it has started.                                                      *)
EXTENDS Integers, Sequences, FiniteSets, SequencesExt

CONSTANTS
    Contents,     \* what each folder of the phone holds
    Files,        \* files of the desktop, to upload
    MaxClicks,    \* bound: what the user asks for
    MaxOffs,      \* bound: times the module is turned off in a session
    MaxSessions   \* bound: sessions

VARIABLES
    ui,           \* the controller and the coroutines it has started
    moduleOn,     \* FileShareModule is Enabled
    posted,       \* events posted to the controller and not yet handled
    vanished,     \* files of the desktop that are no longer there
    linked,       \* the session is up
    clicks, offs, sessions  \* counters

fileVars == <<ui, moduleOn, posted, vanished, linked, clicks, offs, sessions>>

Folders   == DOMAIN Contents
Entries   == UNION {Contents[d] : d \in Folders}
Transfers == {"download", "open", "copy", "upload", "delete"}
NoBatch   == [active |-> FALSE, total |-> 0, done |-> 0]
NoQueues  == [download |-> << >>, open |-> << >>, copy |-> << >>, upload |-> << >>]
Home      == CHOOSE d \in Folders : Contents[d] # {}

(* The constructor has asked for the first listing. *)
Init ==
    /\ ui = [folder |-> Home, lookup |-> {}, action |-> "browse", waiting |-> TRUE,
             target |-> {}, doomed |-> {}, browse |-> Home, queue |-> NoQueues,
             down |-> NoBatch, up |-> NoBatch, tasks |-> << >>, overtaken |-> FALSE,
             stalled |-> FALSE]
    /\ moduleOn = FALSE /\ posted = << >> /\ vanished = {} /\ linked = TRUE
    /\ clicks = 0 /\ offs = 0 /\ sessions = 1

-----------------------------------------------------------------------------
(* Starting work. *)

Busy(s) == s.action # "none" \/ s.waiting

(* m_activeEntryPath: empty while several entries are copied. *)
Active(s) == IF Cardinality(s.target) = 1 THEN s.target ELSE {}

Start(s, kind, what) == [s EXCEPT !.tasks = Append(@, [kind |-> kind, what |-> what])]

(* TryBeginDirectoryRequest: a folder is listed once at a time. *)
List(s, d) ==
    IF \E i \in DOMAIN s.tasks : s.tasks[i] = [kind |-> "list", what |-> {d}]
    THEN s ELSE Start(s, "list", {d})

(* loadDirectory.  With the module off, the browse takes the place of whatever     *)
(* action was pending; `overtaken` remembers that it was one.                      *)
Load(s, d) ==
    LET here == [s EXCEPT !.folder = d]
    IN  IF moduleOn THEN List(here, d)
        ELSE [here EXCEPT !.waiting = TRUE, !.action = "browse", !.browse = d]

(* Ghost: what is queued now waits until the user asks for something more.           *)
Stalls(s) == [s EXCEPT !.stalled = TRUE]

(* What beginning a download, an opening, a copy or an upload comes to: the action *)
(* is pending until the module is on, and a coroutine of it runs from then on.     *)
Take(s, kind, what) ==
    LET t == [s EXCEPT !.action = kind, !.target = what, !.waiting = ~moduleOn, !.stalled = FALSE]
    IN  IF moduleOn THEN Start(t, kind, what) ELSE t

(* The entry cleared, the action over. *)
Clear(s) == [s EXCEPT !.target = {}, !.action = "none", !.waiting = FALSE]

(* openEntry and copyEntries, from the queue: an entry that the folder shown no    *)
(* longer holds is given up, and with it the turn of what is queued behind it.     *)
OpenNext(s) ==
    LET e == Head(s.queue.open)
        t == [s EXCEPT !.queue.open = Tail(@)]
    IN  IF e \in s.lookup THEN Take(t, "open", {e}) ELSE Stalls(t)

CopyNext(s) ==
    LET these == Head(s.queue.copy) \cap s.lookup
        t == [s EXCEPT !.queue.copy = Tail(@)]
    IN  IF these # {} THEN Take(t, "copy", these) ELSE Stalls(t)

(* startNextQueuedUpload: files that have vanished are counted and passed over.    *)
(* At the end of the queue m_waitingForModule stays as it is, even if it is set.   *)
UploadNext(s) ==
    LET q == s.queue.upload
        n == SelectInSeq(q, LAMBDA f : f \notin vanished)
    IN  IF n = 0
        THEN [s EXCEPT !.action = "none", !.target = {}, !.queue.upload = << >>, !.up = NoBatch,
                       !.stalled = @ \/ s.waiting]
        ELSE Take([s EXCEPT !.queue.upload = SubSeq(q, n + 1, Len(q)), !.up.done = @ + n - 1],
                  "upload", {q[n]})

(* startNextQueuedAction once no download is queued. *)
AfterDownloads(s) ==
    CASE s.queue.open # << >> -> OpenNext(s)
      [] s.queue.open = << >> /\ s.queue.copy # << >> -> CopyNext(s)
      [] s.queue.open = << >> /\ s.queue.copy = << >> /\ s.queue.upload # << >> ->
            UploadNext([s EXCEPT !.up.active = TRUE,
                                 !.up.total = IF ~s.up.active /\ @ = 0 THEN Len(s.queue.upload) ELSE @])
      [] OTHER -> s

(* startNextQueuedDownload: entries not in the folder shown count as failed. *)
DownloadNext(s) ==
    LET q == s.queue.download
        n == SelectInSeq(q, LAMBDA e : e \in s.lookup)
    IN  IF n = 0
        THEN AfterDownloads(Clear([s EXCEPT !.queue.download = << >>, !.down = NoBatch]))
        ELSE Take([s EXCEPT !.queue.download = SubSeq(q, n + 1, Len(q)), !.down.done = @ + n - 1],
                  "download", {q[n]})

(* Variant: the next action starts whether or not one is under way. *)
StartNextAlways(s) ==
    IF s.queue.download # << >> THEN DownloadNext(s) ELSE AfterDownloads(s)

StartNext(s) ==
    CASE Busy(s) -> s
      [] ~Busy(s) /\ s.queue.download # << >> ->
            DownloadNext(IF s.down.active THEN s
                         ELSE [s EXCEPT !.down = [active |-> TRUE, total |-> Len(s.queue.download), done |-> 0]])
      [] OTHER -> AfterDownloads(s)

NextUpload(s) == LET t == UploadNext(s) IN IF t.action = "none" THEN StartNext(t) ELSE t

(* startPendingActionIfReady, of an action that was waiting for the module. *)
Ready(s) ==
    LET there == (IF s.action = "delete" THEN s.doomed ELSE s.target) \cap s.lookup
        over  == [s EXCEPT !.waiting = FALSE, !.action = "none"]
    IN  CASE s.action = "none" -> s
          [] s.action = "browse" -> List(IF s.browse = s.folder THEN over ELSE Stalls(over), s.browse)
          [] s.action = "upload" /\ s.target \subseteq vanished ->
                IF s.queue.upload # << >> THEN NextUpload([s EXCEPT !.up.done = @ + 1])
                ELSE StartNext([over EXCEPT !.up = NoBatch])
          [] s.action = "upload" /\ ~(s.target \subseteq vanished) ->
                Start([s EXCEPT !.waiting = FALSE], "upload", s.target)
          [] s.action \in Transfers \ {"upload"} /\ there = {} -> StartNext(over)
          [] s.action \in Transfers \ {"upload"} /\ there # {} ->
                Start([s EXCEPT !.waiting = FALSE,
                                !.doomed = IF s.action = "delete" THEN {} ELSE @], s.action, there)

-----------------------------------------------------------------------------
(* What the user asks for. *)

Click ==
    /\ clicks < MaxClicks /\ clicks' = clicks + 1
    /\ UNCHANGED <<moduleOn, posted, vanished, linked, offs, sessions>>

Browse(d) ==
    /\ Click
    /\ ui' = Load([ui EXCEPT !.overtaken = @ \/ (~moduleOn /\ ui.action \in Transfers)], d)

(* downloadEntries: one entry starts, several start a batch; while another action *)
(* is under way those not yet named are queued, and make the one that is running   *)
(* the first of a batch.                                                           *)
WhileBusyDownload(s, q) ==
    LET new == SelectSeq(q, LAMBDA e : e \notin Active(s) \cup ToSet(s.queue.download))
        running == IF s.action = "download" THEN 1 ELSE 0
    IN  IF new = << >> THEN s
        ELSE [s EXCEPT !.queue.download = @ \o new,
                       !.down = IF @.active THEN [@ EXCEPT !.total = @ + Len(new)]
                                ELSE [active |-> TRUE, total |-> running + Len(new), done |-> 0]]

Download(these) ==
    LET q == SetToSeq(these \cap ui.lookup)
    IN  /\ Click /\ q # << >>
        /\ ui' = CASE Busy(ui) -> WhileBusyDownload(ui, q)
                   [] ~Busy(ui) /\ Len(q) = 1 ->
                        Take([ui EXCEPT !.queue.download = << >>,
                                        !.down = [active |-> FALSE, total |-> 1, done |-> 0]],
                             "download", {q[1]})
                   [] ~Busy(ui) /\ Len(q) > 1 ->
                        DownloadNext([ui EXCEPT !.queue.download = q,
                                                !.down = [active |-> TRUE, total |-> Len(q), done |-> 0]])

OpenEntry(e) ==
    /\ Click /\ e \in ui.lookup
    /\ \/ ~Busy(ui) /\ ui' = Take(ui, "open", {e})
       \/ /\ Busy(ui) /\ e \notin Active(ui) \cup ToSet(ui.queue.open)
          /\ ui' = [ui EXCEPT !.queue.open = Append(@, e)]

Copy(these) ==
    LET held == these \cap ui.lookup
    IN  /\ Click /\ held # {}
        /\ \/ ~Busy(ui) /\ ui' = Take(ui, "copy", held)
           \/ /\ Busy(ui) /\ ~(ui.action = "copy" /\ ui.target = held)
              /\ held \notin ToSet(ui.queue.copy)
              /\ ui' = [ui EXCEPT !.queue.copy = Append(@, held)]

(* uploadLocalEntry: a file already queued or being uploaded is not taken twice. *)
Upload(f) ==
    LET begun == IF ui.up.active THEN ui ELSE [ui EXCEPT !.up = [NoBatch EXCEPT !.active = TRUE]]
        next  == [begun EXCEPT !.queue.upload = Append(@, f), !.up.total = @ + 1]
    IN  /\ Click /\ f \notin vanished
        /\ f \notin ToSet(ui.queue.upload) \cup ui.target
        /\ ui' = IF Busy(ui) THEN next ELSE NextUpload(next)

(* deleteEntries refuses while anything is under way. *)
Delete(these) ==
    LET held == these \cap ui.lookup
    IN  /\ Click /\ held # {} /\ ~Busy(ui)
        /\ ui' = IF moduleOn
                 THEN Start([ui EXCEPT !.action = "delete", !.doomed = {}], "delete", held)
                 ELSE [ui EXCEPT !.action = "delete", !.doomed = held, !.waiting = TRUE]

-----------------------------------------------------------------------------
(* The coroutines of the module. *)

(* What a coroutine posts when it ends: a copy reports each entry it fetched too. *)
Reports(task, ok) ==
    IF task.kind = "copy"
    THEN [i \in 1..Cardinality(task.what) |->
            [kind |-> "entry", what |-> {SetToSeq(task.what)[i]}, ok |-> ok]]
         \o <<[kind |-> "copied", what |-> task.what, ok |-> ok]>>
    ELSE <<[kind |-> CASE task.kind = "list" -> "listed"
                       [] task.kind = "delete" -> "deleted"
                       [] OTHER -> "entry",
            what |-> task.what, ok |-> ok]>>

(* A listing that fails posts no listing; only a session that is up succeeds. *)
TaskEnds(i, ok) ==
    LET task == ui.tasks[i]
    IN  /\ task.kind # "lost"
        /\ ok => linked
        /\ task.kind = "upload" => ~(task.what \subseteq vanished)
        /\ ui' = [ui EXCEPT !.tasks = RemoveAt(@, i), !.stalled = @ \/ (task.kind = "list" /\ ~ok)]
        /\ posted' = IF task.kind = "list" /\ ~ok THEN posted ELSE posted \o Reports(task, ok)
        /\ UNCHANGED <<moduleOn, vanished, linked, clicks, offs, sessions>>

(* PostEntryAwaitable finds that the file is gone and returns: nobody is told. *)
TaskIsLost(i) ==
    /\ ui.tasks[i].kind = "upload" /\ ui.tasks[i].what \subseteq vanished
    /\ ui' = [ui EXCEPT !.tasks[i].kind = "lost"]
    /\ UNCHANGED <<moduleOn, posted, vanished, linked, clicks, offs, sessions>>

-----------------------------------------------------------------------------
(* The events of the controller. *)

Listed(s, event) ==
    IF event.what # {s.folder} THEN s ELSE StartNext([s EXCEPT !.lookup = Contents[s.folder]])

(* EntryTransferResultEvent: what is not the active entry's is not read; the last  *)
(* case is the code's else, which takes any other action for a download.           *)
TransferEnded(s, event) ==
    LET done(t)  == StartNext(Clear(t))
        fresh    == IF event.ok THEN Load([s EXCEPT !.up.done = @ + 1], s.folder)
                    ELSE [s EXCEPT !.up.done = @ + 1]
        counted  == IF s.down.active THEN [s EXCEPT !.down.done = @ + 1] ELSE s
        reset(t) == IF s.action = "download"
                    THEN [t EXCEPT !.queue.download = << >>, !.down = NoBatch] ELSE t
    IN  CASE s.action = "none" \/ (Active(s) # {} /\ event.what # Active(s)) -> s
          [] OTHER ->
             CASE s.action = "copy" -> s
               [] s.action = "upload" /\ s.queue.upload # << >> -> NextUpload(fresh)
               [] s.action = "upload" /\ s.queue.upload = << >> -> done([fresh EXCEPT !.up = NoBatch])
               [] s.action = "open" -> done(s)
               [] OTHER -> IF s.down.active /\ s.queue.download # << >> THEN DownloadNext(counted)
                           ELSE done(reset(counted))

(* Variant: the delete that ends does not look at the queues. *)
DeletedAlone(s, event) ==
    IF s.action # "delete" THEN s
    ELSE Clear([(IF event.ok THEN Load(s, s.folder) ELSE s) EXCEPT !.doomed = {}])

Deleted(s, event) ==
    IF s.action # "delete" THEN s
    ELSE StartNext(Clear([(IF event.ok THEN Load(s, s.folder) ELSE s) EXCEPT !.doomed = {}]))

Disconnected(s) ==
    [s EXCEPT !.waiting = FALSE, !.action = "none", !.queue = NoQueues, !.target = {},
              !.down.active = FALSE, !.up.active = FALSE, !.lookup = {}, !.stalled = FALSE]

HandlesEvent ==
    LET event == Head(posted)
    IN  /\ posted # << >> /\ posted' = Tail(posted)
        /\ ui' = CASE event.kind = "listed"  -> Listed(ui, event)
                   [] event.kind = "entry"   -> TransferEnded(ui, event)
                   [] event.kind = "copied"  -> IF ui.action = "copy" THEN StartNext(Clear(ui)) ELSE ui
                   [] event.kind = "deleted" -> Deleted(ui, event)
                   [] event.kind = "cut"     -> Disconnected(ui)
        /\ moduleOn' = (moduleOn /\ event.kind # "cut")
        /\ UNCHANGED <<vanished, linked, clicks, offs, sessions>>

(* refreshModuleState: every 250 ms. *)
Polls ==
    /\ ui.waiting /\ moduleOn
    /\ ui' = Ready(ui)
    /\ UNCHANGED <<moduleOn, posted, vanished, linked, clicks, offs, sessions>>

-----------------------------------------------------------------------------
(* What goes on around the controller. *)

ModuleTurnsOn ==
    /\ linked /\ ~moduleOn /\ moduleOn' = TRUE
    /\ UNCHANGED <<ui, posted, vanished, linked, clicks, offs, sessions>>

(* The phone or the user's switch turns file sharing off: the coroutines run on. *)
ModuleTurnsOff ==
    /\ linked /\ moduleOn /\ moduleOn' = FALSE
    /\ offs < MaxOffs /\ offs' = offs + 1
    /\ UNCHANGED <<ui, posted, vanished, linked, clicks, sessions>>

FileVanishes(f) ==
    /\ f \notin vanished /\ vanished' = vanished \cup {f}
    /\ UNCHANGED <<ui, moduleOn, posted, linked, clicks, offs, sessions>>

SessionEnds ==
    /\ linked /\ linked' = FALSE
    /\ posted' = Append(posted, [kind |-> "cut", what |-> {}, ok |-> TRUE])
    /\ ui' = [ui EXCEPT !.tasks = SelectSeq(@, LAMBDA task : task.kind # "lost")]
    /\ UNCHANGED <<moduleOn, vanished, clicks, offs, sessions>>

(* Assumed: what the end of a session leaves is read before the next is set up. *)
SessionBegins ==
    /\ ~linked /\ sessions < MaxSessions
    /\ ui.tasks = << >> /\ posted = << >>
    /\ linked' = TRUE /\ sessions' = sessions + 1 /\ offs' = 0
    /\ ui' = [ui EXCEPT !.overtaken = FALSE]
    /\ UNCHANGED <<moduleOn, posted, vanished, clicks>>

Next ==
    \/ \E d \in Folders : Browse(d)
    \/ \E these \in SUBSET Entries : Download(these) \/ Copy(these) \/ Delete(these)
    \/ \E e \in Entries : OpenEntry(e)
    \/ \E f \in Files : Upload(f) \/ FileVanishes(f)
    \/ \E i \in DOMAIN ui.tasks : TaskIsLost(i) \/ \E ok \in BOOLEAN : TaskEnds(i, ok)
    \/ HandlesEvent \/ Polls
    \/ ModuleTurnsOn \/ ModuleTurnsOff \/ SessionEnds \/ SessionBegins

Spec == Init /\ [][Next]_fileVars

-----------------------------------------------------------------------------
TypeOK ==
    /\ ui.folder \in Folders /\ ui.browse \in Folders
    /\ ui.lookup \subseteq Entries /\ ui.doomed \subseteq Entries
    /\ ui.action \in Transfers \cup {"none", "browse"}
    /\ ui.target \subseteq Entries \cup Files
    /\ ui.queue.download \in Seq(Entries) /\ ui.queue.open \in Seq(Entries)
    /\ ui.queue.copy \in Seq(SUBSET Entries) /\ ui.queue.upload \in Seq(Files)
    /\ {ui.waiting, ui.overtaken, ui.stalled, ui.down.active, ui.up.active, moduleOn, linked} \subseteq BOOLEAN
    /\ vanished \subseteq Files

(* What of the action under way is running, lost, or has a result to be read. *)
UnderWay ==
    Cardinality({i \in DOMAIN ui.tasks : ui.tasks[i].kind \in Transfers \cup {"lost"}})
    + Cardinality({i \in DOMAIN posted :
                     \/ posted[i].kind \in {"copied", "deleted"}
                     \/ posted[i].kind = "entry"
                        /\ \A j \in DOMAIN posted : posted[j].kind = "copied" => posted[i].what \cap posted[j].what = {}})

(* The controller and the coroutines agree: an action that no longer waits for the *)
(* module has exactly one coroutine or unread result of its own to end it, and     *)
(* without one no transfer runs; so two never share the entry, the progress and    *)
(* the batch of the one that is shown.                                             *)
OneTransferAtATime ==
    linked /\ ~ui.overtaken =>
        UnderWay = IF ui.action \in Transfers /\ ~ui.waiting THEN 1 ELSE 0

(* The listing of the folder shown is on its way, or there to be read. *)
IsListed ==
    \/ \E i \in DOMAIN ui.tasks : ui.tasks[i] = [kind |-> "list", what |-> {ui.folder}]
    \/ \E i \in DOMAIN posted : posted[i].kind = "listed" /\ posted[i].what = {ui.folder}

(* What is queued has something that will start it: an action the poll begins once *)
(* the module is on, the end of the transfer under way, or the listing.  Not so    *)
(* (ui.stalled) once the turn came to an open or a copy whose entry is gone, every *)
(* upload that waited for the module has vanished, a listing failed, or the folder *)
(* of a browse that waited is shown no more; nor (ui.overtaken) once a browse with *)
(* the module off took the place of a transfer.                                    *)
QueuesAreTaken ==
    linked /\ ~ui.overtaken /\ ~ui.stalled /\ ui.queue # NoQueues =>
        (ui.waiting /\ ui.action # "none") \/ UnderWay = 1 \/ IsListed

================================================================================
