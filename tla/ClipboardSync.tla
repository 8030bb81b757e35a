--------------------------- MODULE ClipboardSync ---------------------------
(***************************************************************************)
(* What one of two connected devices copies is put on the other one's      *)
(* clipboard: ClipboardSyncModule, the text clipboard under it, and on an  *)
(* Android phone the screen, which reads the back end's snapshot every     *)
(* 400 ms because a service in the background may not touch the clipboard. *)
(*                                                                         *)
(* A text is a model value; a Big one needs two fragments.  Carriage       *)
(* returns, which the module strips before it compares, are left out.      *)
(***************************************************************************)
EXTENDS Integers, Sequences, FiniteSets

CONSTANTS
    Small, Big,      \* the texts that fit a package, and those that do not
    Screened,        \* the peers whose clipboard a screen applies and reads
    MaxMoves,        \* how often a user copies, syncs by hand or switches the module
    MaxTravels       \* how often a text is followed over the link

Texts == Small \cup Big
None == "none"
Mixed == "mixed"                \* the pieces of two texts
Peers == {"desktop", "phone"}
Peer(p) == IF p = "desktop" THEN "phone" ELSE "desktop"
Pieces == {1, 2}

VARIABLES
    clip,        \* the clipboard of a device
    lastText,    \* TextClipboard's lastText: what was set, not copied
    memory,      \* m_lastLocalClipboardSent, m_lastRemoteClipboardApplied
    buffer,      \* m_buffer: the text each piece came from
    left,        \* m_leftFragments
    strand,      \* m_clipboardModificationStrand
    setting,     \* the text the strand is blocked on setting, or None
    asking,      \* texts whose UPDATE_INFO_REQUEST is not answered yet
    finishing,   \* UPDATE_FINISHED_REQUEST coroutines polling m_leftFragments
    notices,     \* peers whose clipboard listener is to be called
    wire,        \* what a peer has still to receive
    on,          \* the module is Enabled on both sides
    shown,       \* lastRemoteClipboard of the phone's snapshot
    screen,      \* the phone's MobileClipboardSyncController
    used,        \* the texts copied so far
    travels,     \* how often a text was put on the wire
    excused,     \* the last copy or sync is one the code gets wrong
    disturbed,   \* one of them was
    syncs, moves

clipVars == <<clip, lastText, memory, buffer, left, strand, setting, asking, finishing,
              notices, wire, on, shown, screen, used, travels, excused, disturbed,
              syncs, moves>>
moduleState == <<buffer, left, asking, finishing>>
user == <<on, used, excused, disturbed, syncs, moves>>

Init ==
    /\ clip = [p \in Peers |-> None] /\ lastText = [p \in Peers |-> None]
    /\ memory = [p \in Peers |-> [sent |-> None, applied |-> None]]
    /\ buffer = [p \in Peers |-> <<>>] /\ left = [p \in Peers |-> 0]
    /\ strand = [p \in Peers |-> <<>>] /\ setting = [p \in Peers |-> None]
    /\ asking = [p \in Peers |-> {}] /\ finishing = [p \in Peers |-> 0]
    /\ notices = {} /\ wire = [p \in Peers |-> <<>>] /\ on = TRUE
    /\ shown = None /\ screen = [read |-> None, applied |-> None, sent |-> None, at |-> "idle"]
    /\ used = {} /\ travels = [t \in Texts \cup {Mixed} |-> 0]
    /\ excused = FALSE /\ disturbed = FALSE /\ syncs = 0 /\ moves = 0

----------------------------------------------------------------------------
(* The module's outgoing side. *)

Post(p, task) == strand' = [strand EXCEPT ![p] = Append(@, task)]
RemoveHead(p) == strand' = [strand EXCEPT ![p] = Tail(@)]
Sends(p, packages) == wire' = [wire EXCEPT ![Peer(p)] = @ \o packages]

\* SendClipboardText: the coroutine that sends a text is spawned on the strand.
SendClipboardText(p, t) == Post(p, <<"send", t>>)

\* The text is what was last sent, or, within a second and a half, what the
\* peer sent.
IsEcho(p, t, recent) ==
    t = memory[p].sent \/ (recent /\ t = memory[p].applied)

\* What a small text puts on the wire, and a big one once the peer has room.
Update(t) == <<<<"update", t>>, <<"finished", t>>>>
Fragments(t) == <<<<"fragment", t, 1>>, <<"fragment", t, 2>>, <<"finished", t>>>>

\* The strand starts SendClipboardTextAwaitable.
Starts(p) ==
    /\ strand[p] # <<>> /\ setting[p] = None /\ Head(strand[p])[1] = "send"
    /\ RemoveHead(p)
    /\ LET t == Head(strand[p])[2]
       IN \E recent \in BOOLEAN :
            \/ /\ t = None \/ IsEcho(p, t, recent)
               /\ memory' = IF t = None THEN memory ELSE [memory EXCEPT ![p].sent = t]
               /\ UNCHANGED <<wire, asking, travels>>
            \/ /\ t # None /\ ~IsEcho(p, t, recent) /\ travels[t] < MaxTravels
               /\ memory' = [memory EXCEPT ![p].sent = t]
               /\ travels' = [travels EXCEPT ![t] = @ + 1]
               /\ IF t \in Small
                  THEN Sends(p, Update(t)) /\ UNCHANGED asking
                  ELSE /\ Sends(p, <<<<"info", t>>>>)
                       /\ asking' = [asking EXCEPT ![p] = @ \cup {t}]
    /\ UNCHANGED <<clip, lastText, buffer, left, setting, finishing, notices, shown, screen, user>>

\* The peer has answered UPDATE_INFO_REQUEST: the coroutine goes on, and sends
\* every fragment without another pause.
Resumes(p) ==
    /\ strand[p] # <<>> /\ setting[p] = None /\ Head(strand[p])[1] = "resume"
    /\ RemoveHead(p) /\ Sends(p, Fragments(Head(strand[p])[2]))
    /\ UNCHANGED <<clip, lastText, memory, moduleState, setting, notices, shown, screen, travels, user>>

----------------------------------------------------------------------------
(* Its handlers. *)

Takes(p, kind) == wire[p] # <<>> /\ Head(wire[p])[1] = kind
Received(p) == wire' = [wire EXCEPT ![p] = Tail(@)]
Answers(p, package) ==
    wire' = [wire EXCEPT ![p] = Tail(@), ![Peer(p)] = Append(@, package)]

\* UPDATE_CLIPBOARD: the text is set on the strand.
ReceivesUpdate(p) ==
    /\ Takes(p, "update") /\ Received(p) /\ Post(p, <<"apply", Head(wire[p])[2]>>)
    /\ UNCHANGED <<clip, lastText, memory, moduleState, setting, notices, shown, screen, travels, user>>

\* REQUEST_SYNC: the peer sends what it holds.
ReceivesSync(p) ==
    /\ Takes(p, "sync") /\ Received(p)
    /\ \E t \in {clip[p]} \cup (IF p \in Screened THEN {None} ELSE {}) : SendClipboardText(p, t)
    /\ UNCHANGED <<clip, lastText, memory, moduleState, setting, notices, shown, screen, travels, user>>

\* UPDATE_INFO_REQUEST: the one buffer gets its new size and keeps what is in it.
ReceivesInfo(p) ==
    /\ Takes(p, "info")
    /\ buffer' = [buffer EXCEPT ![p] = IF @ = <<>> THEN [i \in Pieces |-> None] ELSE @]
    /\ left' = [left EXCEPT ![p] = Cardinality(Pieces)]
    /\ Answers(p, <<"go", Head(wire[p])[2]>>)
    /\ UNCHANGED <<clip, lastText, memory, strand, setting, asking, finishing, notices, shown, screen, travels, user>>

ReceivesGo(p) ==
    /\ Takes(p, "go") /\ Received(p) /\ Post(p, <<"resume", Head(wire[p])[2]>>)
    /\ asking' = [asking EXCEPT ![p] = @ \ {Head(wire[p])[2]}]
    /\ UNCHANGED <<clip, lastText, memory, buffer, left, setting, finishing, notices, shown, screen, travels, user>>

ReceivesFragment(p) ==
    /\ Takes(p, "fragment") /\ Received(p)
    /\ left' = [left EXCEPT ![p] = @ - 1]
    /\ buffer' = [buffer EXCEPT ![p][Head(wire[p])[3]] = Head(wire[p])[2]]
    /\ UNCHANGED <<clip, lastText, memory, strand, setting, asking, finishing, notices, shown, screen, travels, user>>

\* UPDATE_FINISHED_REQUEST: the coroutine looks every 10 ms whether fragments
\* are left.  It is sent after a small text too, which has none.
ReceivesFinished(p) ==
    /\ Takes(p, "finished") /\ Received(p)
    /\ finishing' = [finishing EXCEPT ![p] = @ + 1]
    /\ UNCHANGED <<clip, lastText, memory, buffer, left, strand, setting, asking, notices, shown, screen, travels, user>>

AllFragments(p) == left[p] <= 0

Finishes(p) ==
    /\ finishing[p] > 0 /\ AllFragments(p)
    /\ finishing' = [finishing EXCEPT ![p] = @ - 1]
    /\ Post(p, <<"applyBuffer">>)
    /\ UNCHANGED <<clip, lastText, memory, buffer, left, setting, asking, notices, wire, shown, screen, travels, user>>

----------------------------------------------------------------------------
(* Setting the clipboard. *)

BufferedText(p) ==
    CASE buffer[p] = <<>> -> None
      [] \A i \in Pieces : buffer[p][i] = buffer[p][1] -> buffer[p][1]
      [] OTHER -> Mixed

\* lastText is set before the clipboard is, so that its listener knows the text.
RemembersNothing(p, t) == lastText' = lastText
RemembersText(p, t) == lastText' = [lastText EXCEPT ![p] = t]

\* The strand remembers the text and calls TextClipboard::Set, which ignores an
\* empty text.  A phone's back end puts it in the snapshot.
Applies(p) ==
    /\ strand[p] # <<>> /\ setting[p] = None /\ Head(strand[p])[1] \in {"apply", "applyBuffer"}
    /\ LET t == IF Head(strand[p])[1] = "apply" THEN Head(strand[p])[2] ELSE BufferedText(p)
       IN /\ memory' = [memory EXCEPT ![p] = [sent |-> t, applied |-> t]]
          /\ IF t = None
             THEN UNCHANGED <<lastText, setting, shown>> /\ RemoveHead(p)
             ELSE /\ RemembersText(p, t) /\ setting' = [setting EXCEPT ![p] = t]
                  /\ shown' = IF p \in Screened THEN t ELSE shown
                  /\ UNCHANGED strand
    /\ UNCHANGED <<clip, moduleState, notices, wire, screen, travels, user>>

\* A screened peer's service may be refused the clipboard; the others set it on
\* the Qt thread while the strand waits.
Sets(p) ==
    /\ setting[p] # None
    /\ \E refused \in (IF p \in Screened THEN BOOLEAN ELSE {FALSE}) :
         IF refused THEN UNCHANGED <<clip, notices>>
         ELSE clip' = [clip EXCEPT ![p] = setting[p]] /\ notices' = notices \cup {p}
    /\ setting' = [setting EXCEPT ![p] = None] /\ RemoveHead(p)
    /\ UNCHANGED <<lastText, memory, moduleState, wire, shown, screen, travels, user>>

\* The clipboard's listener: a text that was set is not sent back.  A service in
\* the background is not told, or reads nothing.
Known(p) == clip[p] = lastText[p]

ListenerIsCalled(p) ==
    /\ p \in notices /\ notices' = notices \ {p}
    /\ \/ /\ ~Known(p) /\ on /\ SendClipboardText(p, clip[p])
       \/ /\ Known(p) \/ ~on \/ p \in Screened
          /\ UNCHANGED strand
    /\ UNCHANGED <<clip, lastText, memory, moduleState, setting, wire, shown, screen, travels, user>>

----------------------------------------------------------------------------
(* The phone's screen. *)

\* refreshState reads the snapshot, then applies it and reads the clipboard.
ScreenReads(p) ==
    /\ p \in Screened /\ screen.at = "idle" /\ on
    /\ shown # screen.applied \/ clip[p] \notin {None, screen.applied, screen.sent}
    /\ screen' = [screen EXCEPT !.read = shown, !.at = "read"]
    /\ UNCHANGED <<clip, lastText, memory, moduleState, strand, setting, notices, wire, shown, travels, user>>

AppliesSnapshot == screen.read # None /\ screen.read # screen.applied

ScreenActs(p) ==
    /\ p \in Screened /\ screen.at = "read"
    /\ LET seen == IF AppliesSnapshot
                   THEN [screen EXCEPT !.applied = screen.read, !.sent = screen.read] ELSE screen
           text == IF AppliesSnapshot THEN screen.read ELSE clip[p]
           send == text # None /\ text # seen.applied /\ text # seen.sent
       IN /\ clip' = [clip EXCEPT ![p] = text]
          /\ notices' = IF AppliesSnapshot THEN notices \cup {p} ELSE notices
          /\ screen' = [seen EXCEPT !.at = "idle", !.read = None,
                                    !.sent = IF send THEN text ELSE @]
          /\ IF send THEN SendClipboardText(p, text) ELSE UNCHANGED strand
    /\ UNCHANGED <<lastText, memory, moduleState, setting, wire, shown, travels, user>>

----------------------------------------------------------------------------
(* The users. *)

Quiet ==
    /\ notices = {} /\ screen.at = "idle"
    /\ \A p \in Peers : /\ strand[p] = <<>> /\ setting[p] = None /\ asking[p] = {}
                        /\ finishing[p] = 0 /\ wire[p] = <<>>
    /\ \A p \in Screened : ~on \/ (shown \in {None, screen.applied}
                                   /\ clip[p] \in {None, screen.applied, screen.sent})

\* The copies this code does not follow: one that crosses another, one of a text
\* that was on the clipboards before, and a small one to a peer whose buffer
\* still holds a big one.
GoesWrong(p, t) ==
    ~Quiet \/ ~on \/ t \in used \/ (t \in Small /\ buffer[Peer(p)] # <<>>)

Moves(wrong) ==
    /\ moves < MaxMoves /\ moves' = moves + 1
    /\ excused' = wrong /\ disturbed' = (disturbed \/ wrong)

Copies(p, t) ==
    /\ Moves(GoesWrong(p, t)) /\ used' = used \cup {t}
    /\ clip' = [clip EXCEPT ![p] = t] /\ notices' = notices \cup {p}
    /\ UNCHANGED <<lastText, memory, moduleState, strand, setting, wire, on, shown, screen, travels, syncs>>

\* RequestSyncWithPeer: both send what they hold, so two texts change places.
Syncs(p) ==
    /\ Moves(~Quiet \/ clip["desktop"] # clip["phone"] \/ \E q \in Peers : buffer[q] # <<>>)
    /\ \E t \in {clip[p]} \cup (IF p \in Screened THEN {None} ELSE {}) : SendClipboardText(p, t)
    /\ Sends(p, <<<<"sync">>>>) /\ syncs' = syncs + 1
    /\ UNCHANGED <<clip, lastText, memory, moduleState, setting, notices, on, shown, screen, used, travels>>

\* OnEnable forgets what was sent and applied.
Switches ==
    /\ Quiet /\ Moves(TRUE) /\ on' = ~on
    /\ memory' = IF on THEN memory ELSE [p \in Peers |-> [sent |-> None, applied |-> None]]
    /\ UNCHANGED <<clip, lastText, moduleState, strand, setting, notices, wire, shown, screen, used, travels, syncs>>

Next ==
    \/ \E p \in Peers :
         \/ Starts(p) \/ Resumes(p) \/ Applies(p) \/ Sets(p)
         \/ ReceivesUpdate(p) \/ ReceivesSync(p) \/ ReceivesInfo(p) \/ ReceivesGo(p)
         \/ ReceivesFragment(p) \/ ReceivesFinished(p) \/ Finishes(p)
         \/ ListenerIsCalled(p) \/ ScreenReads(p) \/ ScreenActs(p)
         \/ Syncs(p) \/ \E t \in Texts : Copies(p, t)
    \/ Switches

Spec == Init /\ [][Next]_clipVars

----------------------------------------------------------------------------
TypeOK ==
    /\ \A p \in Peers : /\ clip[p] \in Texts \cup {None, Mixed} /\ left[p] \in -4 .. 2
                        /\ asking[p] \subseteq Texts \cup {Mixed} /\ finishing[p] \in Nat
                        /\ setting[p] \in Texts \cup {None, Mixed}
    /\ notices \subseteq Peers /\ shown \in Texts \cup {None, Mixed} /\ used \subseteq Texts

\* When nothing is under way both devices hold what was copied last, but for the
\* copies and syncs that go wrong.  The listener, the fragments, the snapshot
\* and the screen all have to do their part.
ClipboardsAgree == Quiet /\ ~excused => clip["desktop"] = clip["phone"]

\* A text does not go back and forth: while nobody has done what goes wrong, it
\* travels once, and twice more for each sync.
EchoesDie == ~disturbed => \A t \in Texts : travels[t] <= 1 + 2 * syncs

ClipboardIsFaithful == ClipboardsAgree /\ EchoesDie
=============================================================================
