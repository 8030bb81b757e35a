------------------------------- MODULE MCSession -------------------------------
(* What begins and ends with a session: the set-up of the pool of transfer        *)
(* channels, a module's life and the notifications the two devices share.  Each   *)
(* behaviour is one of the component `subject` names; the others rest in their    *)
(* initial states, with nothing to do that fairness would demand of them.         *)
EXTENDS NotificationSync, ChannelSetUp, ModuleLifecycle

VARIABLE subject

vars == <<subject, setUpVars, lifeVars, notesVars>>

Init ==
    /\ subject \in {"pool", "module", "notes"}
    /\ SetUpInit /\ LifeInit /\ NotesInit

Next ==
    \/ /\ subject = "pool" /\ SetUpNext
       /\ UNCHANGED <<subject, lifeVars, notesVars>>
    \/ /\ subject = "module" /\ LifeNext
       /\ UNCHANGED <<subject, setUpVars, notesVars>>
    \/ /\ subject = "notes" /\ NotesNext
       /\ UNCHANGED <<subject, setUpVars, lifeVars>>

(* A step of a component, while it is the subject. *)
OfPool(step)  == subject = "pool" /\ ~raced /\ step /\ UNCHANGED <<subject, lifeVars, notesVars>>
OfLife(step)  == subject = "module" /\ step /\ UNCHANGED <<subject, setUpVars, notesVars>>
OfNotes(step) == subject = "notes" /\ step /\ UNCHANGED <<subject, setUpVars, lifeVars>>

(* The fairness each component states of its own steps, all of it.  Steps of two  *)
(* components are never enabled in one behaviour, so that fairness to "one or the  *)
(* other" is fairness to each; it has fewer formulas for TLC to follow.            *)
Fairness ==
    /\ WF_vars(\/ OfPool(ConnectBegins)
               \/ OfLife(Strand("desktop"))
               \/ OfNotes(HandleNew \/ \E n \in Versions : Handler(n)))
    /\ WF_vars(\/ OfPool(Asks)
               \/ OfLife(Strand("phone"))
               \/ OfNotes(\E k \in Keys : HandleRemoved(k) \/ DismissNotificationOnPhone(k)))
    /\ WF_vars(\/ OfPool(AskingTimesOut)
               \/ OfLife(QtEvent("desktop"))
               \/ OfNotes(Fetching))
    /\ WF_vars(\/ OfPool(ReceivesConnect)
               \/ OfLife(QtEvent("phone"))
               \/ OfNotes(PhoneConnects))
    /\ WF_vars(\/ OfPool(SeekBegins)
               \/ OfLife(OnEnable("desktop", 1))
               \/ OfNotes(DesktopAccepts))
    /\ WF_vars(\/ OfPool(HandlesEvent("desktop"))
               \/ OfLife(OnEnable("desktop", 2)))
    /\ WF_vars(\/ OfPool(HandlesEvent("phone"))
               \/ OfLife(OnEnable("phone", 1)))
    /\ WF_vars(\/ OfPool(Waits("desktop"))
               \/ OfLife(OnEnable("phone", 2)))
    /\ WF_vars(\/ OfPool(Waits("phone"))
               \/ OfLife(ChannelConnects(1)))
    /\ WF_vars(\/ OfPool(\E e \in Pools : Publishes(e))
               \/ OfLife(ChannelConnects(2)))
    /\ WF_vars(\/ OfPool(\E e \in Pools : ReceivesPort(1, e))
               \/ OfLife(\E p \in BagToSet(packages) : Receives(p)))
    /\ WF_vars(OfPool(\E c \in Pools \X {1} : Connects(c)))

Spec == Init /\ [][Next]_vars /\ Fairness

TypeOK ==
    CASE subject = "pool"   -> SetUpTypeOK
      [] subject = "module" -> LifeTypeOK
      [] subject = "notes"  -> NotesTypeOK

(* What a session that lasts leads to: SetUpSucceeds of ChannelSetUp, and    *)
(* BothOrNeither of ModuleLifecycle.                                         *)
SessionsSettle == SetUpSucceeds /\ BothOrNeither

================================================================================
