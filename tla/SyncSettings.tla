--------------------------- MODULE SyncSettings ---------------------------
(***************************************************************************)
(* The switches of the clipboard and the notification sync: the screens'   *)
(* ClipboardSyncController, MobileClipboardSyncController,                 *)
(* NotificationSyncController and MobileNotificationSyncController.  Each  *)
(* looks every 400 ms at the state of its module and works out from a few  *)
(* flags who changed it - its user, the peer's user, a missing permission  *)
(* or the end of the session - because only the first three change the     *)
(* setting that is kept.  One controller is modelled, of one kind.         *)
(*                                                                         *)
(* The Android builds of the two mobile ones, which only repeat the back   *)
(* end's snapshot, and macOS's own permission are left out.                *)
(***************************************************************************)
EXTENDS Naturals, Sequences

CONSTANTS
    MaxDecisions,    \* how often a user decides something
    MaxSessions,     \* how many sessions begin
    MaxFailedEnables \* how often the module fails to start

Kinds == {"clipboard", "notification", "mobileNotification"}

VARIABLES
    kind,        \* which controller this is
    set,         \* [saved, requested, enabling, disabling, confirmed, connected]:
                 \* the setting, and m_requested..., m_enableAttemptPending,
                 \* m_disableAttemptPending, m_confirmedEnabled, m_connected
    allowed,     \* m_permissionsGranted
    display,     \* [enabled, busy] as the screen shows them
    items,       \* the notifications shown, and the keys posted
    module,      \* the module's state
    orders,      \* Enable, Disable and Shutdown posted to the module
    inSession,   \* there is a session
    manager,     \* ModulesManager has still to hear that it ended
    events,      \* posted to the controller
    wish,        \* what was decided last
    failed,      \* the module has failed to start since then
    raced,       \* a decision, or the session's end, came before the last one was seen
    decisions, begun, failures

settingVars == <<kind, set, allowed, display, items, module, orders, inSession, manager,
                 events, wish, failed, raced, decisions, begun, failures>>
sessionAndWish == <<inSession, manager, wish, failed, decisions, begun, failures>>
world == <<sessionAndWish, raced>>

IsNotification == kind # "clipboard"

Init ==
    /\ kind \in Kinds /\ allowed = (kind # "notification")
    /\ wish \in BOOLEAN
    /\ set = [saved |-> wish, requested |-> wish, enabling |-> wish, disabling |-> FALSE,
              confirmed |-> FALSE, connected |-> FALSE]
    /\ display = [enabled |-> wish, busy |-> FALSE] /\ items = {}
    /\ module = "Disabled" /\ orders = <<>>
    /\ inSession = FALSE /\ manager = FALSE /\ events = <<>>
    /\ failed = FALSE /\ raced = FALSE /\ decisions = 0 /\ begun = 0 /\ failures = 0

----------------------------------------------------------------------------
(* refreshState. *)

\* setRequested...(b, true)
Keeps(s, b) == [s EXCEPT !.requested = b, !.saved = b]

\* What refreshState does next: the flags, the screen, and the order it gives.
Outcome(s, on, busy, order) == [set |-> s, display |-> [enabled |-> on, busy |-> busy], order |-> order]

NotConnectedButConfirmed(s) == Outcome(s, s.requested, FALSE, <<>>)
NotConnected(s) == Outcome([s EXCEPT !.confirmed = FALSE], s.requested, FALSE, <<>>)

WhileEnabled(s, permitted) ==
    LET on == Keeps([s EXCEPT !.confirmed = TRUE, !.enabling = FALSE], TRUE)
        off == Keeps([s EXCEPT !.confirmed = FALSE, !.enabling = FALSE, !.disabling = FALSE], FALSE)
    IN CASE ~permitted -> Outcome(off, FALSE, TRUE, <<"disable">>)
         [] permitted /\ s.disabling ->
              Outcome([on EXCEPT !.disabling = IsNotification], FALSE, TRUE, <<"disable">>)
         [] OTHER -> Outcome(on, TRUE, FALSE, <<>>)

\* It was on, and this user has not switched it off: the peer's has.
PeerSwitchedOff(s) ==
    IF s.confirmed /\ ~s.disabling
    THEN Keeps([s EXCEPT !.confirmed = FALSE, !.enabling = FALSE], FALSE) ELSE s
SwitchedOff(s) ==
    IF s.disabling THEN Keeps([s EXCEPT !.confirmed = FALSE, !.disabling = FALSE], FALSE) ELSE s

WhileDisabled(s, permitted) ==
    LET seen == SwitchedOff(PeerSwitchedOff(s))
        tries == seen.requested /\ seen.enabling
    IN IF tries /\ permitted
       THEN Outcome([seen EXCEPT !.enabling = FALSE], TRUE, TRUE, <<"enable">>)
       ELSE Outcome(seen, seen.requested, FALSE, <<>>)

Refreshed(s, permitted) ==
    CASE ~s.connected -> NotConnected(s)
      [] s.connected /\ module = "Enabling" -> Outcome(s, TRUE, TRUE, <<>>)
      [] s.connected /\ module = "Disabling" -> Outcome(s, FALSE, TRUE, <<>>)
      [] s.connected /\ module = "Enabled" -> WhileEnabled(s, permitted)
      [] OTHER -> WhileDisabled(s, permitted)

\* It runs last in every handler, with the permission the handler has noted.
RefreshesState(s) ==
    LET after == Refreshed(s, allowed')
    IN set' = after.set /\ display' = after.display /\ orders' = orders \o after.order

\* Notifications are cleared without a session, and when the sync is off.
KeepsItems(s) ==
    items' = IF ~s.connected \/ (module = "Disabled" /\ ~Refreshed(s, allowed).set.requested)
             THEN {} ELSE items

\* The module has been shut down with the session and the controller, which has
\* not heard of the end yet, takes it for the peer's doing: the setting is lost.
TakenForThePeers == raced' = (raced \/ (~inSession /\ module = "Disabled" /\ set.confirmed))

\* An order has been taken by the next poll, 400 ms later.
Polls ==
    /\ orders = <<>> \/ module \in {"Enabling", "Disabling"}
    /\ UNCHANGED allowed /\ RefreshesState(set) /\ KeepsItems(set) /\ TakenForThePeers
    /\ UNCHANGED <<kind, module, events, sessionAndWish>>

----------------------------------------------------------------------------
(* Events of the session, posted one after the other. *)

Handles(event) == events # <<>> /\ Head(events) = event /\ events' = Tail(events)

Connected ==
    /\ Handles("connected")
    /\ allowed' = (kind # "notification")
    /\ LET s == [set EXCEPT !.connected = TRUE, !.enabling = @ \/ set.requested]
       IN RefreshesState(s)
    /\ UNCHANGED <<kind, items, module, world>>

Disconnected ==
    /\ Handles("disconnected")
    /\ allowed' = (kind # "notification")
    /\ RefreshesState([set EXCEPT !.connected = FALSE]) /\ items' = {}
    /\ UNCHANGED <<kind, module, world>>

\* ModuleRequestedPermissionGranted; the clipboard's has no permission.
Granted ==
    /\ Handles("granted") /\ allowed' = TRUE /\ TakenForThePeers
    /\ IF set.connected /\ set.requested
       THEN RefreshesState([set EXCEPT !.enabling = TRUE])
       ELSE UNCHANGED <<set, display, orders>>
    /\ UNCHANGED <<kind, items, module, sessionAndWish>>

Rejected ==
    /\ Handles("rejected") /\ allowed' = FALSE
    /\ IF set.connected /\ set.requested
       THEN RefreshesState(Keeps([set EXCEPT !.enabling = FALSE, !.disabling = FALSE], FALSE))
       ELSE UNCHANGED <<set, display, orders>>
    /\ UNCHANGED <<kind, items, module, world>>

\* NotificationReceivedEvent and NotificationRemovedEvent.
Upserts ==
    /\ Handles("posted") /\ items' = IF set.connected THEN items \cup {"n"} ELSE items
    /\ UNCHANGED <<kind, set, allowed, display, module, orders, world>>

Removes ==
    /\ Handles("removed") /\ items' = IF set.connected THEN items \ {"n"} ELSE items
    /\ UNCHANGED <<kind, set, allowed, display, module, orders, world>>

NotificationComes ==
    /\ kind = "notification" /\ inSession /\ module = "Enabled" /\ events = <<>>
    /\ \E event \in {"posted", "removed"} : events' = Append(events, event)
    /\ UNCHANGED <<kind, set, allowed, display, items, module, orders, world>>

----------------------------------------------------------------------------
(* The module, in short (see ModuleLifecycle), and the session. *)

TakesOrder ==
    /\ orders # <<>> /\ orders' = Tail(orders)
    /\ LET order == Head(orders)
       IN /\ order = "shutdown" \/ module \in {"Enabled", "Disabled"}
          /\ module' = CASE order = "shutdown" -> "Disabled"
                         [] order = "enable" /\ module = "Disabled" /\ inSession -> "Enabling"
                         [] order = "disable" /\ module = "Enabled" -> "Disabling"
                         [] OTHER -> module
    /\ UNCHANGED <<kind, set, allowed, display, items, events, world>>

Starts ==
    /\ module = "Enabling" /\ module' = "Enabled"
    /\ UNCHANGED <<kind, set, allowed, display, items, orders, events, world>>

FailsToStart ==
    /\ module = "Enabling" /\ module' = "Disabled"
    /\ failures < MaxFailedEnables /\ failures' = failures + 1
    /\ failed' = TRUE /\ wish' = set.saved
    /\ UNCHANGED <<kind, set, allowed, display, items, orders, events, inSession, manager,
                   raced, decisions, begun>>

Stops ==
    /\ module = "Disabling" /\ module' = "Disabled"
    /\ UNCHANGED <<kind, set, allowed, display, items, orders, events, world>>

\* The phone reports its permissions as a session begins.
SessionBegins ==
    /\ ~inSession /\ ~manager /\ events = <<>> /\ orders = <<>> /\ module = "Disabled"
    /\ begun < MaxSessions /\ begun' = begun + 1 /\ inSession' = TRUE
    /\ \E report \in {"granted", "rejected"} :
         /\ events' = IF kind = "notification" THEN <<"connected", report>> ELSE <<"connected">>
         /\ wish' = (wish /\ (kind # "notification" \/ report = "granted"))
    /\ failed' = FALSE
    /\ UNCHANGED <<kind, set, allowed, display, items, module, orders, manager, raced,
                   decisions, failures>>

\* DisconnectedEvent is posted to ModulesManager and to the controller.  A
\* decision of the peer's that no poll has seen yet may be lost with the session.
SessionEnds ==
    /\ inSession /\ inSession' = FALSE /\ manager' = TRUE
    /\ events' = Append(events, "disconnected")
    /\ raced' = (raced \/ set.saved # wish)
    /\ UNCHANGED <<kind, set, allowed, display, items, module, orders, wish, failed,
                   decisions, begun, failures>>

\* Its shutdown, which nobody waits for, may be seen before the controller has
\* its own event.
ManagerShutsDown ==
    /\ manager /\ manager' = FALSE /\ orders' = <<"shutdown">>
    /\ UNCHANGED <<kind, set, allowed, display, items, module, events, inSession, wish, failed,
                   raced, decisions, begun, failures>>

----------------------------------------------------------------------------
(* Decisions. *)

\* Nothing is under way and another poll changes nothing.
Settled ==
    /\ events = <<>> /\ orders = <<>> /\ ~manager /\ module \in {"Enabled", "Disabled"}
    /\ Refreshed(set, allowed) = Outcome(set, display.enabled, display.busy, <<>>)

Decides(b) ==
    /\ decisions < MaxDecisions /\ decisions' = decisions + 1
    /\ wish' = b /\ raced' = (raced \/ ~Settled) /\ failed' = FALSE

\* setNotificationSyncEnabled, setClipboardAutoSyncEnabled; a busy switch is grey.
UserSwitches(b) ==
    /\ ~display.busy /\ Decides(b)
    /\ UNCHANGED allowed
    /\ LET s == [Keeps(set, b) EXCEPT !.enabling = b, !.disabling = ~b]
       IN RefreshesState(s) /\ KeepsItems(s)
    /\ UNCHANGED <<kind, module, events, inSession, manager, begun, failures>>

\* The peer's ENABLE or DISABLE, which changes something.
PeerSwitches(b) ==
    /\ inSession /\ set.connected /\ (IsNotification => allowed) /\ Decides(b)
    /\ module # (IF b THEN "Enabled" ELSE "Disabled")
    /\ orders' = Append(orders, IF b THEN "enable" ELSE "disable")
    /\ UNCHANGED <<kind, set, allowed, display, items, module, events, inSession, manager,
                   begun, failures>>

\* The phone's user withdraws the permission.
PermissionIsWithdrawn ==
    /\ kind = "notification" /\ inSession /\ allowed /\ Decides(FALSE)
    /\ events' = Append(events, "rejected")
    /\ UNCHANGED <<kind, set, allowed, display, items, module, orders, inSession, manager,
                   begun, failures>>

Next ==
    \/ Polls \/ Connected \/ Disconnected \/ Granted \/ Rejected \/ Upserts \/ Removes
    \/ NotificationComes \/ TakesOrder \/ Starts \/ FailsToStart \/ Stops
    \/ SessionBegins \/ SessionEnds \/ ManagerShutsDown \/ PermissionIsWithdrawn
    \/ \E b \in BOOLEAN : UserSwitches(b) \/ PeerSwitches(b)

Spec == Init /\ [][Next]_settingVars

----------------------------------------------------------------------------
TypeOK ==
    /\ kind \in Kinds /\ module \in {"Disabled", "Enabling", "Enabled", "Disabling"}
    /\ \A b \in {set.saved, set.requested, set.enabling, set.disabling, set.confirmed,
                 set.connected, allowed, display.enabled, display.busy, inSession, manager,
                 wish, failed, raced} : b \in BOOLEAN
    /\ items \subseteq {"n"} /\ Len(orders) <= 4 + decisions /\ Len(events) <= 4

\* Once things have settled, the setting that is kept is what was decided last -
\* the end of a session decides nothing - and in a session the module does it.
SettingIsKept ==
    Settled /\ ~raced =>
        /\ set.saved = wish /\ set.requested = wish
        /\ inSession /\ allowed /\ ~failed => (module = "Enabled") = wish
=============================================================================
