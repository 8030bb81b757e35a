-------------------------- MODULE ConnectionContract --------------------------
(***************************************************************************)
(* What the primary connection promises the application (ModulesManager,   *)
(* the desktop windows, the Android backend bridge) through the events it  *)
(* posts, with none of its machinery: no sockets, queues, generations or   *)
(* coroutines.                                                             *)
(*                                                                         *)
(* An attempt is one ConnectPrimary or SeekPrimary.  A later attempt may   *)
(* supersede an unfinished or established one without a word about it.     *)
(* Whatever is not superseded is reported exactly once: an attempt that    *)
(* succeeds is reported SUCCESS, what ends is reported DISCONNECTED, and a *)
(* failed attempt is reported DISCONNECTED and then FAILURE.               *)
(***************************************************************************)
EXTENDS Naturals, Sequences

VARIABLES
    phase,     \* where the newest attempt stands
    attempt,   \* the newest attempt, 0 before the first
    reports    \* everything the application has been told, oldest first

contractVars == <<phase, attempt, reports>>

Phases == {"idle", "trying", "up", "ending", "failing", "failed"}
Report == [about : Nat, says : {"SUCCESS", "FAILURE", "DISCONNECTED"}]

Tell(a, what) == reports' = Append(reports, [about |-> a, says |-> what])

Init == phase = "idle" /\ attempt = 0 /\ reports = <<>>

Begin ==
    /\ phase \in {"idle", "trying", "up"}
    /\ phase' = "trying"
    /\ attempt' \in Nat /\ attempt' > attempt
    /\ UNCHANGED reports

Succeed ==
    /\ phase = "trying"
    /\ phase' = "up"
    /\ Tell(attempt, "SUCCESS")
    /\ UNCHANGED attempt

StartEnding ==
    /\ phase \in {"trying", "up"}
    /\ phase' = "ending"
    /\ UNCHANGED <<attempt, reports>>

Ended ==
    /\ phase = "ending"
    /\ phase' = "idle"
    /\ Tell(attempt, "DISCONNECTED")
    /\ UNCHANGED attempt

StartFailing ==
    /\ phase = "trying"
    /\ phase' = "failing"
    /\ UNCHANGED <<attempt, reports>>

TornDown ==
    /\ phase = "failing"
    /\ phase' = "failed"
    /\ Tell(attempt, "DISCONNECTED")
    /\ UNCHANGED attempt

ReportFailure ==
    /\ phase = "failed"
    /\ phase' = "idle"
    /\ Tell(attempt, "FAILURE")
    /\ UNCHANGED attempt

Next ==
    \/ Begin
    \/ Succeed
    \/ StartEnding
    \/ Ended
    \/ StartFailing
    \/ TornDown
    \/ ReportFailure

Spec == Init /\ [][Next]_contractVars

===============================================================================
