------------------------------ MODULE LocalNetwork ------------------------------
(***************************************************************************)
(* The probe a Mac makes before it may use the local network               *)
(* (PermissionManager_LocalNetwork.cpp): a Bonjour registration that the   *)
(* system answers when its user has, made by one caller at a time and      *)
(* never again once it was granted.                                        *)
(***************************************************************************)
EXTENDS Integers, FiniteSets

CONSTANTS
    Callers,        \* bound: coroutines that call RequestLocalNetworkAccessPermission
    MaxProbes       \* bound: probes that fail

VARIABLES
    known,          \* g_localNetworkPermissionGranted
    busy,           \* g_localNetworkPermissionFlowInProgress
    callers,        \* where each caller is
    probe,          \* the probe's context: what the callback has stored
    probes

localVars == <<known, busy, callers, probe, probes>>

NoProbe == [by |-> "nobody", result |-> "Unknown", completed |-> FALSE]

LocalTypeOK ==
    /\ known \in BOOLEAN /\ busy \in BOOLEAN /\ probes \in 0 .. MaxProbes + Cardinality(Callers)
    /\ callers \in [Callers -> {"idle", "waits", "looks", "probes", "yes", "no"}]
    /\ probe \in [by : Callers \cup {"nobody"}, result : {"Granted", "Denied", "Unknown"}, completed : BOOLEAN]

LocalInit ==
    /\ known = FALSE /\ busy = FALSE /\ probes = 0
    /\ callers = [c \in Callers |-> "idle"] /\ probe = NoProbe

CallerGoes(c, place) == callers' = [callers EXCEPT ![c] = place]

RequestLocalNetworkAccess(c) ==
    /\ callers[c] \in {"idle", "no"} /\ probes <= MaxProbes
    /\ CallerGoes(c, IF known THEN "yes" ELSE "waits")
    /\ UNCHANGED <<known, busy, probe, probes>>

(* AcquireLocalNetworkPermissionFlowLock: tried every 50 ms. *)
AcquireLock(c) ==
    /\ callers[c] = "waits" /\ ~busy
    /\ busy' = TRUE /\ CallerGoes(c, "looks")
    /\ UNCHANGED <<known, probe, probes>>

(* The permission is looked at once more under the lock; not to look would *)
(* ask the user again ...                                                  *)
NotLookedAt == TRUE
NotYetKnown == ~known
(* ... and the registration begun, if the system takes it. *)
Looks(c) ==
    /\ callers[c] = "looks"
    /\ IF NotYetKnown
          THEN \/ CallerGoes(c, "probes") /\ probe' = [NoProbe EXCEPT !.by = c] /\ UNCHANGED busy
               \/ CallerGoes(c, "no") /\ busy' = FALSE /\ UNCHANGED probe
          ELSE CallerGoes(c, "yes") /\ busy' = FALSE /\ UNCHANGED probe
    /\ probes' = IF NotYetKnown THEN probes + 1 ELSE probes
    /\ UNCHANGED known

(* OnLocalNetworkPermissionServiceRegister, called from the select loop. *)
Registered(result) ==
    /\ probe.by # "nobody" /\ ~probe.completed
    /\ probe' = [probe EXCEPT !.result = result, !.completed = TRUE]
    /\ UNCHANGED <<known, busy, callers, probes>>

(* The loop ends with the answer, a failure or after two minutes. *)
ProbeEnds(c) ==
    /\ callers[c] = "probes" /\ probe.by = c
    /\ LET good == probe.completed /\ probe.result = "Granted"
       IN  /\ known' = (known \/ good)
           /\ CallerGoes(c, IF good THEN "yes" ELSE "no")
    /\ busy' = FALSE /\ probe' = NoProbe /\ UNCHANGED probes

LocalNext ==
    \/ \E c \in Callers : RequestLocalNetworkAccess(c) \/ AcquireLock(c) \/ Looks(c) \/ ProbeEnds(c)
    \/ \E r \in {"Granted", "Denied", "Unknown"} : Registered(r)

LocalSpec == LocalInit /\ [][LocalNext]_localVars

(* The user is asked by one probe at a time and by none once the answer   *)
(* was yes, however many callers found the permission missing before; and *)
(* nobody is told yes before.                                             *)
AskedOnce ==
    /\ Cardinality({c \in Callers : callers[c] \in {"looks", "probes"}}) = IF busy THEN 1 ELSE 0
    /\ \A c \in Callers : (callers[c] = "probes" => ~known) /\ (callers[c] = "yes" => known)
=============================================================================
