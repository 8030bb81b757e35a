----------------------------- MODULE ServiceProofs ------------------------------
(***************************************************************************)
(* Services both devices run beside a session.  What a permission shown as *)
(* granted is, for any permissions, types of them, flows, sessions and     *)
(* snapshots; that the local network is asked for once; and who listens    *)
(* while connections are accepted, for any number of commands, listeners,  *)
(* peers and failures; and that no window ends for itself, for any number  *)
(* of windows, links and turns.                                            *)
(***************************************************************************)
EXTENDS Permissions, LocalNetwork, AcceptLoop, WindowDaemon, FiniteSetTheorems, SequenceTheorems, TLAPS

(* A flow between the acquisition of the lock and its release. *)
Holding   == {"holds", "blocked", "denied", "leaves", "away", "again"}
InHand(f) == flows[f].at \in Holding
Wanting   == Holding \cup {"waits"}

(* A process's lock is taken exactly while one of its flows is in hand. *)
LockHolds ==
  /\ \A f \in Flows : InHand(f) => inProgress[ProcessOf(f)]
  /\ \A p \in {"ui", "backend"} : inProgress[p] => \E f \in Flows : InHand(f) /\ ProcessOf(f) = p
  /\ \A f, g \in Flows : InHand(f) /\ InHand(g) /\ ProcessOf(f) = ProcessOf(g) => f = g

(* A request is pending only for the flow that waits for its answer. *)
PendingHolds == pending # 0 => \E f \in Flows : flows[f].at = "blocked" /\ flows[f].code = pending

(* The page runs one request at a time, and shows what it read or what was read since. *)
PageHolds ==
  /\ flows["ui"].at # "idle" => pad.busy
  /\ flows["ui"].at = "queued" => flows["ui"].seen \subseteq Held
  /\ pad.shown \subseteq Held

(* A request of the desktop is still good only if what it has done so far was granted. *)
FlowsHold ==
  /\ \A f \in Flows : flows[f].at \in Wanting => flows[f].todo # <<>>
  /\ \A f \in Flows \ {"ui"} :
       /\ flows[f].at \notin {"blocked", "queued"}
       /\ flows[f].at # "idle" =>
            /\ flows[f].type \in Types
            /\ flows[f].good => ToSet(Needs[flows[f].type]) \subseteq Held \cup ToSet(flows[f].todo)
       /\ flows[f].at = "reports" /\ flows[f].good => flows[f].todo = <<>>

(* What the phone has, or had until it was switched off under its processes. *)
Still == StatusOf(Held)

(* What was read is still true, and so is what is on its way. *)
ReportsHold ==
  /\ \A i \in DOMAIN reads : reads[i] \subseteq Still
  /\ \A i \in DOMAIN toDesktop : ~toDesktop[i].event /\ toDesktop[i].good => toDesktop[i].type \in Still

(* The desktop hears of a session before anything of it, and of its end after all. *)
Event(k) == [event |-> TRUE, kind |-> k]
SessionHolds ==
  /\ inSession /\ desk.connected => (\A i \in DOMAIN toDesktop : ~toDesktop[i].event) /\ desk.shown \subseteq Still
  /\ inSession /\ ~desk.connected =>
       /\ toDesktop # <<>> /\ Head(toDesktop) = Event("connected")
       /\ \A i \in DOMAIN toDesktop : i > 1 => ~toDesktop[i].event
  /\ ~inSession /\ desk.connected => toDesktop = <<Event("disconnected")>>
  /\ ~inSession /\ ~desk.connected => toDesktop = <<>> \/ toDesktop = <<Event("connected"), Event("disconnected")>>
  /\ ~desk.connected => desk.shown = {}

PermissionIInv ==
  /\ PermissionTypeOK /\ LockHolds /\ PendingHolds /\ PageHolds /\ FlowsHold /\ ReportsHold /\ SessionHolds

-------------------------------------------------------------------------------
(* Sets and sequences. *)

LEMMA ProcessFacts == \A f : ProcessOf(f) \in {"ui", "backend"}
  BY DEF ProcessOf

LEMMA TailSet ==
  ASSUME NEW S, NEW s \in Seq(S), s # <<>>
  PROVE  /\ Head(s) \in S /\ Tail(s) \in Seq(S) /\ Head(s) \in ToSet(s)
         /\ ToSet(s) = {Head(s)} \cup ToSet(Tail(s))
         /\ Len(s) > 1 <=> Tail(s) # <<>>
<1>1. Len(s) \in Nat /\ Len(s) >= 1 /\ DOMAIN s = 1 .. Len(s)
  BY EmptySeq, LenProperties
<1>2. /\ Tail(s) \in Seq(S) /\ Len(Tail(s)) = Len(s) - 1 /\ Head(s) = s[1]
      /\ \A i \in 1 .. Len(s) - 1 : Tail(s)[i] = s[i + 1]
  BY <1>1, HeadTailProperties
<1>3. DOMAIN Tail(s) = 1 .. Len(s) - 1
  BY <1>2, LenProperties
<1>4. ToSet(s) \subseteq {Head(s)} \cup ToSet(Tail(s))
  <2> SUFFICES ASSUME NEW i \in 1 .. Len(s), i # 1 PROVE s[i] \in ToSet(Tail(s))
    BY <1>1, <1>2 DEF ToSet
  <2>1. i - 1 \in 1 .. Len(s) - 1 /\ (i - 1) + 1 = i
    BY <1>1
  <2>2. Tail(s)[i - 1] = s[i]
    BY <2>1, <1>2
  <2> QED
    BY <1>3, <2>1, <2>2 DEF ToSet
<1>5. ToSet(Tail(s)) \subseteq ToSet(s)
  <2> SUFFICES ASSUME NEW i \in 1 .. Len(s) - 1 PROVE Tail(s)[i] \in ToSet(s)
    BY <1>3 DEF ToSet
  <2>1. i + 1 \in 1 .. Len(s)
    BY <1>1
  <2> QED
    BY <1>1, <1>2, <2>1 DEF ToSet
<1>6. Head(s) \in ToSet(s) /\ Head(s) \in S
  BY <1>1, <1>2, ElementOfSeq DEF ToSet
<1>7. Len(s) > 1 <=> Tail(s) # <<>>
  <2>1. Tail(s) = <<>> => Len(Tail(s)) = 0
    BY EmptySeq
  <2>2. Tail(s) # <<>> => Len(Tail(s)) \in Nat \ {0}
    BY <1>2, EmptySeq
  <2> QED
    BY <1>1, <1>2, <2>1, <2>2
<1> QED
  BY <1>2, <1>4, <1>5, <1>6, <1>7

LEMMA ListOfSet ==
  ASSUME NEW S, IsFiniteSet(S)
  PROVE  /\ SetToSeq(S) \in Seq(S) /\ Cardinality(S) \in Nat /\ (S # {} => SetToSeq(S) # <<>>)
         /\ SetToSeq(S) \in [1 .. Cardinality(S) -> S]
<1>1. Cardinality(S) \in Nat
  BY FS_CardinalityType
<1>2. \E f \in [1 .. Cardinality(S) -> S] : IsInjective(f)
  <2>1. ExistsBijection(1 .. Cardinality(S), S)
    BY FS_NatBijection, FS_CountingElements, FS_CardinalityType
  <2>2. PICK f \in Bijection(1 .. Cardinality(S), S) : TRUE
    BY <2>1 DEF ExistsBijection
  <2>3. f \in [1 .. Cardinality(S) -> S] /\ \A a, b \in 1 .. Cardinality(S) : f[a] = f[b] => a = b
    BY <2>2 DEF Bijection, Injection, IsInjective
  <2> QED
    BY <2>3 DEF IsInjective
<1>3. SetToSeq(S) \in [1 .. Cardinality(S) -> S]
  BY <1>2 DEF SetToSeq
<1>4. SetToSeq(S) \in Seq(S) /\ Len(SetToSeq(S)) = Cardinality(S)
  BY <1>1, <1>3, SeqDef, LenProperties
<1>5. S # {} => Cardinality(S) # 0
  BY FS_EmptySet
<1> QED
  BY <1>1, <1>3, <1>4, <1>5, EmptySeq

LEMMA EachAppended ==
  ASSUME NEW S, NEW s \in Seq(S), NEW e \in S
  PROVE  /\ Append(s, e) \in Seq(S)
         /\ \A i \in DOMAIN Append(s, e) :
               Append(s, e)[i] = e \/ (i \in DOMAIN s /\ Append(s, e)[i] = s[i])
         /\ s # <<>> => Append(s, e) # <<>> /\ Head(Append(s, e)) = Head(s)
<1>1. /\ Append(s, e) \in Seq(S) /\ Len(Append(s, e)) = Len(s) + 1 /\ Append(s, e) # <<>>
      /\ \A i \in 1 .. Len(s) : Append(s, e)[i] = s[i]
      /\ Append(s, e)[Len(s) + 1] = e
  BY AppendProperties
<1>2. DOMAIN Append(s, e) = 1 .. Len(s) + 1 /\ DOMAIN s = 1 .. Len(s) /\ Len(s) \in Nat
  BY <1>1, LenProperties
<1>3. s # <<>> => Head(Append(s, e)) = Head(s)
  BY HeadTailAppend
<1> QED
  BY <1>1, <1>2, <1>3

LEMMA EachOfTail ==
  ASSUME NEW S, NEW s \in Seq(S), s # <<>>
  PROVE  /\ Tail(s) \in Seq(S) /\ Head(s) = s[1] /\ 1 \in DOMAIN s
         /\ \A i \in DOMAIN Tail(s) : i + 1 \in DOMAIN s /\ i + 1 > 1 /\ Tail(s)[i] = s[i + 1]
<1>1. Len(s) \in Nat /\ Len(s) >= 1 /\ DOMAIN s = 1 .. Len(s)
  BY EmptySeq, LenProperties
<1>2. /\ Tail(s) \in Seq(S) /\ Len(Tail(s)) = Len(s) - 1 /\ Head(s) = s[1]
      /\ \A i \in 1 .. Len(s) - 1 : Tail(s)[i] = s[i + 1]
  BY <1>1, HeadTailProperties
<1>3. DOMAIN Tail(s) = 1 .. Len(s) - 1
  BY <1>2, LenProperties
<1> QED
  BY <1>1, <1>2, <1>3

LEMMA EachConcatenated ==
  ASSUME NEW S, NEW s \in Seq(S), NEW t \in Seq(S)
  PROVE  /\ s \o t \in Seq(S)
         /\ \A i \in DOMAIN (s \o t) :
               \/ i \in DOMAIN s /\ (s \o t)[i] = s[i]
               \/ \E j \in DOMAIN t : (s \o t)[i] = t[j]
         /\ s # <<>> => s \o t # <<>> /\ Head(s \o t) = Head(s)
<1>1. /\ s \o t \in Seq(S) /\ Len(s \o t) = Len(s) + Len(t)
      /\ \A i \in 1 .. Len(s) + Len(t) : (s \o t)[i] = IF i <= Len(s) THEN s[i] ELSE t[i - Len(s)]
  BY ConcatProperties
<1>2. /\ DOMAIN (s \o t) = 1 .. Len(s) + Len(t) /\ DOMAIN s = 1 .. Len(s) /\ DOMAIN t = 1 .. Len(t)
      /\ Len(s) \in Nat /\ Len(t) \in Nat
  BY <1>1, LenProperties
<1>3. ASSUME NEW i \in DOMAIN (s \o t)
      PROVE  (i \in DOMAIN s /\ (s \o t)[i] = s[i]) \/ \E j \in DOMAIN t : (s \o t)[i] = t[j]
  <2>1. i \in 1 .. Len(s) + Len(t)
    BY <1>2, <1>3
  <2>2. CASE i <= Len(s)
    BY <1>1, <1>2, <2>1, <2>2
  <2>3. CASE i > Len(s)
    <3>1. i - Len(s) \in 1 .. Len(t)
      BY <1>2, <2>1, <2>3
    <3>2. (s \o t)[i] = t[i - Len(s)]
      BY <1>1, <1>2, <2>1, <2>3
    <3> QED
      BY <1>2, <3>1, <3>2
  <2> QED
    BY <1>2, <2>1, <2>2, <2>3
<1>4. s # <<>> => s \o t # <<>> /\ Head(s \o t) = Head(s)
  <2> SUFFICES ASSUME s # <<>> PROVE s \o t # <<>> /\ Head(s \o t) = Head(s)
    OBVIOUS
  <2>1. Len(s) >= 1
    BY <1>2, EmptySeq
  <2>2. Len(s \o t) >= 1 /\ (s \o t)[1] = s[1]
    BY <1>1, <1>2, <2>1
  <2>3. s \o t # <<>>
    BY <2>2, EmptySeq
  <2> QED
    BY <1>1, <2>2, <2>3, EachOfTail
<1> QED
  BY <1>1, <1>3, <1>4

-------------------------------------------------------------------------------
(* What a step of one flow does to it and to the lock of its process. *)

OnlyOf(f) == \A g \in Flows \ {f} : flows'[g] = flows[g]

LEMMA FinishedFacts ==
  ASSUME NEW f \in Flows, NEW good \in BOOLEAN, NEW further \in BOOLEAN,
         PermissionTypeOK, flows[f].todo # <<>>, Finished(f, good, further)
  PROVE  /\ flows' \in [Flows -> Coroutines] /\ inProgress' \in [{"ui", "backend"} -> BOOLEAN] /\ OnlyOf(f)
         /\ ~inProgress'[ProcessOf(f)] /\ \A p \in {"ui", "backend"} : p # ProcessOf(f) => inProgress'[p] = inProgress[p]
         /\ flows'[f].type = flows[f].type /\ flows'[f].good = (flows[f].good /\ good)
         /\ flows'[f].todo = IF further THEN Tail(flows[f].todo) ELSE <<>>
         /\ \/ flows'[f].at = "waits" /\ flows'[f].todo # <<>>
            \/ flows'[f].at = "reports" /\ flows'[f].todo = <<>>
<1> DEFINE todo == IF further THEN Tail(flows[f].todo) ELSE <<>>
           at   == IF further /\ Len(flows[f].todo) > 1 THEN "waits" ELSE "reports"
           both == flows[f].good /\ good
<1>1. /\ flows \in [Flows -> Coroutines] /\ inProgress \in [{"ui", "backend"} -> BOOLEAN]
      /\ flows[f] \in Coroutines /\ flows[f].todo \in Seq(Permission)
  BY DEF PermissionTypeOK, Coroutines
<1>2. flows' = [flows EXCEPT ![f].todo = todo, ![f].good = both, ![f].code = 0, ![f].at = at]
  BY Zenon DEF Finished
<1>3. inProgress' = [inProgress EXCEPT ![ProcessOf(f)] = FALSE]
  BY Zenon DEF Finished
<1>4. /\ todo \in Seq(Permission) /\ at \in {"waits", "reports"} /\ both \in BOOLEAN
      /\ at = "waits" => todo # <<>>
      /\ at = "reports" => todo = <<>>
  <2>1. /\ Tail(flows[f].todo) \in Seq(Permission)
        /\ Len(flows[f].todo) > 1 <=> Tail(flows[f].todo) # <<>>
    BY <1>1, TailSet
  <2>2. <<>> \in Seq(Permission)
    BY EmptySeq
  <2>3. both \in BOOLEAN
    BY <1>1 DEF Coroutines
  <2> QED
    BY <2>1, <2>2, <2>3
<1> HIDE DEF todo, at, both
<1>5. /\ flows'[f] = [at |-> at, todo |-> todo, type |-> flows[f].type, good |-> both, code |-> 0,
                       seen |-> flows[f].seen]
      /\ OnlyOf(f)
  BY <1>1, <1>2 DEF OnlyOf, Coroutines
<1>6. flows'[f] \in Coroutines
  BY <1>1, <1>4, <1>5 DEF Coroutines, Places
<1>7. flows' \in [Flows -> Coroutines]
  BY <1>1, <1>2, <1>5, <1>6
<1>8. /\ flows'[f].type = flows[f].type /\ flows'[f].good = both /\ flows'[f].todo = todo /\ flows'[f].at = at
  BY <1>1, <1>5 DEF Coroutines
<1>9. /\ inProgress' \in [{"ui", "backend"} -> BOOLEAN] /\ ~inProgress'[ProcessOf(f)]
      /\ \A p \in {"ui", "backend"} : p # ProcessOf(f) => inProgress'[p] = inProgress[p]
  BY <1>1, <1>3, ProcessFacts
<1>10. /\ flows'[f].good = (flows[f].good /\ good)
       /\ flows'[f].todo = IF further THEN Tail(flows[f].todo) ELSE <<>>
  BY <1>8 DEF todo, both
<1> QED
  BY <1>4, <1>5, <1>7, <1>8, <1>9, <1>10

LEMMA GoesFacts ==
  ASSUME NEW f \in Flows, NEW place \in Places, PermissionTypeOK,
         flows' = [flows EXCEPT ![f].at = place]
  PROVE  /\ flows' \in [Flows -> Coroutines] /\ OnlyOf(f)
         /\ flows'[f].at = place /\ flows'[f].type = flows[f].type /\ flows'[f].good = flows[f].good
         /\ flows'[f].todo = flows[f].todo /\ flows'[f].code = flows[f].code /\ flows'[f].seen = flows[f].seen
<1>1. flows \in [Flows -> Coroutines] /\ flows[f] \in Coroutines
  BY DEF PermissionTypeOK
<1>2. flows'[f] = [flows[f] EXCEPT !.at = place] /\ OnlyOf(f)
  BY <1>1 DEF OnlyOf
<1>3. flows'[f] \in Coroutines
  BY <1>1, <1>2 DEF Coroutines
<1> QED
  BY <1>1, <1>2, <1>3 DEF Coroutines

-------------------------------------------------------------------------------
(* The lock. *)

LEMMA LockReturns ==
  ASSUME NEW f \in Flows, LockHolds, InHand(f), OnlyOf(f), flows'[f].at \notin Holding,
         ~inProgress'[ProcessOf(f)], \A p \in {"ui", "backend"} : p # ProcessOf(f) => inProgress'[p] = inProgress[p]
  PROVE  LockHolds'
<1>1. ~InHand(f)' /\ \A g \in Flows : g # f => InHand(g)' = InHand(g)
  BY DEF InHand, OnlyOf
<1>2. \A g \in Flows : g # f /\ InHand(g) => ProcessOf(g) # ProcessOf(f)
  BY DEF LockHolds
<1>3. ASSUME NEW g \in Flows, InHand(g)' PROVE inProgress'[ProcessOf(g)]
  BY <1>1, <1>2, <1>3, ProcessFacts DEF LockHolds
<1>4. ASSUME NEW p \in {"ui", "backend"}, inProgress'[p] PROVE \E g \in Flows : InHand(g)' /\ ProcessOf(g) = p
  <2>1. p # ProcessOf(f) /\ inProgress[p]
    BY <1>4
  <2>2. PICK g \in Flows : InHand(g) /\ ProcessOf(g) = p
    BY <2>1 DEF LockHolds
  <2> QED
    BY <1>1, <2>1, <2>2
<1>5. ASSUME NEW g \in Flows, NEW h \in Flows, InHand(g)', InHand(h)', ProcessOf(g) = ProcessOf(h) PROVE g = h
  BY <1>1, <1>5 DEF LockHolds
<1>6. \A g : ProcessOf(g)' = ProcessOf(g)
  BY DEF ProcessOf
<1> QED
  BY <1>3, <1>4, <1>5, <1>6 DEF LockHolds

LEMMA LockSame ==
  ASSUME LockHolds, \A g \in Flows : InHand(g)' = InHand(g), inProgress' = inProgress
  PROVE  LockHolds'
  BY DEF LockHolds, ProcessOf

LEMMA LockGoes ==
  ASSUME NEW f \in Flows, LockHolds, InHand(f), OnlyOf(f), flows'[f].at \in Holding, inProgress' = inProgress
  PROVE  LockHolds'
<1>1. \A g \in Flows : InHand(g)' = InHand(g)
  BY DEF InHand, OnlyOf
<1> QED
  BY <1>1, LockSame

LEMMA LockAcquired ==
  ASSUME NEW f \in Flows, PermissionTypeOK, LockHolds, OnlyOf(f), flows'[f].at \in Holding, ~inProgress[ProcessOf(f)],
         inProgress' = [inProgress EXCEPT ![ProcessOf(f)] = TRUE]
  PROVE  LockHolds'
<1>1. InHand(f)' /\ \A g \in Flows : g # f => InHand(g)' = InHand(g)
  BY DEF InHand, OnlyOf
<1>2. \A g \in Flows : InHand(g) => ProcessOf(g) # ProcessOf(f)
  BY DEF LockHolds
<1>3. inProgress'[ProcessOf(f)] /\ \A p \in {"ui", "backend"} : p # ProcessOf(f) => inProgress'[p] = inProgress[p]
  BY ProcessFacts DEF PermissionTypeOK
<1>4. ASSUME NEW g \in Flows, InHand(g)' PROVE inProgress'[ProcessOf(g)]
  BY <1>1, <1>2, <1>3, <1>4, ProcessFacts DEF LockHolds
<1>5. ASSUME NEW p \in {"ui", "backend"}, inProgress'[p] PROVE \E g \in Flows : InHand(g)' /\ ProcessOf(g) = p
  <2>1. CASE p = ProcessOf(f)
    BY <1>1, <2>1
  <2>2. CASE p # ProcessOf(f)
    <3>1. PICK g \in Flows : InHand(g) /\ ProcessOf(g) = p
      BY <1>3, <1>5, <2>2 DEF LockHolds
    <3> QED
      BY <1>1, <2>2, <3>1
  <2> QED
    BY <2>1, <2>2
<1>6. ASSUME NEW g \in Flows, NEW h \in Flows, InHand(g)', InHand(h)', ProcessOf(g) = ProcessOf(h) PROVE g = h
  BY <1>1, <1>2, <1>6 DEF LockHolds
<1>7. \A g : ProcessOf(g)' = ProcessOf(g)
  BY DEF ProcessOf
<1> QED
  BY <1>4, <1>5, <1>6, <1>7 DEF LockHolds

-------------------------------------------------------------------------------
(* A flow in hand is done with a permission, or goes on with it. *)

(* What the rest of the invariant asks of a step of one flow. *)
Keeps(f) ==
  /\ flows' \in [Flows -> Coroutines] /\ inProgress' \in [{"ui", "backend"} -> BOOLEAN]
  /\ LockHolds' /\ PageHolds' /\ FlowsHold' /\ OnlyOf(f)

LEMMA StepKeeps ==
  ASSUME NEW f \in Flows, PermissionBounds, PermissionIInv, UNCHANGED <<granted, withdrawn, pad>>,
         flows' \in [Flows -> Coroutines], OnlyOf(f), flows[f].at \notin {"idle", "queued"},
         flows'[f].at \notin {"idle", "queued"},
         flows'[f].at \in Wanting => flows'[f].todo # <<>>,
         f # "ui" => /\ flows'[f].at # "blocked" /\ flows'[f].type = flows[f].type
                     /\ flows'[f].good => /\ flows[f].good
                                          /\ ToSet(flows[f].todo) \subseteq Held \cup ToSet(flows'[f].todo)
                     /\ flows'[f].at = "reports" /\ flows'[f].good => flows'[f].todo = <<>>
  PROVE  PageHolds' /\ FlowsHold'
<1>1. PageHolds'
  BY DEF PermissionBounds, PermissionIInv, PageHolds, OnlyOf, Held
<1>2. \A g \in Flows : flows'[g].at \in Wanting => flows'[g].todo # <<>>
  BY DEF PermissionIInv, FlowsHold, OnlyOf, Held
<1>3. ASSUME NEW g \in Flows \ {"ui"}
      PROVE  /\ flows'[g].at \notin {"blocked", "queued"}
             /\ flows'[g].at # "idle" =>
                  /\ flows'[g].type \in Types
                  /\ flows'[g].good => ToSet(Needs[flows'[g].type]) \subseteq Held \cup ToSet(flows'[g].todo)
             /\ flows'[g].at = "reports" /\ flows'[g].good => flows'[g].todo = <<>>
  <2>1. CASE g # f
    BY <2>1 DEF PermissionIInv, FlowsHold, OnlyOf, Held
  <2>2. CASE g = f
    <3>1. /\ flows[f].type \in Types
          /\ flows[f].good => ToSet(Needs[flows[f].type]) \subseteq Held \cup ToSet(flows[f].todo)
      BY <2>2 DEF PermissionIInv, FlowsHold, Held
    <3>2. flows'[f].good => ToSet(Needs[flows'[f].type]) \subseteq Held \cup ToSet(flows'[f].todo)
      BY <2>2, <3>1
    <3> QED
      BY <2>2, <3>1, <3>2
  <2> QED
    BY <2>1, <2>2
<1> QED
  BY <1>1, <1>2, <1>3 DEF FlowsHold, ToSet, Held

LEMMA ReturnsKeeps ==
  ASSUME NEW f \in Flows, NEW good \in BOOLEAN, PermissionBounds, PermissionIInv, InHand(f), Returns(f, good),
         f # "ui" /\ good => Head(flows[f].todo) \in Held, UNCHANGED <<granted, withdrawn, pad>>
  PROVE  Keeps(f)
<1>1. PICK further \in BOOLEAN : (good => further) /\ Finished(f, good, further)
  BY DEF Returns
<1>2. PermissionTypeOK /\ LockHolds /\ flows[f].todo # <<>> /\ flows[f].todo \in Seq(Permission)
  BY DEF PermissionIInv, FlowsHold, InHand, Wanting, PermissionTypeOK, Coroutines, Held
<1>3. /\ flows' \in [Flows -> Coroutines] /\ inProgress' \in [{"ui", "backend"} -> BOOLEAN] /\ OnlyOf(f)
      /\ ~inProgress'[ProcessOf(f)] /\ \A p \in {"ui", "backend"} : p # ProcessOf(f) => inProgress'[p] = inProgress[p]
      /\ flows'[f].type = flows[f].type /\ flows'[f].good = (flows[f].good /\ good)
      /\ flows'[f].todo = IF further THEN Tail(flows[f].todo) ELSE <<>>
      /\ \/ flows'[f].at = "waits" /\ flows'[f].todo # <<>>
         \/ flows'[f].at = "reports" /\ flows'[f].todo = <<>>
  BY <1>1, <1>2, FinishedFacts
<1>4. LockHolds'
  BY <1>2, <1>3, LockReturns DEF Holding
<1>5. ToSet(flows[f].todo) = {Head(flows[f].todo)} \cup ToSet(Tail(flows[f].todo))
  BY <1>2, TailSet
<1>6. f # "ui" /\ flows'[f].good => flows[f].good /\ ToSet(flows[f].todo) \subseteq Held \cup ToSet(flows'[f].todo)
  BY <1>1, <1>3, <1>5
<1>7. flows[f].at \notin {"idle", "queued"} /\ flows'[f].at \notin {"idle", "queued", "blocked"}
  BY <1>3 DEF InHand, Holding
<1>8. PageHolds' /\ FlowsHold'
  <2>1. flows'[f].at \in Wanting => flows'[f].todo # <<>>
    BY <1>3 DEF Wanting, Holding
  <2>2. UNCHANGED <<granted, withdrawn, pad>>
    OBVIOUS
  <2> QED
    BY <1>3, <1>6, <1>7, <2>1, <2>2, StepKeeps
<1> QED
  BY <1>3, <1>4, <1>8 DEF Keeps

LEMMA GoesKeeps ==
  ASSUME NEW f \in Flows, NEW place \in Holding, PermissionBounds, PermissionIInv, InHand(f), MovesOn(f, place),
         f # "ui" => place # "blocked", UNCHANGED <<granted, withdrawn, pad>>
  PROVE  Keeps(f)
<1>1. PermissionTypeOK /\ LockHolds /\ flows[f].todo # <<>> /\ inProgress \in [{"ui", "backend"} -> BOOLEAN]
  BY DEF PermissionIInv, FlowsHold, InHand, Wanting, PermissionTypeOK, Held
<1>2. /\ flows' \in [Flows -> Coroutines] /\ OnlyOf(f)
      /\ flows'[f].at = place /\ flows'[f].type = flows[f].type /\ flows'[f].good = flows[f].good
      /\ flows'[f].todo = flows[f].todo
  BY <1>1, GoesFacts DEF MovesOn, Holding, Places
<1>3. inProgress' = inProgress
  BY DEF MovesOn
<1>4. LockHolds'
  BY <1>1, <1>2, <1>3, LockGoes
<1>5. flows[f].at \notin {"idle", "queued"} /\ place \notin {"idle", "queued", "reports"}
  BY DEF InHand, Holding
<1>6. PageHolds' /\ FlowsHold'
  BY <1>1, <1>2, <1>5, StepKeeps
<1> QED
  BY <1>1, <1>2, <1>3, <1>4, <1>6 DEF Keeps

-------------------------------------------------------------------------------
(* The steps of a flow. *)

LEMMA LinkHolds ==
  ASSUME PermissionIInv, Held \subseteq Held', UNCHANGED <<reads, toDesktop, desk, inSession>>
  PROVE  ReportsHold' /\ SessionHolds'
<1>1. Still \subseteq Still'
  BY DEF Still, StatusOf, Held, ToSet
<1>2. ReportsHold'
  BY <1>1 DEF PermissionIInv, ReportsHold
<1>3. SessionHolds'
  BY <1>1 DEF PermissionIInv, SessionHolds, Event
<1> QED
  BY <1>2, <1>3

LEMMA PendingSame ==
  ASSUME NEW f \in Flows, PermissionIInv, OnlyOf(f), flows[f].at # "blocked", pending' = pending
  PROVE  PendingHolds'
  BY DEF PermissionIInv, PendingHolds, OnlyOf

LEMMA FlowStepHolds ==
  ASSUME NEW f \in Flows, PermissionIInv, Keeps(f), PendingHolds',
         UNCHANGED <<granted, app, pad, reads, requests, theLink>>,
         codes' \in Nat, pending' \in 0 .. codes', answers' \subseteq 1 .. codes', dialogues' \in Seq(Questions')
  PROVE  PermissionIInv'
<1>1. ReportsHold' /\ SessionHolds'
  BY LinkHolds DEF theLink, Held
<1>2. PermissionTypeOK'
  <2>1. PermissionTypeOK /\ flows' \in [Flows -> Coroutines] /\ inProgress' \in [{"ui", "backend"} -> BOOLEAN]
    BY DEF PermissionIInv, Keeps
  <2>2. UNCHANGED <<granted, withdrawn, app, pad, reads, asked, toDesktop, desk, shots, inSession, requests, moves>>
    BY DEF theLink
  <2> QED
    BY <2>1, <2>2 DEF PermissionTypeOK, Coroutines, Messages, Permission
<1> QED
  BY <1>1, <1>2 DEF PermissionIInv, Keeps

LEMMA SameFlowStepHolds ==
  ASSUME NEW f \in Flows, PermissionIInv, Keeps(f), flows[f].at # "blocked",
         UNCHANGED <<granted, app, pad, reads, requests, theLink>>, UNCHANGED theFlow
  PROVE  PermissionIInv'
<1>1. UNCHANGED <<dialogues, pending, answers, codes>>
  BY DEF theFlow
<1>2. PendingHolds'
  BY <1>1, PendingSame DEF Keeps
<1>3. codes' \in Nat /\ pending' \in 0 .. codes' /\ answers' \subseteq 1 .. codes' /\ dialogues' \in Seq(Questions')
  BY <1>1 DEF PermissionIInv, PermissionTypeOK, Questions
<1> QED
  BY <1>2, <1>3, FlowStepHolds

LEMMA AcquiresStep ==
  ASSUME NEW f \in Flows, PermissionBounds, PermissionIInv, Acquires(f)
  PROVE  PermissionIInv'
<1>1. /\ PermissionTypeOK /\ LockHolds /\ flows \in [Flows -> Coroutines] /\ flows[f].todo # <<>>
      /\ inProgress \in [{"ui", "backend"} -> BOOLEAN]
  BY DEF PermissionIInv, PermissionTypeOK, FlowsHold, Acquires, Wanting, Held
<1>2. /\ flows[f].at = "waits" /\ ~inProgress[ProcessOf(f)] /\ inProgress' = [inProgress EXCEPT ![ProcessOf(f)] = TRUE]
      /\ flows' = [flows EXCEPT ![f].at = "holds"]
      /\ UNCHANGED <<granted, app, pad, reads, requests, theLink>> /\ UNCHANGED theFlow
  BY DEF Acquires
<1>3. /\ flows' \in [Flows -> Coroutines] /\ OnlyOf(f)
      /\ flows'[f].at = "holds" /\ flows'[f].type = flows[f].type /\ flows'[f].good = flows[f].good
      /\ flows'[f].todo = flows[f].todo
  BY <1>1, <1>2, GoesFacts DEF Places
<1>4. LockHolds'
  BY <1>1, <1>2, <1>3, LockAcquired DEF Holding
<1>5. PageHolds' /\ FlowsHold'
  BY <1>1, <1>2, <1>3, StepKeeps DEF theLink
<1>6. inProgress' \in [{"ui", "backend"} -> BOOLEAN]
  BY <1>1, <1>2, ProcessFacts
<1>7. Keeps(f)
  BY <1>3, <1>4, <1>5, <1>6 DEF Keeps
<1> QED
  BY <1>2, <1>7, SameFlowStepHolds

(* Opens, and a step of a flow in hand that neither waits for a dialogue nor asks for one. *)
LEMMA OpensKeeps ==
  ASSUME NEW f \in Flows, PermissionBounds, PermissionIInv, InHand(f), Opens(f), UNCHANGED <<granted, withdrawn, pad>>
  PROVE  Keeps(f)
<1>1. CASE Returns(f, FALSE)
  BY <1>1, ReturnsKeeps
<1>2. CASE MovesOn(f, IF f = "ui" THEN "leaves" ELSE "again")
  BY <1>2, GoesKeeps DEF Holding
<1> QED
  BY <1>1, <1>2 DEF Opens

LEMMA DeniedStep ==
  ASSUME NEW f \in Flows, PermissionBounds, PermissionIInv, Denied(f)
  PROVE  PermissionIInv'
<1>1. /\ InHand(f) /\ flows[f].at # "blocked" /\ UNCHANGED <<granted, withdrawn, pad>>
      /\ UNCHANGED <<granted, app, pad, reads, requests, theLink>> /\ UNCHANGED theFlow
  BY DEF Denied, InHand, Holding, theLink
<1>2. Keeps(f)
  <2>1. CASE Returns(f, FALSE)
    BY <1>1, <2>1, ReturnsKeeps
  <2>2. CASE Opens(f)
    BY <1>1, <2>2, OpensKeeps
  <2> QED
    BY <2>1, <2>2 DEF Denied
<1> QED
  BY <1>1, <1>2, SameFlowStepHolds

LEMMA WaitsStep ==
  ASSUME NEW f \in Flows, PermissionBounds, PermissionIInv, Waits(f)
  PROVE  PermissionIInv'
<1>1. /\ InHand(f) /\ flows[f].at # "blocked" /\ UNCHANGED <<granted, withdrawn, pad>>
      /\ UNCHANGED <<granted, app, pad, reads, requests, theLink>> /\ UNCHANGED theFlow
  BY DEF Waits, InHand, Holding, theLink
<1>2. \E place \in {"away", "again"} : MovesOn(f, place)
  BY DEF Waits
<1>3. Keeps(f)
  BY <1>1, <1>2, GoesKeeps DEF Holding
<1> QED
  BY <1>1, <1>3, SameFlowStepHolds

LEMMA AgainStep ==
  ASSUME NEW f \in Flows, PermissionBounds, PermissionIInv, Again(f)
  PROVE  PermissionIInv'
<1>1. /\ InHand(f) /\ flows[f].at # "blocked" /\ UNCHANGED <<granted, withdrawn, pad>>
      /\ UNCHANGED <<granted, app, pad, reads, requests, theLink>> /\ UNCHANGED theFlow
  BY DEF Again, InHand, Holding, theLink
<1>2. Returns(f, Head(flows[f].todo) \in granted)
  BY DEF Again
<1>3. Keeps(f)
  <2>1. CASE Head(flows[f].todo) \in granted
    <3>1. (Head(flows[f].todo) \in granted) = TRUE
      BY Zenon, <2>1
    <3>2. Returns(f, TRUE)
      BY Zenon, <1>2, <3>1
    <3> QED
      BY <1>1, <2>1, <3>2, ReturnsKeeps DEF Held
  <2>2. CASE Head(flows[f].todo) \notin granted
    <3>1. (Head(flows[f].todo) \in granted) = FALSE
      BY <2>2
    <3>2. Returns(f, FALSE)
      BY Zenon, <1>2, <3>1
    <3> QED
      BY <1>1, <3>2, ReturnsKeeps
  <2> QED
    BY <2>1, <2>2
<1> QED
  BY <1>1, <1>3, SameFlowStepHolds

LEMMA ChecksStep ==
  ASSUME NEW f \in Flows, PermissionBounds, PermissionIInv, ChecksNext(f)
  PROVE  PermissionIInv'
<1> DEFINE p == Head(flows[f].todo)
<1>1. /\ InHand(f) /\ flows[f].at = "holds" /\ UNCHANGED <<granted, withdrawn, pad>>
      /\ UNCHANGED <<granted, app, pad, reads, requests, theLink>>
  BY DEF ChecksNext, InHand, Holding, theLink
<1>2. /\ PermissionTypeOK /\ flows[f].todo # <<>> /\ flows[f].todo \in Seq(Permission)
      /\ flows \in [Flows -> Coroutines] /\ inProgress \in [{"ui", "backend"} -> BOOLEAN] /\ LockHolds
  BY <1>1 DEF PermissionIInv, FlowsHold, InHand, Wanting, PermissionTypeOK, Coroutines, Held
<1>3. CASE p \in granted /\ Returns(f, TRUE) /\ UNCHANGED theFlow
  <2>1. Keeps(f)
    BY <1>1, <1>3, ReturnsKeeps DEF Held
  <2> QED
    BY <1>1, <1>3, <2>1, SameFlowStepHolds
<1>4. CASE Opens(f) /\ UNCHANGED theFlow
  <2>1. Keeps(f)
    BY <1>1, <1>4, OpensKeeps
  <2> QED
    BY <1>1, <1>4, <2>1, SameFlowStepHolds
<1>5. CASE MovesOn(f, "denied") /\ UNCHANGED theFlow
  <2>1. Keeps(f)
    BY <1>1, <1>5, GoesKeeps DEF Holding
  <2> QED
    BY <1>1, <1>5, <2>1, SameFlowStepHolds
<1>6. CASE /\ f = "ui" /\ codes' = codes + 1 /\ pending' = codes + 1
           /\ dialogues' = Append(dialogues, [permission |-> p, code |-> codes + 1])
           /\ flows' = [flows EXCEPT ![f].at = "blocked", ![f].code = codes + 1]
           /\ UNCHANGED <<answers, inProgress>>
  <2>1. codes \in Nat /\ p \in Permission /\ dialogues \in Seq(Questions) /\ answers \subseteq 1 .. codes
    BY <1>2, TailSet DEF PermissionTypeOK
  <2>2. flows[f] \in Coroutines
    BY <1>2
  <2>3. /\ flows'[f] = [at |-> "blocked", todo |-> flows[f].todo, type |-> flows[f].type, good |-> flows[f].good,
                         code |-> codes + 1, seen |-> flows[f].seen]
        /\ OnlyOf(f)
    BY <1>2, <1>6, <2>2 DEF OnlyOf, Coroutines
  <2>4. flows'[f] \in Coroutines
    BY <2>1, <2>2, <2>3 DEF Coroutines, Places
  <2>5. flows' \in [Flows -> Coroutines]
    BY <1>2, <1>6, <2>3, <2>4
  <2>6. LockHolds'
    BY <1>1, <1>2, <1>6, <2>3, LockGoes DEF Holding
  <2>7. PageHolds' /\ FlowsHold'
    BY <1>1, <1>2, <1>6, <2>3, <2>5, StepKeeps
  <2>8. Keeps(f)
    BY <1>2, <1>6, <2>3, <2>5, <2>6, <2>7 DEF Keeps
  <2>9. PendingHolds'
    <3>1. flows'[f].at = "blocked" /\ flows'[f].code = codes + 1 /\ pending' = codes + 1
      BY <1>6, <2>3
    <3> QED
      BY <3>1 DEF PendingHolds
  <2>10. codes' \in Nat /\ pending' \in 0 .. codes' /\ answers' \subseteq 1 .. codes'
    BY <1>6, <2>1
  <2>11. dialogues' \in Seq(Questions')
    <3>1. Questions \subseteq Questions' /\ [permission |-> p, code |-> codes + 1] \in Questions'
      BY <1>6, <2>1 DEF Questions, Permission
    <3>2. dialogues \in Seq(Questions')
      BY <2>1, <3>1, SeqMonotonic
    <3> QED
      BY <1>6, <3>1, <3>2, AppendProperties
  <2> QED
    BY <1>1, <2>8, <2>9, <2>10, <2>11, FlowStepHolds
<1> QED
  BY <1>3, <1>4, <1>5, <1>6 DEF ChecksNext

LEMMA UnblocksStep ==
  ASSUME NEW f \in Flows, PermissionBounds, PermissionIInv, Unblocks(f)
  PROVE  PermissionIInv'
<1>1. /\ InHand(f) /\ flows[f].at = "blocked" /\ UNCHANGED <<granted, withdrawn, pad>>
      /\ UNCHANGED <<granted, app, pad, reads, requests, theLink>> /\ UNCHANGED <<dialogues, answers, codes>>
      /\ pending' = IF pending = flows[f].code THEN 0 ELSE pending
  BY DEF Unblocks, InHand, Holding, theLink
<1>2. f = "ui"
  BY <1>1 DEF PermissionIInv, FlowsHold, Held
<1>3. Returns(f, TRUE) \/ MovesOn(f, "denied")
  BY DEF Unblocks
<1>4. Keeps(f)
  <2>1. CASE Returns(f, TRUE)
    BY <1>1, <1>2, <2>1, ReturnsKeeps
  <2>2. CASE MovesOn(f, "denied")
    BY <1>1, <1>2, <2>2, GoesKeeps DEF Holding
  <2> QED
    BY <1>3, <2>1, <2>2
<1>5. PendingHolds'
  <2> SUFFICES ASSUME pending' # 0 PROVE \E g \in Flows : flows'[g].at = "blocked" /\ flows'[g].code = pending'
    BY DEF PendingHolds
  <2>1. pending' = pending /\ pending # flows[f].code
    BY <1>1
  <2>2. PICK g \in Flows : flows[g].at = "blocked" /\ flows[g].code = pending
    BY <2>1 DEF PermissionIInv, PendingHolds
  <2> QED
    BY <1>4, <2>1, <2>2 DEF Keeps, OnlyOf
<1>6. codes' \in Nat /\ pending' \in 0 .. codes' /\ answers' \subseteq 1 .. codes' /\ dialogues' \in Seq(Questions')
  BY <1>1 DEF PermissionIInv, PermissionTypeOK, Questions
<1> QED
  BY <1>1, <1>4, <1>5, <1>6, FlowStepHolds

-------------------------------------------------------------------------------
(* Steps of the users and the system. *)

LEMMA NothingTaken ==
  ASSUME PermissionIInv, Held \subseteq Held', UNCHANGED <<flows, inProgress, pad, reads, toDesktop, desk, inSession>>
  PROVE  LockHolds' /\ PageHolds' /\ FlowsHold' /\ ReportsHold' /\ SessionHolds'
<1>1. ReportsHold' /\ SessionHolds'
  BY LinkHolds
<1>2. LockHolds'
  BY LockSame DEF PermissionIInv, InHand
<1>3. PageHolds'
  BY DEF PermissionIInv, PageHolds, Held
<1>4. FlowsHold'
  BY DEF PermissionIInv, FlowsHold, ToSet, Held
<1> QED
  BY <1>1, <1>2, <1>3, <1>4

LEMMA UserAnswersStep ==
  ASSUME NEW yes \in BOOLEAN, PermissionIInv, UserAnswers(yes)
  PROVE  PermissionIInv'
<1> DEFINE dialogue == Head(dialogues)
<1>1. /\ dialogues # <<>> /\ dialogues' = Tail(dialogues)
      /\ granted' = IF yes THEN granted \cup {dialogue.permission} ELSE granted
      /\ pending' = IF pending = dialogue.code THEN 0 ELSE pending
      /\ answers' = IF yes /\ pending = dialogue.code THEN answers \cup {dialogue.code} ELSE answers
      /\ UNCHANGED <<app, flows, inProgress, codes, pad, reads, asked, toDesktop, desk, shots, inSession, requests, moves,
                     withdrawn>>
  BY DEF UserAnswers, theLink
<1>2. PermissionTypeOK /\ dialogues \in Seq(Questions)
  BY DEF PermissionIInv, PermissionTypeOK
<1>3. dialogue \in Questions /\ Tail(dialogues) \in Seq(Questions)
  BY <1>1, <1>2, TailSet
<1>4. dialogue.permission \in Permission /\ dialogue.code \in 1 .. codes
  BY <1>3 DEF Questions
<1> HIDE DEF dialogue
<1>5. LockHolds' /\ PageHolds' /\ FlowsHold' /\ ReportsHold' /\ SessionHolds'
  BY <1>1, NothingTaken DEF Held
<1>6. PendingHolds'
  BY <1>1 DEF PermissionIInv, PendingHolds
<1>7. granted' \subseteq Permission /\ pending' \in 0 .. codes' /\ answers' \subseteq 1 .. codes' /\ codes' \in Nat
  <2>1. granted' \subseteq Permission
    BY <1>1, <1>2, <1>4 DEF PermissionTypeOK
  <2>2. codes' = codes /\ codes \in Nat /\ pending \in 0 .. codes /\ answers \subseteq 1 .. codes
    BY <1>1, <1>2 DEF PermissionTypeOK
  <2>3. pending' \in 0 .. codes' /\ codes' \in Nat
    BY <1>1, <2>2
  <2>4. answers' \subseteq 1 .. codes'
    BY <1>1, <1>4, <2>2
  <2> QED
    BY <2>1, <2>3, <2>4
<1>8. dialogues' \in Seq(Questions')
  BY <1>1, <1>3 DEF Questions
<1>9. PermissionTypeOK'
  BY <1>1, <1>2, <1>7, <1>8 DEF PermissionTypeOK, Coroutines, Messages, Permission
<1> QED
  BY <1>5, <1>6, <1>9 DEF PermissionIInv

LEMMA SystemCancelsStep ==
  ASSUME PermissionIInv, SystemCancels
  PROVE  PermissionIInv'
<1>1. /\ Len(dialogues) > 1 /\ dialogues' = RemoveAt(dialogues, 2)
      /\ pending' = IF pending = dialogues[2].code THEN 0 ELSE pending
      /\ UNCHANGED <<granted, withdrawn, app, flows, inProgress, answers, codes, pad, reads, asked, toDesktop, desk, shots, inSession, requests,
                     moves>>
  BY DEF SystemCancels, theLink
<1>2. PermissionTypeOK /\ dialogues \in Seq(Questions)
  BY DEF PermissionIInv, PermissionTypeOK
<1>3. RemoveAt(dialogues, 2) \in Seq(Questions)
  <2>1. Len(dialogues) \in Nat /\ \A i \in 1 .. Len(dialogues) : dialogues[i] \in Questions
    BY <1>2, LenProperties
  <2>2. SubSeq(dialogues, 1, 2 - 1) \in Seq(Questions)
    BY <1>1, <2>1, SubSeqProperties
  <2>3. SubSeq(dialogues, 2 + 1, Len(dialogues)) \in Seq(Questions)
    BY <1>1, <2>1, SubSeqProperties
  <2> QED
    BY <2>2, <2>3, ConcatProperties DEF RemoveAt
<1>4. LockHolds' /\ PageHolds' /\ FlowsHold' /\ ReportsHold' /\ SessionHolds'
  BY <1>1, NothingTaken DEF Held
<1>5. PendingHolds'
  BY <1>1 DEF PermissionIInv, PendingHolds
<1>6. pending' \in 0 .. codes' /\ codes' \in Nat
  BY <1>1, <1>2 DEF PermissionTypeOK
<1>7. dialogues' \in Seq(Questions')
  BY <1>1, <1>3 DEF Questions
<1>8. PermissionTypeOK'
  BY <1>1, <1>2, <1>6, <1>7 DEF PermissionTypeOK, Coroutines, Messages, Permission
<1> QED
  BY <1>4, <1>5, <1>8 DEF PermissionIInv

LEMMA AppStep ==
  ASSUME PermissionBounds, PermissionIInv, AppLeaves \/ (\E p \in Permission : UserGrants(p) \/ UserSwitchesOff(p)) \/ Shot
  PROVE  PermissionIInv'
<1>1. /\ UNCHANGED <<flows, inProgress, pad, reads, toDesktop, desk, inSession, dialogues, pending, answers, codes, requests>>
      /\ Held \subseteq Held'
  BY DEF AppLeaves, UserGrants, UserSwitchesOff, Shot, theLink, theFlow, Held
<1>2. LockHolds' /\ PageHolds' /\ FlowsHold' /\ ReportsHold' /\ SessionHolds'
  BY <1>1, NothingTaken DEF Held
<1>3. PendingHolds'
  BY <1>1 DEF PermissionIInv, PendingHolds
<1>4. PermissionTypeOK
  BY DEF PermissionIInv
<1>5. granted' \subseteq Permission /\ withdrawn' \subseteq Settings /\ app' \in {"active", "background"}
  BY <1>4 DEF AppLeaves, UserGrants, UserSwitchesOff, Shot, theLink, PermissionTypeOK
<1>6. asked' \in Seq(Types \cup {"sync"}) /\ shots' \in Seq(Nat)
  <2>1. CASE Shot
    <3>1. shots # <<>> /\ shots' = Tail(shots) /\ (asked' = asked \/ asked' = Append(asked, "sync"))
      BY <2>1 DEF Shot
    <3>2. asked \in Seq(Types \cup {"sync"}) /\ shots \in Seq(Nat)
      BY <1>4 DEF PermissionTypeOK
    <3>3. Append(asked, "sync") \in Seq(Types \cup {"sync"}) /\ Tail(shots) \in Seq(Nat)
      BY <3>1, <3>2, AppendProperties, TailSet
    <3> QED
      BY <3>1, <3>2, <3>3
  <2>2. CASE asked' = asked /\ shots' = shots
    BY <1>4, <2>2 DEF PermissionTypeOK
  <2> QED
    BY <2>1, <2>2 DEF AppLeaves, UserGrants, UserSwitchesOff, theLink
<1>7. moves' \in 0 .. MaxMoves
  <2>1. CASE moves' = moves
    BY <1>4, <2>1 DEF PermissionTypeOK
  <2>2. CASE moves < MaxMoves /\ moves' = moves + 1
    BY <1>4, <2>2 DEF PermissionTypeOK, PermissionBounds
  <2> QED
    BY <2>1, <2>2 DEF AppLeaves, UserGrants, UserSwitchesOff, Shot, theLink
<1>8. PermissionTypeOK'
  BY <1>1, <1>4, <1>5, <1>6, <1>7 DEF PermissionTypeOK, Coroutines, Messages, Permission, Questions
<1> QED
  BY <1>2, <1>3, <1>8 DEF PermissionIInv

LEMMA IdleFacts ==
  NoFlow \in Coroutines /\ NoFlow.at = "idle" /\ NoFlow.good
  BY EmptySeq DEF NoFlow, Coroutines, Places

LEMMA BegunFacts ==
  ASSUME NEW todo \in Seq(Permission), NEW type \in Types \cup {"none"}
  PROVE  /\ Begun(type, todo) \in Coroutines /\ Begun(type, todo).at = "waits" /\ Begun(type, todo).todo = todo
         /\ Begun(type, todo).type = type /\ Begun(type, todo).good
  BY DEF Begun, Coroutines, Places

(* A step of the page's own flow leaves the requests of the desktop alone. *)
LEMMA PageFlowMoves ==
  ASSUME PermissionIInv, UNCHANGED <<granted, withdrawn>>, \A f \in Flows \ {"ui"} : flows'[f] = flows[f],
         flows'["ui"].at \in Wanting => flows'["ui"].todo # <<>>
  PROVE  FlowsHold'
<1>1. \A f \in Flows : flows'[f].at \in Wanting => flows'[f].todo # <<>>
  BY DEF PermissionIInv, FlowsHold, Held
<1>2. ASSUME NEW f \in Flows \ {"ui"}
      PROVE  /\ flows'[f].at \notin {"blocked", "queued"}
             /\ flows'[f].at # "idle" =>
                  /\ flows'[f].type \in Types
                  /\ flows'[f].good => ToSet(Needs[flows'[f].type]) \subseteq Held \cup ToSet(flows'[f].todo)
             /\ flows'[f].at = "reports" /\ flows'[f].good => flows'[f].todo = <<>>
  BY DEF PermissionIInv, FlowsHold, Held
<1> QED
  BY <1>1, <1>2 DEF FlowsHold, ToSet, Held

(* The page's request begins; the flow it begins is in nobody's hand yet. *)
LEMMA RunStep ==
  ASSUME NEW todo \in Seq(Permission) \ {<<>>}, PermissionBounds, PermissionIInv, RunPermissionRequest(todo)
  PROVE  PermissionIInv'
<1> DEFINE begun == Begun("none", todo)
<1>1. /\ ~pad.busy /\ pad' = [pad EXCEPT !.busy = TRUE] /\ requests < MaxAsks /\ requests' = requests + 1
      /\ flows' = [flows EXCEPT !["ui"] = begun]
      /\ UNCHANGED <<granted, withdrawn, app, inProgress, reads, dialogues, pending, answers, codes, asked, toDesktop, desk, shots, inSession,
                     moves>>
  BY DEF RunPermissionRequest, theFlow, theLink
<1>2. /\ PermissionTypeOK /\ "ui" \in Flows /\ flows \in [Flows -> Coroutines] /\ flows["ui"].at = "idle"
      /\ pad \in [busy : BOOLEAN, shown : SUBSET Permission]
  BY <1>1 DEF PermissionIInv, PermissionTypeOK, PermissionBounds, PageHolds, Held
<1>3. begun \in Coroutines /\ begun.at = "waits" /\ begun.todo = todo
  BY BegunFacts
<1> HIDE DEF begun
<1>4. flows' \in [Flows -> Coroutines] /\ flows'["ui"] = begun /\ \A f \in Flows \ {"ui"} : flows'[f] = flows[f]
  BY <1>1, <1>2, <1>3
<1>5. LockHolds'
  <2>1. \A f \in Flows : InHand(f)' = InHand(f)
    BY <1>2, <1>3, <1>4 DEF InHand, Holding
  <2> QED
    BY <1>1, <2>1, LockSame DEF PermissionIInv
<1>6. PendingHolds'
  BY <1>1, <1>2, <1>3, <1>4 DEF PermissionIInv, PendingHolds
<1>7. PageHolds'
  BY <1>1, <1>2, <1>3, <1>4 DEF PermissionIInv, PageHolds, Held
<1>8. FlowsHold'
  BY <1>1, <1>3, <1>4, PageFlowMoves
<1>9. ReportsHold' /\ SessionHolds'
  BY <1>1, LinkHolds DEF Held
<1>10. PermissionTypeOK'
  <2>1. pad' \in [busy : BOOLEAN, shown : SUBSET Permission]
    BY <1>1, <1>2
  <2>2. requests' \in 0 .. MaxAsks
    BY <1>1, <1>2 DEF PermissionTypeOK, PermissionBounds
  <2> QED
    BY <1>1, <1>2, <1>4, <2>1, <2>2 DEF PermissionTypeOK, Coroutines, Messages, Permission, Questions
<1> QED
  BY <1>5, <1>6, <1>7, <1>8, <1>9, <1>10 DEF PermissionIInv

LEMMA StatusFacts ==
  Status \subseteq Types /\ Still \subseteq Types /\ Status \subseteq Still
  BY DEF Status, Still, StatusOf, Held

LEMMA PageReadsStep ==
  ASSUME PermissionBounds, PermissionIInv, ReadsAll
  PROVE  PermissionIInv'
<1>1. /\ flows["ui"].at = "reports" /\ flows' = [flows EXCEPT !["ui"].at = "queued", !["ui"].seen = granted]
      /\ UNCHANGED <<granted, withdrawn, app, inProgress, dialogues, pending, answers, codes, pad, reads, requests, asked, toDesktop, desk, shots,
                     inSession, moves>>
  BY DEF ReadsAll, theFlow, theLink
<1>2. /\ PermissionTypeOK /\ "ui" \in Flows /\ flows \in [Flows -> Coroutines] /\ flows["ui"] \in Coroutines
      /\ granted \in SUBSET Permission
  BY DEF PermissionIInv, PermissionTypeOK, PermissionBounds
<1>3. flows'["ui"] = [at |-> "queued", todo |-> flows["ui"].todo, type |-> flows["ui"].type, good |-> flows["ui"].good,
                      code |-> flows["ui"].code, seen |-> granted]
  BY <1>1, <1>2 DEF Coroutines
<1>4. flows'["ui"] \in Coroutines
  BY <1>2, <1>3 DEF Coroutines, Places
<1>5. flows' \in [Flows -> Coroutines] /\ \A f \in Flows \ {"ui"} : flows'[f] = flows[f]
  BY <1>1, <1>2, <1>4
<1>6. LockHolds'
  <2>1. \A f \in Flows : InHand(f)' = InHand(f)
    BY <1>1, <1>2, <1>3, <1>5 DEF InHand, Holding
  <2> QED
    BY <1>1, <2>1, LockSame DEF PermissionIInv
<1>7. PendingHolds'
  BY <1>1, <1>2, <1>5 DEF PermissionIInv, PendingHolds
<1>8. PageHolds'
  BY <1>1, <1>2, <1>3, <1>5 DEF PermissionIInv, PageHolds, Held
<1>9. FlowsHold'
  BY <1>1, <1>3, <1>5, PageFlowMoves DEF Wanting, Holding
<1>10. ReportsHold' /\ SessionHolds'
  BY <1>1, LinkHolds DEF Held
<1>11. PermissionTypeOK'
  BY <1>1, <1>2, <1>5 DEF PermissionTypeOK, Coroutines, Messages, Permission, Questions
<1> QED
  BY <1>6, <1>7, <1>8, <1>9, <1>10, <1>11 DEF PermissionIInv

(* A snapshot that is read now is true, and those read before stay so. *)
LEMMA MaybeRead ==
  ASSUME PermissionIInv, UNCHANGED <<granted, withdrawn, toDesktop>>, reads' = reads \/ reads' = Append(reads, Status)
  PROVE  reads' \in Seq(SUBSET Types) /\ ReportsHold'
<1>1. Still' = Still
  BY DEF Still, StatusOf, Held, ToSet
<1>2. reads \in Seq(SUBSET Types) /\ \A i \in DOMAIN reads : reads[i] \subseteq Still
  BY DEF PermissionIInv, PermissionTypeOK, ReportsHold
<1>3. /\ Append(reads, Status) \in Seq(SUBSET Types)
      /\ \A i \in DOMAIN Append(reads, Status) :
           Append(reads, Status)[i] = Status \/ (i \in DOMAIN reads /\ Append(reads, Status)[i] = reads[i])
  BY <1>2, StatusFacts, EachAppended
<1>4. \A i \in DOMAIN reads' : reads'[i] \subseteq Still
  BY <1>2, <1>3, StatusFacts
<1> QED
  BY <1>1, <1>2, <1>3, <1>4 DEF PermissionIInv, ReportsHold

LEMMA PageShowsStep ==
  ASSUME PermissionBounds, PermissionIInv, ShowsAll
  PROVE  PermissionIInv'
<1>1. /\ flows["ui"].at = "queued" /\ flows' = [flows EXCEPT !["ui"] = NoFlow]
      /\ pad' = [busy |-> FALSE, shown |-> flows["ui"].seen]
      /\ reads' = reads \/ reads' = Append(reads, Status)
      /\ UNCHANGED <<granted, withdrawn, app, inProgress, dialogues, pending, answers, codes, requests, asked, toDesktop, desk, shots,
                     inSession, moves>>
  BY DEF ShowsAll, theFlow, theLink
<1>2. /\ PermissionTypeOK /\ "ui" \in Flows /\ flows \in [Flows -> Coroutines] /\ flows["ui"] \in Coroutines
      /\ reads \in Seq(SUBSET Types)
  BY DEF PermissionIInv, PermissionTypeOK, PermissionBounds
<1>3. flows'["ui"] = NoFlow /\ \A f \in Flows \ {"ui"} : flows'[f] = flows[f]
  BY <1>1, <1>2
<1>4. flows' \in [Flows -> Coroutines]
  BY <1>1, <1>2, IdleFacts
<1>5. LockHolds'
  <2>1. \A f \in Flows : InHand(f)' = InHand(f)
    BY <1>1, <1>3, IdleFacts DEF InHand, Holding
  <2> QED
    BY <1>1, <2>1, LockSame DEF PermissionIInv
<1>6. PendingHolds'
  BY <1>1, <1>3 DEF PermissionIInv, PendingHolds
<1>7. PageHolds'
  BY <1>1, <1>3, IdleFacts DEF PermissionIInv, PageHolds, Held
<1>8. FlowsHold'
  BY <1>1, <1>3, IdleFacts, PageFlowMoves DEF Wanting, Holding
<1>9. SessionHolds'
  BY <1>1 DEF PermissionIInv, SessionHolds, Event, Still, StatusOf, Held, ToSet
<1>10. reads' \in Seq(SUBSET Types) /\ ReportsHold'
  BY <1>1, MaybeRead
<1>11. PermissionTypeOK'
  <2>1. pad' \in [busy : BOOLEAN, shown : SUBSET Permission]
    BY <1>1, <1>2 DEF Coroutines
  <2> QED
    BY <1>1, <1>2, <1>4, <1>10, <2>1 DEF PermissionTypeOK, Coroutines, Messages, Permission, Questions
<1> QED
  BY <1>5, <1>6, <1>7, <1>8, <1>9, <1>10, <1>11 DEF PermissionIInv

LEMMA AppReturnsStep ==
  ASSUME PermissionIInv, AppReturns
  PROVE  PermissionIInv'
<1>1. /\ app' = "active" /\ pad' = [pad EXCEPT !.shown = granted]
      /\ reads' = reads \/ reads' = Append(reads, Status)
      /\ UNCHANGED <<granted, withdrawn, flows, inProgress, dialogues, pending, answers, codes, requests, asked, toDesktop,
                     desk, shots, inSession, moves>>
  BY DEF AppReturns, theFlow, theLink
<1>2. PermissionTypeOK /\ pad \in [busy : BOOLEAN, shown : SUBSET Permission] /\ granted \in SUBSET Permission
  BY DEF PermissionIInv, PermissionTypeOK
<1>3. pad' \in [busy : BOOLEAN, shown : SUBSET Permission] /\ pad'.busy = pad.busy /\ pad'.shown = granted
  BY <1>1, <1>2
<1>4. reads' \in Seq(SUBSET Types) /\ ReportsHold'
  BY <1>1, MaybeRead
<1>5. PermissionTypeOK'
  BY <1>1, <1>2, <1>3, <1>4 DEF PermissionTypeOK, Coroutines, Messages, Permission, Questions
<1>6. PageHolds' /\ LockHolds' /\ PendingHolds' /\ FlowsHold'
  <2>1. PageHolds'
    BY <1>1, <1>3 DEF PermissionIInv, PageHolds, Held
  <2>2. LockHolds'
    BY <1>1, LockSame DEF PermissionIInv, InHand
  <2> QED
    BY <1>1, <2>1, <2>2 DEF PermissionIInv, PendingHolds, FlowsHold, ToSet, Held
<1>7. SessionHolds'
  BY <1>1 DEF PermissionIInv, SessionHolds, Event, Still, StatusOf, Held, ToSet
<1> QED
  BY <1>4, <1>5, <1>6, <1>7 DEF PermissionIInv

-------------------------------------------------------------------------------
(* What is on its way to the desktop. *)

LEMMA EventFacts ==
  ASSUME NEW k \in {"connected", "disconnected"}
  PROVE  Event(k) \in Messages /\ Event(k).event /\ Event(k).kind = k
  BY DEF Event, Messages

LEMMA PairOf ==
  ASSUME NEW a, NEW b
  PROVE  <<a>> \o <<b>> = <<a, b>>
<1> DEFINE S == {a, b}
<1>1. <<a>> \in Seq(S) /\ <<b>> \in Seq(S) /\ <<a, b>> \in Seq(S) /\ Len(<<a>>) = 1 /\ Len(<<b>>) = 1
  OBVIOUS
<1>2. /\ <<a>> \o <<b>> \in Seq(S) /\ Len(<<a>> \o <<b>>) = 2
      /\ \A i \in 1 .. 2 : (<<a>> \o <<b>>)[i] = IF i <= 1 THEN <<a>>[i] ELSE <<b>>[i - 1]
  BY <1>1, ConcatProperties
<1>3. \A i \in 1 .. 2 : (<<a>> \o <<b>>)[i] = <<a, b>>[i]
  BY <1>2
<1> QED
  BY <1>1, <1>2, <1>3, SeqEqual

LEMMA ReportFacts ==
  ASSUME NEW t \in Types, NEW good \in BOOLEAN
  PROVE  /\ Report(t, good) \in Messages /\ ~Report(t, good).event
         /\ Report(t, good).type = t /\ Report(t, good).good = good
  BY DEF Report, Messages

LEMMA MessageFacts ==
  ASSUME NEW m \in Messages
  PROVE  /\ m.event \in BOOLEAN /\ m.kind \in {"connected", "disconnected", "status"}
         /\ m.event <=> m.kind # "status"
         /\ m.event => m = Event(m.kind)
         /\ ~m.event => m.type \in Types /\ m.good \in BOOLEAN
  BY DEF Event, Messages

(* Reports are added only while the session is up, and behind its event. *)
LEMMA ReportAdded ==
  ASSUME PermissionIInv, inSession, UNCHANGED <<granted, withdrawn, desk, inSession>>, NEW m \in Messages, ~m.event,
         toDesktop' = Append(toDesktop, m), m.good => m.type \in Still
  PROVE  /\ toDesktop' \in Seq(Messages) /\ SessionHolds'
         /\ \A i \in DOMAIN toDesktop' : ~toDesktop'[i].event /\ toDesktop'[i].good => toDesktop'[i].type \in Still'
<1>1. toDesktop \in Seq(Messages)
  BY DEF PermissionIInv, PermissionTypeOK
<1>2. /\ toDesktop' \in Seq(Messages)
      /\ \A i \in DOMAIN toDesktop' : toDesktop'[i] = m \/ (i \in DOMAIN toDesktop /\ toDesktop'[i] = toDesktop[i])
      /\ toDesktop # <<>> => toDesktop' # <<>> /\ Head(toDesktop') = Head(toDesktop)
  BY <1>1, EachAppended
<1>3. Still' = Still
  BY DEF Still, StatusOf, Held, ToSet
<1>4. SessionHolds'
  BY <1>2, <1>3 DEF PermissionIInv, SessionHolds, Event
<1> QED
  BY <1>2, <1>3, <1>4 DEF PermissionIInv, ReportsHold

LEMMA ReportsAdded ==
  ASSUME PermissionIInv, inSession, UNCHANGED <<granted, withdrawn, desk, inSession>>, NEW more \in Seq(Messages),
         toDesktop' = toDesktop \o more, \A j \in DOMAIN more : ~more[j].event /\ (more[j].good => more[j].type \in Still)
  PROVE  /\ toDesktop' \in Seq(Messages) /\ SessionHolds'
         /\ \A i \in DOMAIN toDesktop' : ~toDesktop'[i].event /\ toDesktop'[i].good => toDesktop'[i].type \in Still'
<1>1. toDesktop \in Seq(Messages)
  BY DEF PermissionIInv, PermissionTypeOK
<1>2. /\ toDesktop' \in Seq(Messages)
      /\ \A i \in DOMAIN toDesktop' : (i \in DOMAIN toDesktop /\ toDesktop'[i] = toDesktop[i]) \/ \E j \in DOMAIN more : toDesktop'[i] = more[j]
      /\ toDesktop # <<>> => toDesktop' # <<>> /\ Head(toDesktop') = Head(toDesktop)
  BY <1>1, EachConcatenated
<1>3. Still' = Still
  BY DEF Still, StatusOf, Held, ToSet
<1>4. SessionHolds'
  BY <1>2, <1>3 DEF PermissionIInv, SessionHolds, Event
<1> QED
  BY <1>2, <1>3, <1>4 DEF PermissionIInv, ReportsHold

LEMMA RevokesStep ==
  ASSUME NEW p \in Permission, PermissionBounds, PermissionIInv, UserRevokes(p)
  PROVE  PermissionIInv'
<1> DEFINE gone == Event("disconnected")
<1>1. /\ granted' = granted \ {p} /\ withdrawn' = {} /\ moves < MaxMoves /\ moves' = moves + 1
      /\ flows' = [f \in Flows |-> NoFlow] /\ inProgress' = [q \in DOMAIN inProgress |-> FALSE]
      /\ dialogues' = <<>> /\ pending' = 0 /\ answers' = {} /\ codes' = 0 /\ app' = "background"
      /\ pad' = [busy |-> FALSE, shown |-> granted \ {p}] /\ reads' = <<>> /\ asked' = <<>> /\ inSession' = FALSE
      /\ toDesktop' = IF inSession THEN Remaining \o <<gone>> ELSE toDesktop
      /\ UNCHANGED <<desk, shots, requests>>
  BY DEF UserRevokes, Event
<1>2. PermissionTypeOK /\ toDesktop \in Seq(Messages) /\ SessionHolds
  BY DEF PermissionIInv, PermissionTypeOK
<1>3. gone \in Messages /\ gone.event /\ Event("connected").event
  BY EventFacts
<1> HIDE DEF gone
<1>4. flows' \in [Flows -> Coroutines] /\ \A f \in Flows : flows'[f].at = "idle"
  BY <1>1, IdleFacts
<1>5. inProgress' \in [{"ui", "backend"} -> BOOLEAN] /\ \A q \in {"ui", "backend"} : ~inProgress'[q]
  BY <1>1, <1>2 DEF PermissionTypeOK
<1>6. LockHolds'
  BY <1>4, <1>5 DEF LockHolds, InHand, Holding
<1>7. PendingHolds'
  BY <1>1 DEF PendingHolds
<1>8. PageHolds'
  BY <1>1, <1>4 DEF PageHolds, PermissionBounds, Held
<1>9. FlowsHold'
  BY <1>4 DEF FlowsHold, Wanting, Holding, Held
<1>10. /\ toDesktop' = <<gone>> \/ toDesktop' = <<Event("connected"), gone>> \/ toDesktop' = <<>>
       /\ desk.connected <=> toDesktop' = <<gone>>
  <2>1. CASE inSession /\ desk.connected
    <3>1. toDesktop # <<>> => ~Head(toDesktop).event
      BY <1>2, <2>1, EachOfTail DEF SessionHolds
    <3>2. Remaining = <<>>
      BY <3>1 DEF Remaining
    <3> QED
      BY <1>1, <2>1, <3>2
  <2>2. CASE inSession /\ ~desk.connected
    <3>1. toDesktop # <<>> /\ Head(toDesktop) = Event("connected")
      BY <1>2, <2>2 DEF SessionHolds
    <3>2. Remaining = <<Event("connected")>>
      BY <1>3, <3>1 DEF Remaining
    <3>3. toDesktop' = <<Event("connected"), gone>> /\ toDesktop' # <<gone>>
      <4>1. \A a, b : <<a, b>> # <<b>>
        OBVIOUS
      <4>2. toDesktop' = <<Event("connected")>> \o <<gone>>
        BY <1>1, <2>2, <3>2
      <4>3. <<Event("connected")>> \o <<gone>> = <<Event("connected"), gone>>
        BY PairOf
      <4> QED
        BY <4>1, <4>2, <4>3
    <3> QED
      BY <2>2, <3>3
  <2>3. CASE ~inSession
    <3>1. toDesktop' = toDesktop
      BY <1>1, <2>3
    <3>2. \A a, b, c : <<a, b>> # <<c>> /\ <<>> # <<c>>
      OBVIOUS
    <3> QED
      BY <1>2, <2>3, <3>1, <3>2 DEF SessionHolds, gone
  <2> QED
    BY <2>1, <2>2, <2>3
<1>11. SessionHolds'
  <2>1. ~inSession' /\ desk' = desk
    BY <1>1
  <2>2. ~desk.connected => desk.shown = {}
    BY <1>2 DEF SessionHolds
  <2> QED
    BY <1>10, <2>1, <2>2 DEF SessionHolds, gone, Event
<1>12. toDesktop' \in Seq(Messages) /\ \A i \in DOMAIN toDesktop' : toDesktop'[i].event
  <2>1. CASE toDesktop' = <<gone>>
    BY <1>3, <2>1
  <2>2. CASE toDesktop' = <<Event("connected"), gone>>
    BY <1>3, <2>2, EventFacts
  <2>3. CASE toDesktop' = <<>>
    BY <2>3
  <2> QED
    BY <1>10, <2>1, <2>2, <2>3
<1>13. ReportsHold'
  BY <1>1, <1>12 DEF ReportsHold
<1>14. PermissionTypeOK'
  <2>1. /\ granted' \subseteq Permission /\ withdrawn' \subseteq Settings
        /\ pad' \in [busy : BOOLEAN, shown : SUBSET Permission]
    BY <1>1, <1>2 DEF PermissionTypeOK
  <2>2. moves' \in 0 .. MaxMoves
    BY <1>1, <1>2 DEF PermissionTypeOK, PermissionBounds
  <2>3. /\ dialogues' \in Seq(Questions') /\ codes' \in Nat /\ pending' \in 0 .. codes' /\ answers' \subseteq 1 .. codes'
        /\ reads' \in Seq(SUBSET Types) /\ asked' \in Seq(Types \cup {"sync"})
    BY <1>1
  <2> QED
    BY <1>1, <1>2, <1>4, <1>5, <1>12, <2>1, <2>2, <2>3 DEF PermissionTypeOK, Coroutines, Messages, Permission
<1> QED
  BY <1>6, <1>7, <1>8, <1>9, <1>11, <1>13, <1>14 DEF PermissionIInv

-------------------------------------------------------------------------------
(* The phone's reports. *)

LEMMA FlowsSame ==
  ASSUME PermissionIInv, UNCHANGED <<granted, withdrawn, flows, inProgress, pad, pending>>
  PROVE  LockHolds' /\ PendingHolds' /\ PageHolds' /\ FlowsHold'
<1>1. LockHolds'
  BY LockSame DEF PermissionIInv, InHand
<1>2. PendingHolds' /\ PageHolds'
  BY DEF PermissionIInv, PendingHolds, PageHolds, Held
<1>3. FlowsHold'
  BY DEF PermissionIInv, FlowsHold, ToSet, Held
<1> QED
  BY <1>1, <1>2, <1>3

LEMMA StatusRead ==
  ASSUME PermissionIInv, UNCHANGED <<granted, withdrawn>>, reads' = Append(reads, Status)
  PROVE  reads' \in Seq(SUBSET Types) /\ \A i \in DOMAIN reads' : reads'[i] \subseteq Still'
<1>1. reads \in Seq(SUBSET Types) /\ \A i \in DOMAIN reads : reads[i] \subseteq Still
  BY DEF PermissionIInv, PermissionTypeOK, ReportsHold
<1>2. /\ reads' \in Seq(SUBSET Types)
      /\ \A i \in DOMAIN reads' : reads'[i] = Status \/ (i \in DOMAIN reads /\ reads'[i] = reads[i])
  BY <1>1, StatusFacts, EachAppended
<1>3. Still' = Still
  BY DEF Still, StatusOf, Held, ToSet
<1> QED
  BY <1>1, <1>2, <1>3, StatusFacts

LEMMA SnapshotsStep ==
  ASSUME PermissionIInv, Snapshots
  PROVE  PermissionIInv'
<1>1. /\ reads' = Append(reads, Status)
      /\ UNCHANGED <<granted, withdrawn, app, flows, inProgress, dialogues, pending, answers, codes, pad, requests, asked, toDesktop, desk, shots,
                     inSession, moves>>
  BY DEF Snapshots, theFlow, theLink
<1>2. LockHolds' /\ PendingHolds' /\ PageHolds' /\ FlowsHold'
  BY <1>1, FlowsSame
<1>3. reads' \in Seq(SUBSET Types) /\ \A i \in DOMAIN reads' : reads'[i] \subseteq Still'
  BY <1>1, StatusRead
<1>4. Still' = Still
  BY <1>1 DEF Still, StatusOf, Held, ToSet
<1>5. ReportsHold' /\ SessionHolds'
  BY <1>1, <1>3, <1>4 DEF PermissionIInv, ReportsHold, SessionHolds, Event
<1>6. PermissionTypeOK'
  BY <1>1, <1>3 DEF PermissionIInv, PermissionTypeOK, Coroutines, Messages, Permission, Questions
<1> QED
  BY <1>2, <1>5, <1>6 DEF PermissionIInv

LEMMA SendsSnapshotStep ==
  ASSUME PermissionBounds, PermissionIInv, SendsSnapshot
  PROVE  PermissionIInv'
<1> DEFINE more == [i \in 1 .. Cardinality(Types) |->
                      LET t == SetToSeq(Types)[i] IN Report(t, t \in Head(reads))]
<1>1. /\ reads # <<>> /\ reads' = Tail(reads) /\ toDesktop' = IF inSession THEN toDesktop \o more ELSE toDesktop
      /\ UNCHANGED <<granted, withdrawn, app, flows, inProgress, dialogues, pending, answers, codes, pad, requests, asked, desk, shots,
                     inSession, moves>>
  BY DEF SendsSnapshot, theFlow
<1>2. PermissionTypeOK /\ reads \in Seq(SUBSET Types) /\ toDesktop \in Seq(Messages)
  BY DEF PermissionIInv, PermissionTypeOK
<1>3. /\ Tail(reads) \in Seq(SUBSET Types) /\ Head(reads) = reads[1] /\ 1 \in DOMAIN reads
      /\ \A i \in DOMAIN Tail(reads) : i + 1 \in DOMAIN reads /\ i + 1 > 1 /\ Tail(reads)[i] = reads[i + 1]
  BY <1>1, <1>2, EachOfTail
<1>4. more \in Seq(Messages) /\ \A j \in DOMAIN more : ~more[j].event /\ (more[j].good => more[j].type \in Still)
  <2>1. Head(reads) \subseteq Still
    BY <1>3 DEF PermissionIInv, ReportsHold
  <2>2. Cardinality(Types) \in Nat /\ SetToSeq(Types) \in [1 .. Cardinality(Types) -> Types]
    BY ListOfSet DEF PermissionBounds
  <2>3. \A j \in 1 .. Cardinality(Types) : more[j] = Report(SetToSeq(Types)[j], SetToSeq(Types)[j] \in Head(reads))
    OBVIOUS
  <2> HIDE DEF more
  <2>4. ASSUME NEW j \in 1 .. Cardinality(Types)
        PROVE  more[j] \in Messages /\ ~more[j].event /\ (more[j].good => more[j].type \in Still)
    <3> DEFINE t == SetToSeq(Types)[j]
    <3>1. t \in Types
      BY <2>2
    <3>2. more[j] = Report(t, t \in Head(reads))
      BY <2>3
    <3> HIDE DEF t
    <3>3. CASE t \in Head(reads)
      <4>1. (t \in Head(reads)) = TRUE
        BY Zenon, <3>3
      <4>2. more[j] = Report(t, TRUE)
        BY Zenon, <3>2, <4>1
      <4>3. t \in Still
        BY Zenon, <2>1, <3>3
      <4>4. Report(t, TRUE) \in Messages /\ ~Report(t, TRUE).event /\ Report(t, TRUE).type = t
        BY <3>1, ReportFacts
      <4> QED
        BY Zenon, <4>2, <4>3, <4>4
    <3>4. CASE t \notin Head(reads)
      <4>1. (t \in Head(reads)) = FALSE
        BY <3>4
      <4>2. more[j] = Report(t, FALSE)
        BY Zenon, <3>2, <4>1
      <4> QED
        BY <3>1, <4>2, ReportFacts
    <3> QED
      BY <3>3, <3>4
  <2>5. DOMAIN more = 1 .. Cardinality(Types) /\ more = [j \in 1 .. Cardinality(Types) |-> more[j]]
    BY DEF more
  <2>6. more \in [1 .. Cardinality(Types) -> Messages]
    BY <2>4, <2>5
  <2>7. more \in Seq(Messages)
    BY <2>2, <2>6, SeqDef
  <2> QED
    BY <2>4, <2>5, <2>7
<1> HIDE DEF more
<1>5. LockHolds' /\ PendingHolds' /\ PageHolds' /\ FlowsHold'
  BY <1>1, FlowsSame
<1>6. Still' = Still
  BY <1>1 DEF Still, StatusOf, Held, ToSet
<1>7. /\ toDesktop' \in Seq(Messages) /\ SessionHolds'
      /\ \A i \in DOMAIN toDesktop' : ~toDesktop'[i].event /\ toDesktop'[i].good => toDesktop'[i].type \in Still'
  <2>1. CASE inSession
    <3>1. toDesktop' = toDesktop \o more
      BY <1>1, <2>1
    <3> QED
      BY <1>1, <1>4, <2>1, <3>1, ReportsAdded
  <2>2. CASE ~inSession
    BY <1>1, <1>2, <1>6, <2>2 DEF PermissionIInv, SessionHolds, ReportsHold, Event
  <2> QED
    BY <2>1, <2>2
<1>8. ReportsHold'
  <2>1. \A i \in DOMAIN reads' : reads'[i] \subseteq Still'
    BY <1>1, <1>3, <1>6 DEF PermissionIInv, ReportsHold
  <2> QED
    BY <1>7, <2>1 DEF ReportsHold
<1>9. PermissionTypeOK'
  BY <1>1, <1>2, <1>3, <1>7 DEF PermissionTypeOK, Coroutines, Messages, Permission, Questions
<1> QED
  BY <1>5, <1>7, <1>8, <1>9 DEF PermissionIInv

LEMMA RequestedStep ==
  ASSUME PermissionBounds, PermissionIInv, Requested
  PROVE  PermissionIInv'
<1> DEFINE t == Head(asked)
<1>1. /\ asked # <<>> /\ asked' = Tail(asked)
      /\ UNCHANGED <<granted, withdrawn, app, inProgress, dialogues, pending, answers, codes, pad, requests, toDesktop, desk, shots, inSession, moves>>
      /\ \/ reads' = Append(reads, Status) /\ flows' = flows
         \/ /\ t # "sync" /\ reads' = reads
            /\ \E f \in Flows \ {"ui"} : flows[f].at = "idle" /\ flows' = [flows EXCEPT ![f] = Begun(t, Needs[t])]
  BY DEF Requested, theFlow
<1>2. /\ PermissionTypeOK /\ asked \in Seq(Types \cup {"sync"}) /\ flows \in [Flows -> Coroutines]
      /\ reads \in Seq(SUBSET Types)
  BY DEF PermissionIInv, PermissionTypeOK
<1>3. t \in Types \cup {"sync"} /\ Tail(asked) \in Seq(Types \cup {"sync"})
  BY <1>1, <1>2, TailSet
<1> HIDE DEF t
<1>4. Still' = Still
  BY <1>1 DEF Still, StatusOf, Held, ToSet
<1>5. SessionHolds'
  BY <1>1, <1>4 DEF PermissionIInv, SessionHolds, Event
<1>6. CASE reads' = Append(reads, Status) /\ flows' = flows
  <2>1. LockHolds' /\ PendingHolds' /\ PageHolds' /\ FlowsHold'
    BY <1>1, <1>6, FlowsSame
  <2>2. reads' \in Seq(SUBSET Types) /\ \A i \in DOMAIN reads' : reads'[i] \subseteq Still'
    BY <1>1, <1>6, StatusRead
  <2>3. ReportsHold'
    BY <1>1, <1>4, <2>2 DEF PermissionIInv, ReportsHold
  <2>4. PermissionTypeOK'
    BY <1>1, <1>2, <1>3, <1>6, <2>2 DEF PermissionTypeOK, Coroutines, Messages, Permission, Questions
  <2> QED
    BY <1>5, <2>1, <2>3, <2>4 DEF PermissionIInv
<1>7. CASE /\ t # "sync" /\ reads' = reads
           /\ \E f \in Flows \ {"ui"} : flows[f].at = "idle" /\ flows' = [flows EXCEPT ![f] = Begun(t, Needs[t])]
  <2>1. PICK f \in Flows \ {"ui"} : flows[f].at = "idle" /\ flows' = [flows EXCEPT ![f] = Begun(t, Needs[t])]
    BY <1>7
  <2>2. t \in Types /\ Needs[t] \in Seq(Permission) /\ Needs[t] # <<>>
    BY <1>3, <1>7 DEF PermissionBounds
  <2>3. flows'[f] = Begun(t, Needs[t]) /\ \A g \in Flows \ {f} : flows'[g] = flows[g]
    BY <1>2, <2>1
  <2>4. /\ flows'[f] \in Coroutines /\ flows'[f].at = "waits" /\ flows'[f].todo = Needs[t]
        /\ flows'[f].type = t /\ flows'[f].good
    BY <2>2, <2>3, BegunFacts
  <2>5. flows' \in [Flows -> Coroutines]
    BY <1>2, <2>1, <2>3, <2>4
  <2>6. LockHolds'
    <3>1. \A g \in Flows : InHand(g)' = InHand(g)
      BY <2>1, <2>3, <2>4 DEF InHand, Holding
    <3> QED
      BY <1>1, <3>1, LockSame DEF PermissionIInv
  <2>7. PendingHolds'
    BY <1>1, <2>1, <2>3 DEF PermissionIInv, PendingHolds
  <2>8. PageHolds'
    <3>1. flows'["ui"] = flows["ui"]
      BY <2>1, <2>3 DEF PermissionBounds
    <3> QED
      BY <1>1, <3>1 DEF PermissionIInv, PageHolds, Held
  <2>9. FlowsHold'
    <3>1. \A g \in Flows : flows'[g].at \in Wanting => flows'[g].todo # <<>>
      BY <2>2, <2>3, <2>4 DEF PermissionIInv, FlowsHold, Held
    <3>2. ASSUME NEW g \in Flows \ {"ui"}
          PROVE  /\ flows'[g].at \notin {"blocked", "queued"}
                 /\ flows'[g].at # "idle" =>
                      /\ flows'[g].type \in Types
                      /\ flows'[g].good => ToSet(Needs[flows'[g].type]) \subseteq Held \cup ToSet(flows'[g].todo)
                 /\ flows'[g].at = "reports" /\ flows'[g].good => flows'[g].todo = <<>>
      <4>1. CASE g = f
        BY <2>2, <2>4, <4>1
      <4>2. CASE g # f
        BY <2>3, <4>2 DEF PermissionIInv, FlowsHold, Held
      <4> QED
        BY <4>1, <4>2
    <3> QED
      BY <1>1, <3>1, <3>2 DEF FlowsHold, ToSet, Held
  <2>10. ReportsHold'
    BY <1>1, <1>4, <1>7 DEF PermissionIInv, ReportsHold
  <2>11. PermissionTypeOK'
    BY <1>1, <1>2, <1>3, <1>7, <2>5 DEF PermissionTypeOK, Coroutines, Messages, Permission, Questions
  <2> QED
    BY <1>5, <2>6, <2>7, <2>8, <2>9, <2>10, <2>11 DEF PermissionIInv
<1> QED
  BY <1>1, <1>6, <1>7

LEMMA AnswersStep ==
  ASSUME NEW f \in Flows, PermissionBounds, PermissionIInv, Answers(f)
  PROVE  PermissionIInv'
<1> DEFINE m == Report(flows[f].type, flows[f].good)
<1>1. /\ f # "ui" /\ flows[f].at = "reports" /\ flows' = [flows EXCEPT ![f] = NoFlow]
      /\ toDesktop' = IF inSession THEN Append(toDesktop, m) ELSE toDesktop
      /\ UNCHANGED <<granted, withdrawn, app, inProgress, dialogues, pending, answers, codes, pad, reads, requests, asked, desk, shots,
                     inSession, moves>>
  BY DEF Answers, theFlow
<1>2. /\ PermissionTypeOK /\ flows \in [Flows -> Coroutines] /\ flows[f] \in Coroutines /\ toDesktop \in Seq(Messages)
  BY DEF PermissionIInv, PermissionTypeOK
<1>3. /\ flows[f].type \in Types /\ flows[f].good \in BOOLEAN
      /\ flows[f].good => flows[f].type \in Still
  <2>1. /\ flows[f].type \in Types /\ flows[f].good \in BOOLEAN
        /\ flows[f].good => flows[f].todo = <<>> /\ ToSet(Needs[flows[f].type]) \subseteq Held \cup ToSet(flows[f].todo)
    BY <1>1, <1>2 DEF PermissionIInv, FlowsHold, Coroutines, Held
  <2>2. ToSet(<<>>) = {}
    BY DEF ToSet
  <2>3. flows[f].good => ToSet(Needs[flows[f].type]) \subseteq Held
    BY <2>1, <2>2
  <2> QED
    BY <2>1, <2>3 DEF Still, StatusOf
<1>4. m \in Messages /\ ~m.event /\ m.type = flows[f].type /\ m.good = flows[f].good
  BY <1>3, ReportFacts
<1> HIDE DEF m
<1>5. flows'[f] = NoFlow /\ \A g \in Flows \ {f} : flows'[g] = flows[g]
  BY <1>1, <1>2
<1>6. flows' \in [Flows -> Coroutines]
  BY <1>1, <1>2, IdleFacts
<1>7. LockHolds'
  <2>1. \A g \in Flows : InHand(g)' = InHand(g)
    BY <1>1, <1>5, IdleFacts DEF InHand, Holding
  <2> QED
    BY <1>1, <2>1, LockSame DEF PermissionIInv
<1>8. PendingHolds'
  BY <1>1, <1>5 DEF PermissionIInv, PendingHolds
<1>9. PageHolds'
  <2>1. flows'["ui"] = flows["ui"]
    BY <1>1, <1>5 DEF PermissionBounds
  <2> QED
    BY <1>1, <2>1 DEF PermissionIInv, PageHolds, Held
<1>10. FlowsHold'
  <2>1. \A g \in Flows : flows'[g].at \in Wanting => flows'[g].todo # <<>>
    BY <1>5, IdleFacts DEF PermissionIInv, FlowsHold, Wanting, Holding, Held
  <2>2. ASSUME NEW g \in Flows \ {"ui"}
        PROVE  /\ flows'[g].at \notin {"blocked", "queued"}
               /\ flows'[g].at # "idle" =>
                    /\ flows'[g].type \in Types
                    /\ flows'[g].good => ToSet(Needs[flows'[g].type]) \subseteq Held \cup ToSet(flows'[g].todo)
               /\ flows'[g].at = "reports" /\ flows'[g].good => flows'[g].todo = <<>>
    <3>1. CASE g = f
      BY <1>5, <3>1, IdleFacts
    <3>2. CASE g # f
      BY <1>5, <3>2 DEF PermissionIInv, FlowsHold, Held
    <3> QED
      BY <3>1, <3>2
  <2> QED
    BY <1>1, <2>1, <2>2 DEF FlowsHold, ToSet, Held
<1>11. Still' = Still
  BY <1>1 DEF Still, StatusOf, Held, ToSet
<1>12. /\ toDesktop' \in Seq(Messages) /\ SessionHolds'
       /\ \A i \in DOMAIN toDesktop' : ~toDesktop'[i].event /\ toDesktop'[i].good => toDesktop'[i].type \in Still'
  <2>1. CASE inSession
    <3>1. toDesktop' = Append(toDesktop, m) /\ (m.good => m.type \in Still)
      BY <1>1, <1>3, <1>4, <2>1
    <3> QED
      BY <1>1, <1>4, <2>1, <3>1, ReportAdded
  <2>2. CASE ~inSession
    BY <1>1, <1>2, <1>11, <2>2 DEF PermissionIInv, SessionHolds, ReportsHold, Event
  <2> QED
    BY <2>1, <2>2
<1>13. ReportsHold'
  BY <1>1, <1>11, <1>12 DEF PermissionIInv, ReportsHold
<1>14. PermissionTypeOK'
  BY <1>1, <1>2, <1>6, <1>12 DEF PermissionTypeOK, Coroutines, Messages, Permission, Questions
<1> QED
  BY <1>7, <1>8, <1>9, <1>10, <1>12, <1>13, <1>14 DEF PermissionIInv

-------------------------------------------------------------------------------
(* The desktop. *)

LEMMA ShotsFacts ==
  ASSUME PermissionBounds, PermissionTypeOK
  PROVE  NewShots(desk) \in Seq(Nat)
<1>1. desk.generation + 1 \in Nat /\ shots \in Seq(Nat) /\ MaxShots \in Nat
  BY DEF PermissionTypeOK, PermissionBounds
<1>2. [i \in 1 .. MaxShots |-> desk.generation + 1] \in [1 .. MaxShots -> Nat]
  BY <1>1
<1>3. [i \in 1 .. MaxShots |-> desk.generation + 1] \in Seq(Nat)
  BY <1>1, <1>2, SeqDef
<1> QED
  BY <1>1, <1>3, ConcatProperties DEF NewShots

LEMMA HandlesStep ==
  ASSUME PermissionBounds, PermissionIInv, Handles
  PROVE  PermissionIInv'
<1> DEFINE e == Head(toDesktop)
<1>1. /\ toDesktop # <<>> /\ toDesktop' = Tail(toDesktop)
      /\ UNCHANGED <<granted, withdrawn, app, flows, inProgress, dialogues, pending, answers, codes, pad, reads, requests, asked, inSession,
                     moves>>
  BY DEF Handles, theFlow
<1>2. /\ PermissionTypeOK /\ toDesktop \in Seq(Messages) /\ SessionHolds /\ shots \in Seq(Nat)
      /\ desk \in [connected : BOOLEAN, shown : SUBSET Types, generation : Nat]
  BY DEF PermissionIInv, PermissionTypeOK
<1>3. /\ e \in Messages /\ Tail(toDesktop) \in Seq(Messages) /\ e = toDesktop[1] /\ 1 \in DOMAIN toDesktop
      /\ \A i \in DOMAIN Tail(toDesktop) : i + 1 \in DOMAIN toDesktop /\ i + 1 > 1 /\ Tail(toDesktop)[i] = toDesktop[i + 1]
  BY <1>1, <1>2, EachOfTail, TailSet
<1>4. /\ e.kind \in {"connected", "disconnected", "status"} /\ (e.event <=> e.kind # "status")
      /\ e.event \in BOOLEAN /\ (e.event => e = Event(e.kind)) /\ (~e.event => e.type \in Types /\ e.good \in BOOLEAN)
  BY <1>3, MessageFacts
<1>5. Event("connected").kind = "connected" /\ Event("disconnected").kind = "disconnected"
  BY EventFacts
<1>6. /\ e.kind = "connected" => desk' = [connected |-> TRUE, shown |-> {}, generation |-> desk.generation + 1]
                                /\ shots' = NewShots(desk)
      /\ e.kind = "disconnected" => desk' = [connected |-> FALSE, shown |-> {}, generation |-> desk.generation + 1]
                                   /\ shots' = shots
      /\ e.kind = "status" => /\ shots' = shots
                              /\ desk' = [connected |-> desk.connected, generation |-> desk.generation,
                                          shown |-> IF e.good THEN desk.shown \cup {e.type} ELSE desk.shown \ {e.type}]
  <2>1. e.kind = "connected" => /\ desk' = [[[desk EXCEPT !.shown = {}] EXCEPT !.generation = @ + 1] EXCEPT !.connected = TRUE]
                                /\ shots' = NewShots(desk)
    BY DEF Handles, Synced, ClearsAll
  <2>2. e.kind = "disconnected" => /\ desk' = [[[desk EXCEPT !.shown = {}] EXCEPT !.generation = @ + 1] EXCEPT !.connected = FALSE]
                                   /\ shots' = shots
    BY DEF Handles, Synced, ClearsAll
  <2>3. e.kind = "status" => /\ desk' = [desk EXCEPT !.shown = IF e.good THEN @ \cup {e.type} ELSE @ \ {e.type}]
                             /\ shots' = shots
    BY DEF Handles
  <2> QED
    BY <1>2, <2>1, <2>2, <2>3
<1>7. LockHolds' /\ PendingHolds' /\ PageHolds' /\ FlowsHold'
  BY <1>1, FlowsSame
<1>8. Still' = Still /\ Still \subseteq Types
  BY <1>1, StatusFacts DEF Still, StatusOf, Held, ToSet
<1>9. ReportsHold'
  BY <1>1, <1>3, <1>8 DEF PermissionIInv, ReportsHold
<1>10. desk' \in [connected : BOOLEAN, shown : SUBSET Types, generation : Nat] /\ shots' \in Seq(Nat)
  <2>1. NewShots(desk) \in Seq(Nat)
    BY <1>2, ShotsFacts
  <2>2. CASE e.kind \in {"connected", "disconnected"}
    <3>1. desk.generation + 1 \in Nat
      BY <1>2
    <3>2. \/ desk' = [connected |-> TRUE, shown |-> {}, generation |-> desk.generation + 1] /\ shots' = NewShots(desk)
          \/ desk' = [connected |-> FALSE, shown |-> {}, generation |-> desk.generation + 1] /\ shots' = shots
      BY <1>6, <2>2
    <3>3. \A on \in BOOLEAN : [connected |-> on, shown |-> {}, generation |-> desk.generation + 1]
                               \in [connected : BOOLEAN, shown : SUBSET Types, generation : Nat]
      BY <3>1
    <3>4. desk' \in [connected : BOOLEAN, shown : SUBSET Types, generation : Nat]
      BY <3>2, <3>3
    <3>5. shots' \in Seq(Nat)
      BY <1>2, <2>1, <3>2
    <3> QED
      BY <3>4, <3>5
  <2>3. CASE e.kind = "status"
    <3>1. ~e.event /\ e.type \in Types
      BY <1>4, <2>3
    <3>2. (IF e.good THEN desk.shown \cup {e.type} ELSE desk.shown \ {e.type}) \in SUBSET Types
      BY <1>2, <3>1
    <3> QED
      BY <1>2, <1>6, <2>3, <3>2
  <2> QED
    BY <1>4, <2>2, <2>3
<1>11. SessionHolds'
  <2>1. CASE inSession /\ desk.connected
    <3>1. (\A i \in DOMAIN toDesktop : ~toDesktop[i].event) /\ desk.shown \subseteq Still
      BY <1>2, <2>1 DEF SessionHolds
    <3>2. ~e.event /\ e.kind = "status" /\ (e.good => e.type \in Still)
      BY <1>3, <1>4, <3>1 DEF PermissionIInv, ReportsHold
    <3>3. desk'.connected /\ desk'.shown \subseteq Still
      BY <1>6, <2>1, <3>1, <3>2
    <3>4. \A i \in DOMAIN toDesktop' : ~toDesktop'[i].event
      BY <1>1, <1>3, <3>1
    <3> QED
      BY <1>1, <1>8, <2>1, <3>3, <3>4 DEF SessionHolds
  <2>2. CASE inSession /\ ~desk.connected
    <3>1. e = Event("connected") /\ \A i \in DOMAIN toDesktop : i > 1 => ~toDesktop[i].event
      BY <1>2, <2>2 DEF SessionHolds
    <3>2. desk'.connected /\ desk'.shown = {}
      BY <1>5, <1>6, <3>1
    <3>3. \A i \in DOMAIN toDesktop' : ~toDesktop'[i].event
      BY <1>1, <1>3, <3>1
    <3> QED
      BY <1>1, <2>2, <3>2, <3>3 DEF SessionHolds
  <2>3. CASE ~inSession /\ desk.connected
    <3>1. toDesktop = <<Event("disconnected")>>
      BY <1>2, <2>3 DEF SessionHolds
    <3>2. toDesktop' = <<>> /\ e = Event("disconnected")
      BY <1>1, <3>1
    <3>3. ~desk'.connected /\ desk'.shown = {}
      BY <1>5, <1>6, <3>2
    <3> QED
      BY <1>1, <2>3, <3>2, <3>3 DEF SessionHolds
  <2>4. CASE ~inSession /\ ~desk.connected
    <3>1. toDesktop = <<Event("connected"), Event("disconnected")>>
      BY <1>1, <1>2, <2>4 DEF SessionHolds
    <3>2. toDesktop' = <<Event("disconnected")>> /\ e = Event("connected")
      BY <1>1, <3>1
    <3>3. desk'.connected /\ desk'.shown = {}
      BY <1>5, <1>6, <3>2
    <3> QED
      BY <1>1, <2>4, <3>2, <3>3 DEF SessionHolds, Event
  <2> QED
    BY <1>2, <2>1, <2>2, <2>3, <2>4
<1>12. PermissionTypeOK'
  BY <1>1, <1>2, <1>3, <1>10 DEF PermissionTypeOK, Coroutines, Messages, Permission, Questions
<1> QED
  BY <1>7, <1>9, <1>11, <1>12 DEF PermissionIInv

LEMMA DeskRequestStep ==
  ASSUME NEW t \in Types, PermissionBounds, PermissionIInv, RequestPermission(t)
  PROVE  PermissionIInv'
<1>1. /\ requests < MaxAsks /\ requests' = requests + 1 /\ (asked' = Append(asked, t) \/ asked' = asked)
      /\ desk' = [desk EXCEPT !.generation = @ + 1] /\ shots' = NewShots(desk)
      /\ UNCHANGED <<granted, withdrawn, app, flows, inProgress, dialogues, pending, answers, codes, pad, reads, toDesktop, inSession, moves>>
  BY DEF RequestPermission, theFlow, Synced
<1>2. /\ PermissionTypeOK /\ asked \in Seq(Types \cup {"sync"})
      /\ desk \in [connected : BOOLEAN, shown : SUBSET Types, generation : Nat]
  BY DEF PermissionIInv, PermissionTypeOK
<1>3. /\ desk' \in [connected : BOOLEAN, shown : SUBSET Types, generation : Nat]
      /\ desk'.connected = desk.connected /\ desk'.shown = desk.shown
  BY <1>1, <1>2
<1>4. shots' \in Seq(Nat) /\ asked' \in Seq(Types \cup {"sync"})
  BY <1>1, <1>2, ShotsFacts, AppendProperties
<1>5. LockHolds' /\ PendingHolds' /\ PageHolds' /\ FlowsHold'
  BY <1>1, FlowsSame
<1>6. Still' = Still
  BY <1>1 DEF Still, StatusOf, Held, ToSet
<1>7. ReportsHold' /\ SessionHolds'
  BY <1>1, <1>3, <1>6 DEF PermissionIInv, ReportsHold, SessionHolds, Event
<1>8. requests' \in 0 .. MaxAsks
  BY <1>1, <1>2 DEF PermissionTypeOK, PermissionBounds
<1>9. PermissionTypeOK'
  BY <1>1, <1>2, <1>3, <1>4, <1>8 DEF PermissionTypeOK, Coroutines, Messages, Permission, Questions
<1> QED
  BY <1>5, <1>7, <1>9 DEF PermissionIInv

LEMMA ConnectsStep ==
  ASSUME PermissionBounds, PermissionIInv, Connects
  PROVE  PermissionIInv'
<1>1. /\ ~inSession /\ toDesktop = <<>> /\ moves < MaxMoves /\ inSession' = TRUE /\ moves' = moves + 1
      /\ toDesktop' = <<Event("connected")>>
      /\ UNCHANGED <<granted, withdrawn, app, flows, inProgress, dialogues, pending, answers, codes, pad, reads, requests, asked, desk, shots>>
  BY DEF Connects, theFlow, Event
<1>2. PermissionTypeOK /\ SessionHolds
  BY DEF PermissionIInv
<1>3. ~desk.connected /\ desk.shown = {}
  <2>1. \A m : <<m>> # <<>>
    OBVIOUS
  <2> QED
    BY <1>1, <1>2, <2>1 DEF SessionHolds
<1>4. Event("connected") \in Messages /\ Event("connected").event
  BY EventFacts
<1>5. /\ toDesktop' \in Seq(Messages) /\ toDesktop' # <<>> /\ Head(toDesktop') = Event("connected")
      /\ \A i \in DOMAIN toDesktop' : i = 1 /\ toDesktop'[i].event
  BY <1>1, <1>4
<1>6. LockHolds' /\ PendingHolds' /\ PageHolds' /\ FlowsHold'
  BY <1>1, FlowsSame
<1>7. Still' = Still
  BY <1>1 DEF Still, StatusOf, Held, ToSet
<1>8. ReportsHold'
  BY <1>1, <1>5, <1>7 DEF PermissionIInv, ReportsHold
<1>9. SessionHolds'
  BY <1>1, <1>3, <1>5 DEF SessionHolds, Event
<1>10. moves' \in 0 .. MaxMoves
  BY <1>1, <1>2 DEF PermissionTypeOK, PermissionBounds
<1>11. PermissionTypeOK'
  BY <1>1, <1>2, <1>5, <1>10 DEF PermissionTypeOK, Coroutines, Messages, Permission, Questions
<1> QED
  BY <1>6, <1>8, <1>9, <1>11 DEF PermissionIInv

-------------------------------------------------------------------------------
(* The whole. *)

LEMMA PermissionInitStep ==
  ASSUME PermissionBounds, PermissionInit
  PROVE  PermissionIInv
<1>1. flows = [f \in Flows |-> NoFlow] /\ flows \in [Flows -> Coroutines] /\ \A f \in Flows : flows[f].at = "idle"
  BY IdleFacts DEF PermissionInit
<1>2. inProgress \in [{"ui", "backend"} -> BOOLEAN] /\ \A p \in {"ui", "backend"} : ~inProgress[p]
  BY DEF PermissionInit
<1>3. LockHolds
  BY <1>1, <1>2 DEF LockHolds, InHand, Holding
<1>4. PendingHolds
  BY DEF PendingHolds, PermissionInit
<1>5. PageHolds
  BY <1>1 DEF PageHolds, PermissionBounds, PermissionInit, Held
<1>6. FlowsHold
  BY <1>1 DEF FlowsHold, Wanting, Holding, Held
<1>7. ReportsHold /\ SessionHolds
  BY DEF ReportsHold, SessionHolds, PermissionInit
<1>8. PermissionTypeOK
  <2>1. /\ granted \subseteq Permission /\ withdrawn \subseteq Settings /\ app \in {"active", "background"}
        /\ pad \in [busy : BOOLEAN, shown : SUBSET Permission]
        /\ desk \in [connected : BOOLEAN, shown : SUBSET Types, generation : Nat] /\ inSession \in BOOLEAN
    BY DEF PermissionInit
  <2>2. /\ dialogues \in Seq(Questions) /\ reads \in Seq(SUBSET Types) /\ asked \in Seq(Types \cup {"sync"})
        /\ toDesktop \in Seq(Messages) /\ shots \in Seq(Nat)
    BY EmptySeq DEF PermissionInit
  <2>3. codes \in Nat /\ pending \in 0 .. codes /\ answers \subseteq 1 .. codes
    BY DEF PermissionInit
  <2>4. requests \in 0 .. MaxAsks /\ moves \in 0 .. MaxMoves
    BY DEF PermissionInit, PermissionBounds
  <2> QED
    BY <1>1, <1>2, <2>1, <2>2, <2>3, <2>4 DEF PermissionTypeOK
<1> QED
  BY <1>3, <1>4, <1>5, <1>6, <1>7, <1>8 DEF PermissionIInv

LEMMA NeedsFacts ==
  ASSUME PermissionBounds
  PROVE  /\ \A t \in Types : Needs[t] \in Seq(Permission) \ {<<>>}
         /\ SetToSeq(Permission) \in Seq(Permission) \ {<<>>}
  BY ListOfSet DEF PermissionBounds

LEMMA PermissionNextStep ==
  ASSUME PermissionBounds, PermissionIInv, [PermissionNext]_permissionVars
  PROVE  PermissionIInv'
<1>1. CASE UNCHANGED permissionVars
  <2>1. UNCHANGED <<granted, withdrawn, app, flows, inProgress, dialogues, pending, answers, codes, pad, reads, requests, asked, toDesktop, desk,
                    shots, inSession, moves>>
    BY <1>1 DEF permissionVars
  <2>2. LockHolds' /\ PendingHolds' /\ PageHolds' /\ FlowsHold'
    BY <2>1, FlowsSame
  <2>3. ReportsHold' /\ SessionHolds'
    BY <2>1, LinkHolds DEF Held
  <2>4. PermissionTypeOK'
    BY <2>1 DEF PermissionIInv, PermissionTypeOK, Coroutines, Messages, Permission, Questions
  <2> QED
    BY <2>2, <2>3, <2>4 DEF PermissionIInv
<1>2. CASE \E f \in Flows : Acquires(f) \/ ChecksNext(f) \/ Unblocks(f) \/ Denied(f) \/ Waits(f) \/ Again(f) \/ Answers(f)
  BY <1>2, AcquiresStep, ChecksStep, UnblocksStep, DeniedStep, WaitsStep, AgainStep, AnswersStep
<1>3. CASE \E yes \in BOOLEAN : UserAnswers(yes)
  BY <1>3, UserAnswersStep
<1>4. CASE \E t \in Types : RunPermissionRequest(Needs[t]) \/ RequestPermission(t)
  BY <1>4, RunStep, DeskRequestStep, NeedsFacts
<1>5. CASE RunPermissionRequest(SetToSeq(Permission))
  BY <1>5, RunStep, NeedsFacts
<1>6. CASE \E p \in Permission : UserGrants(p) \/ UserRevokes(p) \/ UserSwitchesOff(p)
  BY <1>6, AppStep, RevokesStep
<1>7. CASE SystemCancels \/ ReadsAll \/ ShowsAll \/ AppLeaves \/ AppReturns
  BY <1>7, SystemCancelsStep, PageReadsStep, PageShowsStep, AppStep, AppReturnsStep
<1>8. CASE Snapshots \/ SendsSnapshot \/ Requested \/ Handles \/ Shot \/ Connects
  BY <1>8, SnapshotsStep, SendsSnapshotStep, RequestedStep, HandlesStep, AppStep, ConnectsStep
<1> QED
  BY <1>1, <1>2, <1>3, <1>4, <1>5, <1>6, <1>7, <1>8 DEF PermissionNext

LEMMA AloneFacts ==
  ASSUME PermissionIInv, NEW p \in {"ui", "backend"}
  PROVE  Cardinality({f \in Flows : ProcessOf(f) = p /\ flows[f].at \in Places \ {"idle", "waits", "reports", "queued"}})
           = IF inProgress[p] THEN 1 ELSE 0
<1> DEFINE busyOnes == {f \in Flows : ProcessOf(f) = p /\ flows[f].at \in Places \ {"idle", "waits", "reports", "queued"}}
<1>1. busyOnes = {f \in Flows : ProcessOf(f) = p /\ InHand(f)}
  BY DEF InHand, Holding, Places
<1>2. CASE inProgress[p]
  <2>1. PICK f \in Flows : InHand(f) /\ ProcessOf(f) = p
    BY <1>2 DEF PermissionIInv, LockHolds
  <2>2. busyOnes = {f}
    BY <1>1, <2>1 DEF PermissionIInv, LockHolds
  <2> QED
    BY <1>2, <2>2, FS_Singleton
<1>3. CASE ~inProgress[p]
  <2>1. busyOnes = {}
    BY <1>1, <1>3 DEF PermissionIInv, LockHolds
  <2> QED
    BY <1>3, <2>1, FS_EmptySet
<1> QED
  BY <1>2, <1>3

LEMMA PermissionConclusion ==
  ASSUME PermissionIInv
  PROVE  PermissionsAreHonest
<1>1. FlowIsAlone
  BY AloneFacts DEF FlowIsAlone, PermissionIInv, PendingHolds
<1>2. ShownIsGranted
  BY DEF ShownIsGranted, PermissionIInv, SessionHolds, ReportsHold, PageHolds, Still
<1> QED
  BY <1>1, <1>2 DEF PermissionsAreHonest

(* Everything under the invariant, for any permissions, types, flows and bounds. *)
THEOREM PermissionInvariance ==
  ASSUME PermissionBounds
  PROVE  PermissionSpec => []PermissionIInv
<1>1. PermissionInit => PermissionIInv
  BY PermissionInitStep
<1>2. PermissionIInv /\ [PermissionNext]_permissionVars => PermissionIInv'
  BY PermissionNextStep
<1> QED
  BY <1>1, <1>2, PTL DEF PermissionSpec

(* Neither the desktop nor the phone's page shows a permission that is not  *)
(* granted, and no yes on its way to the desktop has become wrong, but for  *)
(* one that was switched off in the settings under the running processes;   *)
(* and of the flows of a process one at a time holds the screen.            *)
THEOREM PermissionsHonest ==
  ASSUME PermissionBounds
  PROVE  PermissionSpec => [](PermissionTypeOK /\ PermissionsAreHonest)
<1>1. PermissionIInv => PermissionTypeOK /\ PermissionsAreHonest
  BY PermissionConclusion DEF PermissionIInv
<1> QED
  BY <1>1, PermissionInvariance, PTL

-------------------------------------------------------------------------------
(* The Mac's probe for the local network: the lock is taken exactly while  *)
(* one caller looks or probes, no one probes once the answer is known, and *)
(* no one is told yes before.                                              *)

Asking(c) == callers[c] \in {"looks", "probes"}

LocalIInv ==
  /\ callers \in [Callers -> {"idle", "waits", "looks", "probes", "yes", "no"}]
  /\ known \in BOOLEAN /\ busy \in BOOLEAN
  /\ busy <=> \E c \in Callers : Asking(c)
  /\ \A b, c \in Callers : Asking(b) /\ Asking(c) => b = c
  /\ \A c \in Callers : (callers[c] = "probes" => ~known) /\ (callers[c] = "yes" => known)

LEMMA LocalInitStep ==
  LocalInit => LocalIInv
  BY DEF LocalInit, LocalIInv, Asking

LEMMA LocalNextStep ==
  ASSUME LocalIInv, [LocalNext]_localVars
  PROVE  LocalIInv'
<1> USE DEF LocalIInv, Asking
<1>1. CASE UNCHANGED localVars
  BY <1>1 DEF localVars
<1>2. ASSUME NEW c \in Callers, RequestLocalNetworkAccess(c) PROVE LocalIInv'
  <2>1. CASE known
    BY <1>2, <2>1 DEF RequestLocalNetworkAccess, CallerGoes
  <2>2. CASE ~known
    BY <1>2, <2>2 DEF RequestLocalNetworkAccess, CallerGoes
  <2> QED
    BY <2>1, <2>2
<1>3. ASSUME NEW c \in Callers, AcquireLock(c) PROVE LocalIInv'
  BY <1>3 DEF AcquireLock, CallerGoes
<1>4. ASSUME NEW c \in Callers, Looks(c) PROVE LocalIInv'
  <2>1. callers[c] = "looks" /\ busy /\ \A b \in Callers : Asking(b) => b = c
    BY <1>4 DEF Looks
  <2>2. CASE ~known /\ CallerGoes(c, "probes") /\ UNCHANGED <<busy, known>>
    BY <2>1, <2>2 DEF CallerGoes
  <2>3. CASE CallerGoes(c, "no") /\ busy' = FALSE /\ UNCHANGED known
    BY <2>1, <2>3 DEF CallerGoes
  <2>4. CASE known /\ CallerGoes(c, "yes") /\ busy' = FALSE /\ UNCHANGED known
    BY <2>1, <2>4 DEF CallerGoes
  <2> QED
    BY <1>4, <2>2, <2>3, <2>4 DEF Looks, NotYetKnown
<1>5. ASSUME NEW c \in Callers, ProbeEnds(c) PROVE LocalIInv'
  <2>1. callers[c] = "probes" /\ busy /\ busy' = FALSE /\ \A b \in Callers : Asking(b) => b = c
    BY <1>5 DEF ProbeEnds
  <2>2. CASE known' = TRUE /\ CallerGoes(c, "yes")
    BY <2>1, <2>2 DEF CallerGoes
  <2>3. CASE known' = known /\ CallerGoes(c, "no")
    BY <2>1, <2>3 DEF CallerGoes
  <2> QED
    BY <1>5, <2>2, <2>3 DEF ProbeEnds
<1>6. ASSUME NEW r \in {"Granted", "Denied", "Unknown"}, Registered(r) PROVE LocalIInv'
  BY <1>6 DEF Registered
<1> QED
  BY <1>1, <1>2, <1>3, <1>4, <1>5, <1>6 DEF LocalNext

LEMMA LocalConclusion ==
  ASSUME LocalIInv
  PROVE  AskedOnce
<1>1. CASE busy
  <2>1. PICK c \in Callers : Asking(c)
    BY <1>1 DEF LocalIInv
  <2>2. {b \in Callers : callers[b] \in {"looks", "probes"}} = {c}
    BY <2>1 DEF LocalIInv, Asking
  <2> QED
    BY <1>1, <2>2, FS_Singleton DEF AskedOnce, LocalIInv
<1>2. CASE ~busy
  <2>1. {b \in Callers : callers[b] \in {"looks", "probes"}} = {}
    BY <1>2 DEF LocalIInv, Asking
  <2> QED
    BY <1>2, <2>1, FS_EmptySet DEF AskedOnce, LocalIInv
<1> QED
  BY <1>1, <1>2

(* However many callers find the permission missing, the user is asked by *)
(* one probe at a time and by none once the answer was yes.               *)
THEOREM TheUserIsAskedOnce == LocalSpec => []AskedOnce
<1>1. LocalInit => LocalIInv
  BY LocalInitStep
<1>2. LocalIInv /\ [LocalNext]_localVars => LocalIInv'
  BY LocalNextStep
<1>3. LocalIInv => AskedOnce
  BY LocalConclusion
<1> QED
  BY <1>1, <1>2, <1>3, PTL DEF LocalSpec

-------------------------------------------------------------------------------
(* The accept loop (AcceptLoop.tla). *)

Operations == {"seek", "disconnect"}
Listener   == [state : {"DISCONNECTED", "CONNECTING", "CONNECTED"}, acceptor : {"closed", "open", "arrived"},
               queue : Seq(Operations), generation : Nat]
Call       == [at : {"enter", "seek", "check"}, generation : Nat, number : Nat]

(* The operations posted to a strand: the seek is posted once, and may have a disconnect behind it. *)
HasSeek(q)       == \E i \in DOMAIN q : q[i] = "seek"
HasDisconnect(q) == \E i \in DOMAIN q : q[i] = "disconnect"
OneSeek(q)       == \A i, j \in DOMAIN q : q[i] = "seek" /\ q[j] = "seek" => i = j
EndsShut(q)      == \E j \in DOMAIN q : q[j] = "disconnect" /\ \A i \in DOMAIN q : i > j => q[i] # "seek"

(* A listener that will seek, and one that somebody may be heard at. *)
About(k, n) == k.at # "enter" /\ k.number = n
ToSeek(n)   == \E k \in calls : k.at = "seek" /\ k.number = n
WillSeek(n) == ToSeek(n) \/ HasSeek(listeners[n].queue)
Hears(n)    == Listening(n) \/ listeners[n].state = "CONNECTED"

(* It will be disconnected by the next Stop, by the call that made it, or by what is posted already. *)
Covered(n) ==
  \/ n \in inbound
  \/ \E k \in calls : About(k, n) /\ Stale(k)
  \/ EndsShut(listeners[n].queue) /\ ~ToSeek(n)

Shaped ==
  /\ listeners \in Seq(Listener) /\ calls \subseteq Call /\ inbound \subseteq Numbers /\ accepting \in BOOLEAN
  /\ dropping \in [on : BOOLEAN, who : SUBSET Numbers, restart : BOOLEAN, generation : Nat]
  /\ generation \in Nat /\ out \in 0 .. generation /\ commands = generation /\ commands <= MaxCommands

(* Each call inside SeekInitialConnection is about a listener of its own, of its generation. *)
CallsHold ==
  /\ \A k \in calls : k.generation <= generation
  /\ \A k \in calls : IF k.at = "enter" THEN k = Entering(k.generation)
                      ELSE k.number \in Numbers /\ listeners[k.number].generation = k.generation
  /\ \A k, l \in calls : k.at # "enter" /\ About(l, k.number) => k = l

(* Nothing is of a later generation, and what a Disconnect drops is of an older one. *)
OlderHold ==
  /\ \A n \in Numbers : listeners[n].generation <= generation
  /\ dropping.generation <= generation /\ \A n \in dropping.who : listeners[n].generation < dropping.generation

(* A listener seeks once, and before that it is disconnected and closed. *)
SeeksHold == \A n \in Numbers :
  /\ WillSeek(n) => listeners[n].state = "DISCONNECTED" /\ ~Listening(n)
  /\ ToSeek(n) => ~HasSeek(listeners[n].queue)
  /\ OneSeek(listeners[n].queue)
  /\ Listening(n) => listeners[n].state = "CONNECTING"

StoppedHolds == ~accepting => out = 0 /\ inbound = {}

CoveredHold == \A n \in Numbers : Hears(n) \/ WillSeek(n) => Covered(n)

(* A device that accepts has one listener, or is about to have it: it was made to seek, a call *)
(* will make it, or the Disconnect under way will make the call.                               *)
Token(n) == listeners[n].generation = generation /\ (Listening(n) \/ WillSeek(n))
Restarts == dropping.on /\ dropping.restart /\ dropping.generation = generation

OneListens ==
  /\ \A n \in Numbers : listeners[n].generation = generation => ~HasDisconnect(listeners[n].queue)
  /\ Entering(generation) \in calls \/ Restarts \/ \E n \in Numbers : Token(n)
  /\ Entering(generation) \in calls => ~Restarts /\ \A n \in Numbers : ~Token(n)
  /\ Restarts => \A n \in Numbers : ~Token(n)
  /\ \A n, m \in Numbers : Token(n) /\ Token(m) => n = m

Watching == accepting /\ generation \notin failed

AcceptIInv ==
  /\ Shaped /\ CallsHold /\ OlderHold /\ SeeksHold /\ StoppedHolds /\ CoveredHold
  /\ Watching => OneListens

-------------------------------------------------------------------------------
(* The queue of a strand. *)

LEMMA QueueAppends ==
  ASSUME NEW q \in Seq(Operations), NEW what \in Operations
  PROVE  /\ Append(q, what) \in Seq(Operations)
         /\ HasSeek(Append(q, what)) <=> HasSeek(q) \/ what = "seek"
         /\ HasDisconnect(Append(q, what)) <=> HasDisconnect(q) \/ what = "disconnect"
         /\ what = "disconnect" => EndsShut(Append(q, what)) /\ (OneSeek(q) => OneSeek(Append(q, what)))
         /\ ~HasSeek(q) => OneSeek(Append(q, what))
<1> DEFINE r == Append(q, what)
<1>1. /\ r \in Seq(Operations) /\ Len(r) = Len(q) + 1 /\ r[Len(q) + 1] = what
      /\ \A i \in 1 .. Len(q) : r[i] = q[i]
  BY AppendProperties
<1>2. DOMAIN r = 1 .. Len(q) + 1 /\ DOMAIN q = 1 .. Len(q) /\ Len(q) \in Nat
  BY <1>1, LenProperties
<1> HIDE DEF r
<1>3. Len(q) + 1 \in DOMAIN r /\ \A i \in DOMAIN q : i \in DOMAIN r /\ i # Len(q) + 1 /\ ~(i > Len(q) + 1)
  BY <1>2
<1>4. \A i \in DOMAIN r : (i \in DOMAIN q /\ r[i] = q[i]) \/ (i = Len(q) + 1 /\ r[i] = what)
  BY <1>1, <1>2
<1>5. \A i \in DOMAIN q : i \in DOMAIN r /\ r[i] = q[i]
  BY <1>1, <1>2
<1>6. HasSeek(r) <=> HasSeek(q) \/ what = "seek"
  BY <1>1, <1>3, <1>4, <1>5 DEF HasSeek
<1>7. HasDisconnect(r) <=> HasDisconnect(q) \/ what = "disconnect"
  BY <1>1, <1>3, <1>4, <1>5 DEF HasDisconnect
<1>8. what = "disconnect" => EndsShut(r)
  BY <1>1, <1>2, <1>3 DEF EndsShut
<1>9. what = "disconnect" /\ OneSeek(q) => OneSeek(r)
  BY <1>4 DEF OneSeek
<1>10. ~HasSeek(q) => OneSeek(r)
  BY <1>4 DEF OneSeek, HasSeek
<1> QED
  BY <1>1, <1>6, <1>7, <1>8, <1>9, <1>10 DEF r

LEMMA QueueTail ==
  ASSUME NEW q \in Seq(Operations), q # <<>>
  PROVE  /\ Tail(q) \in Seq(Operations)
         /\ OneSeek(q) => OneSeek(Tail(q))
         /\ HasDisconnect(Tail(q)) => HasDisconnect(q)
         /\ Head(q) = "disconnect" => HasDisconnect(q) /\ (HasSeek(q) <=> HasSeek(Tail(q)))
         /\ Head(q) = "seek" => HasSeek(q) /\ (OneSeek(q) => ~HasSeek(Tail(q)))
         /\ EndsShut(q) /\ (HasSeek(q) \/ Head(q) = "seek") => EndsShut(Tail(q))
<1> DEFINE r == Tail(q)
<1>1. /\ r \in Seq(Operations) /\ Head(q) = q[1] /\ Len(q) \in Nat /\ Len(q) >= 1
      /\ DOMAIN q = 1 .. Len(q) /\ DOMAIN r = 1 .. Len(q) - 1 /\ \A i \in 1 .. Len(q) - 1 : r[i] = q[i + 1]
  BY HeadTailProperties, LenProperties, EmptySeq
<1> HIDE DEF r
<1>2. /\ 1 \in DOMAIN q
      /\ \A i \in DOMAIN r : i \in Int /\ i + 1 \in DOMAIN q /\ i + 1 # 1 /\ r[i] = q[i + 1]
  BY <1>1
<1>3. \A i \in DOMAIN q : i # 1 => i - 1 \in DOMAIN r /\ (i - 1) + 1 = i /\ r[i - 1] = q[i]
  BY <1>1
<1>4. OneSeek(q) => OneSeek(r)
  <2> SUFFICES ASSUME OneSeek(q), NEW i \in DOMAIN r, NEW j \in DOMAIN r, r[i] = "seek", r[j] = "seek" PROVE i = j
    BY DEF OneSeek
  <2>1. i + 1 = j + 1
    BY <1>2 DEF OneSeek
  <2> QED
    BY <1>2, <2>1
<1>5. HasDisconnect(r) => HasDisconnect(q)
  BY <1>2 DEF HasDisconnect
<1>6. Head(q) = "disconnect" => HasDisconnect(q) /\ (HasSeek(q) <=> HasSeek(r))
  BY <1>1, <1>2, <1>3 DEF HasDisconnect, HasSeek
<1>7. Head(q) = "seek" => HasSeek(q) /\ (OneSeek(q) => ~HasSeek(r))
  BY <1>1, <1>2 DEF HasSeek, OneSeek
<1>8. ASSUME EndsShut(q), HasSeek(q) PROVE EndsShut(r)
  <2>1. PICK j \in DOMAIN q : q[j] = "disconnect" /\ \A i \in DOMAIN q : i > j => q[i] # "seek"
    BY <1>8 DEF EndsShut
  <2>2. PICK s \in DOMAIN q : q[s] = "seek"
    BY <1>8 DEF HasSeek
  <2>3. j # 1 /\ j \in Int
    BY <1>1, <2>1, <2>2
  <2>4. j - 1 \in DOMAIN r /\ r[j - 1] = "disconnect"
    BY <1>3, <2>1, <2>3
  <2>5. \A i \in DOMAIN r : i > j - 1 => r[i] # "seek"
    <3> TAKE i \in DOMAIN r
    <3>1. i + 1 \in DOMAIN q /\ r[i] = q[i + 1] /\ i \in Int
      BY <1>2
    <3>2. i > j - 1 => i + 1 > j
      BY <2>3, <3>1
    <3> QED
      BY <2>1, <3>1, <3>2
  <2> QED
    BY <2>4, <2>5 DEF EndsShut
<1> QED
  BY <1>1, <1>4, <1>5, <1>6, <1>7, <1>8 DEF r

-------------------------------------------------------------------------------
(* What changes in the listeners and the calls. *)

LEMMA ListenerFacts ==
  ASSUME Shaped, NEW n \in Numbers
  PROVE  /\ listeners[n] \in Listener /\ listeners[n].queue \in Seq(Operations) /\ listeners[n].generation \in Nat
         /\ listeners[n].state \in {"DISCONNECTED", "CONNECTING", "CONNECTED"}
         /\ listeners[n].acceptor \in {"closed", "open", "arrived"}
<1>1. listeners[n] \in Listener
  BY LenProperties, ElementOfSeq DEF Shaped, Numbers
<1> QED
  BY <1>1 DEF Listener

LEMMA PostedFacts ==
  ASSUME Shaped, NEW who \in SUBSET Numbers, NEW what \in Operations, listeners' = Posted(listeners, who, what)
  PROVE  /\ listeners' \in Seq(Listener) /\ Numbers' = Numbers
         /\ \A n \in Numbers \ who : listeners'[n] = listeners[n]
         /\ \A n \in Numbers :
              /\ listeners'[n].state = listeners[n].state /\ listeners'[n].acceptor = listeners[n].acceptor
              /\ listeners'[n].generation = listeners[n].generation
         /\ \A n \in who : listeners'[n].queue = Append(listeners[n].queue, what)
<1>1. listeners \in Seq(Listener) /\ Len(listeners) \in Nat /\ Numbers = 1 .. Len(listeners)
  BY LenProperties DEF Shaped, Numbers
<1>2. listeners' = [n \in Numbers |-> IF n \in who THEN [listeners[n] EXCEPT !.queue = Append(listeners[n].queue, what)]
                                              ELSE listeners[n]]
  BY DEF Posted, Numbers
<1>3. Numbers' = Numbers
  BY <1>2 DEF Numbers
<1>4. ASSUME NEW n \in Numbers
      PROVE  /\ listeners'[n] \in Listener
             /\ n \notin who => listeners'[n] = listeners[n]
             /\ listeners'[n].state = listeners[n].state /\ listeners'[n].acceptor = listeners[n].acceptor
             /\ listeners'[n].generation = listeners[n].generation
             /\ n \in who => listeners'[n].queue = Append(listeners[n].queue, what)
  <2>1. listeners[n] \in Listener /\ listeners[n].queue \in Seq(Operations)
    BY ListenerFacts
  <2>2. Append(listeners[n].queue, what) \in Seq(Operations)
    BY <2>1, AppendProperties
  <2>3. CASE n \in who
    <3>1. listeners'[n] = [listeners[n] EXCEPT !.queue = Append(listeners[n].queue, what)]
      BY <1>2, <2>3
    <3> QED
      BY <2>1, <2>2, <2>3, <3>1 DEF Listener
  <2>4. CASE n \notin who
    BY <1>2, <2>1, <2>4
  <2> QED
    BY <2>3, <2>4
<1>5. listeners' \in Seq(Listener)
  <2>1. listeners' \in [1 .. Len(listeners) -> Listener]
    BY <1>1, <1>2, <1>4
  <2> QED
    BY <1>1, <2>1, SeqDef
<1> QED
  BY <1>3, <1>4, <1>5

LEMMA BecomesFacts ==
  ASSUME Shaped, NEW n \in Numbers, NEW state \in {"DISCONNECTED", "CONNECTING", "CONNECTED"},
         NEW acceptor \in {"closed", "open", "arrived"}, NEW queue \in Seq(Operations),
         Becomes(n, state, acceptor, queue)
  PROVE  /\ listeners' \in Seq(Listener) /\ Numbers' = Numbers
         /\ \A m \in Numbers \ {n} : listeners'[m] = listeners[m]
         /\ listeners'[n].state = state /\ listeners'[n].acceptor = acceptor /\ listeners'[n].queue = queue
         /\ listeners'[n].generation = listeners[n].generation
<1>1. listeners \in Seq(Listener) /\ n \in 1 .. Len(listeners) /\ Numbers = 1 .. Len(listeners)
  BY LenProperties DEF Shaped, Numbers
<1> DEFINE new == [listeners[n] EXCEPT !.state = state, !.acceptor = acceptor, !.queue = queue]
<1>2. listeners[n] \in Listener
  BY ListenerFacts
<1>3. /\ new \in Listener /\ new.state = state /\ new.acceptor = acceptor /\ new.queue = queue
      /\ new.generation = listeners[n].generation
  BY <1>2 DEF Listener
<1>4. listeners' = [listeners EXCEPT ![n] = new]
  BY DEF Becomes
<1> HIDE DEF new
<1>6. listeners' \in Seq(Listener) /\ Len(listeners') = Len(listeners) /\ DOMAIN listeners' = DOMAIN listeners
  BY <1>1, <1>3, <1>4, ExceptSeq
<1>7. listeners'[n] = new /\ \A m \in Numbers \ {n} : listeners'[m] = listeners[m]
  BY <1>1, <1>4
<1> QED
  BY <1>3, <1>6, <1>7 DEF Numbers

LEMMA EnteringFacts ==
  ASSUME NEW g \in Nat
  PROVE  /\ Entering(g) \in Call /\ Entering(g).at = "enter" /\ Entering(g).generation = g
         /\ \A h : Entering(h) = Entering(g) => h = g
<1>1. \A h : Entering(h).generation = h
  BY DEF Entering
<1> QED
  BY <1>1 DEF Entering, Call

(* A call that enters is about no listener, and never the one that is to seek. *)
LEMMA CallsGrow ==
  ASSUME Shaped, CallsHold, NEW g \in Nat, generation' \in Nat, g <= generation', generation <= generation',
         calls' = calls \cup {Entering(g)}, Numbers' = Numbers,
         \A n \in Numbers : listeners'[n].generation = listeners[n].generation
  PROVE  /\ calls' \subseteq Call /\ CallsHold' /\ \A n : ToSeek(n)' <=> ToSeek(n)
         /\ \A n : (\E k \in calls' : About(k, n) /\ Stale(k)') <=> \E k \in calls : About(k, n) /\ Stale(k)'
<1>1. Entering(g) \in Call /\ Entering(g).at = "enter" /\ Entering(g).generation = g
  BY EnteringFacts
<1>2. calls' \subseteq Call
  BY <1>1 DEF Shaped
<1>3. \A n : ToSeek(n)' <=> ToSeek(n)
  BY <1>1 DEF ToSeek
<1>4. \A n : (\E k \in calls' : About(k, n) /\ Stale(k)') <=> \E k \in calls : About(k, n) /\ Stale(k)'
  BY <1>1 DEF About
<1>5. CallsHold'
  <2>1. \A k \in calls' : k.generation <= generation'
    <3> TAKE k \in calls'
    <3>1. CASE k \in calls
      <4>1. k.generation \in Nat /\ generation \in Nat /\ k.generation <= generation
        BY <3>1 DEF Shaped, Call, CallsHold
      <4> QED
        BY <4>1
    <3>2. CASE k = Entering(g)
      BY <1>1, <3>2
    <3> QED
      BY <3>1, <3>2
  <2> QED
    BY <1>1, <2>1 DEF CallsHold, About, Entering
<1> QED
  BY <1>2, <1>3, <1>4, <1>5

(* What a posted disconnect changes: only the queue, and that in one way. *)
LEMMA DisconnectPosted ==
  ASSUME Shaped, NEW who \in SUBSET Numbers, listeners' = Posted(listeners, who, "disconnect")
  PROVE  /\ listeners' \in Seq(Listener) /\ Numbers' = Numbers
         /\ \A n \in Numbers : /\ listeners'[n].generation = listeners[n].generation
                               /\ listeners'[n].state = listeners[n].state
                               /\ Listening(n)' <=> Listening(n)
                               /\ Hears(n)' <=> Hears(n)
                               /\ HasSeek(listeners'[n].queue) <=> HasSeek(listeners[n].queue)
                               /\ OneSeek(listeners[n].queue) => OneSeek(listeners'[n].queue)
                               /\ EndsShut(listeners[n].queue) => EndsShut(listeners'[n].queue)
                               /\ n \in who => EndsShut(listeners'[n].queue)
                               /\ n \notin who => listeners'[n] = listeners[n]
<1>1. "disconnect" \in Operations
  BY DEF Operations
<1>2. /\ listeners' \in Seq(Listener) /\ Numbers' = Numbers
      /\ \A n \in Numbers \ who : listeners'[n] = listeners[n]
      /\ \A n \in Numbers :
           /\ listeners'[n].state = listeners[n].state /\ listeners'[n].acceptor = listeners[n].acceptor
           /\ listeners'[n].generation = listeners[n].generation
      /\ \A n \in who : listeners'[n].queue = Append(listeners[n].queue, "disconnect")
  BY <1>1, PostedFacts
<1>3. ASSUME NEW n \in who
      PROVE  /\ HasSeek(listeners'[n].queue) <=> HasSeek(listeners[n].queue)
             /\ OneSeek(listeners[n].queue) => OneSeek(listeners'[n].queue)
             /\ EndsShut(listeners'[n].queue)
  <2>1. listeners[n].queue \in Seq(Operations)
    BY ListenerFacts
  <2> DEFINE r == Append(listeners[n].queue, "disconnect")
  <2>2. /\ HasSeek(r) <=> HasSeek(listeners[n].queue) \/ "disconnect" = "seek"
        /\ EndsShut(r) /\ (OneSeek(listeners[n].queue) => OneSeek(r))
    BY <1>1, <2>1, QueueAppends
  <2>3. listeners'[n].queue = r
    BY <1>2
  <2> HIDE DEF r
  <2> QED
    BY <2>2, <2>3
<1>4. \A n \in Numbers : (Listening(n)' <=> Listening(n)) /\ (Hears(n)' <=> Hears(n))
  BY <1>2 DEF Listening, Hears
<1> QED
  BY <1>2, <1>3, <1>4

(* The conjuncts that a posted disconnect keeps, when no call that is to seek changes. *)
LEMMA DisconnectKeeps ==
  ASSUME Shaped, SeeksHold, OlderHold, NEW who \in SUBSET Numbers, listeners' = Posted(listeners, who, "disconnect"),
         \A n : ToSeek(n)' <=> ToSeek(n)
  PROVE  SeeksHold' /\ \A n \in Numbers : WillSeek(n)' <=> WillSeek(n)
<1>1. /\ Numbers' = Numbers
      /\ \A n \in Numbers : /\ listeners'[n].state = listeners[n].state
                            /\ Listening(n)' <=> Listening(n)
                            /\ HasSeek(listeners'[n].queue) <=> HasSeek(listeners[n].queue)
                            /\ OneSeek(listeners[n].queue) => OneSeek(listeners'[n].queue)
  BY DisconnectPosted
<1>2. \A n \in Numbers : WillSeek(n)' <=> WillSeek(n)
  BY <1>1 DEF WillSeek
<1>3. SeeksHold'
  <2> SUFFICES ASSUME NEW n \in Numbers
               PROVE  /\ WillSeek(n)' => listeners'[n].state = "DISCONNECTED" /\ ~Listening(n)'
                      /\ ToSeek(n)' => ~HasSeek(listeners'[n].queue)
                      /\ OneSeek(listeners'[n].queue)
                      /\ Listening(n)' => listeners'[n].state = "CONNECTING"
    BY <1>1 DEF SeeksHold
  <2> QED
    BY <1>1, <1>2 DEF SeeksHold
<1> QED
  BY <1>2, <1>3

(* A new generation makes every call stale. *)
LEMMA AllStale ==
  ASSUME Shaped, CallsHold, generation' = generation + 1
  PROVE  /\ \A k \in calls : Stale(k)' /\ k.generation # generation' /\ k.generation <= generation'
         /\ generation' \in Nat /\ generation <= generation'
<1>1. generation \in Nat /\ \A k \in calls : k.generation \in Nat
  BY DEF Shaped, Call
<1>2. \A k \in calls : k.generation # generation' /\ k.generation <= generation'
  <2> TAKE k \in calls
  <2>1. k.generation <= generation /\ k.generation \in Nat
    BY <1>1 DEF CallsHold
  <2> QED
    BY <1>1, <2>1
<1> QED
  BY <1>1, <1>2 DEF Stale

-------------------------------------------------------------------------------
(* The commands. *)

LEMMA StartKeeps ==
  ASSUME AcceptIInv, Command, StartAcceptingConnections, MaxCommands \in Nat
  PROVE  AcceptIInv'
<1> USE DEF AcceptIInv
<1>1. /\ accepting' = TRUE /\ generation' = generation + 1 /\ out' = generation + 1
      /\ calls' = calls \cup {Entering(generation + 1)} /\ inbound' = inbound /\ listeners' = listeners
      /\ dropping' = dropping /\ commands < MaxCommands /\ commands' = commands + 1 /\ failed' = failed
  BY DEF Command, StartAcceptingConnections
<1>2. Numbers' = Numbers
  BY <1>1 DEF Numbers
<1>3. /\ \A k \in calls : Stale(k)' /\ k.generation # generation' /\ k.generation <= generation'
      /\ generation' \in Nat /\ generation <= generation' /\ generation + 1 \in Nat
  BY <1>1, AllStale
<1>4. /\ calls' \subseteq Call /\ CallsHold' /\ \A n : ToSeek(n)' <=> ToSeek(n)
      /\ \A n : (\E k \in calls' : About(k, n) /\ Stale(k)') <=> \E k \in calls : About(k, n) /\ Stale(k)'
  BY <1>1, <1>2, <1>3, CallsGrow
<1>5. Shaped'
  BY <1>1, <1>2, <1>3, <1>4 DEF Shaped
<1>6. OlderHold'
  <2>1. \A n \in Numbers : listeners[n].generation \in Nat /\ listeners[n].generation <= generation
    BY ListenerFacts DEF OlderHold
  <2>2. \A n \in Numbers : listeners[n].generation <= generation'
    BY <1>3, <2>1 DEF Shaped
  <2>3. dropping.generation <= generation'
    BY <1>3 DEF Shaped, OlderHold
  <2> QED
    BY <1>1, <1>2, <2>2, <2>3 DEF OlderHold
<1>7. \A n : /\ Listening(n)' <=> Listening(n)
             /\ WillSeek(n)' <=> WillSeek(n)
             /\ Hears(n)' <=> Hears(n)
  BY <1>1, <1>4 DEF Listening, WillSeek, Hears
<1>8. SeeksHold'
  BY <1>1, <1>2, <1>4, <1>7 DEF SeeksHold
<1>9. StoppedHolds'
  BY <1>1 DEF StoppedHolds
<1>10. CoveredHold'
  <2>1. \A n \in Numbers : Covered(n) => Covered(n)'
    BY <1>1, <1>3, <1>4 DEF Covered, About
  <2> QED
    BY <1>2, <1>7, <2>1 DEF CoveredHold
<1>11. OneListens'
  <2>1. \A n \in Numbers : listeners[n].generation # generation'
    <3> TAKE n \in Numbers
    <3>1. listeners[n].generation \in Nat /\ listeners[n].generation <= generation /\ generation \in Nat
      BY ListenerFacts DEF OlderHold, Shaped
    <3> QED
      BY <1>1, <3>1
  <2>2. ~Restarts'
    <3>1. dropping.generation \in Nat /\ dropping.generation <= generation /\ generation \in Nat
      BY DEF OlderHold, Shaped
    <3>2. dropping.generation # generation'
      BY <1>1, <3>1
    <3> QED
      BY <1>1, <3>2 DEF Restarts
  <2>3. \A n \in Numbers : ~Token(n)'
    BY <1>1, <2>1 DEF Token
  <2>4. Entering(generation') \in calls'
    BY <1>1
  <2> QED
    BY <1>1, <1>2, <2>1, <2>2, <2>3, <2>4 DEF OneListens
<1> QED
  BY <1>4, <1>5, <1>6, <1>8, <1>9, <1>10, <1>11

LEMMA StopKeeps ==
  ASSUME AcceptIInv, Command, StopAcceptingConnections, MaxCommands \in Nat
  PROVE  AcceptIInv'
<1> USE DEF AcceptIInv
<1>1. /\ accepting' = FALSE /\ generation' = generation + 1 /\ out' = 0
      /\ listeners' = Posted(listeners, inbound, "disconnect") /\ inbound' = {} /\ calls' = calls
      /\ dropping' = dropping /\ commands < MaxCommands /\ commands' = commands + 1
  BY DEF Command, StopAcceptingConnections
<1>2. inbound \in SUBSET Numbers
  BY DEF Shaped
<1>3. /\ \A k \in calls : Stale(k)' /\ k.generation # generation' /\ k.generation <= generation'
      /\ generation' \in Nat /\ generation <= generation'
  BY <1>1, AllStale
<1>4. /\ listeners' \in Seq(Listener) /\ Numbers' = Numbers
      /\ \A n \in Numbers : /\ listeners'[n].generation = listeners[n].generation
                            /\ Hears(n)' <=> Hears(n)
                            /\ EndsShut(listeners[n].queue) => EndsShut(listeners'[n].queue)
                            /\ n \in inbound => EndsShut(listeners'[n].queue)
  BY <1>1, <1>2, DisconnectPosted
<1>5. \A n : ToSeek(n)' <=> ToSeek(n)
  BY <1>1 DEF ToSeek
<1>6. SeeksHold' /\ \A n \in Numbers : WillSeek(n)' <=> WillSeek(n)
  BY <1>1, <1>2, <1>5, DisconnectKeeps
<1>7. Shaped'
  <2>1. out' \in 0 .. generation'
    BY <1>1, <1>3
  <2>2. commands' = generation' /\ commands' <= MaxCommands
    BY <1>1 DEF Shaped
  <2> QED
    BY <1>1, <1>3, <1>4, <2>1, <2>2 DEF Shaped
<1>8. CallsHold'
  BY <1>1, <1>3, <1>4 DEF CallsHold, About, Entering
<1>9. OlderHold'
  <2>1. \A n \in Numbers : listeners'[n].generation <= generation'
    <3> TAKE n \in Numbers
    <3>1. listeners[n].generation \in Nat /\ listeners[n].generation <= generation /\ generation \in Nat
      BY ListenerFacts DEF OlderHold, Shaped
    <3> QED
      BY <1>1, <1>4, <3>1
  <2>2. dropping.generation <= generation'
    BY <1>3 DEF Shaped, OlderHold
  <2> QED
    BY <1>1, <1>4, <2>1, <2>2 DEF OlderHold, Shaped
<1>10. StoppedHolds'
  BY <1>1 DEF StoppedHolds
<1>11. CoveredHold'
  <2> SUFFICES ASSUME NEW n \in Numbers, Hears(n)' \/ WillSeek(n)' PROVE Covered(n)'
    BY <1>4 DEF CoveredHold
  <2>1. Covered(n)
    BY <1>4, <1>6 DEF CoveredHold
  <2>2. CASE \E k \in calls : About(k, n)
    BY <1>1, <1>3, <2>2 DEF Covered, About
  <2>3. CASE ~\E k \in calls : About(k, n)
    <3>1. ~ToSeek(n)'
      BY <1>5, <2>3 DEF ToSeek, About
    <3>2. EndsShut(listeners'[n].queue)
      BY <1>4, <2>1, <2>3 DEF Covered
    <3> QED
      BY <3>1, <3>2 DEF Covered
  <2> QED
    BY <2>2, <2>3
<1>12. ~Watching'
  BY <1>1 DEF Watching
<1> QED
  BY <1>6, <1>7, <1>8, <1>9, <1>10, <1>11, <1>12

LEMMA DisconnectBegins ==
  ASSUME AcceptIInv, Command, Disconnect, MaxCommands \in Nat
  PROVE  AcceptIInv'
<1> USE DEF AcceptIInv
<1>1. /\ ~dropping.on /\ generation' = generation + 1 /\ commands < MaxCommands /\ commands' = commands + 1
      /\ out' = IF out # 0 /\ accepting THEN generation + 1 ELSE out
      /\ dropping' = [on |-> TRUE, who |-> inbound, restart |-> accepting, generation |-> generation + 1]
      /\ accepting' = accepting /\ inbound' = inbound /\ listeners' = listeners /\ calls' = calls /\ failed' = failed
  BY DEF Command, Disconnect
<1>2. Numbers' = Numbers
  BY <1>1 DEF Numbers
<1>3. /\ \A k \in calls : Stale(k)' /\ k.generation # generation' /\ k.generation <= generation'
      /\ generation' \in Nat /\ generation <= generation' /\ generation + 1 \in Nat
  BY <1>1, AllStale
<1>4. \A n \in Numbers : listeners[n].generation <= generation' /\ listeners[n].generation < generation'
  <2> TAKE n \in Numbers
  <2>1. listeners[n].generation \in Nat /\ listeners[n].generation <= generation /\ generation \in Nat
    BY ListenerFacts DEF OlderHold, Shaped
  <2> QED
    BY <1>1, <2>1
<1>5. Shaped'
  <2>1. out' \in 0 .. generation'
    BY <1>1 DEF Shaped
  <2>2. dropping' \in [on : BOOLEAN, who : SUBSET Numbers, restart : BOOLEAN, generation : Nat]
    BY <1>1, <1>3 DEF Shaped
  <2>3. generation' \in Nat /\ commands' = generation' /\ commands' <= MaxCommands
    BY <1>1 DEF Shaped
  <2> QED
    BY <1>1, <1>2, <2>1, <2>2, <2>3 DEF Shaped
<1>6. CallsHold'
  BY <1>1, <1>2, <1>3 DEF CallsHold, About, Entering
<1>7. OlderHold'
  <2>1. inbound \subseteq Numbers
    BY DEF Shaped
  <2>2. dropping'.generation = generation' /\ dropping'.who = inbound
    BY <1>1
  <2>3. generation' <= generation'
    BY <1>3
  <2> QED
    BY <1>1, <1>2, <1>4, <2>1, <2>2, <2>3 DEF OlderHold
<1>8. \A n : /\ Listening(n)' <=> Listening(n)
             /\ ToSeek(n)' <=> ToSeek(n)
             /\ WillSeek(n)' <=> WillSeek(n)
             /\ Hears(n)' <=> Hears(n)
  BY <1>1 DEF Listening, ToSeek, WillSeek, Hears
<1>9. SeeksHold'
  BY <1>1, <1>2, <1>8 DEF SeeksHold
<1>10. StoppedHolds'
  BY <1>1 DEF StoppedHolds
<1>11. CoveredHold'
  <2>1. \A n \in Numbers : Covered(n) => Covered(n)'
    BY <1>1, <1>3, <1>8 DEF Covered, About
  <2> QED
    BY <1>2, <1>8, <2>1 DEF CoveredHold
<1>12. ASSUME Watching' PROVE OneListens'
  <2>1. accepting
    BY <1>1, <1>12 DEF Watching
  <2>2. Restarts'
    BY <1>1, <2>1 DEF Restarts
  <2>3. \A n \in Numbers : listeners[n].generation # generation'
    <3> TAKE n \in Numbers
    <3>1. listeners[n].generation \in Nat /\ listeners[n].generation <= generation /\ generation \in Nat
      BY ListenerFacts DEF OlderHold, Shaped
    <3> QED
      BY <1>1, <3>1
  <2>4. \A n \in Numbers : ~Token(n)'
    BY <1>1, <2>3 DEF Token
  <2>5. Entering(generation') \notin calls'
    BY <1>1, <1>3, EnteringFacts
  <2> QED
    BY <1>1, <1>2, <2>2, <2>3, <2>4, <2>5 DEF OneListens
<1> QED
  BY <1>5, <1>6, <1>7, <1>9, <1>10, <1>11, <1>12

LEMMA DisconnectFinishes ==
  ASSUME AcceptIInv, FinishDisconnect
  PROVE  AcceptIInv'
<1> USE DEF AcceptIInv
<1>1. /\ dropping.on /\ listeners' = Posted(listeners, dropping.who, "disconnect") /\ dropping' = NoDrop
      /\ calls' = IF dropping.restart THEN calls \cup {Entering(dropping.generation)} ELSE calls
      /\ accepting' = accepting /\ generation' = generation /\ out' = out /\ inbound' = inbound
      /\ commands' = commands /\ failed' = failed
  BY DEF FinishDisconnect
<1>2. /\ dropping.who \in SUBSET Numbers /\ dropping.generation \in Nat /\ dropping.restart \in BOOLEAN
      /\ generation \in Nat /\ dropping.generation <= generation /\ generation <= generation
  BY DEF Shaped, OlderHold
<1>3. /\ listeners' \in Seq(Listener) /\ Numbers' = Numbers
      /\ \A n \in Numbers : /\ listeners'[n].generation = listeners[n].generation
                            /\ Listening(n)' <=> Listening(n)
                            /\ Hears(n)' <=> Hears(n)
                            /\ EndsShut(listeners[n].queue) => EndsShut(listeners'[n].queue)
                            /\ n \notin dropping.who => listeners'[n] = listeners[n]
  BY <1>1, <1>2, DisconnectPosted
<1>4. /\ calls' \subseteq Call /\ CallsHold' /\ \A n : ToSeek(n)' <=> ToSeek(n)
      /\ \A n : (\E k \in calls : About(k, n) /\ Stale(k)) => \E k \in calls' : About(k, n) /\ Stale(k)'
  <2>1. \A k : Stale(k)' <=> Stale(k)
    BY <1>1 DEF Stale
  <2>2. CASE dropping.restart
    <3>1. calls' = calls \cup {Entering(dropping.generation)}
      BY <1>1, <2>2
    <3>2. /\ calls' \subseteq Call /\ CallsHold' /\ \A n : ToSeek(n)' <=> ToSeek(n)
          /\ \A n : (\E k \in calls' : About(k, n) /\ Stale(k)') <=> \E k \in calls : About(k, n) /\ Stale(k)'
      BY <1>1, <1>2, <1>3, <3>1, CallsGrow
    <3> QED
      BY <2>1, <3>2
  <2>3. CASE ~dropping.restart
    <3>1. calls' = calls
      BY <1>1, <2>3
    <3>2. CallsHold'
      BY <1>1, <1>3, <3>1 DEF CallsHold, About, Entering
    <3> QED
      BY <2>1, <3>1, <3>2 DEF Shaped, ToSeek
  <2> QED
    BY <2>2, <2>3
<1>5. SeeksHold' /\ \A n \in Numbers : WillSeek(n)' <=> WillSeek(n)
  BY <1>1, <1>2, <1>4, DisconnectKeeps
<1>6. Shaped'
  <2>1. dropping' \in [on : BOOLEAN, who : SUBSET Numbers, restart : BOOLEAN, generation : Nat]
    BY <1>1 DEF NoDrop
  <2> QED
    BY <1>1, <1>3, <1>4, <2>1 DEF Shaped
<1>7. OlderHold'
  <2>1. dropping'.generation = 0 /\ dropping'.who = {} /\ 0 <= generation
    BY <1>1, <1>2 DEF NoDrop
  <2> QED
    BY <1>1, <1>3, <2>1 DEF OlderHold
<1>8. StoppedHolds'
  BY <1>1 DEF StoppedHolds
<1>9. CoveredHold'
  <2>1. \A n \in Numbers : Covered(n) => Covered(n)'
    BY <1>1, <1>3, <1>4 DEF Covered
  <2> QED
    BY <1>3, <1>5, <2>1 DEF CoveredHold
<1>10. ASSUME Watching' PROVE OneListens'
  <2>1. OneListens
    BY <1>1, <1>10 DEF Watching
  <2>2. \A n \in Numbers : listeners[n].generation = generation => listeners'[n] = listeners[n]
    <3> SUFFICES ASSUME NEW n \in dropping.who, listeners[n].generation = generation PROVE FALSE
      BY <1>3
    <3>1. n \in Numbers /\ listeners[n].generation < dropping.generation
      BY <1>2 DEF OlderHold
    <3> QED
      BY <1>2, <3>1
  <2>3. \A n \in Numbers : Token(n)' <=> Token(n)
    BY <1>1, <1>3, <1>5 DEF Token
  <2>4. Entering(generation) \in calls' <=> Entering(generation) \in calls \/ Restarts
    <3>1. CASE dropping.restart
      <4>1. calls' = calls \cup {Entering(dropping.generation)}
        BY <1>1, <3>1
      <4>2. Entering(generation) = Entering(dropping.generation) <=> dropping.generation = generation
        BY <1>2, EnteringFacts
      <4> QED
        BY <1>1, <3>1, <4>1, <4>2 DEF Restarts
    <3>2. CASE ~dropping.restart
      BY <1>1, <3>2 DEF Restarts
    <3> QED
      BY <3>1, <3>2
  <2>5. ~Restarts'
    BY <1>1 DEF Restarts, NoDrop
  <2>6. \A n \in Numbers : listeners'[n].generation = generation' => ~HasDisconnect(listeners'[n].queue)
    BY <1>1, <1>3, <2>1, <2>2 DEF OneListens
  <2> HIDE DEF AcceptIInv
  <2> QED
    BY <1>1, <1>3, <2>1, <2>3, <2>4, <2>5, <2>6 DEF OneListens
<1> QED
  BY <1>4, <1>5, <1>6, <1>7, <1>8, <1>9, <1>10

-------------------------------------------------------------------------------
(* A thread inside SeekInitialConnection. *)

LEMMA StaleCallLeaves ==
  ASSUME AcceptIInv, NEW k \in calls, Registers(k), Stale(k)
  PROVE  AcceptIInv'
<1> USE DEF AcceptIInv
<1>1. /\ k.at = "enter" /\ calls' = calls \ {k} /\ listeners' = listeners /\ inbound' = inbound
      /\ accepting' = accepting /\ generation' = generation /\ out' = out /\ dropping' = dropping
      /\ commands' = commands /\ failed' = failed
  BY DEF Registers
<1>2. Numbers' = Numbers
  BY <1>1 DEF Numbers
<1>3. \A n : /\ Listening(n)' <=> Listening(n)
             /\ ToSeek(n)' <=> ToSeek(n)
             /\ WillSeek(n)' <=> WillSeek(n)
             /\ Hears(n)' <=> Hears(n)
             /\ Token(n)' <=> Token(n)
  BY <1>1 DEF Listening, ToSeek, WillSeek, Hears, Token
<1>4. Shaped'
  BY <1>1, <1>2 DEF Shaped
<1>5. CallsHold'
  BY <1>1, <1>2 DEF CallsHold, About, Entering
<1>6. OlderHold'
  BY <1>1, <1>2 DEF OlderHold
<1>7. SeeksHold'
  BY <1>1, <1>2, <1>3 DEF SeeksHold
<1>8. StoppedHolds'
  BY <1>1 DEF StoppedHolds
<1>9. CoveredHold'
  <2>1. \A n \in Numbers : Covered(n) => Covered(n)'
    BY <1>1, <1>3 DEF Covered, About, Stale
  <2> QED
    BY <1>2, <1>3, <2>1 DEF CoveredHold
<1>10. ASSUME Watching' PROVE OneListens'
  <2>1. OneListens /\ accepting
    BY <1>1, <1>10 DEF Watching
  <2>2. generation \in Nat
    BY DEF Shaped
  <2>3. k # Entering(generation)
    BY <2>1, <2>2, EnteringFacts DEF Stale
  <2>4. Restarts' <=> Restarts
    BY <1>1 DEF Restarts
  <2> HIDE DEF AcceptIInv
  <2> QED
    BY <1>1, <1>2, <1>3, <2>1, <2>3, <2>4 DEF OneListens
<1> QED
  BY <1>4, <1>5, <1>6, <1>7, <1>8, <1>9, <1>10

LEMMA CallRegisters ==
  ASSUME AcceptIInv, NEW k \in calls, Registers(k), ~Stale(k)
  PROVE  AcceptIInv'
<1> USE DEF AcceptIInv
<1>0. PICK n : n = Len(listeners) + 1
  OBVIOUS
<1> DEFINE new == [state |-> "DISCONNECTED", acceptor |-> "closed", queue |-> <<>>, generation |-> k.generation]
           next == [k EXCEPT !.at = "seek", !.number = n]
<1>1. /\ k.at = "enter" /\ listeners' = Append(listeners, new) /\ inbound' = inbound \cup {n}
      /\ calls' = (calls \ {k}) \cup {next}
      /\ accepting' = accepting /\ generation' = generation /\ out' = out /\ dropping' = dropping
      /\ commands' = commands /\ failed' = failed
  BY <1>0 DEF Registers
<1>2. /\ accepting = TRUE /\ k.generation = generation /\ k \in Call /\ generation \in Nat /\ k = Entering(generation)
  <2>1. accepting \in BOOLEAN
    BY DEF Shaped
  <2>2. k.generation = generation
    BY DEF Stale
  <2>3. k = Entering(k.generation)
    BY <1>1 DEF CallsHold
  <2>4. k \in Call /\ generation \in Nat
    BY DEF Shaped
  <2>5. accepting
    BY DEF Stale
  <2> QED
    BY <2>1, <2>2, <2>3, <2>4, <2>5
<1>3. /\ Len(listeners) \in Nat /\ Numbers = 1 .. Len(listeners) /\ listeners \in Seq(Listener)
  BY LenProperties DEF Shaped, Numbers
<1>4. n \in Nat /\ n \notin Numbers
  BY <1>0, <1>3
<1>5. /\ new.state = "DISCONNECTED" /\ new.acceptor = "closed" /\ new.queue = <<>> /\ new.generation = generation
      /\ new \in Listener
  BY <1>2 DEF Listener
<1>6. next \in Call /\ next.at = "seek" /\ next.number = n /\ next.generation = generation
  BY <1>2, <1>4 DEF Call
<1> HIDE DEF new, next
<1>7. /\ listeners' \in Seq(Listener) /\ Len(listeners') = Len(listeners) + 1 /\ listeners'[n] = new
      /\ \A m \in 1 .. Len(listeners) : listeners'[m] = listeners[m]
  BY <1>0, <1>1, <1>3, <1>5, AppendProperties
<1>8. /\ Numbers' = Numbers \cup {n} /\ \A m \in Numbers : listeners'[m] = listeners[m] /\ m # n
  <2>1. Numbers' = 1 .. Len(listeners) + 1
    BY <1>7, LenProperties DEF Numbers
  <2> QED
    BY <1>0, <1>3, <1>7, <2>1
<1>9. \A l \in calls : l.at # "enter" => l.number \in Numbers /\ l.number # n /\ l # k
  BY <1>1, <1>4 DEF CallsHold
<1>10. \A m \in Numbers : /\ Listening(m)' <=> Listening(m)
                          /\ ToSeek(m)' <=> ToSeek(m)
                          /\ WillSeek(m)' <=> WillSeek(m)
                          /\ Hears(m)' <=> Hears(m)
                          /\ Token(m)' <=> Token(m)
  <2> TAKE m \in Numbers
  <2>1. (Listening(m)' <=> Listening(m)) /\ (Hears(m)' <=> Hears(m))
    BY <1>8 DEF Listening, Hears
  <2>2. ToSeek(m)' <=> ToSeek(m)
    BY <1>1, <1>6, <1>8 DEF ToSeek
  <2>3. WillSeek(m)' <=> WillSeek(m)
    BY <1>8, <2>2 DEF WillSeek
  <2> QED
    BY <1>1, <1>8, <2>1, <2>2, <2>3 DEF Token
<1>11. /\ ToSeek(n)' /\ WillSeek(n)' /\ ~Listening(n)' /\ ~HasSeek(listeners'[n].queue)
       /\ ~HasDisconnect(listeners'[n].queue) /\ OneSeek(listeners'[n].queue) /\ listeners'[n].state = "DISCONNECTED"
  <2>1. ToSeek(n)'
    BY <1>1, <1>6 DEF ToSeek
  <2>2. listeners'[n].queue = <<>> /\ DOMAIN listeners'[n].queue = {}
    BY <1>5, <1>7
  <2>3. ~HasSeek(listeners'[n].queue) /\ ~HasDisconnect(listeners'[n].queue) /\ OneSeek(listeners'[n].queue)
    BY <2>2 DEF HasSeek, HasDisconnect, OneSeek
  <2> QED
    BY <1>5, <1>7, <2>1, <2>3 DEF WillSeek, Listening
<1>12. Shaped'
  BY <1>1, <1>6, <1>7, <1>8 DEF Shaped
<1>13. CallsHold'
  <2>1. \A l \in calls' : l.generation <= generation'
    BY <1>1, <1>2, <1>6 DEF CallsHold
  <2>2. \A l \in calls' : IF l.at = "enter" THEN l = Entering(l.generation)
                          ELSE l.number \in Numbers' /\ listeners'[l.number].generation = l.generation
    <3> TAKE l \in calls'
    <3>1. CASE l = next
      BY <1>5, <1>6, <1>7, <1>8, <3>1
    <3>2. CASE l \in calls
      BY <1>8, <3>2 DEF CallsHold
    <3> QED
      BY <1>1, <3>1, <3>2
  <2>3. \A l, j \in calls' : l.at # "enter" /\ About(j, l.number) => l = j
    <3> SUFFICES ASSUME NEW l \in calls', NEW j \in calls', l.at # "enter", j.at # "enter", j.number = l.number
                 PROVE  l = j
      BY DEF About
    <3>1. CASE l \in calls /\ j \in calls
      BY <3>1 DEF CallsHold, About
    <3>2. CASE l = next \/ j = next
      BY <1>1, <1>6, <1>9, <3>2
    <3> QED
      BY <1>1, <3>1, <3>2
  <2> QED
    BY <2>1, <2>2, <2>3 DEF CallsHold, About
<1>14. OlderHold'
  <2>1. \A m \in Numbers' : listeners'[m].generation <= generation'
    <3>1. listeners'[n].generation = generation /\ generation <= generation
      BY <1>2, <1>5, <1>7
    <3>2. \A m \in Numbers : listeners'[m].generation <= generation
      BY <1>8 DEF OlderHold
    <3> QED
      BY <1>1, <1>8, <3>1, <3>2
  <2>2. \A m \in dropping.who : m \in Numbers
    BY DEF Shaped
  <2> QED
    BY <1>1, <1>8, <2>1, <2>2 DEF OlderHold
<1>15. SeeksHold'
  BY <1>8, <1>10, <1>11 DEF SeeksHold
<1>16. StoppedHolds'
  BY <1>1, <1>2 DEF StoppedHolds
<1>17. CoveredHold'
  <2>1. Covered(n)'
    BY <1>1 DEF Covered
  <2>2. ASSUME NEW m \in Numbers, Covered(m) PROVE Covered(m)'
    BY <1>1, <1>8, <1>10, <2>2 DEF Covered, About, Stale
  <2> QED
    BY <1>8, <1>10, <2>1, <2>2 DEF CoveredHold
<1>18. ASSUME Watching' PROVE OneListens'
  <2>1. OneListens
    BY <1>1, <1>18 DEF Watching
  <2>2. Entering(generation) \in calls /\ Entering(generation) \notin calls'
    BY <1>1, <1>2, <1>6, EnteringFacts
  <2>3. ~Restarts' /\ \A m \in Numbers : ~Token(m)
    <3>1. Restarts' <=> Restarts
      BY <1>1 DEF Restarts
    <3> QED
      BY <2>1, <2>2, <3>1 DEF OneListens
  <2>4. Token(n)'
    BY <1>1, <1>5, <1>7, <1>11 DEF Token
  <2>5. \A m \in Numbers' : listeners'[m].generation = generation' => ~HasDisconnect(listeners'[m].queue)
    BY <1>1, <1>8, <1>11, <2>1 DEF OneListens
  <2>6. \A m \in Numbers' : Token(m)' => m = n
    BY <1>8, <1>10, <2>3
  <2> HIDE DEF AcceptIInv
  <2> QED
    BY <1>1, <1>8, <2>2, <2>3, <2>4, <2>5, <2>6 DEF OneListens
<1> QED
  BY <1>12, <1>13, <1>14, <1>15, <1>16, <1>17, <1>18

LEMMA CallSeeks ==
  ASSUME AcceptIInv, NEW k \in calls, Seeks(k)
  PROVE  AcceptIInv'
<1> USE DEF AcceptIInv
<1>0. PICK n : n = k.number
  OBVIOUS
<1> DEFINE next == [k EXCEPT !.at = "check"]
<1>1. /\ k.at = "seek" /\ listeners' = Posted(listeners, {n}, "seek")
      /\ calls' = (calls \ {k}) \cup {next} /\ inbound' = inbound
      /\ accepting' = accepting /\ generation' = generation /\ out' = out /\ dropping' = dropping
      /\ commands' = commands /\ failed' = failed
  BY <1>0 DEF Seeks
<1>2. k \in Call /\ n \in Numbers /\ {n} \in SUBSET Numbers /\ listeners[n].generation = k.generation /\ ToSeek(n)
  <2>1. k \in Call /\ n \in Numbers /\ listeners[n].generation = k.generation
    BY <1>0, <1>1 DEF Shaped, CallsHold
  <2> QED
    BY <1>0, <1>1, <2>1 DEF ToSeek
<1>3. \A l \in calls : About(l, n) => l = k
  BY <1>0, <1>1 DEF CallsHold
<1>4. next \in Call /\ next.at = "check" /\ next.number = n /\ next.generation = k.generation
  BY <1>0, <1>2 DEF Call
<1> HIDE DEF next
<1>5. "seek" \in Operations
  BY DEF Operations
<1>6. /\ listeners' \in Seq(Listener) /\ Numbers' = Numbers
      /\ \A m \in Numbers \ {n} : listeners'[m] = listeners[m]
      /\ \A m \in Numbers :
           /\ listeners'[m].state = listeners[m].state /\ listeners'[m].acceptor = listeners[m].acceptor
           /\ listeners'[m].generation = listeners[m].generation
      /\ \A m \in {n} : listeners'[m].queue = Append(listeners[m].queue, "seek")
  BY <1>1, <1>2, <1>5, PostedFacts
<1>7. ~HasSeek(listeners[n].queue) /\ listeners[n].queue \in Seq(Operations)
  BY <1>2, ListenerFacts DEF SeeksHold
<1>8. /\ HasSeek(listeners'[n].queue) /\ OneSeek(listeners'[n].queue)
      /\ HasDisconnect(listeners'[n].queue) <=> HasDisconnect(listeners[n].queue)
  <2> DEFINE r == Append(listeners[n].queue, "seek")
  <2>1. HasSeek(r) /\ OneSeek(r) /\ (HasDisconnect(r) <=> HasDisconnect(listeners[n].queue) \/ "seek" = "disconnect")
    BY <1>5, <1>7, QueueAppends
  <2>2. listeners'[n].queue = r
    BY <1>6
  <2> HIDE DEF r
  <2> QED
    BY <2>1, <2>2
<1>9. ~ToSeek(n)' /\ \A m : m # n => (ToSeek(m)' <=> ToSeek(m))
  <2>1. ~ToSeek(n)'
    BY <1>1, <1>3, <1>4 DEF ToSeek, About
  <2>2. ASSUME NEW m, m # n PROVE ToSeek(m)' <=> ToSeek(m)
    BY <1>0, <1>1, <1>4, <2>2 DEF ToSeek
  <2> QED
    BY <2>1, <2>2
<1>10. \A m \in Numbers : /\ Listening(m)' <=> Listening(m)
                          /\ WillSeek(m)' <=> WillSeek(m)
                          /\ Hears(m)' <=> Hears(m)
                          /\ Token(m)' <=> Token(m)
  <2> TAKE m \in Numbers
  <2>1. (Listening(m)' <=> Listening(m)) /\ (Hears(m)' <=> Hears(m))
    BY <1>6 DEF Listening, Hears
  <2>2. WillSeek(m)' <=> WillSeek(m)
    <3>1. CASE m = n
      BY <1>2, <1>8, <3>1 DEF WillSeek
    <3>2. CASE m # n
      BY <1>6, <1>9, <3>2 DEF WillSeek
    <3> QED
      BY <3>1, <3>2
  <2> QED
    BY <1>1, <1>6, <2>1, <2>2 DEF Token
<1>11. Shaped'
  BY <1>1, <1>4, <1>6 DEF Shaped
<1>12. CallsHold'
  <2>1. \A l \in calls' : l.generation <= generation'
    BY <1>1, <1>4 DEF CallsHold
  <2>2. \A l \in calls' : IF l.at = "enter" THEN l = Entering(l.generation)
                          ELSE l.number \in Numbers' /\ listeners'[l.number].generation = l.generation
    <3> TAKE l \in calls'
    <3>1. CASE l = next
      BY <1>2, <1>4, <1>6, <3>1
    <3>2. CASE l \in calls
      BY <1>6, <3>2 DEF CallsHold
    <3> QED
      BY <1>1, <3>1, <3>2
  <2>3. \A l, j \in calls' : l.at # "enter" /\ About(j, l.number) => l = j
    <3> SUFFICES ASSUME NEW l \in calls', NEW j \in calls', l.at # "enter", j.at # "enter", j.number = l.number
                 PROVE  l = j
      BY DEF About
    <3>1. CASE l \in calls /\ j \in calls
      BY <3>1 DEF CallsHold, About
    <3>2. CASE l = next \/ j = next
      BY <1>1, <1>3, <1>4, <3>2 DEF About
    <3> QED
      BY <1>1, <3>1, <3>2
  <2> QED
    BY <2>1, <2>2, <2>3 DEF CallsHold, About
<1>13. OlderHold'
  <2>1. dropping.who \subseteq Numbers
    BY DEF Shaped
  <2> QED
    BY <1>1, <1>6, <2>1 DEF OlderHold
<1>14. SeeksHold'
  <2> SUFFICES ASSUME NEW m \in Numbers
               PROVE  /\ WillSeek(m)' => listeners'[m].state = "DISCONNECTED" /\ ~Listening(m)'
                      /\ ToSeek(m)' => ~HasSeek(listeners'[m].queue)
                      /\ OneSeek(listeners'[m].queue)
                      /\ Listening(m)' => listeners'[m].state = "CONNECTING"
    BY <1>6 DEF SeeksHold
  <2>1. CASE m = n
    BY <1>6, <1>8, <1>9, <1>10, <2>1 DEF SeeksHold
  <2>2. CASE m # n
    BY <1>6, <1>9, <1>10, <2>2 DEF SeeksHold
  <2> QED
    BY <2>1, <2>2
<1>15. StoppedHolds'
  BY <1>1 DEF StoppedHolds
<1>16. CoveredHold'
  <2>1. ASSUME NEW m \in Numbers, Covered(m) PROVE Covered(m)'
    <3>1. CASE m \in inbound
      BY <1>1, <3>1 DEF Covered
    <3>2. CASE \E l \in calls : About(l, m) /\ Stale(l)
      <4>1. PICK l \in calls : About(l, m) /\ Stale(l)
        BY <3>2
      <4>2. CASE l = k
        BY <1>1, <1>4, <1>0, <4>1, <4>2 DEF Covered, About, Stale
      <4>3. CASE l # k
        BY <1>1, <4>1, <4>3 DEF Covered, About, Stale
      <4> QED
        BY <4>2, <4>3
    <3>3. CASE EndsShut(listeners[m].queue) /\ ~ToSeek(m)
      <4>1. m # n
        BY <1>2, <3>3
      <4> QED
        BY <1>6, <1>9, <3>3, <4>1 DEF Covered
    <3> QED
      BY <2>1, <3>1, <3>2, <3>3 DEF Covered
  <2> QED
    BY <1>6, <1>10, <2>1 DEF CoveredHold
<1>17. ASSUME Watching' PROVE OneListens'
  <2>1. OneListens
    BY <1>1, <1>17 DEF Watching
  <2>2. Entering(generation) \in calls' <=> Entering(generation) \in calls
    <3>1. Entering(generation).at = "enter"
      BY DEF Entering
    <3> QED
      BY <1>1, <1>4, <3>1
  <2>3. Restarts' <=> Restarts
    BY <1>1 DEF Restarts
  <2>4. \A m \in Numbers : listeners'[m].generation = generation' => ~HasDisconnect(listeners'[m].queue)
    BY <1>1, <1>6, <1>8, <2>1 DEF OneListens
  <2> HIDE DEF AcceptIInv
  <2> QED
    BY <1>1, <1>6, <1>10, <2>1, <2>2, <2>3, <2>4 DEF OneListens
<1> QED
  BY <1>11, <1>12, <1>13, <1>14, <1>15, <1>16, <1>17

LEMMA CallChecks ==
  ASSUME AcceptIInv, NEW k \in calls, ChecksAgain(k)
  PROVE  AcceptIInv'
<1> USE DEF AcceptIInv
<1>0. PICK n : n = k.number
  OBVIOUS
<1>1. /\ k.at = "check" /\ listeners' = IF Stale(k) THEN Posted(listeners, {n}, "disconnect") ELSE listeners
      /\ calls' = calls \ {k} /\ inbound' = inbound
      /\ accepting' = accepting /\ generation' = generation /\ out' = out /\ dropping' = dropping
      /\ commands' = commands /\ failed' = failed
  BY <1>0 DEF ChecksAgain
<1>2. n \in Numbers /\ {n} \in SUBSET Numbers /\ listeners[n].generation = k.generation
  BY <1>0, <1>1 DEF CallsHold
<1>3. \A l \in calls : About(l, n) => l = k
  BY <1>0, <1>1 DEF CallsHold
<1>4. \A m : ToSeek(m)' <=> ToSeek(m)
  BY <1>1 DEF ToSeek
<1>5. /\ listeners' \in Seq(Listener) /\ Numbers' = Numbers
      /\ \A m \in Numbers : /\ listeners'[m].generation = listeners[m].generation
                            /\ Listening(m)' <=> Listening(m)
                            /\ Hears(m)' <=> Hears(m)
                            /\ EndsShut(listeners[m].queue) => EndsShut(listeners'[m].queue)
                            /\ Stale(k) /\ m = n => EndsShut(listeners'[m].queue)
                            /\ m # n \/ ~Stale(k) => listeners'[m] = listeners[m]
      /\ SeeksHold' /\ \A m \in Numbers : WillSeek(m)' <=> WillSeek(m)
  <2>1. CASE Stale(k)
    <3>1. listeners' = Posted(listeners, {n}, "disconnect")
      BY <1>1, <2>1
    <3>2. SeeksHold' /\ \A m \in Numbers : WillSeek(m)' <=> WillSeek(m)
      BY <1>2, <1>4, <3>1, DisconnectKeeps
    <3>3. /\ listeners' \in Seq(Listener) /\ Numbers' = Numbers
          /\ \A m \in Numbers : /\ listeners'[m].generation = listeners[m].generation
                                /\ Listening(m)' <=> Listening(m)
                                /\ Hears(m)' <=> Hears(m)
                                /\ EndsShut(listeners[m].queue) => EndsShut(listeners'[m].queue)
                                /\ m \in {n} => EndsShut(listeners'[m].queue)
                                /\ m \notin {n} => listeners'[m] = listeners[m]
      BY <1>2, <3>1, DisconnectPosted
    <3> HIDE DEF AcceptIInv
    <3> QED
      BY <2>1, <3>2, <3>3
  <2>2. CASE ~Stale(k)
    <3>1. listeners' = listeners /\ Numbers' = Numbers
      BY <1>1, <2>2 DEF Numbers
    <3>2. \A m : /\ Listening(m)' <=> Listening(m)
                 /\ Hears(m)' <=> Hears(m)
                 /\ WillSeek(m)' <=> WillSeek(m)
      BY <1>4, <3>1 DEF Listening, Hears, WillSeek
    <3>3. SeeksHold'
      BY <1>4, <3>1, <3>2 DEF SeeksHold
    <3> QED
      BY <2>2, <3>1, <3>2, <3>3 DEF Shaped
  <2> QED
    BY <2>1, <2>2
<1>6. \A m \in Numbers : ~Stale(k) \/ m # n => (Token(m)' <=> Token(m))
  BY <1>1, <1>5 DEF Token
<1>7. Shaped'
  BY <1>1, <1>5 DEF Shaped
<1>8. CallsHold'
  BY <1>1, <1>5 DEF CallsHold, About, Entering
<1>9. OlderHold'
  <2>1. dropping.who \subseteq Numbers
    BY DEF Shaped
  <2> QED
    BY <1>1, <1>5, <2>1 DEF OlderHold
<1>10. StoppedHolds'
  BY <1>1 DEF StoppedHolds
<1>11. CoveredHold'
  <2>1. ASSUME NEW m \in Numbers, Covered(m) PROVE Covered(m)'
    <3>1. CASE m \in inbound
      BY <1>1, <3>1 DEF Covered
    <3>2. CASE \E l \in calls : About(l, m) /\ Stale(l)
      <4>1. PICK l \in calls : About(l, m) /\ Stale(l)
        BY <3>2
      <4>2. CASE l = k
        <5>1. m = n
          BY <1>0, <4>1, <4>2 DEF About
        <5>2. ~ToSeek(n)
          BY <1>1, <1>3 DEF ToSeek, About
        <5> QED
          BY <1>4, <1>5, <4>1, <4>2, <5>1, <5>2 DEF Covered
      <4>3. CASE l # k
        BY <1>1, <4>1, <4>3 DEF Covered, About, Stale
      <4> QED
        BY <4>2, <4>3
    <3>3. CASE EndsShut(listeners[m].queue) /\ ~ToSeek(m)
      BY <1>4, <1>5, <3>3 DEF Covered
    <3> QED
      BY <2>1, <3>1, <3>2, <3>3 DEF Covered
  <2> QED
    BY <1>5, <2>1 DEF CoveredHold
<1>12. ASSUME Watching' PROVE OneListens'
  <2>1. OneListens /\ accepting
    BY <1>1, <1>12 DEF Watching
  <2>2. Entering(generation) \in calls' <=> Entering(generation) \in calls
    <3>1. Entering(generation).at = "enter"
      BY DEF Entering
    <3> QED
      BY <1>1, <3>1
  <2>3. Restarts' <=> Restarts
    BY <1>1 DEF Restarts
  <2>4. Stale(k) => listeners[n].generation # generation
    BY <1>2, <2>1 DEF Stale
  <2>5. \A m \in Numbers : Token(m)' <=> Token(m)
    <3> TAKE m \in Numbers
    <3>1. CASE Stale(k) /\ m = n
      BY <1>1, <1>5, <2>4, <3>1 DEF Token
    <3> QED
      BY <1>6, <3>1
  <2>6. \A m \in Numbers : listeners'[m].generation = generation' => ~HasDisconnect(listeners'[m].queue)
    BY <1>1, <1>5, <2>1, <2>4 DEF OneListens
  <2> HIDE DEF AcceptIInv
  <2> QED
    BY <1>1, <1>5, <2>1, <2>2, <2>3, <2>5, <2>6 DEF OneListens
<1> QED
  BY <1>5, <1>7, <1>8, <1>9, <1>10, <1>11, <1>12

-------------------------------------------------------------------------------
(* The strand of one listener. *)

(* What a step of a strand keeps that leaves its listener disconnected while it is to seek, and *)
(* covered while somebody may be heard at it.                                                    *)
LEMMA StrandKeeps ==
  ASSUME AcceptIInv, NEW n \in Numbers, NEW state \in {"DISCONNECTED", "CONNECTING", "CONNECTED"},
         NEW acceptor \in {"closed", "open", "arrived"}, NEW queue \in Seq(Operations),
         Becomes(n, state, acceptor, queue),
         accepting' = accepting, generation' = generation, out' = out, dropping' = dropping, commands' = commands,
         inbound' = inbound \/ inbound' = inbound \ {n},
         calls' = calls \/ calls' = calls \cup {Entering(listeners[n].generation)},
         OneSeek(queue), HasSeek(queue) => HasSeek(listeners[n].queue), acceptor # "closed" => state = "CONNECTING",
         HasSeek(queue) \/ ToSeek(n) => state = "DISCONNECTED" /\ acceptor = "closed",
         \/ ~HasSeek(queue) /\ ~ToSeek(n) /\ state # "CONNECTED" /\ acceptor = "closed"
         \/ inbound' = inbound /\ Covered(n) /\ (EndsShut(listeners[n].queue) /\ ~ToSeek(n) => EndsShut(queue))
  PROVE  /\ Shaped' /\ CallsHold' /\ OlderHold' /\ SeeksHold' /\ StoppedHolds' /\ CoveredHold'
         /\ Numbers' = Numbers /\ listeners'[n].queue = queue /\ listeners'[n].generation = listeners[n].generation
         /\ \A m \in Numbers \ {n} : listeners'[m] = listeners[m] /\ (Token(m)' <=> Token(m))
         /\ Token(n)' <=> listeners[n].generation = generation
                            /\ (acceptor # "closed" \/ HasSeek(queue) \/ ToSeek(n))
<1> USE DEF AcceptIInv
<1>1. /\ listeners' \in Seq(Listener) /\ Numbers' = Numbers
      /\ \A m \in Numbers \ {n} : listeners'[m] = listeners[m]
      /\ listeners'[n].state = state /\ listeners'[n].acceptor = acceptor /\ listeners'[n].queue = queue
      /\ listeners'[n].generation = listeners[n].generation
  BY BecomesFacts
<1>2. \A m \in Numbers : listeners'[m].generation = listeners[m].generation
  BY <1>1
<1>3. listeners[n].generation \in Nat /\ listeners[n].generation <= generation /\ generation \in Nat /\ generation <= generation
  BY ListenerFacts DEF OlderHold, Shaped
<1>4. /\ calls' \subseteq Call /\ CallsHold' /\ \A m : ToSeek(m)' <=> ToSeek(m)
      /\ \A m : (\E k \in calls : About(k, m) /\ Stale(k)) => \E k \in calls' : About(k, m) /\ Stale(k)'
  <2>1. \A k : Stale(k)' <=> Stale(k)
    BY DEF Stale
  <2>2. CASE calls' = calls
    <3>1. CallsHold'
      BY <1>1, <1>2, <2>2 DEF CallsHold, About, Entering
    <3> QED
      BY <2>1, <2>2, <3>1 DEF Shaped, ToSeek
  <2>3. CASE calls' = calls \cup {Entering(listeners[n].generation)}
    <3>1. /\ calls' \subseteq Call /\ CallsHold' /\ \A m : ToSeek(m)' <=> ToSeek(m)
          /\ \A m : (\E k \in calls' : About(k, m) /\ Stale(k)') <=> \E k \in calls : About(k, m) /\ Stale(k)'
      BY <1>1, <1>2, <1>3, <2>3, CallsGrow
    <3> QED
      BY <2>1, <3>1
  <2> QED
    BY <2>2, <2>3
<1>5. \A m \in Numbers \ {n} : /\ Listening(m)' <=> Listening(m)
                               /\ WillSeek(m)' <=> WillSeek(m)
                               /\ Hears(m)' <=> Hears(m)
  BY <1>1, <1>4 DEF Listening, WillSeek, Hears
<1>6. /\ Listening(n)' <=> acceptor # "closed"
      /\ WillSeek(n)' <=> HasSeek(queue) \/ ToSeek(n)
      /\ Hears(n)' <=> acceptor # "closed" \/ state = "CONNECTED"
  BY <1>1, <1>4 DEF Listening, WillSeek, Hears
<1>7. Shaped'
  BY <1>1, <1>4 DEF Shaped
<1>8. OlderHold'
  <2>1. dropping.who \subseteq Numbers
    BY DEF Shaped
  <2> QED
    BY <1>1, <1>2, <2>1 DEF OlderHold
<1>9. SeeksHold'
  <2> SUFFICES ASSUME NEW m \in Numbers
               PROVE  /\ WillSeek(m)' => listeners'[m].state = "DISCONNECTED" /\ ~Listening(m)'
                      /\ ToSeek(m)' => ~HasSeek(listeners'[m].queue)
                      /\ OneSeek(listeners'[m].queue)
                      /\ Listening(m)' => listeners'[m].state = "CONNECTING"
    BY <1>1 DEF SeeksHold
  <2>1. CASE m = n
    BY <1>1, <1>4, <1>6, <2>1 DEF SeeksHold
  <2>2. CASE m # n
    BY <1>1, <1>4, <1>5, <2>2 DEF SeeksHold
  <2> QED
    BY <2>1, <2>2
<1>10. StoppedHolds'
  BY DEF StoppedHolds
<1>11. CoveredHold'
  <2> SUFFICES ASSUME NEW m \in Numbers, Hears(m)' \/ WillSeek(m)' PROVE Covered(m)'
    BY <1>1 DEF CoveredHold
  <2>1. CASE m = n
    <3>1. inbound' = inbound /\ Covered(n) /\ (EndsShut(listeners[n].queue) /\ ~ToSeek(n) => EndsShut(queue))
      BY <1>6, <2>1
    <3> HIDE DEF AcceptIInv
    <3> QED
      BY <1>1, <1>4, <2>1, <3>1 DEF Covered
  <2>2. CASE m # n
    <3>1. Covered(m)
      BY <1>5, <2>2 DEF CoveredHold
    <3>2. m \in inbound => m \in inbound'
      BY <2>2
    <3> HIDE DEF AcceptIInv
    <3> QED
      BY <1>1, <1>4, <2>2, <3>1, <3>2 DEF Covered
  <2> QED
    BY <2>1, <2>2
<1>12. \A m \in Numbers \ {n} : Token(m)' <=> Token(m)
  BY <1>1, <1>5 DEF Token
<1>13. Token(n)' <=> listeners[n].generation = generation /\ (acceptor # "closed" \/ HasSeek(queue) \/ ToSeek(n))
  BY <1>1, <1>6 DEF Token
<1> HIDE DEF AcceptIInv
<1> QED
  BY <1>1, <1>4, <1>7, <1>8, <1>9, <1>10, <1>11, <1>12, <1>13

(* ... and which listener of the current generation listens. *)
LEMMA StrandListens ==
  ASSUME OneListens, NEW n \in Numbers, generation \in Nat, listeners[n].generation \in Nat,
         generation' = generation, dropping' = dropping, Numbers' = Numbers,
         listeners'[n].generation = listeners[n].generation,
         \A m \in Numbers \ {n} : listeners'[m] = listeners[m] /\ (Token(m)' <=> Token(m)),
         \/ calls' = calls
         \/ calls' = calls \cup {Entering(listeners[n].generation)} /\ listeners[n].generation # generation,
         listeners[n].generation = generation =>
             (Token(n)' <=> Token(n)) /\ (HasDisconnect(listeners'[n].queue) => HasDisconnect(listeners[n].queue))
  PROVE  OneListens'
<1>1. \A m \in Numbers : Token(m)' <=> Token(m)
  BY DEF Token
<1>2. Entering(generation) \in calls' <=> Entering(generation) \in calls
  BY EnteringFacts
<1>3. Restarts' <=> Restarts
  BY DEF Restarts
<1>4. \A m \in Numbers : listeners'[m].generation = generation' => ~HasDisconnect(listeners'[m].queue)
  BY DEF OneListens
<1> QED
  BY <1>1, <1>2, <1>3, <1>4 DEF OneListens

LEMMA SeekRuns ==
  ASSUME AcceptIInv, NEW n \in Numbers, CoSeek(n)
  PROVE  AcceptIInv'
<1> USE DEF AcceptIInv
<1> DEFINE q == listeners[n].queue
           t == Tail(q)
<1>1. /\ q # <<>> /\ Head(q) = "seek" /\ inbound' = inbound /\ calls' = calls
      /\ accepting' = accepting /\ generation' = generation /\ out' = out /\ dropping' = dropping
      /\ commands' = commands
      /\ \/ Becomes(n, "CONNECTING", "open", t) /\ failed' = failed
         \/ /\ Becomes(n, "CONNECTING", "closed", Append(t, "disconnect"))
            /\ failed' = failed \cup {listeners[n].generation}
  BY DEF CoSeek, Takes, Fails
<1>2. q \in Seq(Operations) /\ listeners[n].generation \in Nat /\ generation \in Nat
  BY ListenerFacts DEF Shaped
<1>3. OneSeek(q)
  BY DEF SeeksHold
<1>4. /\ t \in Seq(Operations) /\ OneSeek(t) /\ HasSeek(q) /\ ~HasSeek(t)
      /\ HasDisconnect(t) => HasDisconnect(q)
      /\ EndsShut(q) => EndsShut(t)
  BY <1>1, <1>2, <1>3, QueueTail
<1>5. "disconnect" \in Operations
  BY DEF Operations
<1>6. ~ToSeek(n) /\ WillSeek(n) /\ Covered(n)
  BY <1>4 DEF SeeksHold, WillSeek, CoveredHold
<1>7. CASE Becomes(n, "CONNECTING", "open", t) /\ failed' = failed
  <2>1. /\ Shaped' /\ CallsHold' /\ OlderHold' /\ SeeksHold' /\ StoppedHolds' /\ CoveredHold'
        /\ Numbers' = Numbers /\ listeners'[n].queue = t /\ listeners'[n].generation = listeners[n].generation
        /\ \A m \in Numbers \ {n} : listeners'[m] = listeners[m] /\ (Token(m)' <=> Token(m))
        /\ Token(n)' <=> listeners[n].generation = generation /\ ("open" # "closed" \/ HasSeek(t) \/ ToSeek(n))
    <3> HIDE DEF t
    <3> QED
      BY <1>1, <1>4, <1>6, <1>7, StrandKeeps
  <2>2. ASSUME Watching' PROVE OneListens'
    <3>1. OneListens
      BY <1>1, <1>7, <2>2 DEF Watching
    <3>2. listeners[n].generation = generation =>
             (Token(n)' <=> Token(n)) /\ (HasDisconnect(listeners'[n].queue) => HasDisconnect(listeners[n].queue))
      BY <1>4, <1>6, <2>1 DEF Token
    <3> HIDE DEF AcceptIInv
    <3> QED
      BY <1>1, <1>2, <2>1, <3>1, <3>2, StrandListens
  <2> QED
    BY <2>1, <2>2
<1>8. CASE Becomes(n, "CONNECTING", "closed", Append(t, "disconnect")) /\ failed' = failed \cup {listeners[n].generation}
  <2> DEFINE r == Append(t, "disconnect")
  <2>1. r \in Seq(Operations) /\ OneSeek(r) /\ ~HasSeek(r)
    <3> HIDE DEF t
    <3> QED
      BY <1>4, <1>5, QueueAppends
  <2>2. Becomes(n, "CONNECTING", "closed", r)
    BY <1>8
  <2> HIDE DEF r
  <2>3. /\ Shaped' /\ CallsHold' /\ OlderHold' /\ SeeksHold' /\ StoppedHolds' /\ CoveredHold'
        /\ Numbers' = Numbers /\ listeners'[n].queue = r /\ listeners'[n].generation = listeners[n].generation
        /\ \A m \in Numbers \ {n} : listeners'[m] = listeners[m] /\ (Token(m)' <=> Token(m))
    BY <1>1, <1>6, <2>1, <2>2, StrandKeeps
  <2>4. ASSUME Watching' PROVE OneListens'
    <3>1. OneListens /\ listeners[n].generation # generation
      BY <1>1, <1>8, <2>4 DEF Watching
    <3> HIDE DEF AcceptIInv
    <3> QED
      BY <1>1, <1>2, <2>3, <3>1, StrandListens
  <2> QED
    BY <2>3, <2>4
<1> QED
  BY <1>1, <1>7, <1>8

LEMMA PeerComes ==
  ASSUME AcceptIInv, NEW n \in Numbers, PeerArrives(n)
  PROVE  AcceptIInv'
<1> USE DEF AcceptIInv
<1> DEFINE q == listeners[n].queue
<1>1. /\ listeners[n].acceptor = "open" /\ inbound' = inbound /\ calls' = calls
      /\ accepting' = accepting /\ generation' = generation /\ out' = out /\ dropping' = dropping
      /\ commands' = commands /\ failed' = failed
      /\ listeners' = [listeners EXCEPT ![n].acceptor = "arrived"]
  BY DEF PeerArrives
<1>2. q \in Seq(Operations) /\ listeners[n].generation \in Nat /\ generation \in Nat /\ listeners[n] \in Listener
  BY ListenerFacts DEF Shaped
<1>3. Listening(n) /\ listeners[n].state = "CONNECTING" /\ ~WillSeek(n) /\ Covered(n) /\ OneSeek(q)
  BY <1>1 DEF Listening, SeeksHold, CoveredHold, Hears
<1>4. Becomes(n, "CONNECTING", "arrived", q)
  <2>1. [listeners[n] EXCEPT !.acceptor = "arrived"]
          = [listeners[n] EXCEPT !.state = "CONNECTING", !.acceptor = "arrived", !.queue = q]
    BY <1>2, <1>3 DEF Listener
  <2>2. listeners' = [listeners EXCEPT ![n] = [listeners[n] EXCEPT !.acceptor = "arrived"]]
    BY <1>1
  <2> QED
    BY <2>1, <2>2 DEF Becomes
<1> HIDE DEF q
<1>5. ~HasSeek(q) /\ ~ToSeek(n)
  BY <1>3 DEF WillSeek, q
<1>6. EndsShut(listeners[n].queue) => EndsShut(q)
  BY DEF q
<1>7. /\ Shaped' /\ CallsHold' /\ OlderHold' /\ SeeksHold' /\ StoppedHolds' /\ CoveredHold'
      /\ Numbers' = Numbers /\ listeners'[n].queue = q /\ listeners'[n].generation = listeners[n].generation
      /\ \A m \in Numbers \ {n} : listeners'[m] = listeners[m] /\ (Token(m)' <=> Token(m))
      /\ Token(n)' <=> listeners[n].generation = generation /\ ("arrived" # "closed" \/ HasSeek(q) \/ ToSeek(n))
  BY <1>1, <1>2, <1>3, <1>4, <1>5, <1>6, StrandKeeps
<1>8. ASSUME Watching' PROVE OneListens'
  <2>1. OneListens
    BY <1>1, <1>8 DEF Watching
  <2>2. listeners[n].generation = generation =>
           (Token(n)' <=> Token(n)) /\ (HasDisconnect(listeners'[n].queue) => HasDisconnect(listeners[n].queue))
    BY <1>3, <1>7 DEF Token, q
  <2> HIDE DEF AcceptIInv
  <2> QED
    BY <1>1, <1>2, <1>7, <2>1, <2>2, StrandListens
<1> QED
  BY <1>7, <1>8

LEMMA AcceptEnds ==
  ASSUME AcceptIInv, NEW n \in Numbers, Accepts(n)
  PROVE  AcceptIInv'
<1> USE DEF AcceptIInv
<1> DEFINE q == listeners[n].queue
<1>1. /\ listeners[n].acceptor = "arrived" /\ inbound' = inbound
      /\ accepting' = accepting /\ generation' = generation /\ out' = out /\ dropping' = dropping
      /\ commands' = commands
      /\ \/ /\ Becomes(n, "CONNECTED", "closed", q) /\ failed' = failed
            /\ calls' = calls \cup {Entering(listeners[n].generation)}
         \/ /\ Becomes(n, "CONNECTING", "closed", Append(q, "disconnect")) /\ calls' = calls
            /\ failed' = failed \cup {listeners[n].generation}
  BY DEF Accepts, Fails
<1>2. q \in Seq(Operations) /\ listeners[n].generation \in Nat /\ generation \in Nat
  BY ListenerFacts DEF Shaped
<1>3. Listening(n) /\ ~WillSeek(n) /\ Covered(n) /\ OneSeek(q)
  BY <1>1 DEF Listening, SeeksHold, CoveredHold, Hears
<1>4. ~HasSeek(q) /\ ~ToSeek(n)
  BY <1>3 DEF WillSeek
<1>5. "disconnect" \in Operations
  BY DEF Operations
<1>6. CASE /\ Becomes(n, "CONNECTED", "closed", q) /\ failed' = failed
           /\ calls' = calls \cup {Entering(listeners[n].generation)}
  <2>1. EndsShut(listeners[n].queue) => EndsShut(q)
    OBVIOUS
  <2>2. /\ Shaped' /\ CallsHold' /\ OlderHold' /\ SeeksHold' /\ StoppedHolds' /\ CoveredHold'
        /\ Numbers' = Numbers /\ listeners'[n].queue = q /\ listeners'[n].generation = listeners[n].generation
        /\ \A m \in Numbers \ {n} : listeners'[m] = listeners[m] /\ (Token(m)' <=> Token(m))
        /\ Token(n)' <=> listeners[n].generation = generation /\ ("closed" # "closed" \/ HasSeek(q) \/ ToSeek(n))
    <3> HIDE DEF q
    <3> QED
      BY <1>1, <1>2, <1>3, <1>4, <1>6, <2>1, StrandKeeps
  <2>3. ~Token(n)'
    BY <1>4, <2>2
  <2>4. ASSUME Watching' PROVE OneListens'
    <3>1. OneListens
      BY <1>1, <1>6, <2>4 DEF Watching
    <3>2. CASE listeners[n].generation # generation
      <4> HIDE DEF AcceptIInv
      <4> QED
        BY <1>1, <1>2, <1>6, <2>2, <3>1, <3>2, StrandListens
    <3>3. CASE listeners[n].generation = generation
      <4>1. Token(n)
        BY <1>3, <3>3 DEF Token
      <4>2. \A m \in Numbers : ~Token(m)'
        BY <2>2, <2>3, <3>1, <4>1 DEF OneListens
      <4>3. ~Restarts'
        <5>1. ~Restarts
          BY <3>1, <4>1 DEF OneListens
        <5> QED
          BY <1>1, <5>1 DEF Restarts
      <4>4. Entering(generation) \in calls'
        BY <1>6, <3>3
      <4>5. \A m \in Numbers : listeners'[m].generation = generation' => ~HasDisconnect(listeners'[m].queue)
        BY <1>1, <2>2, <3>1 DEF OneListens
      <4> HIDE DEF AcceptIInv
      <4> QED
        BY <1>1, <2>2, <4>2, <4>3, <4>4, <4>5 DEF OneListens
    <3> QED
      BY <3>2, <3>3
  <2> QED
    BY <2>2, <2>4
<1>7. CASE /\ Becomes(n, "CONNECTING", "closed", Append(q, "disconnect")) /\ calls' = calls
           /\ failed' = failed \cup {listeners[n].generation}
  <2> DEFINE r == Append(q, "disconnect")
  <2>1. r \in Seq(Operations) /\ OneSeek(r) /\ ~HasSeek(r)
    <3> HIDE DEF q
    <3> QED
      BY <1>2, <1>3, <1>4, <1>5, QueueAppends
  <2>2. Becomes(n, "CONNECTING", "closed", r)
    BY <1>7
  <2> HIDE DEF r
  <2>3. /\ Shaped' /\ CallsHold' /\ OlderHold' /\ SeeksHold' /\ StoppedHolds' /\ CoveredHold'
        /\ Numbers' = Numbers /\ listeners'[n].queue = r /\ listeners'[n].generation = listeners[n].generation
        /\ \A m \in Numbers \ {n} : listeners'[m] = listeners[m] /\ (Token(m)' <=> Token(m))
    BY <1>1, <1>4, <1>7, <2>1, <2>2, StrandKeeps
  <2>4. ASSUME Watching' PROVE OneListens'
    <3>1. OneListens /\ listeners[n].generation # generation
      BY <1>1, <1>7, <2>4 DEF Watching
    <3> HIDE DEF AcceptIInv
    <3> QED
      BY <1>1, <1>2, <1>7, <2>3, <3>1, StrandListens
  <2> QED
    BY <2>3, <2>4
<1> QED
  BY <1>1, <1>6, <1>7

LEMMA DisconnectRuns ==
  ASSUME AcceptIInv, NEW n \in Numbers, CoDisconnect(n)
  PROVE  AcceptIInv'
<1> USE DEF AcceptIInv
<1> DEFINE q == listeners[n].queue
           t == Tail(q)
<1>1. /\ q # <<>> /\ Head(q) = "disconnect" /\ calls' = calls
      /\ accepting' = accepting /\ generation' = generation /\ out' = out /\ dropping' = dropping
      /\ commands' = commands /\ failed' = failed
      /\ IF listeners[n].state = "DISCONNECTED"
         THEN Becomes(n, "DISCONNECTED", listeners[n].acceptor, t) /\ inbound' = inbound
         ELSE Becomes(n, "DISCONNECTED", "closed", t) /\ inbound' = inbound \ {n}
  BY DEF CoDisconnect, Takes
<1>2. /\ q \in Seq(Operations) /\ listeners[n].generation \in Nat /\ generation \in Nat
      /\ listeners[n].acceptor \in {"closed", "open", "arrived"}
  BY ListenerFacts DEF Shaped
<1>3. OneSeek(q)
  BY DEF SeeksHold
<1>4. /\ t \in Seq(Operations) /\ OneSeek(t) /\ (HasSeek(t) <=> HasSeek(q)) /\ HasDisconnect(q)
      /\ EndsShut(q) /\ HasSeek(q) => EndsShut(t)
  BY <1>1, <1>2, <1>3, QueueTail
<1>5. Watching => listeners[n].generation # generation
  BY <1>4 DEF OneListens
<1>6. CASE listeners[n].state = "DISCONNECTED"
  <2>1. ~Listening(n) /\ listeners[n].acceptor = "closed" /\ ~Hears(n)
    BY <1>2, <1>6 DEF SeeksHold, Listening, Hears
  <2>2. HasSeek(q) \/ ToSeek(n) => Covered(n)
    BY DEF WillSeek, CoveredHold
  <2>3. ASSUME Covered(n), HasSeek(q) \/ ToSeek(n) PROVE EndsShut(q) /\ ~ToSeek(n) => EndsShut(t)
    BY <1>4, <2>3
  <2>4. Becomes(n, "DISCONNECTED", "closed", t) /\ inbound' = inbound
    BY <1>1, <1>6, <2>1
  <2>5. \/ ~HasSeek(t) /\ ~ToSeek(n)
        \/ inbound' = inbound /\ Covered(n) /\ (EndsShut(q) /\ ~ToSeek(n) => EndsShut(t))
    BY <1>4, <2>2, <2>3, <2>4
  <2>6. /\ Shaped' /\ CallsHold' /\ OlderHold' /\ SeeksHold' /\ StoppedHolds' /\ CoveredHold'
        /\ Numbers' = Numbers /\ listeners'[n].queue = t /\ listeners'[n].generation = listeners[n].generation
        /\ \A m \in Numbers \ {n} : listeners'[m] = listeners[m] /\ (Token(m)' <=> Token(m))
    <3> HIDE DEF t
    <3> QED
      BY <1>1, <1>4, <2>4, <2>5, StrandKeeps
  <2>7. ASSUME Watching' PROVE OneListens'
    <3>1. OneListens /\ listeners[n].generation # generation
      BY <1>1, <1>5, <2>7 DEF Watching
    <3> HIDE DEF AcceptIInv
    <3> QED
      BY <1>1, <1>2, <2>6, <3>1, StrandListens
  <2> QED
    BY <2>6, <2>7
<1>7. CASE listeners[n].state # "DISCONNECTED"
  <2>1. ~HasSeek(t) /\ ~ToSeek(n)
    BY <1>4, <1>7 DEF SeeksHold, WillSeek
  <2>2. Becomes(n, "DISCONNECTED", "closed", t) /\ inbound' = inbound \ {n}
    BY <1>1, <1>7
  <2>3. /\ Shaped' /\ CallsHold' /\ OlderHold' /\ SeeksHold' /\ StoppedHolds' /\ CoveredHold'
        /\ Numbers' = Numbers /\ listeners'[n].queue = t /\ listeners'[n].generation = listeners[n].generation
        /\ \A m \in Numbers \ {n} : listeners'[m] = listeners[m] /\ (Token(m)' <=> Token(m))
    <3> HIDE DEF t
    <3> QED
      BY <1>1, <1>4, <2>1, <2>2, StrandKeeps
  <2>4. ASSUME Watching' PROVE OneListens'
    <3>1. OneListens /\ listeners[n].generation # generation
      BY <1>1, <1>5, <2>4 DEF Watching
    <3> HIDE DEF AcceptIInv
    <3> QED
      BY <1>1, <1>2, <2>3, <3>1, StrandListens
  <2> QED
    BY <2>3, <2>4
<1> QED
  BY <1>6, <1>7

LEMMA HandshakeLeaves ==
  ASSUME AcceptIInv, NEW n \in Numbers, HandshakeEnds(n)
  PROVE  AcceptIInv'
<1> USE DEF AcceptIInv
<1> DEFINE q == listeners[n].queue
<1>1. /\ listeners[n].state = "CONNECTED" /\ Becomes(n, "DISCONNECTED", "closed", q) /\ calls' = calls
      /\ inbound' = inbound \ {n} /\ accepting' = accepting /\ generation' = generation /\ out' = out
      /\ dropping' = dropping /\ commands' = commands /\ failed' = failed
  BY DEF HandshakeEnds
<1>2. q \in Seq(Operations) /\ listeners[n].generation \in Nat /\ generation \in Nat
  BY ListenerFacts DEF Shaped
<1>3. ~HasSeek(q) /\ ~ToSeek(n) /\ ~Listening(n) /\ OneSeek(q)
  BY <1>1 DEF SeeksHold, WillSeek
<1> HIDE DEF q
<1>4. /\ Shaped' /\ CallsHold' /\ OlderHold' /\ SeeksHold' /\ StoppedHolds' /\ CoveredHold'
      /\ Numbers' = Numbers /\ listeners'[n].queue = q /\ listeners'[n].generation = listeners[n].generation
      /\ \A m \in Numbers \ {n} : listeners'[m] = listeners[m] /\ (Token(m)' <=> Token(m))
      /\ Token(n)' <=> listeners[n].generation = generation /\ ("closed" # "closed" \/ HasSeek(q) \/ ToSeek(n))
  BY <1>1, <1>2, <1>3, StrandKeeps
<1>5. ASSUME Watching' PROVE OneListens'
  <2>1. OneListens
    BY <1>1, <1>5 DEF Watching
  <2>2. ~Token(n) /\ ~Token(n)'
    BY <1>3, <1>4 DEF Token, WillSeek, q
  <2>3. HasDisconnect(listeners'[n].queue) => HasDisconnect(listeners[n].queue)
    BY <1>4 DEF q
  <2> HIDE DEF AcceptIInv
  <2> QED
    BY <1>1, <1>2, <1>4, <2>1, <2>2, <2>3, StrandListens
<1> QED
  BY <1>4, <1>5

-------------------------------------------------------------------------------

LEMMA AcceptInitially ==
  ASSUME AcceptInit, MaxCommands \in Nat
  PROVE  AcceptIInv
<1>1. listeners = <<>> /\ calls = {} /\ Numbers = {}
  BY DEF AcceptInit, Numbers
<1>2. Shaped
  <2>1. listeners \in Seq(Listener)
    BY <1>1
  <2>2. dropping \in [on : BOOLEAN, who : SUBSET Numbers, restart : BOOLEAN, generation : Nat]
    BY DEF AcceptInit, NoDrop
  <2>3. generation \in Nat /\ out \in 0 .. generation /\ commands = generation /\ commands <= MaxCommands
    BY DEF AcceptInit
  <2> QED
    BY <1>1, <2>1, <2>2, <2>3 DEF Shaped, AcceptInit
<1>3. CallsHold
  BY <1>1 DEF CallsHold
<1>4. OlderHold
  <2>1. dropping.generation <= generation /\ dropping.who = {}
    BY DEF AcceptInit, NoDrop
  <2> QED
    BY <1>1, <2>1 DEF OlderHold
<1>5. SeeksHold /\ CoveredHold
  BY <1>1 DEF SeeksHold, CoveredHold
<1>6. StoppedHolds
  BY DEF StoppedHolds, AcceptInit
<1>7. ~Watching
  BY DEF Watching, AcceptInit
<1> QED
  BY <1>2, <1>3, <1>4, <1>5, <1>6, <1>7 DEF AcceptIInv

(* The inductive invariant of the accept loop: every listener somebody may be heard at is in the *)
(* list that Stop disconnects, or a stale call or what is posted will disconnect it; and while a *)
(* device accepts, exactly one listener, call or Disconnect stands for its listening.            *)
THEOREM AcceptInvariance ==
  ASSUME AcceptBounds
  PROVE  AcceptSpec => []AcceptIInv
<1> USE DEF AcceptBounds
<1>1. AcceptInit => AcceptIInv
  BY AcceptInitially
<1>2. AcceptIInv /\ [AcceptNext]_acceptVars => AcceptIInv'
  <2> SUFFICES ASSUME AcceptIInv, [AcceptNext]_acceptVars PROVE AcceptIInv'
    OBVIOUS
  <2>1. CASE Command
    BY <2>1, StartKeeps, StopKeeps, DisconnectBegins DEF Command
  <2>2. CASE FinishDisconnect
    BY <2>2, DisconnectFinishes
  <2>3. ASSUME NEW k \in calls, Thread(k) PROVE AcceptIInv'
    BY <2>3, StaleCallLeaves, CallRegisters, CallSeeks, CallChecks DEF Thread
  <2>4. ASSUME NEW n \in Numbers, Strand(n) \/ PeerArrives(n) \/ HandshakeEnds(n) PROVE AcceptIInv'
    BY <2>4, SeekRuns, AcceptEnds, DisconnectRuns, PeerComes, HandshakeLeaves DEF Strand
  <2>5. CASE UNCHANGED acceptVars
    <3>1. /\ accepting' = accepting /\ generation' = generation /\ out' = out /\ inbound' = inbound
          /\ listeners' = listeners /\ calls' = calls /\ dropping' = dropping /\ commands' = commands
          /\ failed' = failed
      BY <2>5 DEF acceptVars
    <3>2. Numbers' = Numbers
      BY <3>1 DEF Numbers
    <3>3. \A n : /\ Listening(n)' <=> Listening(n)
                 /\ ToSeek(n)' <=> ToSeek(n)
                 /\ WillSeek(n)' <=> WillSeek(n)
                 /\ Hears(n)' <=> Hears(n)
                 /\ Token(n)' <=> Token(n)
                 /\ Covered(n)' <=> Covered(n)
      BY <3>1 DEF Listening, ToSeek, WillSeek, Hears, Token, Covered, Stale
    <3>4. Shaped' /\ StoppedHolds' /\ OlderHold'
      BY <3>1, <3>2 DEF AcceptIInv, Shaped, StoppedHolds, OlderHold
    <3>5. CallsHold'
      BY <3>1, <3>2 DEF AcceptIInv, CallsHold
    <3>6. SeeksHold' /\ CoveredHold'
      BY <3>1, <3>2, <3>3 DEF AcceptIInv, SeeksHold, CoveredHold
    <3>7. Watching' => OneListens'
      BY <3>1, <3>2, <3>3 DEF AcceptIInv, Watching, OneListens, Restarts
    <3> QED
      BY <3>4, <3>5, <3>6, <3>7 DEF AcceptIInv
  <2> QED
    BY <2>1, <2>2, <2>3, <2>4, <2>5 DEF AcceptNext
<1> QED
  BY <1>1, <1>2, PTL DEF AcceptSpec

(* What settled accept loops listen to follows from the invariant. *)
LEMMA AcceptSettles ==
  ASSUME AcceptIInv, MaxCommands \in Nat
  PROVE  AcceptTypeOK /\ ListensWhileAccepting /\ SilentWhenStopped
<1> USE DEF AcceptIInv
<1>1. AcceptTypeOK
  <2>1. generation \in 0 .. MaxCommands /\ out \in 0 .. MaxCommands
    BY DEF Shaped
  <2>2. \A k \in calls : k.at \in {"enter", "seek", "check"} /\ k.number \in Numbers \cup {0}
    <3> TAKE k \in calls
    <3>1. k \in Call
      BY DEF Shaped
    <3>2. CASE k.at = "enter"
      BY <3>1, <3>2 DEF CallsHold, Entering, Call
    <3>3. CASE k.at # "enter"
      BY <3>1, <3>3 DEF CallsHold, Call
    <3> QED
      BY <3>2, <3>3
  <2>3. \A n \in Numbers : /\ listeners[n].state \in {"DISCONNECTED", "CONNECTING", "CONNECTED"}
                           /\ listeners[n].acceptor \in {"closed", "open", "arrived"}
                           /\ listeners[n].queue \in Seq({"seek", "disconnect"})
    BY ListenerFacts DEF Operations
  <2> QED
    BY <2>1, <2>2, <2>3 DEF AcceptTypeOK, Shaped
<1>2. ASSUME Settled
      PROVE  /\ \A n \in Numbers : ~WillSeek(n) /\ listeners[n].queue = <<>>
             /\ ~Restarts /\ calls = {}
  <2>1. calls = {} /\ ~dropping.on /\ \A n \in Numbers : listeners[n].queue = <<>>
    BY <1>2 DEF Settled
  <2>2. \A n \in Numbers : DOMAIN listeners[n].queue = {}
    BY <2>1
  <2> QED
    BY <2>1, <2>2 DEF WillSeek, ToSeek, HasSeek, Restarts
<1>3. ASSUME Settled, accepting, generation \notin failed
      PROVE  Cardinality({n \in Numbers : Listening(n) /\ listeners[n].generation = generation}) = 1
  <2>1. OneListens
    BY <1>3 DEF Watching
  <2>2. \A n \in Numbers : Token(n) <=> Listening(n) /\ listeners[n].generation = generation
    BY <1>2, <1>3 DEF Token
  <2>3. PICK n \in Numbers : Token(n)
    BY <1>2, <1>3, <2>1 DEF OneListens
  <2>4. {m \in Numbers : Listening(m) /\ listeners[m].generation = generation} = {n}
    BY <2>1, <2>2, <2>3 DEF OneListens
  <2> QED
    BY <2>4, FS_Singleton
<1>4. ASSUME Settled, ~accepting
      PROVE  out = 0 /\ \A n \in Numbers : ~Listening(n) /\ listeners[n].state # "CONNECTED"
  <2>1. out = 0 /\ inbound = {}
    BY <1>4 DEF StoppedHolds
  <2>2. \A n \in Numbers : ~Covered(n)
    <3> TAKE n \in Numbers
    <3>1. listeners[n].queue = <<>> /\ DOMAIN listeners[n].queue = {} /\ calls = {}
      BY <1>2, <1>4
    <3>2. ~EndsShut(listeners[n].queue)
      BY <3>1 DEF EndsShut
    <3> QED
      BY <2>1, <3>1, <3>2 DEF Covered
  <2> QED
    BY <2>1, <2>2 DEF CoveredHold, Hears
<1> QED
  BY <1>1, <1>3, <1>4 DEF ListensWhileAccepting, SilentWhenStopped

(* A device that accepts has one listener of its current generation once everything posted has    *)
(* run, unless one failed; a device that was stopped hears nobody, and no handshake is under way. *)
THEOREM OneListenerOrNone ==
  ASSUME AcceptBounds
  PROVE  AcceptSpec => [](AcceptTypeOK /\ ListensWhileAccepting /\ SilentWhenStopped)
<1>1. AcceptIInv => AcceptTypeOK /\ ListensWhileAccepting /\ SilentWhenStopped
  BY AcceptSettles DEF AcceptBounds
<1> QED
  BY <1>1, AcceptInvariance, PTL

-------------------------------------------------------------------------------
(* The windows and the daemon: which of a window's links is its sender, and *)
(* which may still carry the question, for any windows, links and turns.    *)

LinkRecords ==
  [owner : Windows, conn : {"new", "up", "over"}, closed : BOOLEAN, named : BOOLEAN, late : BOOLEAN,
   up : Seq({"request", "connected"}), down : Seq({"yes", "no", "show"}),
   serves : {"no", "refused", "accepted", "listed", "ended"}]

(* A window's sender is one of its own links, and only a running window asks. *)
SendersHold ==
  \A w \in Windows :
    /\ sender[w] # 0 => link[sender[w]].owner = w
    /\ asking[w] # "no" => Running(w)

(* An open link is its running window's sender; one that was opened after its end is not,   *)
(* and has never carried a request; nothing was sent before the daemon's side was reached.  *)
OneLinkHolds(l) ==
  /\ ~link[l].closed /\ ~link[l].late => Running(link[l].owner) /\ sender[link[l].owner] = l
  /\ link[l].closed /\ sender[link[l].owner] = l => process[link[l].owner] = "gone" /\ link[l].serves # "no"
  /\ link[l].late => sender[link[l].owner] # l /\ link[l].up \in Seq({"connected"})
  /\ link[l].serves = "no" => link[l].conn # "up" /\ link[l].up = <<>>

DaemonIInv ==
  /\ DaemonTypeOK /\ created \in 0 .. MaxLinks
  /\ SendersHold /\ \A l \in 1 .. created : OneLinkHolds(l)
  /\ AnotherWindowIsThere

(* A change of the links that opens, closes and hands over none. *)
KeepsLinks(links) ==
  /\ links \in [Links -> LinkRecords]
  /\ \A k \in 1 .. created :
       /\ links[k].owner = link[k].owner /\ links[k].closed = link[k].closed /\ links[k].late = link[k].late
       /\ link[k].late => links[k].up \in Seq({"connected"})
       /\ links[k].serves = "no" => link[k].serves = "no" /\ links[k].conn # "up" /\ links[k].up = <<>>

LEMMA LinkTypes ==
  ASSUME DaemonIInv, MaxLinks \in Nat
  PROVE  /\ link \in [Links -> LinkRecords] /\ created \in 0 .. MaxLinks /\ sender \in [Windows -> 0 .. created]
         /\ 1 .. created \subseteq Links
         /\ \A l \in Links : /\ link[l] \in LinkRecords /\ link[l].owner \in Windows
                             /\ link[l].up \in Seq({"request", "connected"})
                             /\ link[l].down \in Seq({"yes", "no", "show"})
<1>1. link \in [Links -> LinkRecords] /\ created \in 0 .. MaxLinks /\ sender \in [Windows -> 0 .. created]
  BY DEF DaemonIInv, DaemonTypeOK, LinkRecords
<1>2. 1 .. created \subseteq Links
  BY <1>1 DEF Links
<1>3. ASSUME NEW l \in Links
      PROVE  /\ link[l] \in LinkRecords /\ link[l].owner \in Windows
             /\ link[l].up \in Seq({"request", "connected"}) /\ link[l].down \in Seq({"yes", "no", "show"})
  <2>1. link[l] \in LinkRecords
    BY <1>1
  <2> QED
    BY <2>1 DEF LinkRecords
<1> QED
  BY <1>1, <1>2, <1>3

LEMMA KeepsNone ==
  ASSUME DaemonIInv, MaxLinks \in Nat
  PROVE  KeepsLinks(link)
  BY LinkTypes DEF KeepsLinks, DaemonIInv, OneLinkHolds

LEMMA KeepsOne ==
  ASSUME DaemonIInv, MaxLinks \in Nat, NEW l \in 1 .. created, NEW r \in LinkRecords,
         r.owner = link[l].owner, r.closed = link[l].closed, r.late = link[l].late,
         link[l].late => r.up \in Seq({"connected"}),
         r.serves = "no" => link[l].serves = "no" /\ r.conn # "up" /\ r.up = <<>>
  PROVE  KeepsLinks([link EXCEPT ![l] = r])
<1>1. l \in Links /\ [link EXCEPT ![l] = r] \in [Links -> LinkRecords]
  BY LinkTypes
<1>2. ASSUME NEW k \in 1 .. created, k # l
      PROVE  [link EXCEPT ![l] = r][k] = link[k]
  BY <1>2, LinkTypes
<1>3. [link EXCEPT ![l] = r][l] = r
  BY LinkTypes
<1> HIDE DEF LinkRecords
<1> QED
  BY <1>1, <1>2, <1>3, KeepsNone DEF KeepsLinks

(* What such a change, and windows that only start, leave of the invariant. *)
LEMMA QuietStep ==
  ASSUME DaemonIInv, MaxLinks \in Nat, UNCHANGED <<sender, created>>, KeepsLinks(link'), DaemonTypeOK',
         \A w \in Windows : /\ Running(w) => Running(w)'
                            /\ process[w] = "gone" => process'[w] = "gone"
                            /\ asking'[w] # "no" => Running(w)',
         AnotherWindowIsThere'
  PROVE  DaemonIInv'
<1>1. SendersHold'
  <2>1. ASSUME NEW w \in Windows, sender[w] # 0
        PROVE  link'[sender[w]].owner = w
    <3>1. sender[w] \in 1 .. created
      BY <2>1, LinkTypes
    <3>2. link'[sender[w]].owner = link[sender[w]].owner
      BY <3>1 DEF KeepsLinks
    <3> QED
      BY <2>1, <3>2 DEF DaemonIInv, SendersHold
  <2> QED
    BY <2>1 DEF SendersHold
<1>2. ASSUME NEW l \in 1 .. created
      PROVE  OneLinkHolds(l)'
  <2>1. OneLinkHolds(l) /\ link[l].owner \in Windows
    BY LinkTypes DEF DaemonIInv
  <2>2. /\ link'[l].owner = link[l].owner /\ link'[l].closed = link[l].closed /\ link'[l].late = link[l].late
        /\ link[l].late => link'[l].up \in Seq({"connected"})
        /\ link'[l].serves = "no" => link[l].serves = "no" /\ link'[l].conn # "up" /\ link'[l].up = <<>>
    BY DEF KeepsLinks
  <2> QED
    BY <2>1, <2>2 DEF OneLinkHolds
<1> QED
  BY <1>1, <1>2, LinkTypes DEF DaemonIInv

LEMMA SendsKeeps ==
  ASSUME DaemonIInv, MaxLinks \in Nat, NEW l \in 1 .. created, link[l].conn = "up",
         NEW m \in {"request", "connected"}, link[l].late => m = "connected"
  PROVE  KeepsLinks(Sends(l, link, m))
<1>1. CASE link[l].closed
  BY <1>1, KeepsNone DEF Sends
<1>2. CASE ~link[l].closed
  <2> DEFINE r == [link[l] EXCEPT !.up = Append(@, m)]
  <2>1. l \in Links /\ link[l] \in LinkRecords /\ link[l].up \in Seq({"request", "connected"})
    BY LinkTypes
  <2>2. Append(link[l].up, m) \in Seq({"request", "connected"})
    BY <2>1, AppendProperties
  <2>3. /\ r \in LinkRecords /\ r.owner = link[l].owner /\ r.closed = link[l].closed /\ r.late = link[l].late
        /\ r.serves = link[l].serves /\ r.conn = link[l].conn /\ r.up = Append(link[l].up, m)
    BY <2>1, <2>2 DEF LinkRecords
  <2>4. link[l].late => r.up \in Seq({"connected"})
    BY <2>3, AppendProperties DEF DaemonIInv, OneLinkHolds
  <2>5. link[l].serves # "no"
    BY DEF DaemonIInv, OneLinkHolds
  <2>6. Sends(l, link, m) = [link EXCEPT ![l] = r]
    BY <1>2 DEF Sends
  <2> HIDE DEF r
  <2> QED
    BY <2>3, <2>4, <2>5, <2>6, KeepsOne
<1> QED
  BY <1>1, <1>2

LEMMA UserStartsStep ==
  ASSUME NEW w \in Windows, DaemonIInv, MaxLinks \in Nat, UserStarts(w)
  PROVE  DaemonIInv'
<1>1. /\ process[w] = "absent" /\ process' = [process EXCEPT ![w] = "runs"]
      /\ UNCHANGED <<hasPhone, sender, asking, link, toTell, clients, daemon, shown, grounds, created>>
  BY DEF UserStarts
<1>2. DaemonTypeOK'
  BY <1>1 DEF DaemonIInv, DaemonTypeOK
<1>3. KeepsLinks(link')
  BY <1>1, KeepsNone
<1>4. \A v \in Windows : process[v] = "gone" \/ Running(v) => process'[v] = process[v]
  BY <1>1 DEF DaemonIInv, DaemonTypeOK, Running
<1> QED
  BY <1>1, <1>2, <1>3, <1>4, QuietStep DEF DaemonIInv, SendersHold, Running, AnotherWindowIsThere

LEMMA AsksStep ==
  ASSUME NEW w \in Windows, DaemonIInv, MaxLinks \in Nat, Asks(w)
  PROVE  DaemonIInv'
<1>1. /\ asking[w] = "waits"
      /\ UNCHANGED <<process, hasPhone, sender, toTell, clients, daemon, shown, grounds, created>>
  BY DEF Asks
<1>2. KeepsLinks(link') /\ (\E a \in {"asked", "goes"} : asking' = [asking EXCEPT ![w] = a])
  <2>1. CASE sender[w] # 0 /\ link[sender[w]].conn = "up"
    <3>1. asking' = [asking EXCEPT ![w] = "asked"] /\ link' = Sends(sender[w], link, "request")
      BY <2>1 DEF Asks
    <3>2. sender[w] \in 1 .. created
      BY <2>1, LinkTypes
    <3>3. ~link[sender[w]].late
      BY <2>1, <3>2 DEF DaemonIInv, SendersHold, OneLinkHolds
    <3>4. KeepsLinks(Sends(sender[w], link, "request"))
      BY <2>1, <3>2, <3>3, SendsKeeps
    <3> QED
      BY <3>1, <3>4
  <2>2. CASE ~(sender[w] # 0 /\ link[sender[w]].conn = "up")
    <3>1. asking' = [asking EXCEPT ![w] = "goes"] /\ link' = link
      BY <2>2 DEF Asks
    <3> QED
      BY <3>1, KeepsNone
  <2> QED
    BY <2>1, <2>2
<1>3. DaemonTypeOK'
  BY <1>1, <1>2 DEF DaemonIInv, DaemonTypeOK, KeepsLinks, LinkRecords
<1>4. \A v \in Windows : asking'[v] # "no" => Running(v)
  BY <1>1, <1>2 DEF DaemonIInv, DaemonTypeOK, SendersHold
<1> QED
  BY <1>1, <1>2, <1>3, <1>4, QuietStep DEF DaemonIInv, Running, AnotherWindowIsThere

LEMMA AskTimesOutStep ==
  ASSUME NEW w \in Windows, DaemonIInv, MaxLinks \in Nat, AskTimesOut(w)
  PROVE  DaemonIInv'
<1>1. /\ asking[w] = "asked" /\ asking' = [asking EXCEPT ![w] = "goes"]
      /\ UNCHANGED <<process, hasPhone, sender, link, toTell, clients, daemon, shown, grounds, created>>
  BY DEF AskTimesOut
<1>2. DaemonTypeOK' /\ KeepsLinks(link')
  BY <1>1, KeepsNone DEF DaemonIInv, DaemonTypeOK
<1>3. \A v \in Windows : asking'[v] # "no" => Running(v)
  BY <1>1 DEF DaemonIInv, DaemonTypeOK, SendersHold
<1> QED
  BY <1>1, <1>2, <1>3, QuietStep DEF DaemonIInv, Running, AnotherWindowIsThere

LEMMA SessionFailsStep ==
  ASSUME NEW w \in Windows, DaemonIInv, MaxLinks \in Nat, SessionFails(w)
  PROVE  DaemonIInv'
<1>1. /\ asking' = [asking EXCEPT ![w] = "no"]
      /\ UNCHANGED <<process, hasPhone, sender, link, toTell, clients, daemon, shown, grounds, created>>
  BY DEF SessionFails
<1>2. DaemonTypeOK' /\ KeepsLinks(link')
  BY <1>1, KeepsNone DEF DaemonIInv, DaemonTypeOK
<1>3. \A v \in Windows : asking'[v] # "no" => Running(v)
  BY <1>1 DEF DaemonIInv, DaemonTypeOK, SendersHold
<1> QED
  BY <1>1, <1>2, <1>3, QuietStep DEF DaemonIInv, Running, AnotherWindowIsThere

LEMMA SessionIsLostStep ==
  ASSUME NEW w \in Windows, DaemonIInv, MaxLinks \in Nat, SessionIsLost(w)
  PROVE  DaemonIInv'
<1>1. /\ hasPhone' = [hasPhone EXCEPT ![w] = FALSE]
      /\ UNCHANGED <<process, sender, asking, link, toTell, clients, daemon, shown, grounds, created>>
  BY DEF SessionIsLost
<1>2. DaemonTypeOK' /\ KeepsLinks(link')
  BY <1>1, KeepsNone DEF DaemonIInv, DaemonTypeOK
<1> QED
  BY <1>1, <1>2, QuietStep DEF DaemonIInv, SendersHold, Running, AnotherWindowIsThere

LEMMA SignalsStep ==
  ASSUME NEW l \in Links, DaemonIInv, MaxLinks \in Nat, Signals(l)
  PROVE  DaemonIInv'
<1>1. /\ l \in 1 .. created /\ toTell' = toTell \ {l}
      /\ UNCHANGED <<process, hasPhone, sender, asking, clients, daemon, shown, grounds, created>>
  BY DEF Signals, DaemonIInv, DaemonTypeOK
<1>2. KeepsLinks(link')
  <2>1. CASE link[l].conn = "up"
    <3>1. link' = Sends(l, link, "connected")
      BY <2>1 DEF Signals
    <3> QED
      BY <1>1, <2>1, <3>1, SendsKeeps
  <2>2. CASE link[l].conn # "up"
    BY <2>2, KeepsNone DEF Signals
  <2> QED
    BY <2>1, <2>2
<1>3. DaemonTypeOK'
  BY <1>1, <1>2 DEF DaemonIInv, DaemonTypeOK, KeepsLinks, LinkRecords
<1> QED
  BY <1>1, <1>2, <1>3, QuietStep DEF DaemonIInv, SendersHold, Running, AnotherWindowIsThere

LEMMA ListsStep ==
  ASSUME NEW l \in Links, DaemonIInv, MaxLinks \in Nat, Lists(l)
  PROVE  DaemonIInv'
<1> DEFINE r == [link[l] EXCEPT !.serves = "listed"]
<1>1. /\ l \in 1 .. created /\ clients' = clients \cup {l} /\ link[l].serves = "accepted" /\ link' = [link EXCEPT ![l] = r]
      /\ UNCHANGED <<process, hasPhone, sender, asking, toTell, daemon, shown, grounds, created>>
  BY LinkTypes DEF Lists, Links
<1>2. /\ r \in LinkRecords /\ r.owner = link[l].owner /\ r.closed = link[l].closed /\ r.late = link[l].late
      /\ r.serves = "listed" /\ r.up = link[l].up
  BY LinkTypes DEF LinkRecords
<1> HIDE DEF r
<1>3. KeepsLinks(link')
  <2>1. link[l].late => r.up \in Seq({"connected"})
    BY <1>1, <1>2 DEF DaemonIInv, OneLinkHolds
  <2>2. KeepsLinks([link EXCEPT ![l] = r])
    BY <1>1, <1>2, <2>1, KeepsOne
  <2> QED
    BY <1>1, <2>2
<1>4. DaemonTypeOK'
  BY <1>1, <1>3 DEF DaemonIInv, DaemonTypeOK, KeepsLinks, LinkRecords
<1> QED
  BY <1>1, <1>3, <1>4, QuietStep DEF DaemonIInv, SendersHold, Running, AnotherWindowIsThere

LEMMA RegistersConnectedStep ==
  ASSUME NEW l \in Links, DaemonIInv, MaxLinks \in Nat, RegistersConnected(l)
  PROVE  DaemonIInv'
<1> DEFINE r == [link[l] EXCEPT !.up = Tail(@), !.named = TRUE]
<1>1. /\ l \in 1 .. created /\ Served(l) /\ link[l].up # <<>> /\ link' = [link EXCEPT ![l] = r]
      /\ UNCHANGED <<process, hasPhone, sender, asking, toTell, clients, daemon, shown, grounds, created>>
  <2>1. l \in 1 .. created
    BY LinkTypes DEF RegistersConnected, Links
  <2>2. /\ Served(l) /\ link[l].up # <<>> /\ link' = [link EXCEPT ![l].up = Tail(@), ![l].named = TRUE]
        /\ UNCHANGED <<process, hasPhone, sender, asking, toTell, clients, daemon, shown, grounds, created>>
    BY DEF RegistersConnected
  <2>3. [link EXCEPT ![l].up = Tail(@), ![l].named = TRUE] = [link EXCEPT ![l] = r]
    BY LinkTypes
  <2> QED
    BY <2>1, <2>2, <2>3
<1>2. Tail(link[l].up) \in Seq({"request", "connected"})
  BY <1>1, LinkTypes, HeadTailProperties
<1>3. /\ r \in LinkRecords /\ r.owner = link[l].owner /\ r.closed = link[l].closed /\ r.late = link[l].late
      /\ r.serves = link[l].serves /\ r.up = Tail(link[l].up)
  BY <1>2, LinkTypes DEF LinkRecords
<1> HIDE DEF r
<1>4. KeepsLinks(link')
  <2>1. link[l].late => r.up \in Seq({"connected"})
    BY <1>1, <1>3, HeadTailProperties DEF DaemonIInv, OneLinkHolds
  <2>2. KeepsLinks([link EXCEPT ![l] = r])
    BY <1>1, <1>3, <2>1, KeepsOne DEF Served
  <2> QED
    BY <1>1, <2>2
<1>5. DaemonTypeOK'
  BY <1>1, <1>4 DEF DaemonIInv, DaemonTypeOK, KeepsLinks, LinkRecords
<1> QED
  BY <1>1, <1>4, <1>5, QuietStep DEF DaemonIInv, SendersHold, Running, AnotherWindowIsThere

LEMMA ClientEndsStep ==
  ASSUME NEW l \in Links, DaemonIInv, MaxLinks \in Nat, ClientEnds(l)
  PROVE  DaemonIInv'
<1> DEFINE r == [link[l] EXCEPT !.serves = "ended"]
<1>1. /\ l \in 1 .. created /\ clients' \in {clients \cup {l}, clients \ {l}} /\ link' = [link EXCEPT ![l] = r]
      /\ UNCHANGED <<process, hasPhone, sender, asking, toTell, daemon, shown, grounds, created>>
  BY LinkTypes DEF ClientEnds, Links
<1>2. /\ r \in LinkRecords /\ r.owner = link[l].owner /\ r.closed = link[l].closed /\ r.late = link[l].late
      /\ r.serves = "ended" /\ r.up = link[l].up
  BY LinkTypes DEF LinkRecords
<1> HIDE DEF r
<1>3. KeepsLinks(link')
  <2>1. link[l].late => r.up \in Seq({"connected"})
    BY <1>1, <1>2 DEF DaemonIInv, OneLinkHolds
  <2>2. KeepsLinks([link EXCEPT ![l] = r])
    BY <1>1, <1>2, <2>1, KeepsOne
  <2> QED
    BY <1>1, <2>2
<1>4. DaemonTypeOK'
  BY <1>1, <1>3 DEF DaemonIInv, DaemonTypeOK, KeepsLinks, LinkRecords
<1> QED
  BY <1>1, <1>3, <1>4, QuietStep DEF DaemonIInv, SendersHold, Running, AnotherWindowIsThere

LEMMA DaemonStopsStep ==
  ASSUME DaemonIInv, MaxLinks \in Nat, DaemonStops
  PROVE  DaemonIInv'
<1>1. /\ clients' = {} /\ daemon' = FALSE
      /\ link' = [l \in Links |-> IF Served(l)
                    THEN [link[l] EXCEPT !.serves = "ended", !.conn = "over", !.up = <<>>] ELSE link[l]]
      /\ UNCHANGED <<process, hasPhone, sender, asking, toTell, shown, grounds, created>>
  BY DEF DaemonStops
<1>2. ASSUME NEW l \in Links
      PROVE  /\ link'[l] \in LinkRecords
             /\ link'[l].owner = link[l].owner /\ link'[l].closed = link[l].closed /\ link'[l].late = link[l].late
             /\ link'[l] = link[l] \/ (link'[l].up = <<>> /\ link'[l].serves = "ended")
  <2>1. CASE Served(l)
    <3>1. link'[l] = [link[l] EXCEPT !.serves = "ended", !.conn = "over", !.up = <<>>]
      BY <1>1, <2>1
    <3>2. <<>> \in Seq({"request", "connected"})
      BY EmptySeq
    <3> QED
      BY <3>1, <3>2, LinkTypes DEF LinkRecords
  <2>2. CASE ~Served(l)
    BY <1>1, <2>2, LinkTypes
  <2> QED
    BY <2>1, <2>2
<1>3. KeepsLinks(link')
  <2>1. link' \in [Links -> LinkRecords]
    BY <1>1, <1>2
  <2>2. ASSUME NEW k \in 1 .. created
        PROVE  /\ link[k].late => link'[k].up \in Seq({"connected"})
               /\ link'[k].serves = "no" => link[k].serves = "no" /\ link'[k].conn # "up" /\ link'[k].up = <<>>
    <3>1. k \in Links /\ OneLinkHolds(k)
      BY LinkTypes DEF DaemonIInv
    <3>2. link'[k] = link[k] \/ (link'[k].up = <<>> /\ link'[k].serves = "ended")
      BY <1>2, <3>1
    <3>3. <<>> \in Seq({"connected"})
      BY EmptySeq
    <3> QED
      BY <3>1, <3>2, <3>3 DEF OneLinkHolds
  <2> QED
    BY <1>2, <2>1, <2>2, LinkTypes DEF KeepsLinks
<1>4. DaemonTypeOK'
  BY <1>1, <1>3 DEF DaemonIInv, DaemonTypeOK, KeepsLinks, LinkRecords
<1> QED
  BY <1>1, <1>3, <1>4, QuietStep DEF DaemonIInv, SendersHold, Running, AnotherWindowIsThere

(* A window that had no link has a new one. *)
LEMMA NewLinkHolds ==
  ASSUME NEW w \in Windows, DaemonIInv, MaxLinks \in Nat, sender[w] = 0, Creates(w),
         link' = [link EXCEPT ![created'] = NewLink(w)], Running(w)',
         \A v \in Windows : /\ Running(v) => Running(v)'
                            /\ process[v] = "gone" => process'[v] = "gone"
                            /\ asking'[v] # "no" => Running(v)'
  PROVE  /\ link' \in [Links -> LinkRecords] /\ created' \in 0 .. MaxLinks /\ created' = created + 1
         /\ sender' \in [Windows -> 0 .. created']
         /\ SendersHold' /\ \A l \in 1 .. created' : OneLinkHolds(l)'
<1> PICK n : n = created'
  OBVIOUS
<1>1. /\ created' = created + 1 /\ sender' = [sender EXCEPT ![w] = n] /\ link' = [link EXCEPT ![n] = NewLink(w)]
      /\ n \in Links /\ n \in 0 .. MaxLinks /\ n = created + 1 /\ created \in Nat
      /\ 1 .. n = 1 .. created \cup {n}
  BY LinkTypes DEF Creates, Links
<1>2. /\ NewLink(w) \in LinkRecords /\ NewLink(w).owner = w /\ ~NewLink(w).closed /\ ~NewLink(w).late
      /\ NewLink(w).serves = "no" /\ NewLink(w).conn # "up" /\ NewLink(w).up = <<>>
  <2>1. <<>> \in Seq({"request", "connected"}) /\ <<>> \in Seq({"yes", "no", "show"})
    BY EmptySeq
  <2> QED
    BY <2>1 DEF NewLink, LinkRecords
<1>3. /\ link' \in [Links -> LinkRecords] /\ link'[n] = NewLink(w)
      /\ \A l \in 1 .. created : link'[l] = link[l] /\ l # n /\ l # 0
  BY <1>1, <1>2, LinkTypes
<1>4. /\ sender' \in [Windows -> 0 .. n] /\ sender'[w] = n
      /\ \A v \in Windows : v # w => sender'[v] = sender[v]
  BY <1>1, LinkTypes
<1>5. SendersHold'
  <2>1. ASSUME NEW v \in Windows, v # w, sender[v] # 0
        PROVE  link'[sender[v]].owner = v
    <3>1. sender[v] \in 1 .. created
      BY <2>1, LinkTypes
    <3> QED
      BY <1>3, <2>1, <3>1 DEF DaemonIInv, SendersHold
  <2> QED
    BY <1>2, <1>3, <1>4, <2>1 DEF SendersHold
<1>6. OneLinkHolds(n)'
  BY <1>2, <1>3, <1>4 DEF OneLinkHolds, Running
<1>7. ASSUME NEW l \in 1 .. created
      PROVE  OneLinkHolds(l)'
  <2>1. OneLinkHolds(l) /\ link[l].owner \in Windows /\ link'[l] = link[l] /\ l # n /\ l # 0
    BY <1>3, LinkTypes DEF DaemonIInv
  <2>2. CASE link[l].owner = w
    BY <1>4, <2>1, <2>2 DEF OneLinkHolds
  <2>3. CASE link[l].owner # w
    BY <1>4, <2>1, <2>3 DEF OneLinkHolds
  <2> QED
    BY <2>2, <2>3
<1>8. ASSUME NEW l \in 1 .. created'
      PROVE  OneLinkHolds(l)'
  BY <1>1, <1>6, <1>7
<1> QED
  BY <1>1, <1>3, <1>4, <1>5, <1>8

LEMMA ConnectsWindowStep ==
  ASSUME NEW w \in Windows, DaemonIInv, MaxLinks \in Nat, ConnectsWindow(w), Running(w)',
         process' = [process EXCEPT ![w] = "runs"], process[w] # "gone",
         UNCHANGED <<hasPhone, toTell, clients, daemon, shown, grounds>>
  PROVE  DaemonIInv'
<1>1. asking' = [asking EXCEPT ![w] = "waits"]
  BY DEF ConnectsWindow
<1>2. \A v \in Windows : /\ Running(v) => Running(v)'
                         /\ process[v] = "gone" => process'[v] = "gone"
                         /\ asking'[v] # "no" => Running(v)'
  BY <1>1 DEF DaemonIInv, DaemonTypeOK, SendersHold, Running
<1>3. AnotherWindowIsThere'
  BY DEF DaemonIInv, AnotherWindowIsThere
<1>4. CASE sender[w] # 0
  <2>1. UNCHANGED <<sender, created, link>>
    BY <1>4 DEF ConnectsWindow
  <2>2. DaemonTypeOK' /\ KeepsLinks(link')
    BY <1>1, <2>1, KeepsNone DEF DaemonIInv, DaemonTypeOK
  <2> QED
    BY <1>2, <1>3, <2>1, <2>2, QuietStep
<1>5. CASE sender[w] = 0
  <2>1. Creates(w) /\ link' = [link EXCEPT ![created'] = NewLink(w)]
    BY <1>5 DEF ConnectsWindow
  <2>2. /\ link' \in [Links -> LinkRecords] /\ created' \in 0 .. MaxLinks /\ created' = created + 1
        /\ sender' \in [Windows -> 0 .. created']
        /\ SendersHold' /\ \A l \in 1 .. created' : OneLinkHolds(l)'
    BY <1>2, <1>5, <2>1, NewLinkHolds
  <2>3. 1 .. created \subseteq 1 .. created'
    BY <2>2, LinkTypes
  <2>4. DaemonTypeOK'
    BY <1>1, <2>2, <2>3 DEF DaemonIInv, DaemonTypeOK, LinkRecords
  <2> QED
    BY <1>3, <2>2, <2>4 DEF DaemonIInv
<1> QED
  BY <1>4, <1>5

LEMMA UserConnectsStep ==
  ASSUME NEW w \in Windows, DaemonIInv, MaxLinks \in Nat, UserConnects(w)
  PROVE  DaemonIInv'
<1>1. /\ Running(w) /\ ConnectsWindow(w) /\ UNCHANGED <<process, hasPhone, toTell, clients, daemon, shown, grounds>>
  BY DEF UserConnects
<1>2. process' = [process EXCEPT ![w] = "runs"] /\ process[w] # "gone" /\ Running(w)'
  BY <1>1 DEF Running, DaemonIInv, DaemonTypeOK
<1> QED
  BY <1>1, <1>2, ConnectsWindowStep

LEMMA StartInstanceStep ==
  ASSUME NEW w \in Windows, DaemonIInv, MaxLinks \in Nat, StartInstance(w)
  PROVE  DaemonIInv'
<1>1. /\ process[w] = "absent" /\ process' = [process EXCEPT ![w] = "runs"] /\ ConnectsWindow(w)
      /\ UNCHANGED <<hasPhone, toTell, clients, daemon, shown, grounds>>
  BY DEF StartInstance
<1>2. process[w] # "gone" /\ Running(w)'
  BY <1>1 DEF Running, DaemonIInv, DaemonTypeOK
<1> QED
  BY <1>1, <1>2, ConnectsWindowStep

LEMMA SessionBeginsStep ==
  ASSUME NEW w \in Windows, DaemonIInv, MaxLinks \in Nat, SessionBegins(w)
  PROVE  DaemonIInv'
<1>1. /\ asking[w] = "goes" /\ asking' = [asking EXCEPT ![w] = "no"] /\ hasPhone' = [hasPhone EXCEPT ![w] = TRUE]
      /\ UNCHANGED <<process, clients, daemon, shown, grounds>>
  BY DEF SessionBegins
<1>2. Running(w) /\ \A v \in Windows : asking'[v] # "no" => Running(v)
  BY <1>1 DEF DaemonIInv, DaemonTypeOK, SendersHold
<1>3. \A v \in Windows : /\ Running(v) => Running(v)'
                         /\ process[v] = "gone" => process'[v] = "gone"
                         /\ asking'[v] # "no" => Running(v)'
  BY <1>1, <1>2 DEF Running
<1>4. AnotherWindowIsThere'
  BY <1>1 DEF DaemonIInv, AnotherWindowIsThere
<1>5. CASE sender[w] = 0
  <2>1. Creates(w) /\ link' = [link EXCEPT ![created'] = NewLink(w)] /\ toTell' = toTell \cup {created'}
    BY <1>5 DEF SessionBegins
  <2>2. /\ link' \in [Links -> LinkRecords] /\ created' \in 0 .. MaxLinks /\ created' = created + 1
        /\ sender' \in [Windows -> 0 .. created']
        /\ SendersHold' /\ \A l \in 1 .. created' : OneLinkHolds(l)'
    BY <1>2, <1>3, <1>5, <2>1, NewLinkHolds
  <2>3. 1 .. created \subseteq 1 .. created' /\ created' \in 1 .. created'
    BY <2>2, LinkTypes
  <2>4. DaemonTypeOK'
    BY <1>1, <2>1, <2>2, <2>3 DEF DaemonIInv, DaemonTypeOK, LinkRecords
  <2> QED
    BY <1>4, <2>2, <2>4 DEF DaemonIInv
<1>6. CASE sender[w] # 0
  <2>1. sender[w] \in 1 .. created
    BY <1>6, LinkTypes
  <2>2. UNCHANGED <<sender, created>> /\ KeepsLinks(link') /\ toTell' \subseteq 1 .. created
    <3>1. CASE link[sender[w]].conn = "up"
      <4>1. UNCHANGED <<sender, created, toTell>> /\ link' = Sends(sender[w], link, "connected")
        BY <1>6, <3>1 DEF SessionBegins
      <4> QED
        BY <2>1, <3>1, <4>1, SendsKeeps DEF DaemonIInv, DaemonTypeOK
    <3>2. CASE link[sender[w]].conn # "up"
      <4>1. UNCHANGED <<sender, created, link>> /\ toTell' = toTell \cup {sender[w]}
        BY <1>6, <3>2 DEF SessionBegins
      <4> QED
        BY <2>1, <4>1, KeepsNone DEF DaemonIInv, DaemonTypeOK
    <3> QED
      BY <3>1, <3>2
  <2>3. DaemonTypeOK'
    BY <1>1, <2>2 DEF DaemonIInv, DaemonTypeOK, KeepsLinks, LinkRecords
  <2> QED
    BY <1>3, <1>4, <2>2, <2>3, QuietStep
<1> QED
  BY <1>5, <1>6

LEMMA LinkConnectsStep ==
  ASSUME NEW l \in Links, DaemonIInv, MaxLinks \in Nat, LinkConnects(l)
  PROVE  DaemonIInv'
<1>1. l \in 1 .. created /\ OneLinkHolds(l) /\ link[l] \in LinkRecords /\ link[l].owner \in Windows
  BY LinkTypes DEF LinkConnects, Links, DaemonIInv
<1>2. /\ link[l].serves = "no" /\ daemon \in BOOLEAN
      /\ UNCHANGED <<process, hasPhone, sender, asking, toTell, clients, daemon, shown, grounds, created>>
  BY DEF LinkConnects, DaemonIInv, DaemonTypeOK
<1>3. /\ link' \in [Links -> LinkRecords] /\ \A k \in Links : k # l => link'[k] = link[k]
      /\ link'[l].owner = link[l].owner /\ link'[l].up = link[l].up
      /\ link'[l].closed = (link[l].closed /\ ~daemon) /\ link'[l].late = (link[l].late \/ link[l].closed)
      /\ link'[l].serves \in {"accepted", "refused"}
  <2>1. link' = [link EXCEPT ![l].conn = IF daemon THEN "up" ELSE "over", ![l].closed = @ /\ ~daemon,
                             ![l].late = @ \/ link[l].closed,
                             ![l].serves = IF daemon THEN "accepted" ELSE "refused"]
    BY DEF LinkConnects
  <2>2. link'[l] = [link[l] EXCEPT !.conn = IF daemon THEN "up" ELSE "over", !.closed = @ /\ ~daemon,
                                   !.late = @ \/ link[l].closed,
                                   !.serves = IF daemon THEN "accepted" ELSE "refused"]
    BY <2>1, LinkTypes
  <2>3. DOMAIN link' = Links /\ \A k \in Links : k # l => link'[k] = link[k]
    BY <2>1, LinkTypes
  <2>4. /\ link'[l] \in LinkRecords /\ link'[l].owner = link[l].owner /\ link'[l].up = link[l].up
        /\ link'[l].closed = (link[l].closed /\ ~daemon) /\ link'[l].late = (link[l].late \/ link[l].closed)
        /\ link'[l].serves \in {"accepted", "refused"}
    BY <1>1, <1>2, <2>2 DEF LinkRecords
  <2>5. link' = [k \in Links |-> link'[k]]
    BY <2>1, <2>3, LinkTypes
  <2>6. \A k \in Links : link'[k] \in LinkRecords
    BY <2>3, <2>4, LinkTypes
  <2> QED
    BY <2>3, <2>4, <2>5, <2>6
<1>4. DaemonTypeOK'
  BY <1>2, <1>3 DEF DaemonIInv, DaemonTypeOK, LinkRecords
<1>5. SendersHold'
  <2>1. ASSUME NEW w \in Windows, sender[w] # 0
        PROVE  link'[sender[w]].owner = w
    <3>1. sender[w] \in Links /\ link[sender[w]].owner = w
      BY <2>1, LinkTypes DEF DaemonIInv, SendersHold
    <3> QED
      BY <1>3, <3>1
  <2> QED
    BY <1>2, <2>1 DEF DaemonIInv, SendersHold, Running
<1>6. OneLinkHolds(l)'
  <2>1. <<>> \in Seq({"connected"})
    BY EmptySeq
  <2> QED
    BY <1>1, <1>2, <1>3, <2>1 DEF OneLinkHolds, Running
<1>7. \A k \in 1 .. created : OneLinkHolds(k)'
  BY <1>2, <1>3, <1>6, LinkTypes DEF DaemonIInv, OneLinkHolds, Running
<1> QED
  BY <1>2, <1>4, <1>5, <1>7 DEF DaemonIInv, AnotherWindowIsThere

(* The end of a window's links, by Destroy or with its process. *)
LEMMA EndedFacts ==
  ASSUME DaemonIInv, MaxLinks \in Nat, NEW ls \in SUBSET Links,
         NEW links, links = DestroysLinks(ls) \/ links = EndsLinks(ls)
  PROVE  /\ links \in [Links -> LinkRecords]
         /\ \A l \in Links : l \notin ls => links[l] = link[l]
         /\ \A l \in ls : /\ links[l].owner = link[l].owner /\ links[l].closed /\ links[l].late = link[l].late
                          /\ links[l].up = link[l].up /\ links[l].conn = "over"
                          /\ links[l].serves = "no" => link[l].serves = "no" /\ links # EndsLinks(ls)
<1>1. \A l \in Links : l \notin ls => links[l] = link[l]
  BY DEF DestroysLinks, EndsLinks
<1>2. DOMAIN links = Links /\ links = [l \in Links |-> links[l]]
  BY DEF DestroysLinks, EndsLinks
<1>3. <<>> \in Seq({"yes", "no", "show"})
  BY EmptySeq
<1>4. ASSUME NEW l \in ls
      PROVE  /\ links[l] \in LinkRecords
             /\ links[l].owner = link[l].owner /\ links[l].closed /\ links[l].late = link[l].late
             /\ links[l].up = link[l].up /\ links[l].conn = "over"
             /\ links[l].serves = "no" => link[l].serves = "no" /\ links # EndsLinks(ls)
  <2> DEFINE r == [link[l] EXCEPT !.conn = "over", !.closed = TRUE, !.down = <<>>]
  <2>1. link[l] \in LinkRecords /\ l \in Links
    BY LinkTypes
  <2>2. DestroysLinks(ls)[l] = r
    BY <2>1 DEF DestroysLinks
  <2>3. /\ r \in LinkRecords /\ r.owner = link[l].owner /\ r.closed /\ r.late = link[l].late
        /\ r.up = link[l].up /\ r.conn = "over" /\ r.serves = link[l].serves
    BY <1>3, <2>1 DEF LinkRecords
  <2> HIDE DEF r
  <2> DEFINE e == [r EXCEPT !.serves = "refused"]
  <2>4. EndsLinks(ls)[l] = IF link[l].serves = "no" THEN e ELSE r
    BY <2>1, <2>2 DEF EndsLinks
  <2>5. /\ e \in LinkRecords /\ e.owner = link[l].owner /\ e.closed /\ e.late = link[l].late
        /\ e.up = link[l].up /\ e.conn = "over" /\ e.serves = "refused"
    BY <2>3 DEF LinkRecords
  <2> HIDE DEF e
  <2>6. CASE links = EndsLinks(ls)
    <3>1. links[l] = e \/ (links[l] = r /\ r.serves # "no")
      BY <2>3, <2>4, <2>6
    <3>2. links[l].serves # "no"
      BY <2>5, <3>1
    <3> QED
      BY <2>3, <2>5, <3>1, <3>2
  <2>7. CASE links # EndsLinks(ls)
    BY <2>2, <2>3, <2>7
  <2> QED
    BY <2>6, <2>7
<1>5. \A l \in Links : links[l] \in LinkRecords
  BY <1>1, <1>4, LinkTypes
<1> QED
  BY <1>1, <1>2, <1>4, <1>5

(* Links that end with nobody's sender among them, or with their process. *)
LEMMA EndedHold ==
  ASSUME DaemonIInv, MaxLinks \in Nat, NEW w \in Windows, NEW ls \in SUBSET Links, created' = created,
         link' = DestroysLinks(ls) \/ link' = EndsLinks(ls),
         \A l \in ls : l \in 1 .. created /\ link[l].owner = w,
         \A v \in Windows : v # w => process'[v] = process[v] /\ sender'[v] = sender[v],
         \/ sender'[w] = 0
         \/ sender'[w] = sender[w] /\ process'[w] = "gone" /\ link' = EndsLinks(ls),
         \A l \in 1 .. created : link[l].owner = w /\ l \notin ls => link[l].closed \/ link[l].late
  PROVE  /\ link' \in [Links -> LinkRecords] /\ \A v \in Windows : sender'[v] # 0 => link'[sender'[v]].owner = v
         /\ \A l \in 1 .. created' : OneLinkHolds(l)'
<1>1. /\ link' \in [Links -> LinkRecords]
      /\ \A l \in Links : l \notin ls => link'[l] = link[l]
      /\ \A l \in ls : /\ link'[l].owner = link[l].owner /\ link'[l].closed /\ link'[l].late = link[l].late
                       /\ link'[l].up = link[l].up /\ link'[l].conn = "over"
                       /\ link'[l].serves = "no" => link[l].serves = "no" /\ link' # EndsLinks(ls)
  BY EndedFacts
<1>2. \A l \in Links : link'[l].owner = link[l].owner
  BY <1>1
<1>3. ASSUME NEW v \in Windows, sender'[v] # 0
      PROVE  link'[sender'[v]].owner = v
  <2>1. sender'[v] = sender[v] /\ sender[v] \in Links
    BY <1>3, LinkTypes
  <2> QED
    BY <1>2, <1>3, <2>1 DEF DaemonIInv, SendersHold
<1>4. ASSUME NEW l \in 1 .. created
      PROVE  OneLinkHolds(l)'
  <2>1. OneLinkHolds(l) /\ l \in Links /\ link[l].owner \in Windows /\ l # 0
    BY LinkTypes DEF DaemonIInv
  <2>2. CASE l \in ls
    <3>1. link[l].owner = w
      BY <2>2
    <3>2. /\ link'[l].owner = w /\ link'[l].closed /\ link'[l].late = link[l].late /\ link'[l].up = link[l].up
          /\ link'[l].conn = "over" /\ (link'[l].serves = "no" => link[l].serves = "no" /\ link' # EndsLinks(ls))
      BY <1>1, <2>2, <3>1
    <3> QED
      BY <2>1, <3>1, <3>2 DEF OneLinkHolds
  <2>3. CASE l \notin ls
    <3>1. link'[l] = link[l]
      BY <1>1, <2>1, <2>3
    <3>2. CASE link[l].owner = w
      <4>1. link[l].closed \/ link[l].late
        BY <2>3, <3>2
      <4> QED
        BY <2>1, <3>1, <3>2, <4>1 DEF OneLinkHolds
    <3>3. CASE link[l].owner # w
      BY <2>1, <3>1, <3>3 DEF OneLinkHolds, Running
    <3> QED
      BY <3>2, <3>3
  <2> QED
    BY <2>2, <2>3
<1> QED
  BY <1>1, <1>3, <1>4

LEMMA UserDisconnectsStep ==
  ASSUME NEW w \in Windows, DaemonIInv, MaxLinks \in Nat, UserDisconnects(w)
  PROVE  DaemonIInv'
<1>1. /\ sender[w] # 0 /\ hasPhone' = [hasPhone EXCEPT ![w] = FALSE] /\ sender' = [sender EXCEPT ![w] = 0]
      /\ link' = DestroysLinks({sender[w]})
      /\ UNCHANGED <<process, asking, toTell, clients, daemon, shown, grounds, created>>
  BY DEF UserDisconnects
<1>2. /\ sender[w] \in 1 .. created /\ sender[w] \in Links /\ link[sender[w]].owner = w
      /\ sender' \in [Windows -> 0 .. created] /\ sender'[w] = 0
      /\ \A v \in Windows : v # w => sender'[v] = sender[v]
  BY <1>1, LinkTypes DEF DaemonIInv, SendersHold
<1>3. ASSUME NEW l \in 1 .. created, link[l].owner = w, l # sender[w]
      PROVE  link[l].closed \/ link[l].late
  BY <1>3 DEF DaemonIInv, OneLinkHolds
<1>4. /\ link' \in [Links -> LinkRecords] /\ \A v \in Windows : sender'[v] # 0 => link'[sender'[v]].owner = v
      /\ \A l \in 1 .. created' : OneLinkHolds(l)'
  <2>1. {sender[w]} \in SUBSET Links /\ \A l \in {sender[w]} : l \in 1 .. created /\ link[l].owner = w
    BY <1>2
  <2>2. \A l \in 1 .. created : link[l].owner = w /\ l \notin {sender[w]} => link[l].closed \/ link[l].late
    BY <1>3
  <2> QED
    BY <1>1, <1>2, <2>1, <2>2, EndedHold
<1>5. DaemonTypeOK'
  BY <1>1, <1>2, <1>4 DEF DaemonIInv, DaemonTypeOK, LinkRecords
<1> QED
  BY <1>1, <1>4, <1>5 DEF DaemonIInv, SendersHold, Running, AnotherWindowIsThere

LEMMA UserQuitsStep ==
  ASSUME NEW w \in Windows, DaemonIInv, MaxLinks \in Nat, UserQuits(w)
  PROVE  DaemonIInv'
<1>1. /\ process' = [process EXCEPT ![w] = "absent"] /\ hasPhone' = [hasPhone EXCEPT ![w] = FALSE]
      /\ asking' = [asking EXCEPT ![w] = "no"] /\ sender' = [sender EXCEPT ![w] = 0]
      /\ link' = EndsLinks(OwnedBy(w)) /\ toTell' = toTell \ OwnedBy(w)
      /\ UNCHANGED <<clients, daemon, shown, grounds, created>>
  BY DEF UserQuits
<1>2. /\ sender' \in [Windows -> 0 .. created] /\ sender'[w] = 0
      /\ \A v \in Windows : v # w => sender'[v] = sender[v] /\ process'[v] = process[v]
  BY <1>1, LinkTypes DEF DaemonIInv, DaemonTypeOK
<1>3. /\ OwnedBy(w) \in SUBSET Links /\ \A l \in OwnedBy(w) : l \in 1 .. created /\ link[l].owner = w
      /\ \A l \in 1 .. created : ~(link[l].owner = w /\ l \notin OwnedBy(w))
  BY LinkTypes DEF OwnedBy
<1>4. /\ link' \in [Links -> LinkRecords] /\ \A v \in Windows : sender'[v] # 0 => link'[sender'[v]].owner = v
      /\ \A l \in 1 .. created' : OneLinkHolds(l)'
  BY <1>1, <1>2, <1>3, EndedHold
<1>5. DaemonTypeOK'
  BY <1>1, <1>2, <1>4 DEF DaemonIInv, DaemonTypeOK, LinkRecords
<1>6. \A v \in Windows : asking'[v] # "no" => Running(v)'
  BY <1>1, <1>2 DEF DaemonIInv, DaemonTypeOK, SendersHold, Running
<1> QED
  BY <1>1, <1>4, <1>5, <1>6 DEF DaemonIInv, SendersHold, AnotherWindowIsThere

(* The yes that ends the process. *)
LEMMA YesStep ==
  ASSUME NEW w \in Windows, DaemonIInv, MaxLinks \in Nat, process' = [process EXCEPT ![w] = "gone"],
         asking' = [asking EXCEPT ![w] = "no"], link' = EndsLinks(OwnedBy(w)), shown' = shown,
         UNCHANGED <<hasPhone, sender, toTell, clients, daemon, grounds, created>>
  PROVE  DaemonIInv'
<1>1. process'[w] = "gone" /\ \A v \in Windows : v # w => process'[v] = process[v]
  BY DEF DaemonIInv, DaemonTypeOK
<1>2. /\ OwnedBy(w) \in SUBSET Links /\ \A l \in OwnedBy(w) : l \in 1 .. created /\ link[l].owner = w
      /\ \A l \in 1 .. created : ~(link[l].owner = w /\ l \notin OwnedBy(w))
  BY LinkTypes DEF OwnedBy
<1>3. /\ link' \in [Links -> LinkRecords] /\ \A v \in Windows : sender'[v] # 0 => link'[sender'[v]].owner = v
      /\ \A l \in 1 .. created' : OneLinkHolds(l)'
  BY <1>1, <1>2, EndedHold
<1>4. DaemonTypeOK'
  BY <1>3 DEF DaemonIInv, DaemonTypeOK, LinkRecords
<1>5. \A v \in Windows : asking'[v] # "no" => Running(v)'
  BY <1>1 DEF DaemonIInv, DaemonTypeOK, SendersHold, Running
<1> QED
  BY <1>3, <1>4, <1>5 DEF DaemonIInv, SendersHold, AnotherWindowIsThere

LEMMA ClientReceivesStep ==
  ASSUME NEW l \in Links, DaemonIInv, MaxLinks \in Nat, ClientReceives(l)
  PROVE  DaemonIInv'
<1> DEFINE r == [link[l] EXCEPT !.down = Tail(@)]
           w == link[l].owner
           rest == [link EXCEPT ![l].down = Tail(@)]
<1>1. /\ l \in 1 .. created /\ link[l].down # <<>> /\ w \in Windows /\ link[l] \in LinkRecords
      /\ UNCHANGED <<hasPhone, sender, toTell, clients, daemon, grounds, created>>
  BY LinkTypes DEF ClientReceives, Links
<1>2. /\ link' = rest /\ process' = process /\ asking' \in {asking, [asking EXCEPT ![w] = "goes"]}
         /\ (asking' # asking => asking[w] = "asked") /\ shown' \in {shown, shown \cup {w}}
      \/ /\ process' = [process EXCEPT ![w] = "gone"] /\ asking' = [asking EXCEPT ![w] = "no"]
         /\ link' = EndsLinks(OwnedBy(w)) /\ shown' = shown
  BY DEF ClientReceives, ShowsWindow
<1>3. CASE /\ link' = rest /\ process' = process /\ asking' \in {asking, [asking EXCEPT ![w] = "goes"]}
           /\ (asking' # asking => asking[w] = "asked") /\ shown' \in {shown, shown \cup {w}}
  <2>1. Tail(link[l].down) \in Seq({"yes", "no", "show"})
    BY <1>1, LinkTypes, HeadTailProperties
  <2>2. /\ r \in LinkRecords /\ r.owner = link[l].owner /\ r.closed = link[l].closed /\ r.late = link[l].late
        /\ r.serves = link[l].serves /\ r.up = link[l].up /\ r.conn = link[l].conn
    BY <1>1, <2>1 DEF LinkRecords
  <2>3. rest = [link EXCEPT ![l] = r]
    BY LinkTypes
  <2>4. link' = [link EXCEPT ![l] = r]
    BY <1>3, <2>3
  <2> HIDE DEF r, rest
  <2>5. KeepsLinks([link EXCEPT ![l] = r])
    BY <1>1, <2>2, KeepsOne DEF DaemonIInv, OneLinkHolds
  <2>6. KeepsLinks(link')
    BY <2>4, <2>5
  <2>7. DaemonTypeOK'
    <3>1. asking' \in [Windows -> {"no", "waits", "asked", "goes"}] /\ shown' \subseteq Windows
      <4> HIDE DEF w
      <4>1. asking \in [Windows -> {"no", "waits", "asked", "goes"}] /\ shown \subseteq Windows /\ w \in Windows
        BY <1>1 DEF DaemonIInv, DaemonTypeOK
      <4> QED
        BY <1>3, <4>1
    <3> QED
      BY <1>1, <1>3, <2>6, <3>1 DEF DaemonIInv, DaemonTypeOK, KeepsLinks, LinkRecords
  <2>8. \A v \in Windows : asking'[v] # "no" => Running(v)
    BY <1>1, <1>3 DEF DaemonIInv, DaemonTypeOK, SendersHold
  <2> QED
    BY <1>1, <1>3, <2>6, <2>7, <2>8, QuietStep DEF DaemonIInv, Running, AnotherWindowIsThere
<1>4. CASE /\ process' = [process EXCEPT ![w] = "gone"] /\ asking' = [asking EXCEPT ![w] = "no"]
           /\ link' = EndsLinks(OwnedBy(w)) /\ shown' = shown
  BY <1>1, <1>4, YesStep
<1> QED
  BY <1>2, <1>3, <1>4

(* Who is answered yes, over an open link, is the sender's window, and the client *)
(* found is not its own unless that client's link was closed.                     *)
LEMMA FoundFacts ==
  ASSUME NEW l \in 1 .. created, DaemonIInv, MaxLinks \in Nat, link[l].up # <<>>, Head(link[l].up) = "request",
         NEW c \in Found(l)
  PROVE  /\ c \in 1 .. created /\ c # l
         /\ link[l].closed \/ OfAnother(l, c) \/ link[c].closed \/ link[c].late
<1>1. c \in 1 .. created /\ c # l
  BY DEF Found, DaemonIInv, DaemonTypeOK
<1>2. ~link[l].late
  <2>1. link[l].late => Head(link[l].up) \in {"connected"}
    BY HeadTailProperties DEF DaemonIInv, OneLinkHolds
  <2> QED
    BY <2>1
<1>3. OneLinkHolds(l) /\ OneLinkHolds(c)
  BY <1>1 DEF DaemonIInv
<1> QED
  BY <1>1, <1>2, <1>3 DEF OneLinkHolds, OfAnother

LEMMA RespondsStep ==
  ASSUME NEW l \in Links, DaemonIInv, MaxLinks \in Nat, Responds(l)
  PROVE  DaemonIInv'
<1>1. /\ l \in 1 .. created /\ Served(l) /\ link[l].up # <<>> /\ Head(link[l].up) = "request"
      /\ UNCHANGED <<process, hasPhone, sender, asking, toTell, clients, daemon, shown, created>>
  BY LinkTypes DEF Responds, Links
<1>2. ASSUME NEW m \in {"yes", "no"}
      PROVE  LET r == [link[l] EXCEPT !.up = Tail(@), !.down = Append(@, m)]
             IN  /\ r \in LinkRecords /\ r.owner = link[l].owner /\ r.closed = link[l].closed /\ r.late = link[l].late
                 /\ r.serves = link[l].serves /\ (link[l].late => r.up \in Seq({"connected"}))
  <2>1. link[l] \in LinkRecords /\ Tail(link[l].up) \in Seq({"request", "connected"})
    BY <1>1, LinkTypes, HeadTailProperties
  <2>2. Append(link[l].down, m) \in Seq({"yes", "no", "show"})
    BY LinkTypes, AppendProperties
  <2>3. link[l].late => Tail(link[l].up) \in Seq({"connected"})
    BY <1>1, HeadTailProperties DEF DaemonIInv, OneLinkHolds
  <2> QED
    BY <2>1, <2>2, <2>3 DEF LinkRecords
<1>3. link[l].serves # "no"
  BY <1>1 DEF Served
<1>4. CASE Found(l) = {}
  <2> DEFINE r == [link[l] EXCEPT !.up = Tail(@), !.down = Append(@, "no")]
  <2>1. link' = [link EXCEPT ![l].up = Tail(@), ![l].down = Append(@, "no")] /\ UNCHANGED grounds
    BY <1>4 DEF Responds
  <2>2. [link EXCEPT ![l].up = Tail(@), ![l].down = Append(@, "no")] = [link EXCEPT ![l] = r]
    BY LinkTypes
  <2>3. /\ r \in LinkRecords /\ r.owner = link[l].owner /\ r.closed = link[l].closed /\ r.late = link[l].late
        /\ r.serves # "no" /\ (link[l].late => r.up \in Seq({"connected"}))
    BY <1>2, <1>3
  <2> HIDE DEF r
  <2>4. KeepsLinks([link EXCEPT ![l] = r])
    BY <1>1, <2>3, KeepsOne
  <2>5. KeepsLinks(link')
    BY <2>1, <2>2, <2>4
  <2>6. DaemonTypeOK'
    BY <1>1, <2>1, <2>5 DEF DaemonIInv, DaemonTypeOK, KeepsLinks, LinkRecords
  <2> QED
    BY <1>1, <2>1, <2>5, <2>6, QuietStep DEF DaemonIInv, SendersHold, Running, AnotherWindowIsThere
<1>5. CASE Found(l) # {}
  <2> DEFINE r == [link[l] EXCEPT !.up = Tail(@), !.down = Append(@, "yes")]
  <2>1. PICK c \in Found(l) :
          /\ link' = [link EXCEPT ![l].up = Tail(@),
                                  ![l].down = Append(@, "yes"),
                                  ![c].down = IF c = l THEN @ \o <<"yes", "show">>
                                              ELSE Append(@, "show")]
          /\ grounds' = [grounds EXCEPT ![link[l].owner] =
               IF link[l].closed THEN @
               ELSE IF OfAnother(l, c) THEN "window"
               ELSE IF link[c].closed \/ link[c].late THEN "closing"
               ELSE "itself"]
    BY <1>5 DEF Responds
  <2>2. /\ c \in 1 .. created /\ c # l /\ c \in Links
        /\ link[l].closed \/ OfAnother(l, c) \/ link[c].closed \/ link[c].late
    BY <1>1, FoundFacts, LinkTypes
  <2> DEFINE s == [link[c] EXCEPT !.down = Append(@, "show")]
  <2>3. link' = [[link EXCEPT ![l] = r] EXCEPT ![c] = s]
    BY <2>1, <2>2, LinkTypes
  <2>4. /\ r \in LinkRecords /\ r.owner = link[l].owner /\ r.closed = link[l].closed /\ r.late = link[l].late
        /\ r.serves # "no" /\ (link[l].late => r.up \in Seq({"connected"}))
    BY <1>2, <1>3
  <2>5. /\ s \in LinkRecords /\ s.owner = link[c].owner /\ s.closed = link[c].closed /\ s.late = link[c].late
        /\ s.serves = link[c].serves /\ s.conn = link[c].conn /\ s.up = link[c].up
    <3>1. link[c] \in LinkRecords /\ link[c].down \in Seq({"yes", "no", "show"})
      BY <2>2, LinkTypes
    <3>2. Append(link[c].down, "show") \in Seq({"yes", "no", "show"})
      BY <3>1, AppendProperties
    <3> QED
      BY <3>1, <3>2 DEF LinkRecords
  <2> HIDE DEF r, s
  <2>6. KeepsLinks(link')
    <3>1. KeepsLinks([link EXCEPT ![l] = r])
      BY <1>1, <2>4, KeepsOne
    <3>2. KeepsLinks([link EXCEPT ![c] = s])
      BY <2>2, <2>5, KeepsOne DEF DaemonIInv, OneLinkHolds
    <3>3. /\ link' \in [Links -> LinkRecords] /\ link'[c] = [link EXCEPT ![c] = s][c]
          /\ \A k \in Links : k # c => link'[k] = [link EXCEPT ![l] = r][k]
      BY <2>2, <2>3, <2>4, <2>5, LinkTypes
    <3>4. ASSUME NEW k \in 1 .. created
          PROVE  /\ link'[k].owner = link[k].owner /\ link'[k].closed = link[k].closed /\ link'[k].late = link[k].late
                 /\ link[k].late => link'[k].up \in Seq({"connected"})
                 /\ link'[k].serves = "no" => link[k].serves = "no" /\ link'[k].conn # "up" /\ link'[k].up = <<>>
      <4>1. CASE k = c
        BY <3>2, <3>3, <4>1 DEF KeepsLinks
      <4>2. CASE k # c
        <5>1. link'[k] = [link EXCEPT ![l] = r][k]
          BY <3>3, <4>2, LinkTypes
        <5> QED
          BY <3>1, <5>1 DEF KeepsLinks
      <4> QED
        BY <4>1, <4>2
    <3> QED
      BY <3>3, <3>4 DEF KeepsLinks
  <2>7. grounds' \in [Windows -> {"none", "window", "closing", "itself"}] /\ AnotherWindowIsThere'
    BY <2>1, <2>2, LinkTypes DEF DaemonIInv, DaemonTypeOK, AnotherWindowIsThere
  <2>8. DaemonTypeOK'
    BY <1>1, <2>6, <2>7 DEF DaemonIInv, DaemonTypeOK, KeepsLinks, LinkRecords
  <2> QED
    BY <1>1, <2>6, <2>7, <2>8, QuietStep DEF DaemonIInv, SendersHold, Running
<1> QED
  BY <1>4, <1>5

LEMMA DaemonInitStep ==
  ASSUME DaemonBounds, DaemonInit
  PROVE  DaemonIInv
<1>1. Unused \in LinkRecords
  <2>1. (CHOOSE w \in Windows : TRUE) \in Windows
    BY DEF DaemonBounds
  <2>2. <<>> \in Seq({"request", "connected"}) /\ <<>> \in Seq({"yes", "no", "show"})
    BY EmptySeq
  <2> QED
    BY <2>1, <2>2 DEF Unused, NewLink, LinkRecords
<1>2. link = [l \in Links |-> Unused] /\ link \in [Links -> LinkRecords]
  BY <1>1 DEF DaemonInit
<1>3. DaemonTypeOK
  BY <1>2 DEF DaemonInit, DaemonTypeOK, LinkRecords
<1> QED
  BY <1>3 DEF DaemonInit, DaemonBounds, DaemonIInv, SendersHold, OneLinkHolds, AnotherWindowIsThere

LEMMA DaemonNextStep ==
  ASSUME DaemonBounds, DaemonIInv, [DaemonNext]_daemonVars
  PROVE  DaemonIInv'
<1>1. MaxLinks \in Nat
  BY DEF DaemonBounds
<1>2. CASE UNCHANGED daemonVars
  BY <1>2 DEF daemonVars, DaemonIInv, DaemonTypeOK, SendersHold, OneLinkHolds, Running, AnotherWindowIsThere
<1>3. ASSUME NEW w \in Windows,
             \/ UserStarts(w) \/ UserConnects(w) \/ Asks(w) \/ AskTimesOut(w)
             \/ SessionBegins(w) \/ SessionFails(w) \/ UserDisconnects(w)
             \/ SessionIsLost(w) \/ UserQuits(w) \/ StartInstance(w)
      PROVE  DaemonIInv'
  BY <1>1, <1>3, UserStartsStep, UserConnectsStep, AsksStep, AskTimesOutStep, SessionBeginsStep, SessionFailsStep,
     UserDisconnectsStep, SessionIsLostStep, UserQuitsStep, StartInstanceStep
<1>4. ASSUME NEW l \in Links,
             \/ LinkConnects(l) \/ ClientReceives(l) \/ Signals(l) \/ Lists(l)
             \/ Responds(l) \/ RegistersConnected(l) \/ ClientEnds(l)
      PROVE  DaemonIInv'
  BY <1>1, <1>4, LinkConnectsStep, ClientReceivesStep, SignalsStep, ListsStep, RespondsStep, RegistersConnectedStep,
     ClientEndsStep
<1>5. CASE DaemonStops
  BY <1>1, <1>5, DaemonStopsStep
<1> QED
  BY <1>2, <1>3, <1>4, <1>5 DEF DaemonNext

(* Whatever windows connect, lose the phone, end and start again, and whenever the    *)
(* daemon's answers reach them, no window ends because the daemon found itself.       *)
THEOREM NoWindowEndsForItself ==
  ASSUME DaemonBounds
  PROVE  DaemonSpec => [](DaemonTypeOK /\ AnotherWindowIsThere)
<1>1. DaemonInit => DaemonIInv
  BY DaemonInitStep
<1>2. DaemonIInv /\ [DaemonNext]_daemonVars => DaemonIInv'
  BY DaemonNextStep
<1>3. DaemonIInv => DaemonTypeOK /\ AnotherWindowIsThere
  BY DEF DaemonIInv
<1> QED
  BY <1>1, <1>2, <1>3, PTL DEF DaemonSpec

================================================================================
