------------------------ MODULE InitialConnectionProofs ------------------------
(***************************************************************************)
(* Theorems about InitialConnection for every value of its constants: the  *)
(* type invariant, SeekNeedsConsent, EndsAreTold, and the action property  *)
(* ReasonIsLast.                                                           *)
(***************************************************************************)
EXTENDS InitialConnection, SequenceTheorems, TLAPS

Data    == "DEVICE_DATA_FOR_CONNECTION"
Seek    == "DEVICE_DATA_FOR_SEEKING_CONNECTION"
Reasons == {"CONNECTION_APPROVAL_DENIED", "DEVICE_IS_UNPAIRED", "DEVICE_CONNECT_COOLDOWN"}
Prompts == {"CHALLENGE_ANSWER_REQUEST", "CHALLENGE_WRONG_ANSWER", "CONNECTION_APPROVAL_REQUEST"}

(* What each side sends: a response carries a code its user typed for that   *)
(* session, or one that is no session's; an endpoint is one that was sought. *)
Codes == {MaxSession + 1} \cup {s \in Sessions : <<s, s>> \in typed}
ClientPackages == [type : {Data}, about : Nat] \cup [type : {"CHALLENGE_RESPONSE"}, about : Codes]
ServerPackages == [type : Reasons \cup Prompts, about : Nat] \cup [type : {Seek}, about : DOMAIN seeks]

Sends(e) == IF e = 0 THEN ClientPackages ELSE ServerPackages
Gets(e)  == IF e = 0 THEN ServerPackages ELSE ClientPackages

Traffic ==
    \A e \in Ends :
        /\ end[e].out \in Seq(Sends(e)) /\ end[e].writing \in Sends(e) \cup {None}
        /\ wire[e] \in Seq(Gets(e))

Has(queue, types) == \E i \in DOMAIN queue : queue[i].type \in types
Once(queue, types) ==
    \A i, j \in DOMAIN queue : queue[i].type \in types /\ queue[j].type \in types => i = j

(* The device data of an attempt is sent once: it is queued, being written,  *)
(* or on the wire, or not sent yet, or read.                                 *)
DataIsOnTheWay(s) ==
    \/ Has(wire[s], {Data})
    \/ s = attempt /\ (end[0].dialing \/ end[0].writing.type = Data \/ Has(end[0].out, {Data}))
    \/ s > attempt

DataIsSentOnce ==
    /\ Once(end[0].out, {Data}) /\ \A s \in Sessions : Once(wire[s], {Data})
    /\ end[0].writing.type = Data => ~Has(end[0].out, {Data})
    /\ end[0].dialing \/ end[0].writing.type = Data \/ Has(end[0].out, {Data}) =>
          ~Has(wire[attempt], {Data})
    /\ \A s \in Sessions : s > attempt => ~Has(wire[s], {Data})
    /\ ~end[0].sending => end[0].writing = None /\ ~Has(end[0].out, {Data})

(* Nothing has been decided about a session before its device data is read   *)
(* and the application has answered.                                         *)
Undecided(s) ==
    /\ s \notin accepted /\ end[s].code = 0 /\ approving # s
    /\ \A k \in DOMAIN seeks : seeks[k] # s

DecisionsFollowData ==
    /\ \A s \in Sessions : DataIsOnTheWay(s) => Undecided(s) /\ s \notin asked
    /\ \A s \in asked : Undecided(s)

(* A challenge was accepted, and it is answered before approval is asked.    *)
ApprovalFollowsAnswer ==
    /\ \A s \in Sessions : end[s].code \in {0, s} /\ (end[s].code # 0 => s \in accepted)
    /\ approving # 0 => end[approving].code = approving /\ <<approving, approving>> \in typed

(* Session s was refused with a reason.                                      *)
Refused(s) ==
    \/ Has(end[s].out, Reasons) \/ end[s].writing.type \in Reasons
    \/ s = attempt /\ (Has(wire[0], Reasons) \/ end[0].terminal)

InOrder(queue) ==
    \A i, j \in DOMAIN queue : i < j /\ queue[i].type \in Reasons => queue[j].type \notin Prompts

(* No prompt follows a reason, on the way or still to come.                  *)
SessionInOrder(s) ==
    /\ InOrder(end[s].out)
    /\ end[s].writing.type \in Reasons => ~Has(end[s].out, Prompts)
    /\ s = attempt /\ (Has(wire[0], Reasons) \/ end[0].terminal) =>
          end[s].writing.type \notin Prompts /\ ~Has(end[s].out, Prompts)
    /\ Refused(s) => end[s].state \in {"DISCONNECTING", "DISCONNECTED"} /\ s \notin asked

ReasonsComeLast ==
    /\ InOrder(wire[0])
    /\ end[0].terminal => ~Has(wire[0], Prompts)
    /\ \A s \in Sessions : SessionInOrder(s)

Outcome == told \in {"reason", "error"} \/ end[0].final \/ attempt \in abandoned

(* Where the attempt of the connecting device stands agrees with what it was *)
(* told.                                                                     *)
AttemptIsTold ==
    /\ attempt = 0 => /\ end[0].state = "DISCONNECTED"
                      /\ ~end[0].dialing /\ ~end[0].closing /\ ~end[0].sending /\ ~end[0].receiving
    /\ end[0].dialing => /\ ~end[0].sending /\ ~end[0].receiving
                         /\ ~end[0].final /\ ~end[0].terminal /\ told = "nothing"
    /\ end[0].closing => end[0].state = "DISCONNECTING" \/ attempt \in abandoned
    /\ end[0].closing /\ end[0].dialing => attempt \in abandoned
    /\ end[0].quiet => end[0].final
    /\ end[0].terminal <=> told = "reason"
    /\ attempt > 0 /\ ~end[0].dialing /\ ~(end[0].state = "CONNECTED" /\ end[0].receiving) => Outcome

IInv ==
    /\ TypeOK
    /\ Traffic
    /\ DataIsSentOnce
    /\ DecisionsFollowData
    /\ ApprovalFollowsAnswer
    /\ SeekNeedsConsent
    /\ ReasonsComeLast
    /\ AttemptIsTold
-------------------------------------------------------------------------------
(* Records, queues and CoDisconnect *)

LEMMA NoneIsNoPackage == None \notin Packages /\ None.type = "none"
  BY DEF None, Packages, PackageTypes

LEMMA IdleType ==
  ASSUME NEW state \in States
  PROVE  Idle(state) \in EndRecord
  BY EmptySeq DEF Idle, EndRecord

LEMMA EndIsSet ==
  ASSUME TypeOK, NEW e \in Ends, NEW r \in EndRecord, SetsEnd(e, r)
  PROVE  /\ end' \in [Ends -> EndRecord]
         /\ end'[e] = r
         /\ \A f \in Ends : f # e => end'[f] = end[f]
  BY DEF TypeOK, SetsEnd

LEMMA FieldTypes ==
  ASSUME NEW r \in EndRecord
  PROVE  /\ r.state \in States /\ r.dialing \in BOOLEAN /\ r.closing \in BOOLEAN
         /\ r.sending \in BOOLEAN /\ r.receiving \in BOOLEAN
         /\ r.out \in Seq(Packages) /\ r.writing \in Packages \cup {None}
         /\ r.final \in BOOLEAN /\ r.quiet \in BOOLEAN /\ r.terminal \in BOOLEAN
         /\ r.code \in Nat /\ r.tries \in Nat
  BY DEF EndRecord

LEMMA CoDisconnectIs ==
  ASSUME NEW r \in EndRecord
  PROVE  LET d == CoDisconnect(r)
         IN  /\ d \in EndRecord
             /\ d = [r EXCEPT !.state = d.state, !.closing = d.closing]
             /\ d.dialing = r.dialing /\ d.sending = r.sending /\ d.receiving = r.receiving
             /\ d.out = r.out /\ d.writing = r.writing /\ d.final = r.final
             /\ d.quiet = r.quiet /\ d.terminal = r.terminal /\ d.code = r.code
             /\ d.tries = r.tries
             /\ d.state \in {"DISCONNECTED", "DISCONNECTING"}
             /\ d.closing => d.state = "DISCONNECTING" \/ (r.closing /\ r.state # "DISCONNECTING")
             /\ r.state # "DISCONNECTED" /\ r.out # <<>> => d.state = "DISCONNECTING"
  BY DEF CoDisconnect, EndRecord, States

LEMMA QueuedIs ==
  ASSUME NEW r \in EndRecord, NEW p \in Packages
  PROVE  LET d == Queued(r, p)
         IN  /\ d \in EndRecord
             /\ d.out = Append(r.out, p)
             /\ d.dialing = r.dialing /\ d.sending = r.sending /\ d.receiving = r.receiving
             /\ d.state = r.state /\ d.closing = r.closing
             /\ d.writing = r.writing /\ d.final = r.final
             /\ d.quiet = r.quiet /\ d.terminal = r.terminal /\ d.code = r.code
             /\ d.tries = r.tries
  BY AppendProperties DEF Queued, EndRecord

LEMMA LeavesIs ==
  ASSUME NEW r \in EndRecord
  PROVE  LET d == Leaves(r)
         IN  /\ d \in EndRecord
             /\ ~d.receiving
             /\ d.dialing = r.dialing /\ d.sending = r.sending
             /\ d.out = r.out /\ d.writing = r.writing /\ d.final = r.final
             /\ d.quiet = r.quiet /\ d.terminal = r.terminal /\ d.code = r.code
             /\ d.tries = r.tries
             /\ d.state \in {"DISCONNECTED", "DISCONNECTING"}
             /\ d.closing => d.state = "DISCONNECTING" \/ (r.closing /\ r.state # "DISCONNECTING")
  <1> DEFINE left == [r EXCEPT !.receiving = FALSE]
  <1>1. left \in EndRecord
    BY DEF EndRecord
  <1>2. /\ left.dialing = r.dialing /\ left.sending = r.sending /\ left.receiving = FALSE
        /\ left.out = r.out /\ left.writing = r.writing /\ left.final = r.final
        /\ left.quiet = r.quiet /\ left.terminal = r.terminal /\ left.code = r.code
        /\ left.tries = r.tries /\ left.state = r.state /\ left.closing = r.closing
    BY DEF EndRecord
  <1>3. Leaves(r) = CoDisconnect(left)
    BY DEF Leaves
  <1> HIDE DEF left
  <1>4. QED
    BY <1>1, <1>2, <1>3, CoDisconnectIs

LEMMA TakesNextIs ==
  ASSUME NEW r \in EndRecord, r.out # <<>>
  PROVE  LET d == TakesNext(r)
         IN  /\ d \in EndRecord
             /\ d.out = Tail(r.out) /\ d.writing = Head(r.out)
             /\ d.dialing = r.dialing /\ d.sending = r.sending /\ d.receiving = r.receiving
             /\ d.state = r.state /\ d.closing = r.closing /\ d.final = r.final
             /\ d.quiet = r.quiet /\ d.terminal = r.terminal /\ d.code = r.code
             /\ d.tries = r.tries
  <1>1. Head(r.out) \in Packages /\ Tail(r.out) \in Seq(Packages)
    BY HeadTailProperties DEF EndRecord
  <1>2. QED
    BY <1>1 DEF TakesNext, EndRecord

LEMMA EndedIs ==
  ASSUME NEW r \in EndRecord
  PROVE  LET d == Ended(r)
         IN  /\ d \in EndRecord
             /\ d.out = <<>> /\ ~d.sending /\ d.writing = r.writing
             /\ d.dialing = r.dialing /\ d.receiving = r.receiving
             /\ d.state = r.state /\ d.closing = r.closing /\ d.final = r.final
             /\ d.quiet = r.quiet /\ d.terminal = r.terminal /\ d.code = r.code
             /\ d.tries = r.tries
  BY EmptySeq DEF Ended, EndRecord
-------------------------------------------------------------------------------
(* What each action does to the ends and the wires *)

Runs(r)  == <<r.dialing, r.sending, r.receiving>>
Flags(r) == <<r.final, r.quiet, r.terminal>>
Queue(r) == <<r.out, r.writing>>

(* Only end e changes. *)
OnlyEnd(e) ==
    /\ end' \in [Ends -> EndRecord]
    /\ \A f \in Ends : f # e => end'[f] = end[f]

LEMMA EndsAreRecords ==
  ASSUME TypeOK
  PROVE  /\ 0 \in Ends /\ Sessions \subseteq Ends
         /\ \A e \in Ends : e # 0 => e \in Sessions
         /\ \A e \in Ends : end[e] \in EndRecord
         /\ attempt \in Ends
  BY HandshakeBounds DEF TypeOK, Ends, Sessions

LEMMA PkgIs ==
  ASSUME NEW type \in PackageTypes, NEW about \in Nat
  PROVE  /\ Pkg(type, about) \in Packages
         /\ Pkg(type, about).type = type /\ Pkg(type, about).about = about
  BY DEF Pkg, Packages

LEMMA ConsumesIs ==
  ASSUME TypeOK, NEW e \in Ends, wire[e] # <<>>, Consumes(e)
  PROVE  /\ wire' \in [Ends -> Seq(Packages)]
         /\ wire'[e] \in {<<>>, Tail(wire[e])}
         /\ \A f \in Ends : f # e => wire'[f] = wire[f]
  <1>1. wire[e] \in Seq(Packages)
    BY DEF TypeOK
  <1>2. Tail(wire[e]) \in Seq(Packages) /\ <<>> \in Seq(Packages)
    BY <1>1, HeadTailProperties, EmptySeq
  <1>3. QED
    BY <1>2 DEF Consumes, NoReader, TypeOK

LEMMA NoReaderIs ==
  ASSUME TypeOK, NEW e \in Ends, wire' = NoReader(e)
  PROVE  /\ wire' \in [Ends -> Seq(Packages)]
         /\ wire'[e] = <<>>
         /\ \A f \in Ends : f # e => wire'[f] = wire[f]
  <1>1. <<>> \in Seq(Packages)
    BY EmptySeq
  <1>2. QED
    BY <1>1 DEF NoReader, TypeOK

LEMMA PutIs ==
  ASSUME TypeOK, NEW e \in Ends, NEW p \in Packages, wire' = Put(e, p)
  PROVE  /\ wire' \in [Ends -> Seq(Packages)]
         /\ \A f \in Ends :
               \/ wire'[f] = wire[f]
               \/ /\ wire'[f] = Append(wire[f], p)
                  /\ \/ e = 0 /\ f = attempt
                     \/ e # 0 /\ f = 0 /\ attempt = e
  <1> DEFINE to == IF e = 0 THEN attempt ELSE 0
  <1>1. to \in Ends
    BY EndsAreRecords
  <1>2. wire[to] \in Seq(Packages)
    BY <1>1 DEF TypeOK
  <1>3. Append(wire[to], p) \in Seq(Packages)
    BY <1>2, AppendProperties
  <1>4. CASE wire' = [wire EXCEPT ![to] = Append(@, p)] /\ (e = 0 \/ attempt = e)
    BY <1>1, <1>3, <1>4 DEF TypeOK
  <1>5. CASE wire' = wire
    BY <1>5 DEF TypeOK
  <1>6. QED
    BY <1>4, <1>5 DEF Put

LEMMA HeadOfWire ==
  ASSUME TypeOK, NEW e \in Ends, wire[e] # <<>>
  PROVE  Head(wire[e]) \in Packages
  BY HeadTailProperties DEF TypeOK

LEMMA ConnectEffect ==
  ASSUME TypeOK, NEW how \in Modes, Connect(how)
  PROVE  /\ OnlyEnd(0)
         /\ end'[0].state = "CONNECTING" /\ Runs(end'[0]) = <<TRUE, FALSE, FALSE>>
         /\ ~end[0].dialing /\ ~end[0].closing /\ ~end[0].sending /\ ~end[0].receiving
         /\ ~end'[0].closing
         /\ Flags(end'[0]) = <<FALSE, FALSE, FALSE>>
         /\ end'[0].writing = end[0].writing /\ end'[0].code = end[0].code
         /\ end'[0].out \in {<<>>, end[0].out}
         /\ wire' \in [Ends -> Seq(Packages)] /\ wire'[0] = <<>>
         /\ \A f \in Ends : f # 0 => wire'[f] = wire[f]
  <1> DEFINE r == [end[0] EXCEPT !.state = "CONNECTING", !.dialing = TRUE, !.final = FALSE,
                                 !.quiet = FALSE, !.terminal = FALSE,
                                 !.out = IF attempt \in abandoned THEN <<>> ELSE @]
  <1>1. end[0] \in EndRecord
    BY EndsAreRecords
  <1>2. <<>> \in Seq(Packages)
    BY EmptySeq
  <1>3. /\ r \in EndRecord
        /\ r.state = "CONNECTING" /\ r.dialing /\ ~r.final /\ ~r.quiet /\ ~r.terminal
        /\ r.sending = end[0].sending /\ r.receiving = end[0].receiving
        /\ r.closing = end[0].closing
        /\ r.writing = end[0].writing /\ r.code = end[0].code
        /\ r.out \in {<<>>, end[0].out}
    BY <1>1, <1>2 DEF EndRecord, States
  <1>4. SetsEnd(0, r) /\ wire' = [wire EXCEPT ![0] = <<>>]
    BY DEF Connect
  <1>5. ~end[0].dialing /\ ~end[0].closing /\ ~end[0].sending /\ ~end[0].receiving
    BY DEF Connect, LastAttemptIsOver
  <1> HIDE DEF r
  <1>6. /\ end' \in [Ends -> EndRecord] /\ end'[0] = r
        /\ \A f \in Ends : f # 0 => end'[f] = end[f]
    BY <1>3, <1>4, EndIsSet, EndsAreRecords
  <1>7. /\ wire' \in [Ends -> Seq(Packages)] /\ wire'[0] = <<>>
        /\ \A f \in Ends : f # 0 => wire'[f] = wire[f]
    BY <1>2, <1>4, EndsAreRecords DEF TypeOK
  <1>8. /\ r.dialing = TRUE /\ r.sending = FALSE /\ r.receiving = FALSE /\ r.closing = FALSE
        /\ r.final = FALSE /\ r.quiet = FALSE /\ r.terminal = FALSE
    BY <1>1, <1>3, <1>5, FieldTypes
  <1>9. QED
    BY <1>3, <1>5, <1>6, <1>7, <1>8 DEF OnlyEnd, Runs, Flags

LEMMA ConnectSucceedsEffect ==
  ASSUME TypeOK, ConnectSucceeds
  PROVE  /\ OnlyEnd(0)
         /\ end[0].dialing /\ end[0].state # "DISCONNECTED"
         /\ end'[0].state = "CONNECTED" /\ Runs(end'[0]) = <<FALSE, TRUE, TRUE>>
         /\ end'[0].closing = end[0].closing /\ Flags(end'[0]) = Flags(end[0])
         /\ end'[0].writing = end[0].writing /\ end'[0].code = end[0].code
         /\ end'[0].out = Append(end[0].out, Pkg(Data, 0))
  <1> DEFINE r == [end[0] EXCEPT !.dialing = FALSE, !.state = "CONNECTED", !.sending = TRUE,
                                 !.receiving = TRUE, !.out = Append(@, Pkg(Data, 0))]
  <1>1. end[0] \in EndRecord /\ end[0].out \in Seq(Packages)
    BY EndsAreRecords, FieldTypes
  <1>2. Append(end[0].out, Pkg(Data, 0)) \in Seq(Packages)
    BY <1>1, PkgIs, AppendProperties DEF PackageTypes, Data
  <1>3. /\ r \in EndRecord
        /\ r.state = "CONNECTED" /\ r.dialing = FALSE /\ r.sending = TRUE /\ r.receiving = TRUE
        /\ r.closing = end[0].closing /\ r.writing = end[0].writing /\ r.code = end[0].code
        /\ r.final = end[0].final /\ r.quiet = end[0].quiet /\ r.terminal = end[0].terminal
        /\ r.out = Append(end[0].out, Pkg(Data, 0))
    BY <1>1, <1>2 DEF EndRecord, States
  <1>4. SetsEnd(0, r) /\ end[0].dialing /\ end[0].state # "DISCONNECTED"
    BY DEF ConnectSucceeds, Closed, Data
  <1> HIDE DEF r
  <1>5. QED
    BY <1>3, <1>4, EndIsSet, EndsAreRecords DEF OnlyEnd, Runs, Flags

LEMMA ConnectFailsEffect ==
  ASSUME TypeOK, ConnectFails
  PROVE  /\ OnlyEnd(0)
         /\ end[0].dialing
         /\ end'[0].state \in {"DISCONNECTED", "DISCONNECTING"}
         /\ end'[0].closing => \/ end'[0].state = "DISCONNECTING"
                               \/ end[0].closing /\ end[0].state # "DISCONNECTING"
         /\ Runs(end'[0]) = <<FALSE, end[0].sending, end[0].receiving>>
         /\ Flags(end'[0]) = Flags(end[0]) /\ Queue(end'[0]) = Queue(end[0])
         /\ end'[0].code = end[0].code
  <1> DEFINE r == [end[0] EXCEPT !.dialing = FALSE]
  <1>1. end[0] \in EndRecord
    BY EndsAreRecords
  <1>2. /\ r \in EndRecord
        /\ r.dialing = FALSE /\ r.sending = end[0].sending /\ r.receiving = end[0].receiving
        /\ r.closing = end[0].closing /\ r.writing = end[0].writing /\ r.code = end[0].code
        /\ r.final = end[0].final /\ r.quiet = end[0].quiet /\ r.terminal = end[0].terminal
        /\ r.out = end[0].out /\ r.state = end[0].state
    BY <1>1 DEF EndRecord
  <1>3. SetsEnd(0, CoDisconnect(r)) /\ end[0].dialing
    BY DEF ConnectFails
  <1> HIDE DEF r
  <1> DEFINE d == CoDisconnect(r)
  <1>4. /\ d \in EndRecord
        /\ d.dialing = FALSE /\ d.sending = r.sending /\ d.receiving = r.receiving
        /\ d.out = r.out /\ d.writing = r.writing /\ d.code = r.code
        /\ d.final = r.final /\ d.quiet = r.quiet /\ d.terminal = r.terminal
        /\ d.state \in {"DISCONNECTED", "DISCONNECTING"}
        /\ d.closing => d.state = "DISCONNECTING" \/ (r.closing /\ r.state # "DISCONNECTING")
    BY <1>2, CoDisconnectIs
  <1>5. SetsEnd(0, d)
    BY <1>3
  <1> HIDE DEF d
  <1>6. OnlyEnd(0) /\ end'[0] = d
    BY <1>4, <1>5, EndIsSet, EndsAreRecords DEF OnlyEnd
  <1>7. QED
    BY <1>2, <1>3, <1>4, <1>6 DEF Runs, Flags, Queue

LEMMA AcceptsEffect ==
  ASSUME TypeOK, NEW s \in Sessions, Accepts(s)
  PROVE  /\ OnlyEnd(s)
         /\ end[s].state = "CONNECTING" /\ end'[s].state = "CONNECTED"
         /\ Queue(end'[s]) = Queue(end[s]) /\ end'[s].code = end[s].code
  <1> DEFINE r == [end[s] EXCEPT !.state = "CONNECTED", !.sending = TRUE, !.receiving = TRUE]
  <1>1. end[s] \in EndRecord /\ s \in Ends
    BY EndsAreRecords
  <1>2. /\ r \in EndRecord /\ r.state = "CONNECTED" /\ r.out = end[s].out
        /\ r.writing = end[s].writing /\ r.code = end[s].code
    BY <1>1 DEF EndRecord, States
  <1>3. SetsEnd(s, r) /\ end[s].state = "CONNECTING"
    BY DEF Accepts
  <1> HIDE DEF r
  <1>4. QED
    BY <1>1, <1>2, <1>3, EndIsSet DEF OnlyEnd, Queue

LEMMA CoSendWakesEffect ==
  ASSUME TypeOK, NEW e \in Ends, CoSendWakes(e)
  PROVE  /\ OnlyEnd(e)
         /\ end'[e].state = end[e].state /\ end'[e].closing = end[e].closing
         /\ end'[e].dialing = end[e].dialing /\ end'[e].receiving = end[e].receiving
         /\ Flags(end'[e]) = Flags(end[e]) /\ end'[e].code = end[e].code
         /\ end[e].writing = None /\ end[e].sending
         /\ \/ /\ end[e].out # <<>> /\ end'[e].sending
               /\ end'[e].out = Tail(end[e].out) /\ end'[e].writing = Head(end[e].out)
            \/ end'[e].out = <<>> /\ end'[e].writing = None /\ ~end'[e].sending
  <1>1. end[e] \in EndRecord
    BY EndsAreRecords
  <1>2. CASE end[e].out # <<>> /\ SetsEnd(e, TakesNext(end[e]))
    BY <1>1, <1>2, TakesNextIs, EndIsSet DEF OnlyEnd, Flags, CoSendWakes
  <1>3. CASE SetsEnd(e, Ended(end[e]))
    BY <1>1, <1>3, EndedIs, EndIsSet DEF OnlyEnd, Flags, CoSendWakes
  <1>4. QED
    BY <1>2, <1>3 DEF CoSendWakes

(* After the package w is written, the next is taken or the loop goes on or ends. *)
LEMMA CoSendWritesEffect ==
  ASSUME TypeOK, NEW e \in Ends, CoSendWrites(e)
  PROVE  /\ OnlyEnd(e)
         /\ end'[e].state = end[e].state /\ end'[e].closing = end[e].closing
         /\ end'[e].dialing = end[e].dialing /\ end'[e].receiving = end[e].receiving
         /\ Flags(end'[e]) = Flags(end[e]) /\ end'[e].code = end[e].code
         /\ end[e].writing \in Packages /\ end[e].writing # None
         /\ \/ /\ end[e].out # <<>> /\ end'[e].sending = end[e].sending
               /\ end'[e].out = Tail(end[e].out) /\ end'[e].writing = Head(end[e].out)
            \/ /\ end'[e].out = <<>> /\ end'[e].writing = None
               /\ end'[e].sending = end[e].sending \/ ~end'[e].sending
         /\ wire' = Put(e, end[e].writing)
  <1> DEFINE r == [end[e] EXCEPT !.writing = None]
  <1>1. end[e] \in EndRecord
    BY EndsAreRecords
  <1>2. /\ r \in EndRecord /\ r.writing = None /\ r.out = end[e].out
        /\ r.state = end[e].state /\ r.closing = end[e].closing
        /\ r.dialing = end[e].dialing /\ r.receiving = end[e].receiving
        /\ r.sending = end[e].sending /\ r.code = end[e].code
        /\ r.final = end[e].final /\ r.quiet = end[e].quiet /\ r.terminal = end[e].terminal
    BY <1>1 DEF EndRecord
  <1>3. /\ SetsEnd(e, IF r.out # <<>> THEN TakesNext(r)
                      ELSE IF r.state # "CONNECTED" THEN Ended(r) ELSE r)
        /\ wire' = Put(e, end[e].writing)
        /\ end[e].writing \in Packages /\ end[e].writing # None
    BY <1>1, FieldTypes DEF CoSendWrites
  <1> HIDE DEF r
  <1>4. CASE r.out # <<>>
    BY <1>2, <1>3, <1>4, TakesNextIs, EndIsSet DEF OnlyEnd, Flags
  <1>5. CASE r.out = <<>> /\ r.state # "CONNECTED"
    BY <1>2, <1>3, <1>5, EndedIs, EndIsSet DEF OnlyEnd, Flags
  <1>6. CASE r.out = <<>> /\ r.state = "CONNECTED"
    BY <1>2, <1>3, <1>6, EndIsSet DEF OnlyEnd, Flags
  <1>7. QED
    BY <1>4, <1>5, <1>6

LEMMA CoSendFailsEffect ==
  ASSUME TypeOK, NEW e \in Ends, CoSendFails(e)
  PROVE  /\ OnlyEnd(e)
         /\ end'[e].state \in {"DISCONNECTED", "DISCONNECTING"}
         /\ end'[e].closing => \/ end'[e].state = "DISCONNECTING"
                               \/ end[e].closing /\ end[e].state # "DISCONNECTING"
         /\ Runs(end'[e]) = <<end[e].dialing, FALSE, end[e].receiving>>
         /\ Flags(end'[e]) = Flags(end[e]) /\ end'[e].code = end[e].code
         /\ Queue(end'[e]) = <<<<>>, None>> /\ end[e].writing # None
  <1> DEFINE r == [end[e] EXCEPT !.writing = None]
             d == CoDisconnect(r)
  <1>1. end[e] \in EndRecord
    BY EndsAreRecords
  <1>2. /\ r \in EndRecord /\ r.writing = None
        /\ r.state = end[e].state /\ r.closing = end[e].closing
        /\ r.dialing = end[e].dialing /\ r.receiving = end[e].receiving
        /\ r.code = end[e].code
        /\ r.final = end[e].final /\ r.quiet = end[e].quiet /\ r.terminal = end[e].terminal
    BY <1>1 DEF EndRecord
  <1>3. SetsEnd(e, Ended(d)) /\ end[e].writing # None
    BY DEF CoSendFails
  <1> HIDE DEF r
  <1>4. /\ d \in EndRecord /\ d.writing = None
        /\ d.dialing = r.dialing /\ d.receiving = r.receiving /\ d.code = r.code
        /\ d.final = r.final /\ d.quiet = r.quiet /\ d.terminal = r.terminal
        /\ d.state \in {"DISCONNECTED", "DISCONNECTING"}
        /\ d.closing => d.state = "DISCONNECTING" \/ (r.closing /\ r.state # "DISCONNECTING")
    BY <1>2, CoDisconnectIs
  <1> HIDE DEF d
  <1>5. OnlyEnd(e) /\ end'[e] = Ended(d)
    BY <1>3, <1>4, EndedIs, EndIsSet DEF OnlyEnd
  <1> DEFINE f == Ended(d)
  <1>6. /\ f.out = <<>> /\ f.sending = FALSE /\ f.writing = d.writing
        /\ f.dialing = d.dialing /\ f.receiving = d.receiving
        /\ f.state = d.state /\ f.closing = d.closing /\ f.code = d.code
        /\ f.final = d.final /\ f.quiet = d.quiet /\ f.terminal = d.terminal
    BY <1>4, EndedIs, FieldTypes
  <1>7. end'[e] = f
    BY <1>5
  <1> HIDE DEF f
  <1>8. QED
    BY <1>2, <1>3, <1>4, <1>5, <1>6, <1>7 DEF Runs, Flags, Queue

LEMMA DropsAndEndsEffect ==
  ASSUME TypeOK, NEW e \in Ends, DropsAndEnds(e)
  PROVE  /\ OnlyEnd(e)
         /\ end[e].state # "CONNECTED" /\ end'[e].state = end[e].state
         /\ end'[e].closing = end[e].closing
         /\ Runs(end'[e]) = <<end[e].dialing, end[e].sending, FALSE>>
         /\ Flags(end'[e]) = Flags(end[e]) /\ end'[e].code = end[e].code
         /\ Queue(end'[e]) = Queue(end[e])
         /\ wire' = NoReader(e)
  <1> DEFINE r == [end[e] EXCEPT !.receiving = FALSE]
  <1>1. end[e] \in EndRecord
    BY EndsAreRecords
  <1>2. /\ r \in EndRecord /\ r.writing = end[e].writing /\ r.out = end[e].out
        /\ r.state = end[e].state /\ r.closing = end[e].closing
        /\ r.dialing = end[e].dialing /\ r.receiving = FALSE
        /\ r.sending = end[e].sending /\ r.code = end[e].code
        /\ r.final = end[e].final /\ r.quiet = end[e].quiet /\ r.terminal = end[e].terminal
    BY <1>1 DEF EndRecord
  <1>3. SetsEnd(e, r) /\ wire' = NoReader(e) /\ end[e].state # "CONNECTED"
    BY DEF DropsAndEnds
  <1> HIDE DEF r
  <1>4. QED
    BY <1>2, <1>3, EndIsSet DEF OnlyEnd, Runs, Flags, Queue

LEMMA CoReceiveFailsEffect ==
  ASSUME TypeOK, NEW e \in Ends, CoReceiveFails(e)
  PROVE  /\ OnlyEnd(e)
         /\ end[e].receiving
         /\ end'[e].state \in {"DISCONNECTED", "DISCONNECTING"}
         /\ end'[e].closing => \/ end'[e].state = "DISCONNECTING"
                               \/ end[e].closing /\ end[e].state # "DISCONNECTING"
         /\ end'[e].dialing = end[e].dialing /\ end'[e].sending = end[e].sending
         /\ ~end'[e].receiving
         /\ Flags(end'[e]) = Flags(end[e]) /\ end'[e].code = end[e].code
         /\ Queue(end'[e]) = Queue(end[e])
         /\ wire' = NoReader(e)
  <1> DEFINE d == Leaves(end[e])
  <1>1. end[e] \in EndRecord
    BY EndsAreRecords
  <1>2. /\ d \in EndRecord /\ d.writing = end[e].writing /\ d.out = end[e].out
        /\ d.dialing = end[e].dialing /\ d.sending = end[e].sending /\ ~d.receiving
        /\ d.code = end[e].code
        /\ d.final = end[e].final /\ d.quiet = end[e].quiet /\ d.terminal = end[e].terminal
        /\ d.state \in {"DISCONNECTED", "DISCONNECTING"}
        /\ d.closing => d.state = "DISCONNECTING" \/ (end[e].closing /\ end[e].state # "DISCONNECTING")
    BY <1>1, LeavesIs
  <1>3. SetsEnd(e, d) /\ wire' = NoReader(e) /\ end[e].receiving
    BY DEF CoReceiveFails
  <1> HIDE DEF d
  <1>4. QED
    BY <1>2, <1>3, EndIsSet DEF OnlyEnd, Flags, Queue

(* What the accepting end queues, and how it leaves. *)
LEMMA LeavesWithIs ==
  ASSUME NEW r \in EndRecord, NEW p \in Packages, r.state = "CONNECTED"
  PROVE  LET d == Leaves(Queued(r, p))
         IN  /\ d \in EndRecord /\ d.state = "DISCONNECTING"
             /\ d.out = Append(r.out, p) /\ d.writing = r.writing /\ d.code = r.code
  <1> DEFINE q == Queued(r, p)
             left == [q EXCEPT !.receiving = FALSE]
  <1>1. q \in EndRecord /\ q.out = Append(r.out, p) /\ q.writing = r.writing
        /\ q.code = r.code /\ q.state = "CONNECTED"
    BY QueuedIs
  <1>2. Leaves(q) = CoDisconnect(left)
    BY DEF Leaves
  <1> HIDE DEF q
  <1>3. /\ left \in EndRecord /\ left.out = q.out /\ left.writing = q.writing
        /\ left.code = q.code /\ left.state = q.state
    BY <1>1 DEF EndRecord
  <1> HIDE DEF left
  <1>4. left.out # <<>>
    BY <1>1, <1>3, AppendProperties, FieldTypes
  <1> DEFINE d == CoDisconnect(left)
  <1>5. /\ d \in EndRecord /\ d.state = "DISCONNECTING"
        /\ d.out = left.out /\ d.writing = left.writing /\ d.code = left.code
    BY <1>1, <1>3, <1>4, CoDisconnectIs
  <1>6. Leaves(Queued(r, p)) = d
    BY <1>2 DEF q
  <1> HIDE DEF d
  <1>7. QED
    BY <1>1, <1>3, <1>5, <1>6

LEMMA ReceivesDeviceDataEffect ==
  ASSUME TypeOK, NEW s \in Sessions, ReceivesDeviceData(s)
  PROVE  /\ OnlyEnd(s)
         /\ end[s].state = "CONNECTED" /\ wire[s] # <<>> /\ Head(wire[s]).type = Data
         /\ end'[s].writing = end[s].writing /\ end'[s].code = end[s].code
         /\ \/ /\ end'[s].state = "DISCONNECTING"
               /\ \E type \in Reasons : end'[s].out = Append(end[s].out, Pkg(type, 0))
               /\ UNCHANGED <<asked, primary>>
            \/ /\ end'[s].state = "CONNECTED" /\ end'[s].out = end[s].out
               /\ mode[s] = "CONNECT_WITH_PAIR" /\ asked' = asked
               /\ seeks' = Append(seeks, s) /\ listening' = listening \cup {Len(seeks')}
            \/ /\ end'[s].state = "CONNECTED" /\ end'[s].out = end[s].out
               /\ asked' = asked \cup {s} /\ UNCHANGED primary
         /\ wire' \in [Ends -> Seq(Packages)]
         /\ wire'[s] \in {<<>>, Tail(wire[s])}
         /\ \A f \in Ends : f # s => wire'[f] = wire[f]
  <1>1. end[s] \in EndRecord /\ s \in Ends
    BY EndsAreRecords
  <1>2. wire[s] # <<>> /\ Head(wire[s]).type = Data /\ end[s].state = "CONNECTED"
    BY DEF ReceivesDeviceData, Reads, Data
  <1>3. /\ wire' \in [Ends -> Seq(Packages)]
        /\ wire'[s] \in {<<>>, Tail(wire[s])}
        /\ \A f \in Ends : f # s => wire'[f] = wire[f]
    BY <1>1, <1>2, ConsumesIs DEF ReceivesDeviceData
  <1>4. ASSUME NEW type \in Reasons, UNCHANGED <<asked, primary>>,
               SetsEnd(s, Leaves(Queued(end[s], Pkg(type, 0))))
        PROVE  /\ OnlyEnd(s) /\ end'[s].state = "DISCONNECTING"
               /\ end'[s].writing = end[s].writing /\ end'[s].code = end[s].code
               /\ end'[s].out = Append(end[s].out, Pkg(type, 0))
    <2>1. Pkg(type, 0) \in Packages
      BY PkgIs DEF Reasons, PackageTypes
    <2>2. QED
      BY <1>1, <1>2, <1>4, <2>1, LeavesWithIs, EndIsSet DEF OnlyEnd
  <1>5. CASE /\ SetsEnd(s, [end[s] EXCEPT !.tries = MaxTries, !.quiet = TRUE])
             /\ mode[s] = "CONNECT_WITH_PAIR" /\ UNCHANGED asked
             /\ seeks' = Append(seeks, s) /\ listening' = listening \cup {Len(seeks')}
    <2> DEFINE r == [end[s] EXCEPT !.tries = MaxTries, !.quiet = TRUE]
    <2>1. /\ r \in EndRecord /\ r.state = end[s].state /\ r.out = end[s].out
          /\ r.writing = end[s].writing /\ r.code = end[s].code
      BY <1>1, HandshakeBounds DEF EndRecord
    <2>2. SetsEnd(s, r)
      BY <1>5
    <2> HIDE DEF r
    <2>3. QED
      BY <1>1, <1>2, <1>3, <1>5, <2>1, <2>2, EndIsSet DEF OnlyEnd
  <1>6. CASE asked' = asked \cup {s} /\ UNCHANGED <<end, primary>>
    BY <1>1, <1>2, <1>3, <1>6 DEF OnlyEnd, TypeOK
  <1>7. CASE /\ \/ SetsEnd(s, Leaves(Queued(end[s], Pkg("DEVICE_CONNECT_COOLDOWN", 0))))
                \/ SetsEnd(s, Leaves(Queued(end[s], Pkg("DEVICE_IS_UNPAIRED", 0))))
             /\ UNCHANGED <<asked, primary>>
    BY <1>2, <1>3, <1>4, <1>7 DEF Reasons
  <1>8. QED
    BY <1>5, <1>6, <1>7 DEF ReceivesDeviceData

LEMMA ReceivesRightAnswerEffect ==
  ASSUME TypeOK, NEW s \in Sessions, ReceivesRightAnswer(s)
  PROVE  /\ OnlyEnd(s)
         /\ end[s].state = "CONNECTED" /\ end'[s].state = "CONNECTED"
         /\ wire[s] # <<>> /\ Head(wire[s]).type = "CHALLENGE_RESPONSE"
         /\ Head(wire[s]).about = end[s].code
         /\ end'[s].writing = end[s].writing /\ end'[s].code = end[s].code
         /\ end'[s].out = Append(end[s].out, Pkg("CONNECTION_APPROVAL_REQUEST", 0))
         /\ wire' \in [Ends -> Seq(Packages)]
         /\ wire'[s] \in {<<>>, Tail(wire[s])}
         /\ \A f \in Ends : f # s => wire'[f] = wire[f]
  <1>1. end[s] \in EndRecord /\ s \in Ends
    BY EndsAreRecords
  <1>2. Pkg("CONNECTION_APPROVAL_REQUEST", 0) \in Packages
    BY PkgIs DEF PackageTypes
  <1>3. /\ wire[s] # <<>> /\ Head(wire[s]).type = "CHALLENGE_RESPONSE"
        /\ end[s].state = "CONNECTED" /\ Head(wire[s]).about = end[s].code
    BY DEF ReceivesRightAnswer, Reads, Content
  <1> DEFINE q == Queued(end[s], Pkg("CONNECTION_APPROVAL_REQUEST", 0))
  <1>4. /\ q \in EndRecord /\ q.state = end[s].state /\ q.writing = end[s].writing
        /\ q.code = end[s].code
        /\ q.out = Append(end[s].out, Pkg("CONNECTION_APPROVAL_REQUEST", 0))
    BY <1>1, <1>2, QueuedIs
  <1>5. SetsEnd(s, q) /\ Consumes(s)
    BY DEF ReceivesRightAnswer
  <1> HIDE DEF q
  <1>6. QED
    BY <1>1, <1>3, <1>4, <1>5, EndIsSet, ConsumesIs DEF OnlyEnd

LEMMA ReceivesWrongAnswerEffect ==
  ASSUME TypeOK, NEW s \in Sessions, ReceivesWrongAnswer(s)
  PROVE  /\ OnlyEnd(s)
         /\ end[s].state = "CONNECTED" /\ end'[s].state \in {"CONNECTED", "DISCONNECTING"}
         /\ wire[s] # <<>> /\ Head(wire[s]).type = "CHALLENGE_RESPONSE"
         /\ end'[s].writing = end[s].writing /\ end'[s].code = end[s].code
         /\ \E left \in Nat : end'[s].out = Append(end[s].out, Pkg("CHALLENGE_WRONG_ANSWER", left))
         /\ wire' \in [Ends -> Seq(Packages)]
         /\ wire'[s] \in {<<>>, Tail(wire[s])}
         /\ \A f \in Ends : f # s => wire'[f] = wire[f]
         /\ banned' \in BOOLEAN
  <1> DEFINE left == IF end[s].tries > 0 THEN end[s].tries - 1 ELSE 0
             t == [end[s] EXCEPT !.tries = left]
             p == Pkg("CHALLENGE_WRONG_ANSWER", left)
             q == Queued(t, p)
  <1>1. end[s] \in EndRecord /\ s \in Ends /\ end[s].tries \in Nat
    BY EndsAreRecords, FieldTypes
  <1>2. left \in Nat
    BY <1>1
  <1>3. /\ wire[s] # <<>> /\ Head(wire[s]).type = "CHALLENGE_RESPONSE"
        /\ end[s].state = "CONNECTED"
    BY DEF ReceivesWrongAnswer, Reads
  <1>4. /\ SetsEnd(s, IF left = 0 THEN Leaves(q) ELSE q)
        /\ banned' = (banned \/ (left = 0 /\ s \in asked \cup accepted))
    BY DEF ReceivesWrongAnswer
  <1>5. banned' \in BOOLEAN
    BY <1>4 DEF TypeOK
  <1> HIDE DEF left
  <1>6. /\ t \in EndRecord /\ t.state = "CONNECTED" /\ t.out = end[s].out
        /\ t.writing = end[s].writing /\ t.code = end[s].code
    BY <1>1, <1>2, <1>3 DEF EndRecord
  <1>7. p \in Packages
    BY <1>2, PkgIs DEF PackageTypes
  <1> HIDE DEF t
  <1>8. /\ q \in EndRecord /\ q.out = Append(t.out, p) /\ q.writing = t.writing
        /\ q.code = t.code /\ q.state = t.state
    BY <1>6, <1>7, QueuedIs
  <1>9. LET d == Leaves(q)
        IN  /\ d \in EndRecord /\ d.state = "DISCONNECTING"
            /\ d.out = Append(t.out, p) /\ d.writing = t.writing /\ d.code = t.code
    BY <1>6, <1>7, LeavesWithIs
  <1> HIDE DEF q
  <1>10. /\ OnlyEnd(s) /\ end'[s].state \in {"CONNECTED", "DISCONNECTING"}
         /\ end'[s].writing = end[s].writing /\ end'[s].code = end[s].code
         /\ end'[s].out = Append(end[s].out, p)
    BY <1>1, <1>4, <1>6, <1>8, <1>9, EndIsSet DEF OnlyEnd
  <1>11. QED
    BY <1>1, <1>2, <1>3, <1>5, <1>10, ConsumesIs DEF ReceivesWrongAnswer

LEMMA ReceivesEndpointEffect ==
  ASSUME TypeOK, ReceivesEndpoint
  PROVE  /\ OnlyEnd(0)
         /\ end'[0].state \in {"DISCONNECTED", "DISCONNECTING"}
         /\ end'[0].closing => \/ end'[0].state = "DISCONNECTING"
                               \/ end[0].closing /\ end[0].state # "DISCONNECTING"
         /\ end'[0].dialing = end[0].dialing /\ end'[0].sending = end[0].sending
         /\ ~end'[0].receiving /\ end[0].receiving
         /\ end'[0].final /\ end'[0].quiet /\ end'[0].terminal = end[0].terminal
         /\ Queue(end'[0]) = Queue(end[0]) /\ end'[0].code = end[0].code
         /\ wire[0] # <<>> /\ Head(wire[0]).type = Seek
         /\ wire' \in [Ends -> Seq(Packages)]
         /\ wire'[0] \in {<<>>, Tail(wire[0])}
         /\ \A f \in Ends : f # 0 => wire'[f] = wire[f]
  <1> DEFINE r == [end[0] EXCEPT !.final = TRUE, !.quiet = TRUE]
             d == Leaves(r)
  <1>1. end[0] \in EndRecord /\ 0 \in Ends
    BY EndsAreRecords
  <1>2. /\ r \in EndRecord /\ r.writing = end[0].writing /\ r.out = end[0].out
        /\ r.dialing = end[0].dialing /\ r.sending = end[0].sending
        /\ r.closing = end[0].closing /\ r.code = end[0].code /\ r.state = end[0].state
        /\ r.final /\ r.quiet /\ r.terminal = end[0].terminal
    BY <1>1 DEF EndRecord
  <1>3. /\ SetsEnd(0, d) /\ wire[0] # <<>> /\ Head(wire[0]).type = Seek /\ end[0].receiving
    BY DEF ReceivesEndpoint, Reads, Seek
  <1> HIDE DEF r
  <1>4. /\ d \in EndRecord /\ d.writing = r.writing /\ d.out = r.out
        /\ d.dialing = r.dialing /\ d.sending = r.sending /\ ~d.receiving
        /\ d.code = r.code /\ d.final = r.final /\ d.quiet = r.quiet /\ d.terminal = r.terminal
        /\ d.state \in {"DISCONNECTED", "DISCONNECTING"}
        /\ d.closing => d.state = "DISCONNECTING" \/ (r.closing /\ r.state # "DISCONNECTING")
    BY <1>2, LeavesIs
  <1> HIDE DEF d
  <1>5. QED
    BY <1>1, <1>2, <1>3, <1>4, EndIsSet, ConsumesIs DEF ReceivesEndpoint, OnlyEnd, Queue

LEMMA ReceivesReasonEffect ==
  ASSUME TypeOK, ReceivesReason
  PROVE  /\ OnlyEnd(0)
         /\ end'[0].state = end[0].state /\ end[0].state = "CONNECTED"
         /\ end'[0].closing = end[0].closing /\ end[0].receiving
         /\ Runs(end'[0]) = Runs(end[0])
         /\ Flags(end'[0]) = <<end[0].final, end[0].quiet, TRUE>>
         /\ Queue(end'[0]) = Queue(end[0]) /\ end'[0].code = end[0].code
         /\ wire[0] # <<>> /\ Head(wire[0]).type \in Reasons
         /\ wire' \in [Ends -> Seq(Packages)]
         /\ wire'[0] \in {<<>>, Tail(wire[0])}
         /\ \A f \in Ends : f # 0 => wire'[f] = wire[f]
  <1> DEFINE r == [end[0] EXCEPT !.terminal = TRUE]
  <1>1. end[0] \in EndRecord /\ 0 \in Ends
    BY EndsAreRecords
  <1>2. /\ r \in EndRecord /\ r.writing = end[0].writing /\ r.out = end[0].out
        /\ r.dialing = end[0].dialing /\ r.sending = end[0].sending
        /\ r.receiving = end[0].receiving /\ r.state = end[0].state
        /\ r.closing = end[0].closing /\ r.code = end[0].code
        /\ r.final = end[0].final /\ r.quiet = end[0].quiet /\ r.terminal = TRUE
    BY <1>1 DEF EndRecord
  <1>3. /\ SetsEnd(0, r) /\ wire[0] # <<>> /\ Head(wire[0]).type \in Reasons
        /\ end[0].receiving /\ end[0].state = "CONNECTED"
    BY DEF ReceivesReason, Reads, Reasons
  <1> HIDE DEF r
  <1>4. QED
    BY <1>1, <1>2, <1>3, EndIsSet, ConsumesIs DEF ReceivesReason, OnlyEnd, Queue, Runs, Flags

LEMMA ReportEffect ==
  ASSUME TypeOK, ReceivesWrongAnswerReport \/ ReceivesPrompt
  PROVE  /\ end' = end
         /\ end[0].receiving /\ end[0].state = "CONNECTED"
         /\ wire[0] # <<>> /\ Head(wire[0]).type \in Prompts
         /\ wire' \in [Ends -> Seq(Packages)]
         /\ wire'[0] \in {<<>>, Tail(wire[0])}
         /\ \A f \in Ends : f # 0 => wire'[f] = wire[f]
  <1>1. /\ end' = end /\ Consumes(0) /\ wire[0] # <<>> /\ Head(wire[0]).type \in Prompts
        /\ end[0].receiving /\ end[0].state = "CONNECTED"
    BY DEF ReceivesWrongAnswerReport, ReceivesPrompt, Reads, Prompts
  <1>2. QED
    BY <1>1, ConsumesIs, EndsAreRecords

LEMMA AppRejectsEffect ==
  ASSUME TypeOK, NEW s \in Sessions, AppRejects(s)
  PROVE  /\ OnlyEnd(s)
         /\ end'[s].state \in {"DISCONNECTED", "DISCONNECTING"}
         /\ Queue(end'[s]) = Queue(end[s]) /\ end'[s].code = end[s].code
  <1>1. end[s] \in EndRecord /\ s \in Ends
    BY EndsAreRecords
  <1>2. SetsEnd(s, CoDisconnect(end[s]))
    BY DEF AppRejects
  <1>3. QED
    BY <1>1, <1>2, CoDisconnectIs, EndIsSet DEF OnlyEnd, Queue

LEMMA AppAcceptsEffect ==
  ASSUME TypeOK, NEW s \in Sessions, AppAccepts(s)
  PROVE  /\ OnlyEnd(s)
         /\ Queue(end'[s]) = Queue(end[s]) /\ end'[s].code = end[s].code
         /\ \/ /\ mode[s] = "PAIR_AND_CONNECT" /\ UNCHANGED primary
               /\ end'[s].state \in {"DISCONNECTED", "DISCONNECTING"}
            \/ /\ mode[s] # "PAIR_AND_CONNECT" /\ end'[s].state = end[s].state
               /\ seeks' = Append(seeks, s) /\ listening' = listening \cup {Len(seeks')}
  <1> DEFINE r == [end[s] EXCEPT !.tries = MaxTries]
             t == [r EXCEPT !.quiet = TRUE]
             d == CoDisconnect(r)
  <1>1. end[s] \in EndRecord /\ s \in Ends
    BY EndsAreRecords
  <1>2. /\ r \in EndRecord /\ r.state = end[s].state /\ r.out = end[s].out
        /\ r.writing = end[s].writing /\ r.code = end[s].code
    BY <1>1, HandshakeBounds DEF EndRecord
  <1>3. \/ /\ mode[s] = "PAIR_AND_CONNECT" /\ UNCHANGED primary /\ SetsEnd(s, d)
        \/ /\ mode[s] # "PAIR_AND_CONNECT" /\ SetsEnd(s, t)
           /\ seeks' = Append(seeks, s) /\ listening' = listening \cup {Len(seeks')}
    BY DEF AppAccepts
  <1> HIDE DEF r
  <1>4. /\ t \in EndRecord /\ t.state = r.state /\ t.out = r.out
        /\ t.writing = r.writing /\ t.code = r.code
    BY <1>2 DEF EndRecord
  <1>5. /\ d \in EndRecord /\ d.state \in {"DISCONNECTED", "DISCONNECTING"} /\ d.out = r.out
        /\ d.writing = r.writing /\ d.code = r.code
    BY <1>2, CoDisconnectIs
  <1> HIDE DEF t, d
  <1>6. QED
    BY <1>1, <1>2, <1>3, <1>4, <1>5, EndIsSet DEF OnlyEnd, Queue

LEMMA AppAcceptsIfVerifiedEffect ==
  ASSUME TypeOK, NEW s \in Sessions, AppAcceptsIfVerified(s)
  PROVE  /\ OnlyEnd(s)
         /\ end'[s].code = s /\ end'[s].state = end[s].state
         /\ end'[s].writing = end[s].writing
         /\ end'[s].out = Append(end[s].out, Pkg("CHALLENGE_ANSWER_REQUEST", 0))
  <1> DEFINE r == [end[s] EXCEPT !.tries = MaxTries, !.code = s]
             q == Queued(r, Pkg("CHALLENGE_ANSWER_REQUEST", 0))
  <1>0. Pkg("CHALLENGE_ANSWER_REQUEST", 0) \in Packages
    BY PkgIs DEF PackageTypes
  <1>1. end[s] \in EndRecord /\ s \in Ends /\ s \in Nat
    BY EndsAreRecords DEF Sessions
  <1>2. /\ r \in EndRecord /\ r.state = end[s].state /\ r.out = end[s].out
        /\ r.writing = end[s].writing /\ r.code = s
    BY <1>1, HandshakeBounds DEF EndRecord
  <1>3. SetsEnd(s, q)
    BY DEF AppAcceptsIfVerified
  <1> HIDE DEF r
  <1>4. /\ q \in EndRecord /\ q.state = r.state /\ q.writing = r.writing /\ q.code = r.code
        /\ q.out = Append(r.out, Pkg("CHALLENGE_ANSWER_REQUEST", 0))
    BY <1>2, <1>0, QueuedIs
  <1> HIDE DEF q
  <1>5. QED
    BY <1>1, <1>2, <1>3, <1>4, EndIsSet DEF OnlyEnd

LEMMA UserAnswersEffect ==
  ASSUME TypeOK, NEW code \in Nat, UserAnswers(code)
  PROVE  /\ OnlyEnd(0)
         /\ end'[0].state = end[0].state /\ end'[0].closing = end[0].closing
         /\ Runs(end'[0]) = Runs(end[0]) /\ Flags(end'[0]) = Flags(end[0])
         /\ end'[0].writing = end[0].writing /\ end'[0].code = end[0].code
         /\ end'[0].out = Append(end[0].out, Pkg("CHALLENGE_RESPONSE", code))
         /\ typed' = typed \cup {<<verifying, code>>} /\ verifying \in Sessions
  <1> DEFINE q == Queued(end[0], Pkg("CHALLENGE_RESPONSE", code))
  <1>0. Pkg("CHALLENGE_RESPONSE", code) \in Packages
    BY PkgIs DEF PackageTypes
  <1>1. end[0] \in EndRecord /\ 0 \in Ends
    BY EndsAreRecords
  <1>2. /\ q \in EndRecord /\ q.state = end[0].state /\ q.closing = end[0].closing
        /\ q.dialing = end[0].dialing /\ q.sending = end[0].sending
        /\ q.receiving = end[0].receiving
        /\ q.final = end[0].final /\ q.quiet = end[0].quiet /\ q.terminal = end[0].terminal
        /\ q.writing = end[0].writing /\ q.code = end[0].code
        /\ q.out = Append(end[0].out, Pkg("CHALLENGE_RESPONSE", code))
    BY <1>1, <1>0, QueuedIs
  <1>3. SetsEnd(0, q) /\ typed' = typed \cup {<<verifying, code>>} /\ verifying # 0
    BY DEF UserAnswers
  <1>4. verifying \in Sessions
    BY <1>3, EndsAreRecords DEF TypeOK
  <1> HIDE DEF q
  <1>5. QED
    BY <1>1, <1>2, <1>3, <1>4, EndIsSet DEF OnlyEnd, Runs, Flags

LEMMA UserDeniesEffect ==
  ASSUME TypeOK, UserDenies
  PROVE  /\ approving \in Sessions /\ approving' = 0
         /\ OnlyEnd(approving)
         /\ end'[approving].state \in {"DISCONNECTED", "DISCONNECTING"}
         /\ end'[approving].writing = end[approving].writing
         /\ end'[approving].code = end[approving].code
         /\ end'[approving].out = Append(end[approving].out, Pkg("CONNECTION_APPROVAL_DENIED", 0))
  <1> DEFINE q == Queued(end[approving], Pkg("CONNECTION_APPROVAL_DENIED", 0))
             d == CoDisconnect(q)
  <1>0. Pkg("CONNECTION_APPROVAL_DENIED", 0) \in Packages
    BY PkgIs DEF PackageTypes
  <1>1. approving \in Sessions /\ approving \in Ends /\ end[approving] \in EndRecord
    BY EndsAreRecords DEF UserDenies, TypeOK
  <1>2. /\ q \in EndRecord /\ q.writing = end[approving].writing /\ q.code = end[approving].code
        /\ q.out = Append(end[approving].out, Pkg("CONNECTION_APPROVAL_DENIED", 0))
    BY <1>1, <1>0, QueuedIs
  <1>3. SetsEnd(approving, d) /\ approving' = 0
    BY DEF UserDenies
  <1> HIDE DEF q
  <1>4. /\ d \in EndRecord /\ d.writing = q.writing /\ d.code = q.code /\ d.out = q.out
        /\ d.state \in {"DISCONNECTED", "DISCONNECTING"}
    BY <1>2, CoDisconnectIs
  <1> HIDE DEF d
  <1>5. QED
    BY <1>1, <1>2, <1>3, <1>4, EndIsSet DEF OnlyEnd

LEMMA UserApprovesEffect ==
  ASSUME TypeOK, UserApproves
  PROVE  /\ approving \in Sessions /\ approving' = 0
         /\ OnlyEnd(approving)
         /\ end'[approving].state = end[approving].state
         /\ Queue(end'[approving]) = Queue(end[approving])
         /\ end'[approving].code = end[approving].code
         /\ seeks' = Append(seeks, approving) /\ listening' = listening \cup {Len(seeks')}
  <1> DEFINE r == [end[approving] EXCEPT !.quiet = TRUE]
  <1>1. approving \in Sessions /\ approving \in Ends /\ end[approving] \in EndRecord
    BY EndsAreRecords DEF UserApproves, TypeOK
  <1>2. /\ r \in EndRecord /\ r.state = end[approving].state /\ r.out = end[approving].out
        /\ r.writing = end[approving].writing /\ r.code = end[approving].code
    BY <1>1 DEF EndRecord
  <1>3. /\ SetsEnd(approving, r) /\ approving' = 0
        /\ seeks' = Append(seeks, approving) /\ listening' = listening \cup {Len(seeks')}
    BY DEF UserApproves
  <1> HIDE DEF r
  <1>4. QED
    BY <1>1, <1>2, <1>3, EndIsSet DEF OnlyEnd, Queue

LEMMA PrimaryListensEffect ==
  ASSUME TypeOK, NEW k \in Nat, PrimaryListens(k)
  PROVE  /\ k \in DOMAIN seeks /\ seeks[k] \in Sessions
         /\ OnlyEnd(seeks[k])
         /\ end'[seeks[k]].state \in {"DISCONNECTED", "DISCONNECTING"}
         /\ end'[seeks[k]].writing = end[seeks[k]].writing
         /\ end'[seeks[k]].code = end[seeks[k]].code
         /\ end'[seeks[k]].out = Append(end[seeks[k]].out, Pkg(Seek, k))
  <1> DEFINE s == seeks[k]
             q == Queued(end[s], Pkg(Seek, k))
             r == [q EXCEPT !.final = TRUE, !.quiet = TRUE]
             d == CoDisconnect(r)
  <1>0. Pkg(Seek, k) \in Packages
    BY PkgIs DEF PackageTypes, Seek
  <1>1. k \in DOMAIN seeks /\ s \in Sessions
    BY DEF PrimaryListens, TypeOK
  <1>2. s \in Ends /\ end[s] \in EndRecord
    BY <1>1, EndsAreRecords
  <1>3. SetsEnd(s, d)
    BY DEF PrimaryListens, Seek
  <1> HIDE DEF s
  <1>4. /\ q \in EndRecord /\ q.writing = end[s].writing /\ q.code = end[s].code
        /\ q.out = Append(end[s].out, Pkg(Seek, k))
    BY <1>2, <1>0, QueuedIs
  <1> HIDE DEF q
  <1>5. /\ r \in EndRecord /\ r.writing = q.writing /\ r.code = q.code /\ r.out = q.out
    BY <1>4 DEF EndRecord
  <1> HIDE DEF r
  <1>6. /\ d \in EndRecord /\ d.writing = r.writing /\ d.code = r.code /\ d.out = r.out
        /\ d.state \in {"DISCONNECTED", "DISCONNECTING"}
    BY <1>5, CoDisconnectIs
  <1> HIDE DEF d
  <1>7. /\ OnlyEnd(s) /\ end'[s] = d
    BY <1>2, <1>3, <1>6, EndIsSet DEF OnlyEnd
  <1>8. QED
    BY <1>1, <1>4, <1>5, <1>6, <1>7 DEF s

LEMMA AppDisconnectsEffect ==
  ASSUME TypeOK, NEW e \in Ends, AppDisconnects(e)
  PROVE  /\ OnlyEnd(e) /\ Session(e) \in Sessions
         /\ end'[e].state \in {"DISCONNECTED", "DISCONNECTING"}
         /\ Runs(end'[e]) = Runs(end[e]) /\ Flags(end'[e]) = Flags(end[e])
         /\ Queue(end'[e]) = Queue(end[e]) /\ end'[e].code = end[e].code
         /\ broken' = broken \cup {Session(e)} /\ cuts' \in 0 .. MaxCuts
  <1> DEFINE d == CoDisconnect(end[e])
  <1>1. end[e] \in EndRecord
    BY EndsAreRecords
  <1>2. /\ d \in EndRecord
        /\ d.dialing = end[e].dialing /\ d.sending = end[e].sending
        /\ d.receiving = end[e].receiving
        /\ d.final = end[e].final /\ d.quiet = end[e].quiet /\ d.terminal = end[e].terminal
        /\ d.writing = end[e].writing /\ d.code = end[e].code /\ d.out = end[e].out
        /\ d.state \in {"DISCONNECTED", "DISCONNECTING"}
    BY <1>1, CoDisconnectIs
  <1>3. /\ SetsEnd(e, d) /\ Session(e) # 0 /\ Session(e) \in Ends
        /\ broken' = broken \cup {Session(e)} /\ cuts < MaxCuts /\ cuts' = cuts + 1
    BY EndsAreRecords DEF AppDisconnects, Cuts, Session
  <1>4. cuts' \in 0 .. MaxCuts /\ Session(e) \in Sessions
    BY <1>3, HandshakeBounds, EndsAreRecords DEF TypeOK
  <1> HIDE DEF d
  <1>5. QED
    BY <1>1, <1>2, <1>3, <1>4, EndIsSet DEF OnlyEnd, Runs, Flags, Queue

LEMMA CloseEffect ==
  ASSUME TypeOK, NEW e \in Ends, CloseDrained(e) \/ CloseTimesOut(e)
  PROVE  /\ OnlyEnd(e)
         /\ end'[e].state = "DISCONNECTED" /\ end[e].closing /\ ~end'[e].closing
         /\ Runs(end'[e]) = Runs(end[e]) /\ Flags(end'[e]) = Flags(end[e])
         /\ Queue(end'[e]) = Queue(end[e]) /\ end'[e].code = end[e].code
  <1> DEFINE r == [end[e] EXCEPT !.closing = FALSE, !.state = "DISCONNECTED"]
  <1>1. end[e] \in EndRecord
    BY EndsAreRecords
  <1>2. /\ r \in EndRecord /\ ~r.closing /\ r.state = "DISCONNECTED"
        /\ r.dialing = end[e].dialing /\ r.sending = end[e].sending
        /\ r.receiving = end[e].receiving
        /\ r.final = end[e].final /\ r.quiet = end[e].quiet /\ r.terminal = end[e].terminal
        /\ r.writing = end[e].writing /\ r.code = end[e].code /\ r.out = end[e].out
    BY <1>1 DEF EndRecord, States
  <1>3. SetsEnd(e, r) /\ end[e].closing
    BY DEF CloseDrained, CloseTimesOut
  <1> HIDE DEF r
  <1>4. QED
    BY <1>1, <1>2, <1>3, EndIsSet DEF OnlyEnd, Runs, Flags, Queue
-------------------------------------------------------------------------------
(* Types *)

LEMMA SeqGrows ==
  ASSUME NEW S, NEW T, S \subseteq T
  PROVE  Seq(S) \subseteq Seq(T)
  OBVIOUS

(* A queue is left alone, cleared, shortened at its head, or extended by a   *)
(* member of T.                                                              *)
Moves(q, r, T) ==
    \/ r \in {q, <<>>}
    \/ q # <<>> /\ r = Tail(q)
    \/ \E p \in T : r = Append(q, p)

LEMMA MovesType ==
  ASSUME NEW S, NEW T, S \subseteq T, NEW q \in Seq(S), NEW r, Moves(q, r, T)
  PROVE  r \in Seq(T)
  <1>1. q \in Seq(T)
    BY SeqGrows
  <1>2. CASE r \in {q, <<>>}
    BY <1>1, <1>2, EmptySeq
  <1>3. CASE q # <<>> /\ r = Tail(q)
    BY <1>1, <1>3, HeadTailProperties
  <1>4. CASE \E p \in T : r = Append(q, p)
    BY <1>1, <1>4, AppendProperties
  <1>5. QED
    BY <1>2, <1>3, <1>4 DEF Moves

(* Codes are only ever typed, and endpoints only ever sought.                *)
Grows ==
    /\ typed \subseteq typed'
    /\ seeks' = seeks \/ \E s \in Sessions : seeks' = Append(seeks, s)

LEMMA SeeksGrow ==
  ASSUME TypeOK, Grows
  PROVE  /\ seeks' \in Seq(Sessions) /\ DOMAIN seeks \subseteq DOMAIN seeks'
         /\ \A k \in DOMAIN seeks : seeks'[k] = seeks[k]
         /\ Len(seeks) \in Nat /\ DOMAIN seeks = 1 .. Len(seeks)
         /\ Len(seeks') \in Nat /\ DOMAIN seeks' = 1 .. Len(seeks')
  <1>1. seeks \in Seq(Sessions)
    BY DEF TypeOK
  <1>2. CASE seeks' = seeks
    BY <1>1, <1>2
  <1>3. CASE \E s \in Sessions : seeks' = Append(seeks, s)
    BY <1>1, <1>3, AppendProperties
  <1>4. QED
    BY <1>2, <1>3 DEF Grows

LEMMA PackagesAreTyped ==
  ASSUME TypeOK
  PROVE  /\ ClientPackages \subseteq Packages /\ ServerPackages \subseteq Packages
         /\ \A e \in Ends : Sends(e) \subseteq Packages /\ Gets(e) \subseteq Packages
  <1>1. Codes \subseteq Nat /\ DOMAIN seeks \subseteq Nat
    BY HandshakeBounds DEF Codes, Sessions, TypeOK
  <1>2. QED
    BY <1>1 DEF ClientPackages, ServerPackages, Packages, PackageTypes, Data, Seek, Reasons,
                Prompts, Sends, Gets

LEMMA PackagesGrow ==
  ASSUME TypeOK, Grows
  PROVE  \A e \in Ends : Sends(e) \subseteq Sends(e)' /\ Gets(e) \subseteq Gets(e)'
  <1>1. Codes \subseteq Codes' /\ DOMAIN seeks \subseteq DOMAIN seeks'
    BY SeeksGrow DEF Codes, Grows
  <1>2. ClientPackages \subseteq ClientPackages' /\ ServerPackages \subseteq ServerPackages'
    BY <1>1 DEF ClientPackages, ServerPackages
  <1>3. QED
    BY <1>2 DEF Sends, Gets

LEMMA TrafficKept ==
  ASSUME TypeOK, Traffic, Grows,
         \A e \in Ends :
            /\ Moves(end[e].out, end'[e].out, Sends(e)')
            /\ \/ end'[e].writing \in {end[e].writing, None}
               \/ end[e].out # <<>> /\ end'[e].writing = Head(end[e].out)
            /\ Moves(wire[e], wire'[e], Gets(e)')
  PROVE  Traffic'
  <1> SUFFICES ASSUME NEW e \in Ends
               PROVE  /\ end'[e].out \in Seq(Sends(e)')
                      /\ end'[e].writing \in Sends(e)' \cup {None}
                      /\ wire'[e] \in Seq(Gets(e)')
    BY DEF Traffic
  <1>1. /\ end[e].out \in Seq(Sends(e)) /\ end[e].writing \in Sends(e) \cup {None}
        /\ wire[e] \in Seq(Gets(e))
    BY DEF Traffic
  <1>2. Sends(e) \subseteq Sends(e)' /\ Gets(e) \subseteq Gets(e)'
    BY PackagesGrow
  <1>3. end'[e].out \in Seq(Sends(e)') /\ wire'[e] \in Seq(Gets(e)')
    BY <1>1, <1>2, MovesType
  <1>4. end[e].out # <<>> => Head(end[e].out) \in Sends(e)
    BY <1>1, HeadTailProperties
  <1>5. QED
    BY <1>1, <1>2, <1>3, <1>4

LEMMA WireKept ==
  ASSUME TypeOK, NEW e \in Ends
  PROVE  /\ UNCHANGED wire => \A f \in Ends : Moves(wire[f], wire'[f], Gets(f)')
         /\ wire' = NoReader(e) => \A f \in Ends : Moves(wire[f], wire'[f], Gets(f)')
         /\ wire[e] # <<>> /\ wire'[e] \in {<<>>, Tail(wire[e])}
            /\ (\A f \in Ends : f # e => wire'[f] = wire[f]) =>
               \A f \in Ends : Moves(wire[f], wire'[f], Gets(f)')
  BY NoReaderIs DEF Moves

(* Only end e's queue moves, by an Append of p. *)
LEMMA OutAppended ==
  ASSUME TypeOK, NEW e \in Ends, OnlyEnd(e), NEW p \in Sends(e)',
         end'[e].out = Append(end[e].out, p), end'[e].writing = end[e].writing
  PROVE  \A f \in Ends :
            /\ Moves(end[f].out, end'[f].out, Sends(f)')
            /\ end'[f].writing \in {end[f].writing, None}
  BY DEF OnlyEnd, Moves

LEMMA OutKept ==
  ASSUME TypeOK, NEW e \in Ends, OnlyEnd(e),
         \/ Queue(end'[e]) = Queue(end[e])
         \/ end'[e].out \in {<<>>, end[e].out} /\ end'[e].writing \in {end[e].writing, None}
         \/ /\ end[e].out # <<>>
            /\ end'[e].out = Tail(end[e].out) /\ end'[e].writing = Head(end[e].out)
  PROVE  \A f \in Ends :
            /\ Moves(end[f].out, end'[f].out, Sends(f)')
            /\ \/ end'[f].writing \in {end[f].writing, None}
               \/ end[f].out # <<>> /\ end'[f].writing = Head(end[f].out)
  BY DEF OnlyEnd, Moves, Queue

LEMMA PackagesSent ==
  ASSUME NEW s \in Sessions
  PROVE  /\ \A type \in Reasons \cup Prompts, n \in Nat : Pkg(type, n) \in Sends(s)'
         /\ \A k \in DOMAIN seeks' : Pkg(Seek, k) \in Sends(s)'
         /\ Pkg(Data, 0) \in Sends(0)'
         /\ \A c \in Codes' : Pkg("CHALLENGE_RESPONSE", c) \in Sends(0)'
  BY DEF Sends, ServerPackages, ClientPackages, Pkg, Sessions

LEMMA ConnectType ==
  ASSUME IInv, NEW how \in Modes, Connect(how)
  PROVE  TypeOK' /\ Traffic'
  <1>1. TypeOK /\ Traffic /\ 0 \in Ends
    BY EndsAreRecords DEF IInv
  <1>2. Grows
    BY DEF Connect, primary, Grows
  <1>3. Traffic'
    BY <1>1, <1>2, ConnectEffect, OutKept, TrafficKept DEF Moves
  <1>4. attempt + 1 \in Ends /\ mode' \in [Sessions -> Modes]
    <2>1. attempt \in 0 .. MaxSession /\ attempt < MaxSession
      BY <1>1 DEF Connect, TypeOK, Ends
    <2>2. mode \in [Sessions -> Modes] /\ mode' = [mode EXCEPT ![attempt'] = how]
      BY <1>1 DEF Connect, TypeOK
    <2>3. attempt + 1 \in Ends
      BY <2>1, HandshakeBounds DEF Ends
    <2>4. QED
      BY <2>2, <2>3
  <1>5. TypeOK'
    BY <1>1, <1>4, ConnectEffect DEF Connect, TypeOK, app, primary, OnlyEnd, Told
  <1>6. QED
    BY <1>3, <1>5

LEMMA DialType ==
  ASSUME IInv, ConnectSucceeds \/ ConnectFails
  PROVE  TypeOK' /\ Traffic'
  <1>1. TypeOK /\ Traffic /\ 0 \in Ends
    BY EndsAreRecords DEF IInv
  <1>2. Grows /\ wire' = wire
    BY DEF ConnectSucceeds, ConnectFails, primary, Grows, ghosts
  <1>3. CASE ConnectSucceeds
    <2>1. Pkg(Data, 0) \in Sends(0)'
      BY DEF Sends, ClientPackages, Pkg
    <2>2. Traffic'
      BY <1>1, <1>2, <1>3, <2>1, ConnectSucceedsEffect, OutAppended, WireKept, TrafficKept
    <2>3. TypeOK'
      BY <1>1, <1>3, ConnectSucceedsEffect DEF ConnectSucceeds, TypeOK, app, primary, ghosts, OnlyEnd
    <2>4. QED
      BY <2>2, <2>3
  <1>4. CASE ConnectFails
    <2>1. Traffic'
      BY <1>1, <1>2, <1>4, ConnectFailsEffect, OutKept, WireKept, TrafficKept
    <2>2. TypeOK'
      BY <1>1, <1>4, ConnectFailsEffect DEF ConnectFails, TypeOK, app, primary, Tells, Told, OnlyEnd
    <2>3. QED
      BY <2>1, <2>2
  <1>5. QED
    BY <1>3, <1>4

LEMMA AcceptsType ==
  ASSUME IInv, NEW s \in Sessions, Accepts(s)
  PROVE  TypeOK' /\ Traffic'
  <1>1. TypeOK /\ Traffic /\ s \in Ends
    BY EndsAreRecords DEF IInv
  <1>2. Grows /\ wire' = wire
    BY DEF Accepts, primary, Grows, ghosts
  <1>3. Traffic'
    BY <1>1, <1>2, AcceptsEffect, OutKept, WireKept, TrafficKept
  <1>4. TypeOK'
    BY <1>1, AcceptsEffect DEF Accepts, TypeOK, app, primary, ghosts, OnlyEnd
  <1>5. QED
    BY <1>3, <1>4

(* What the connecting device reports is one of the things it may be told.   *)
LEMMA TellsType ==
  ASSUME TypeOK, NEW e \in Ends, TellsError(e)
  PROVE  told' \in Told
  BY DEF TypeOK, TellsError, Tells, Told

LEMMA CoSendWakesType ==
  ASSUME IInv, NEW e \in Ends, CoSendWakes(e)
  PROVE  TypeOK' /\ Traffic'
  <1>1. TypeOK /\ Traffic
    BY DEF IInv
  <1>2. Grows /\ wire' = wire
    BY DEF CoSendWakes, primary, Grows, ghosts
  <1>3. Traffic'
    BY <1>1, <1>2, CoSendWakesEffect, OutKept, WireKept, TrafficKept
  <1>4. TypeOK'
    BY <1>1, CoSendWakesEffect DEF CoSendWakes, TypeOK, app, primary, ghosts, OnlyEnd
  <1>5. QED
    BY <1>3, <1>4

LEMMA CoSendWritesType ==
  ASSUME IInv, NEW e \in Ends, CoSendWrites(e)
  PROVE  TypeOK' /\ Traffic'
  <1>1. TypeOK /\ Traffic /\ 0 \in Ends
    BY EndsAreRecords DEF IInv
  <1> DEFINE p == end[e].writing
  <1>2. Grows /\ wire' = Put(e, p) /\ p \in Packages /\ p # None
    BY <1>1, CoSendWritesEffect DEF CoSendWrites, primary, Grows, ghosts
  <1>3. e = 0 => attempt \in Sessions
    <2>1. e = 0 => end[0].sending
      BY <1>2 DEF IInv, DataIsSentOnce
    <2>2. attempt # 0 \/ e # 0
      BY <2>1 DEF IInv, AttemptIsTold
    <2>3. QED
      BY <1>1, <2>2, EndsAreRecords
  <1>4. p \in Sends(e)'
    BY <1>1, <1>2, PackagesGrow DEF Traffic
  <1> HIDE DEF p
  <1>5. /\ wire' \in [Ends -> Seq(Packages)]
        /\ \A f \in Ends :
               \/ wire'[f] = wire[f]
               \/ /\ wire'[f] = Append(wire[f], p)
                  /\ \/ e = 0 /\ f = attempt
                     \/ e # 0 /\ f = 0 /\ attempt = e
    BY <1>1, <1>2, PutIs
  <1>6. \A f \in Ends : Moves(wire[f], wire'[f], Gets(f)')
    <2> SUFFICES ASSUME NEW f \in Ends, wire'[f] = Append(wire[f], p),
                        \/ e = 0 /\ f = attempt
                        \/ e # 0 /\ f = 0 /\ attempt = e
                 PROVE  p \in Gets(f)'
      BY <1>5 DEF Moves
    <2>1. (e = 0) = (f # 0)
      BY <1>3 DEF Sessions
    <2>2. QED
      BY <1>4, <2>1 DEF Sends, Gets
  <1>7. Traffic'
    BY <1>1, <1>2, <1>6, CoSendWritesEffect, OutKept, TrafficKept
  <1>8. TypeOK'
    BY <1>1, <1>5, CoSendWritesEffect DEF CoSendWrites, TypeOK, app, primary, ghosts, OnlyEnd
  <1>9. QED
    BY <1>7, <1>8

LEMMA CoSendFailsType ==
  ASSUME IInv, NEW e \in Ends, CoSendFails(e)
  PROVE  TypeOK' /\ Traffic'
  <1>1. TypeOK /\ Traffic
    BY DEF IInv
  <1>2. Grows /\ wire' = wire
    BY DEF CoSendFails, primary, Grows
  <1>3. end'[e].out = <<>> /\ end'[e].writing = None
    BY <1>1, CoSendFailsEffect DEF Queue
  <1>4. Traffic'
    BY <1>1, <1>2, <1>3, CoSendFailsEffect, OutKept, WireKept, TrafficKept
  <1>5. told' \in Told
    BY <1>1, TellsType DEF CoSendFails
  <1>6. TypeOK'
    BY <1>1, <1>5, CoSendFailsEffect DEF CoSendFails, TypeOK, app, primary, OnlyEnd
  <1>7. QED
    BY <1>4, <1>6

LEMMA StopsReceivingType ==
  ASSUME IInv, NEW e \in Ends, DropsAndEnds(e) \/ CoReceiveFails(e)
  PROVE  TypeOK' /\ Traffic'
  <1>1. TypeOK /\ Traffic
    BY DEF IInv
  <1>2. Grows
    BY DEF DropsAndEnds, CoReceiveFails, primary, Grows, ghosts
  <1>3. wire' = NoReader(e) /\ OnlyEnd(e) /\ Queue(end'[e]) = Queue(end[e])
    BY <1>1, DropsAndEndsEffect, CoReceiveFailsEffect
  <1>4. Traffic'
    BY <1>1, <1>2, <1>3, OutKept, WireKept, TrafficKept
  <1>5. told' \in Told
    BY <1>1, TellsType DEF DropsAndEnds, CoReceiveFails, ghosts, TypeOK
  <1>6. TypeOK'
    BY <1>1, <1>3, <1>5, NoReaderIs
       DEF DropsAndEnds, CoReceiveFails, TypeOK, app, primary, ghosts, OnlyEnd
  <1>7. QED
    BY <1>4, <1>6

(* A session more is sought. *)
LEMMA SeekType ==
  ASSUME TypeOK, NEW s \in Sessions, seeks' = Append(seeks, s),
         listening' = listening \cup {Len(seeks')}, handed' \subseteq DOMAIN seeks
  PROVE  /\ seeks' \in Seq(Sessions) /\ listening' \subseteq DOMAIN seeks'
         /\ handed' \subseteq DOMAIN seeks'
  <1>1. seeks \in Seq(Sessions) /\ listening \subseteq DOMAIN seeks
    BY DEF TypeOK
  <1>2. QED
    BY <1>1, AppendProperties

LEMMA ReceivesDeviceDataType ==
  ASSUME IInv, NEW s \in Sessions, ReceivesDeviceData(s)
  PROVE  TypeOK' /\ Traffic'
  <1>1. TypeOK /\ Traffic /\ s \in Ends
    BY EndsAreRecords DEF IInv
  <1>2. /\ OnlyEnd(s) /\ end'[s].writing = end[s].writing
        /\ wire' \in [Ends -> Seq(Packages)]
        /\ \A f \in Ends : Moves(wire[f], wire'[f], Gets(f)')
    BY <1>1, ReceivesDeviceDataEffect, WireKept
  <1>3. ASSUME NEW type \in Reasons, end'[s].out = Append(end[s].out, Pkg(type, 0)),
               UNCHANGED <<asked, primary>>
        PROVE  TypeOK' /\ Traffic'
    <2>1. Grows /\ Pkg(type, 0) \in Sends(s)'
      BY <1>3, PackagesSent DEF Grows, primary, ReceivesDeviceData, ghosts
    <2>2. Traffic'
      BY <1>1, <1>2, <1>3, <2>1, OutAppended, TrafficKept
    <2>3. QED
      BY <1>1, <1>2, <1>3, <2>2 DEF ReceivesDeviceData, TypeOK, primary, ghosts, OnlyEnd
  <1>4. CASE /\ end'[s].out = end[s].out /\ asked' = asked
             /\ seeks' = Append(seeks, s) /\ listening' = listening \cup {Len(seeks')}
    <2>1. Grows
      BY <1>4 DEF Grows, ReceivesDeviceData, ghosts
    <2>2. Traffic'
      BY <1>1, <1>2, <1>4, <2>1, OutKept, TrafficKept
    <2>3. /\ seeks' \in Seq(Sessions) /\ listening' \subseteq DOMAIN seeks'
          /\ handed' \subseteq DOMAIN seeks'
      BY <1>1, <1>4, SeekType DEF TypeOK, ReceivesDeviceData, ghosts
    <2>4. QED
      BY <1>1, <1>2, <1>4, <2>2, <2>3 DEF ReceivesDeviceData, TypeOK, ghosts, OnlyEnd
  <1>5. CASE end'[s].out = end[s].out /\ asked' = asked \cup {s} /\ UNCHANGED primary
    <2>1. Grows
      BY <1>5 DEF Grows, primary, ReceivesDeviceData, ghosts
    <2>2. Traffic'
      BY <1>1, <1>2, <1>5, <2>1, OutKept, TrafficKept
    <2>3. QED
      BY <1>1, <1>2, <1>5, <2>2 DEF ReceivesDeviceData, TypeOK, primary, ghosts, OnlyEnd
  <1>6. QED
    BY <1>1, <1>3, <1>4, <1>5, ReceivesDeviceDataEffect

LEMMA ReceivesAnswerType ==
  ASSUME IInv, NEW s \in Sessions, ReceivesRightAnswer(s) \/ ReceivesWrongAnswer(s)
  PROVE  TypeOK' /\ Traffic'
  <1>1. TypeOK /\ Traffic /\ s \in Ends
    BY EndsAreRecords DEF IInv
  <1>2. /\ OnlyEnd(s) /\ end'[s].writing = end[s].writing
        /\ wire' \in [Ends -> Seq(Packages)] /\ banned' \in BOOLEAN
        /\ \A f \in Ends : Moves(wire[f], wire'[f], Gets(f)')
    <2>1. CASE ReceivesRightAnswer(s)
      BY <1>1, <2>1, ReceivesRightAnswerEffect, WireKept DEF ReceivesRightAnswer, TypeOK
    <2>2. CASE ReceivesWrongAnswer(s)
      BY <1>1, <2>2, ReceivesWrongAnswerEffect, WireKept
    <2>3. QED
      BY <2>1, <2>2
  <1>3. \E type \in Prompts, n \in Nat : end'[s].out = Append(end[s].out, Pkg(type, n))
    BY <1>1, ReceivesRightAnswerEffect, ReceivesWrongAnswerEffect DEF Prompts
  <1>4. Grows
    BY DEF Grows, primary, ReceivesRightAnswer, ReceivesWrongAnswer, ghosts
  <1>5. Traffic'
    BY <1>1, <1>2, <1>3, <1>4, PackagesSent, OutAppended, TrafficKept
  <1>6. TypeOK'
    BY <1>1, <1>2
       DEF ReceivesRightAnswer, ReceivesWrongAnswer, TypeOK, app, primary, ghosts, OnlyEnd
  <1>7. QED
    BY <1>5, <1>6

LEMMA ReceivesEndpointType ==
  ASSUME IInv, ReceivesEndpoint
  PROVE  TypeOK' /\ Traffic'
  <1>1. TypeOK /\ Traffic /\ 0 \in Ends
    BY EndsAreRecords DEF IInv
  <1>2. /\ OnlyEnd(0) /\ Queue(end'[0]) = Queue(end[0])
        /\ wire' \in [Ends -> Seq(Packages)]
        /\ \A f \in Ends : Moves(wire[f], wire'[f], Gets(f)')
    BY <1>1, ReceivesEndpointEffect, WireKept
  <1>3. Grows
    BY DEF Grows, primary, ReceivesEndpoint
  <1>4. Traffic'
    BY <1>1, <1>2, <1>3, OutKept, TrafficKept
  <1>5. Content(0) \in DOMAIN seeks
    <2>1. wire[0] \in Seq(ServerPackages) /\ wire[0] # <<>> /\ Head(wire[0]).type = Seek
      BY <1>1, ReceivesEndpointEffect DEF Traffic, Gets
    <2>2. Head(wire[0]) \in ServerPackages
      BY <2>1, HeadTailProperties
    <2>3. QED
      BY <2>1, <2>2 DEF ServerPackages, Content, Seek, Reasons, Prompts
  <1>6. handed' \subseteq DOMAIN seeks
    BY <1>1, <1>5 DEF ReceivesEndpoint, TypeOK
  <1>7. TypeOK'
    BY <1>1, <1>2, <1>6 DEF ReceivesEndpoint, TypeOK, app, primary, OnlyEnd
  <1>8. QED
    BY <1>4, <1>7

LEMMA ReportType ==
  ASSUME IInv, ReceivesWrongAnswerReport \/ ReceivesPrompt
  PROVE  TypeOK' /\ Traffic'
  <1>1. TypeOK /\ Traffic /\ 0 \in Ends
    BY EndsAreRecords DEF IInv
  <1>2. /\ end' = end /\ wire' \in [Ends -> Seq(Packages)]
        /\ \A f \in Ends : Moves(wire[f], wire'[f], Gets(f)')
    BY <1>1, ReportEffect, WireKept
  <1>3. Grows /\ OnlyEnd(0) /\ Queue(end'[0]) = Queue(end[0])
    BY <1>1, <1>2
       DEF Grows, app, primary, ReceivesWrongAnswerReport, ReceivesPrompt, OnlyEnd, TypeOK
  <1>4. Traffic'
    BY <1>1, <1>2, <1>3, OutKept, TrafficKept
  <1>5. told' \in Told
    BY DEF ReceivesWrongAnswerReport, ReceivesPrompt, Tells, Told
  <1>6. TypeOK'
    BY <1>1, <1>2, <1>5 DEF ReceivesWrongAnswerReport, ReceivesPrompt, TypeOK, app, primary
  <1>7. QED
    BY <1>4, <1>6

LEMMA ReceivesReasonType ==
  ASSUME IInv, ReceivesReason
  PROVE  TypeOK' /\ Traffic'
  <1>1. TypeOK /\ Traffic /\ 0 \in Ends
    BY EndsAreRecords DEF IInv
  <1>2. /\ OnlyEnd(0) /\ Queue(end'[0]) = Queue(end[0])
        /\ wire' \in [Ends -> Seq(Packages)]
        /\ \A f \in Ends : Moves(wire[f], wire'[f], Gets(f)')
    BY <1>1, ReceivesReasonEffect, WireKept
  <1>3. Grows
    BY DEF Grows, primary, ReceivesReason
  <1>4. Traffic'
    BY <1>1, <1>2, <1>3, OutKept, TrafficKept
  <1>5. told' \in Told
    BY DEF ReceivesReason, Tells, Told
  <1>6. TypeOK'
    BY <1>1, <1>2, <1>5 DEF ReceivesReason, TypeOK, app, primary, OnlyEnd
  <1>7. QED
    BY <1>4, <1>6

LEMMA AppType ==
  ASSUME IInv, NEW s \in Sessions, AppStep(s)
  PROVE  TypeOK' /\ Traffic'
  <1>1. TypeOK /\ Traffic /\ s \in Ends
    BY EndsAreRecords DEF IInv
  <1>2. wire' = wire
    BY DEF AppStep, AppRejects, AppAccepts, AppAcceptsIfVerified
  <1>3. CASE AppRejects(s)
    <2>1. Grows
      BY <1>3 DEF Grows, primary, AppRejects
    <2>2. Traffic'
      BY <1>1, <1>2, <1>3, <2>1, AppRejectsEffect, OutKept, WireKept, TrafficKept
    <2>3. TypeOK'
      BY <1>1, <1>3, AppRejectsEffect DEF AppRejects, TypeOK, app, primary, OnlyEnd
    <2>4. QED
      BY <2>2, <2>3
  <1>4. CASE AppAccepts(s)
    <2>1. OnlyEnd(s) /\ Queue(end'[s]) = Queue(end[s])
      BY <1>1, <1>4, AppAcceptsEffect
    <2>2. Grows
      BY <1>1, <1>4, AppAcceptsEffect DEF Grows, primary, AppAccepts
    <2>3. Traffic'
      BY <1>1, <1>2, <2>1, <2>2, OutKept, WireKept, TrafficKept
    <2>4. /\ seeks' \in Seq(Sessions) /\ listening' \subseteq DOMAIN seeks'
          /\ handed' \subseteq DOMAIN seeks'
      <3>1. CASE UNCHANGED primary
        BY <1>1, <1>4, <3>1 DEF AppAccepts, TypeOK, primary
      <3>2. CASE seeks' = Append(seeks, s) /\ listening' = listening \cup {Len(seeks')}
        BY <1>1, <1>4, <3>2, SeekType DEF AppAccepts, TypeOK
      <3>3. QED
        BY <1>1, <1>4, <3>1, <3>2, AppAcceptsEffect
    <2>5. TypeOK'
      BY <1>1, <1>4, <2>1, <2>4 DEF AppAccepts, TypeOK, OnlyEnd
    <2>6. QED
      BY <2>3, <2>5
  <1>5. CASE AppAcceptsIfVerified(s)
    <2>1. Grows /\ Pkg("CHALLENGE_ANSWER_REQUEST", 0) \in Sends(s)'
      BY <1>5, PackagesSent DEF Grows, primary, AppAcceptsIfVerified, Prompts
    <2>2. Traffic'
      BY <1>1, <1>2, <1>5, <2>1, AppAcceptsIfVerifiedEffect, OutAppended, WireKept, TrafficKept
    <2>3. TypeOK'
      BY <1>1, <1>5, AppAcceptsIfVerifiedEffect
         DEF AppAcceptsIfVerified, TypeOK, primary, OnlyEnd
    <2>4. QED
      BY <2>2, <2>3
  <1>6. QED
    BY <1>3, <1>4, <1>5 DEF AppStep

(* What the user may type: the code of the prompt, or one of no session.     *)
LEMMA TypedCodes ==
  ASSUME TypeOK, NEW code \in {verifying, MaxSession + 1}, UserAnswers(code)
  PROVE  code \in Nat \ {0} /\ code \in Codes'
  <1>1. verifying \in Sessions /\ typed' = typed \cup {<<verifying, code>>}
    BY EndsAreRecords DEF UserAnswers, TypeOK
  <1>2. QED
    BY <1>1, HandshakeBounds DEF Codes, Sessions

LEMMA UserType ==
  ASSUME IInv, \/ \E code \in {verifying, MaxSession + 1} : UserAnswers(code)
               \/ UserDenies \/ UserApproves
  PROVE  TypeOK' /\ Traffic'
  <1>1. TypeOK /\ Traffic /\ 0 \in Ends /\ Sessions \subseteq Ends
    BY EndsAreRecords DEF IInv
  <1>2. wire' = wire
    BY DEF UserAnswers, UserDenies, UserApproves
  <1>3. ASSUME NEW code \in {verifying, MaxSession + 1}, UserAnswers(code)
        PROVE  TypeOK' /\ Traffic'
    <2>1. code \in Nat /\ code \in Codes'
      BY <1>1, <1>3, TypedCodes
    <2>2. /\ OnlyEnd(0) /\ end'[0].writing = end[0].writing
          /\ end'[0].out = Append(end[0].out, Pkg("CHALLENGE_RESPONSE", code))
          /\ typed' = typed \cup {<<verifying, code>>} /\ verifying \in Sessions
      BY <1>1, <1>3, <2>1, UserAnswersEffect
    <2>3. Pkg("CHALLENGE_RESPONSE", code) \in Sends(0)'
      BY <2>1 DEF Sends, ClientPackages, Pkg
    <2>4. Grows
      BY <1>3, <2>2 DEF Grows, primary, UserAnswers
    <2>5. Traffic'
      BY <1>1, <1>2, <2>2, <2>3, <2>4, OutAppended, WireKept, TrafficKept
    <2>6. typed' \subseteq Sessions \X Nat
      BY <1>1, <2>1, <2>2 DEF TypeOK
    <2>7. TypeOK'
      BY <1>1, <1>3, <2>2, <2>6 DEF UserAnswers, TypeOK, app, primary, OnlyEnd
    <2>8. QED
      BY <2>5, <2>7
  <1>4. CASE UserDenies
    <2>1. PICK s \in Sessions :
             /\ approving' = 0 /\ OnlyEnd(s)
             /\ end'[s].writing = end[s].writing
             /\ end'[s].out = Append(end[s].out, Pkg("CONNECTION_APPROVAL_DENIED", 0))
      BY <1>1, <1>4, UserDeniesEffect
    <2>2. Grows /\ Pkg("CONNECTION_APPROVAL_DENIED", 0) \in Sends(s)'
      BY <1>4, <2>1, PackagesSent DEF Grows, primary, UserDenies, ghosts, Reasons
    <2>3. Traffic'
      BY <1>1, <1>2, <2>1, <2>2, OutAppended, WireKept, TrafficKept
    <2>4. TypeOK'
      BY <1>1, <1>4, <2>1 DEF UserDenies, TypeOK, primary, ghosts, OnlyEnd
    <2>5. QED
      BY <2>3, <2>4
  <1>5. CASE UserApproves
    <2>1. /\ approving \in Sessions /\ approving' = 0 /\ OnlyEnd(approving)
          /\ Queue(end'[approving]) = Queue(end[approving])
          /\ seeks' = Append(seeks, approving) /\ listening' = listening \cup {Len(seeks')}
      BY <1>1, <1>5, UserApprovesEffect
    <2>2. Grows
      BY <1>5, <2>1 DEF Grows, UserApproves
    <2>3. Traffic'
      BY <1>1, <1>2, <2>1, <2>2, OutKept, WireKept, TrafficKept
    <2>4. /\ seeks' \in Seq(Sessions) /\ listening' \subseteq DOMAIN seeks'
          /\ handed' \subseteq DOMAIN seeks'
      BY <1>1, <1>5, <2>1, SeekType DEF TypeOK, UserApproves
    <2>5. TypeOK'
      BY <1>1, <1>5, <2>1, <2>4 DEF UserApproves, TypeOK, OnlyEnd
    <2>6. QED
      BY <2>3, <2>5
  <1>6. QED
    BY <1>3, <1>4, <1>5

LEMMA PrimaryListensType ==
  ASSUME IInv, NEW k \in 1 .. MaxSeek, PrimaryListens(k)
  PROVE  TypeOK' /\ Traffic'
  <1>1. TypeOK /\ Traffic /\ Sessions \subseteq Ends /\ k \in Nat
    BY EndsAreRecords DEF IInv
  <1>2. PICK s \in Sessions :
           /\ k \in DOMAIN seeks /\ OnlyEnd(s)
           /\ end'[s].writing = end[s].writing
           /\ end'[s].out = Append(end[s].out, Pkg(Seek, k))
    BY <1>1, PrimaryListensEffect
  <1>3. Grows /\ wire' = wire /\ Pkg(Seek, k) \in Sends(s)'
    BY <1>2, PackagesSent DEF Grows, PrimaryListens, ghosts
  <1>4. s \in Ends
    BY <1>1
  <1>5. Traffic'
    BY <1>1, <1>2, <1>3, <1>4, OutAppended, WireKept, TrafficKept
  <1>6. TypeOK'
    BY <1>1, <1>2 DEF PrimaryListens, TypeOK, app, ghosts, OnlyEnd
  <1>7. QED
    BY <1>5, <1>6

LEMMA AppDisconnectsType ==
  ASSUME IInv, NEW e \in Ends, AppDisconnects(e)
  PROVE  TypeOK' /\ Traffic'
  <1>1. TypeOK /\ Traffic /\ 0 \in Ends
    BY EndsAreRecords DEF IInv
  <1>2. Grows /\ wire' = wire
    BY DEF AppDisconnects, primary, Grows
  <1>3. Traffic'
    BY <1>1, <1>2, AppDisconnectsEffect, OutKept, WireKept, TrafficKept
  <1>4. abandoned' \subseteq Sessions /\ verifying' \in Ends
    BY <1>1, AppDisconnectsEffect DEF AppDisconnects, TypeOK, Session
  <1>5. TypeOK'
    BY <1>1, <1>4, AppDisconnectsEffect DEF AppDisconnects, TypeOK, primary, OnlyEnd
  <1>6. QED
    BY <1>3, <1>5

LEMMA CloseType ==
  ASSUME IInv, NEW e \in Ends, CloseDrained(e) \/ CloseTimesOut(e)
  PROVE  TypeOK' /\ Traffic'
  <1>1. TypeOK /\ Traffic
    BY DEF IInv
  <1>2. Grows /\ wire' = wire
    BY DEF CloseDrained, CloseTimesOut, primary, Grows, ghosts
  <1>3. Traffic'
    BY <1>1, <1>2, CloseEffect, OutKept, WireKept, TrafficKept
  <1>4. CASE CloseDrained(e)
    BY <1>1, <1>3, <1>4, CloseEffect DEF CloseDrained, TypeOK, app, primary, ghosts, OnlyEnd
  <1>5. CASE CloseTimesOut(e)
    <2>1. Session(e) \in Sessions
      <3>1. end[e].closing
        BY <1>1, <1>5, CloseEffect
      <3>2. e = 0 => attempt # 0
        BY <3>1 DEF IInv, AttemptIsTold
      <3>3. QED
        BY <1>1, <3>2, EndsAreRecords DEF Session
    <2>2. cuts' \in 0 .. MaxCuts /\ broken' \subseteq Sessions
      BY <1>1, <1>5, <2>1, HandshakeBounds DEF CloseTimesOut, Cuts, TypeOK
    <2>3. QED
      BY <1>1, <1>3, <1>5, <2>2, CloseEffect DEF CloseTimesOut, TypeOK, app, primary, OnlyEnd
  <1>6. QED
    BY <1>4, <1>5

LEMMA WorldType ==
  ASSUME IInv, NetworkResets \/ BanExpires \/ UNCHANGED vars
  PROVE  TypeOK' /\ Traffic'
  <1>1. TypeOK /\ Traffic /\ 0 \in Ends
    BY EndsAreRecords DEF IInv
  <1>2. end' = end /\ wire' = wire /\ Grows
    BY DEF NetworkResets, BanExpires, vars, primary, ghosts, Grows
  <1>3. Traffic'
    BY <1>1, <1>2, WireKept, TrafficKept DEF Moves
  <1>4. CASE NetworkResets
    <2>1. attempt \in Sessions
      BY <1>1, <1>4, EndsAreRecords DEF NetworkResets, Sessions, TypeOK
    <2>2. cuts' \in 0 .. MaxCuts /\ broken' \subseteq Sessions /\ reset' \subseteq Sessions
      BY <1>1, <1>4, <2>1, HandshakeBounds DEF NetworkResets, Cuts, TypeOK
    <2>3. QED
      BY <1>1, <1>3, <1>4, <2>2 DEF NetworkResets, TypeOK, app, primary
  <1>5. CASE BanExpires
    BY <1>1, <1>3, <1>5 DEF BanExpires, TypeOK, app, primary, ghosts
  <1>6. CASE UNCHANGED vars
    BY <1>1, <1>3, <1>6 DEF vars, TypeOK, app, primary, ghosts
  <1>7. QED
    BY <1>4, <1>5, <1>6

LEMMA InitIInv == Init => IInv
  <1> SUFFICES ASSUME Init PROVE IInv
    OBVIOUS
  <1>1. 0 \in Ends /\ Sessions \subseteq Ends /\ (\A e \in Ends : e \in Nat)
        /\ \A e \in Ends : e # 0 => e \in Sessions
    BY HandshakeBounds DEF Ends, Sessions
  <1>2. \A e \in Ends : end[e] \in EndRecord /\ end[e] = Idle(IF e = 0 THEN "DISCONNECTED" ELSE "CONNECTING")
    BY IdleType DEF Init, States
  <1>3. \A e \in Ends : /\ end[e].out = <<>> /\ end[e].writing = None /\ wire[e] = <<>>
                        /\ end[e].code = 0 /\ ~end[e].terminal /\ ~end[e].quiet
                        /\ ~end[e].dialing /\ ~end[e].closing /\ ~end[e].sending
                        /\ ~end[e].receiving
    BY <1>2 DEF Init, Idle
  <1>4. end[0].state = "DISCONNECTED"
    <2>1. end[0] = Idle("DISCONNECTED")
      BY <1>1 DEF Init
    <2>2. QED
      BY <2>1 DEF Idle
  <1>5. TypeOK
    <2>1. end \in [Ends -> EndRecord]
      BY <1>2 DEF Init
    <2>2. wire \in [Ends -> Seq(Packages)] /\ seeks \in Seq(Sessions)
      BY EmptySeq DEF Init
    <2>3. mode \in [Sessions -> Modes] /\ listening \subseteq DOMAIN seeks
          /\ handed \subseteq DOMAIN seeks /\ cuts \in 0 .. MaxCuts
      BY HandshakeBounds DEF Init, Modes
    <2>4. QED
      BY <1>1, <2>1, <2>2, <2>3 DEF TypeOK, Init, Told
  <1>6. Traffic
    BY <1>3, EmptySeq DEF Traffic
  <1>7. \A types : \A e \in Ends : ~Has(end[e].out, types) /\ ~Has(wire[e], types)
    BY <1>3 DEF Has
  <1>8. DataIsSentOnce
    BY <1>1, <1>3, NoneIsNoPackage DEF DataIsSentOnce, Once, Has, Data, Init
  <1>9. DecisionsFollowData /\ ApprovalFollowsAnswer /\ SeekNeedsConsent
    BY <1>1, <1>3
       DEF DecisionsFollowData, ApprovalFollowsAnswer, SeekNeedsConsent, Undecided, Init, Sessions
  <1>10. ReasonsComeLast
    <2>1. \A e \in Ends : InOrder(end[e].out) /\ InOrder(wire[e])
      BY <1>3 DEF InOrder
    <2>2. "none" \notin Reasons \cup Prompts
      BY DEF Reasons, Prompts
    <2>3. QED
      BY <1>1, <1>3, <1>7, <2>1, <2>2, NoneIsNoPackage DEF ReasonsComeLast, SessionInOrder, Refused
  <1>11. AttemptIsTold
    BY <1>1, <1>3, <1>4 DEF AttemptIsTold, Init
  <1>12. QED
    BY <1>5, <1>6, <1>8, <1>9, <1>10, <1>11 DEF IInv
-------------------------------------------------------------------------------
(* Device data is sent once *)

LEMMA HasIs ==
  ASSUME NEW S, NEW q \in Seq(S), NEW types
  PROVE  /\ ~Has(<<>>, types)
         /\ q # <<>> => (Has(q, types) <=> Head(q).type \in types \/ Has(Tail(q), types))
         /\ \A p : Has(Append(q, p), types) <=> p.type \in types \/ Has(q, types)
  <1>1. ~Has(<<>>, types)
    BY DEF Has
  <1>2. ASSUME q # <<>>
        PROVE  Has(q, types) <=> Head(q).type \in types \/ Has(Tail(q), types)
    <2>1. /\ Head(q) = q[1] /\ DOMAIN q = 1 .. Len(q) /\ Len(q) \in Nat \ {0}
          /\ DOMAIN Tail(q) = 1 .. Len(q) - 1
          /\ \A i \in 1 .. Len(q) - 1 : Tail(q)[i] = q[i + 1]
      BY <1>2
    <2>2. ASSUME NEW i \in DOMAIN q, q[i].type \in types
          PROVE  Head(q).type \in types \/ Has(Tail(q), types)
      <3>1. CASE i = 1
        BY <2>1, <2>2, <3>1
      <3>2. CASE i # 1
        <4>1. i - 1 \in DOMAIN Tail(q) /\ Tail(q)[i - 1] = q[i]
          BY <2>1, <2>2, <3>2
        <4>2. QED
          BY <2>2, <4>1 DEF Has
      <3>3. QED
        BY <3>1, <3>2
    <2>3. ASSUME NEW i \in DOMAIN Tail(q), Tail(q)[i].type \in types
          PROVE  Has(q, types)
      <3>1. i + 1 \in DOMAIN q /\ q[i + 1] = Tail(q)[i]
        BY <2>1, <2>3
      <3>2. QED
        BY <2>3, <3>1 DEF Has
    <2>4. Head(q).type \in types => Has(q, types)
      BY <2>1 DEF Has
    <2>5. QED
      BY <2>2, <2>3, <2>4 DEF Has
  <1>3. ASSUME NEW p
        PROVE  Has(Append(q, p), types) <=> p.type \in types \/ Has(q, types)
    <2>1. /\ DOMAIN q = 1 .. Len(q) /\ Len(q) \in Nat
          /\ DOMAIN Append(q, p) = 1 .. Len(q) + 1
          /\ \A i \in 1 .. Len(q) : Append(q, p)[i] = q[i]
          /\ Append(q, p)[Len(q) + 1] = p
      OBVIOUS
    <2>2. QED
      BY <2>1 DEF Has
  <1>4. QED
    BY <1>1, <1>2, <1>3

LEMMA OnceIs ==
  ASSUME NEW S, NEW q \in Seq(S), NEW types
  PROVE  /\ Once(<<>>, types)
         /\ q # <<>> /\ Once(q, types) =>
               Once(Tail(q), types) /\ (Head(q).type \in types => ~Has(Tail(q), types))
         /\ \A p : Once(q, types) /\ (p.type \in types => ~Has(q, types)) =>
                      Once(Append(q, p), types)
  <1>1. Once(<<>>, types)
    BY DEF Once
  <1>2. ASSUME q # <<>>, Once(q, types)
        PROVE  Once(Tail(q), types) /\ (Head(q).type \in types => ~Has(Tail(q), types))
    <2>1. /\ Head(q) = q[1] /\ DOMAIN q = 1 .. Len(q) /\ Len(q) \in Nat \ {0}
          /\ DOMAIN Tail(q) = 1 .. Len(q) - 1
          /\ \A i \in 1 .. Len(q) - 1 : Tail(q)[i] = q[i + 1] /\ i + 1 \in DOMAIN q
          /\ 1 \in DOMAIN q
      BY <1>2
    <2>2. Once(Tail(q), types)
      BY <1>2, <2>1 DEF Once
    <2>3. Head(q).type \in types => ~Has(Tail(q), types)
      BY <1>2, <2>1 DEF Once, Has
    <2>4. QED
      BY <2>2, <2>3
  <1>3. ASSUME NEW p, Once(q, types), p.type \in types => ~Has(q, types)
        PROVE  Once(Append(q, p), types)
    <2>1. /\ DOMAIN q = 1 .. Len(q) /\ Len(q) \in Nat
          /\ DOMAIN Append(q, p) = 1 .. Len(q) + 1
          /\ \A i \in 1 .. Len(q) : Append(q, p)[i] = q[i]
          /\ Append(q, p)[Len(q) + 1] = p
      OBVIOUS
    <2>2. QED
      BY <1>3, <2>1 DEF Once, Has
  <1>4. QED
    BY <1>1, <1>2, <1>3

LEMMA TrafficIs ==
  ASSUME TypeOK, Traffic
  PROVE  /\ end[0].out \in Seq(ClientPackages) /\ end[0].writing \in ClientPackages \cup {None}
         /\ wire[0] \in Seq(ServerPackages)
         /\ \A s \in Sessions :
               /\ end[s].out \in Seq(ServerPackages)
               /\ end[s].writing \in ServerPackages \cup {None}
               /\ wire[s] \in Seq(ClientPackages)
  <1>1. \A s \in Sessions : s \in Ends /\ s # 0
    BY EndsAreRecords DEF Sessions
  <1>2. 0 \in Ends
    BY EndsAreRecords
  <1>3. QED
    BY <1>1, <1>2 DEF Traffic, Sends, Gets

(* The queue of the connecting end or a wire has no device data it had not.  *)
LEMMA DataKept ==
  ASSUME TypeOK, Traffic, DataIsSentOnce, attempt' = attempt,
         end'[0].dialing => end[0].dialing,
         end'[0].writing \in {end[0].writing, None},
         \/ end'[0].out \in {end[0].out, <<>>}
         \/ \E p : p.type # Data /\ end'[0].out = Append(end[0].out, p),
         end'[0].sending = end[0].sending \/ (end'[0].writing = None /\ end'[0].out = <<>>),
         \A s \in Sessions : \/ wire'[s] \in {wire[s], <<>>}
                             \/ wire[s] # <<>> /\ wire'[s] = Tail(wire[s]),
         wire' \in [Ends -> Seq(Packages)], wire'[0] \in Seq(ServerPackages)'
  PROVE  /\ DataIsSentOnce'
         /\ \A s \in Sessions : DataIsOnTheWay(s)' => DataIsOnTheWay(s)
  <1>1. /\ end[0].out \in Seq(ClientPackages) /\ wire[0] \in Seq(ServerPackages)
        /\ \A s \in Sessions : wire[s] \in Seq(ClientPackages)
    BY TrafficIs
  <1>2. Once(end'[0].out, {Data}) /\ (Has(end'[0].out, {Data}) => Has(end[0].out, {Data}))
    <2>1. Once(end[0].out, {Data})
      BY DEF DataIsSentOnce
    <2>2. CASE end'[0].out \in {end[0].out, <<>>}
      BY <1>1, <2>1, <2>2, HasIs, OnceIs
    <2>3. CASE \E p : p.type # Data /\ end'[0].out = Append(end[0].out, p)
      BY <1>1, <2>1, <2>3, HasIs, OnceIs
    <2>4. QED
      BY <2>2, <2>3
  <1>3. \A s \in Sessions : /\ Once(wire'[s], {Data})
                            /\ Has(wire'[s], {Data}) => Has(wire[s], {Data})
    <2> TAKE s \in Sessions
    <2>1. Once(wire[s], {Data}) /\ wire[s] \in Seq(ClientPackages)
      BY <1>1 DEF DataIsSentOnce
    <2>2. CASE wire'[s] \in {wire[s], <<>>}
      BY <2>1, <2>2, HasIs, OnceIs
    <2>3. CASE wire[s] # <<>> /\ wire'[s] = Tail(wire[s])
      BY <2>1, <2>3, HasIs, OnceIs
    <2>4. QED
      BY <2>2, <2>3
  <1>4. ~Has(wire'[0], {Data})
    BY DEF Has, ServerPackages, Data, Seek, Reasons, Prompts
  <1>5. end'[0].writing.type = Data => end[0].writing.type = Data
    BY NoneIsNoPackage DEF Data
  <1>6. attempt \in Sessions \/ attempt = 0
    BY EndsAreRecords
  <1>7. ~end'[0].sending => end'[0].writing = None /\ ~Has(end'[0].out, {Data})
    BY <1>1, <1>2, HasIs DEF DataIsSentOnce
  <1>8. end'[0].dialing \/ end'[0].writing.type = Data \/ Has(end'[0].out, {Data}) =>
           ~Has(wire'[attempt], {Data})
    BY <1>2, <1>3, <1>4, <1>5, <1>6 DEF DataIsSentOnce
  <1>9. DataIsSentOnce'
    BY <1>2, <1>3, <1>5, <1>7, <1>8 DEF DataIsSentOnce
  <1>10. \A s \in Sessions : DataIsOnTheWay(s)' => DataIsOnTheWay(s)
    BY <1>2, <1>3, <1>5 DEF DataIsOnTheWay
  <1>11. QED
    BY <1>9, <1>10

LEMMA ConnectData ==
  ASSUME IInv, NEW how \in Modes, Connect(how)
  PROVE  /\ DataIsSentOnce'
         /\ \A s \in Sessions : DataIsOnTheWay(s)' => DataIsOnTheWay(s)
  <1>1. TypeOK /\ Traffic /\ DataIsSentOnce
    BY DEF IInv
  <1>2. /\ end[0].out \in Seq(ClientPackages) /\ end[0].writing = None
        /\ ~Has(end[0].out, {Data}) /\ Once(end[0].out, {Data})
    BY <1>1, ConnectEffect, TrafficIs DEF DataIsSentOnce
  <1>3. /\ ~Has(end'[0].out, {Data}) /\ Once(end'[0].out, {Data}) /\ end'[0].writing = None
        /\ end'[0].writing.type # Data
    <2>1. end'[0].out \in {<<>>, end[0].out} /\ end'[0].writing = None
      BY <1>1, <1>2, ConnectEffect
    <2>2. ~Has(<<>>, {Data}) /\ Once(<<>>, {Data}) /\ None.type # Data
      BY NoneIsNoPackage DEF Has, Once, Data
    <2>3. QED
      BY <1>2, <2>1, <2>2
  <1>4. \A s \in Sessions : wire'[s] = wire[s]
    <2>1. \A s \in Sessions : s \in Ends /\ s # 0
      BY <1>1, EndsAreRecords DEF Sessions
    <2>2. QED
      BY <1>1, <2>1, ConnectEffect
  <1>5. attempt' = attempt + 1 /\ attempt \in Nat /\ attempt' \in Sessions
    BY <1>1, HandshakeBounds DEF Connect, TypeOK, Ends, Sessions
  <1>6. \A s \in Sessions : s > attempt' \/ s = attempt' => ~Has(wire'[s], {Data}) /\ s > attempt
    <2>1. \A s \in Sessions : s > attempt => ~Has(wire[s], {Data})
      BY <1>1 DEF DataIsSentOnce
    <2>2. \A s \in Sessions : s > attempt' \/ s = attempt' => s > attempt
      BY <1>5 DEF Sessions
    <2>3. QED
      BY <1>4, <2>1, <2>2
  <1>7. DataIsSentOnce'
    BY <1>1, <1>3, <1>4, <1>5, <1>6 DEF DataIsSentOnce
  <1>8. \A s \in Sessions : DataIsOnTheWay(s)' => DataIsOnTheWay(s)
    BY <1>4, <1>6 DEF DataIsOnTheWay
  <1>9. QED
    BY <1>7, <1>8

LEMMA ConnectSucceedsData ==
  ASSUME IInv, ConnectSucceeds
  PROVE  /\ DataIsSentOnce'
         /\ \A s \in Sessions : DataIsOnTheWay(s)' => DataIsOnTheWay(s)
  <1>1. TypeOK /\ Traffic /\ DataIsSentOnce /\ AttemptIsTold
    BY DEF IInv
  <1>2. attempt' = attempt /\ wire' = wire /\ end[0].dialing /\ end'[0].sending
    BY <1>1, ConnectSucceedsEffect DEF ConnectSucceeds, Runs
  <1>3. /\ end[0].out \in Seq(ClientPackages) /\ end[0].writing = None
        /\ ~Has(end[0].out, {Data}) /\ Once(end[0].out, {Data})
        /\ ~Has(wire[attempt], {Data})
    BY <1>1, <1>2, TrafficIs DEF DataIsSentOnce, AttemptIsTold
  <1>4. /\ Once(end'[0].out, {Data}) /\ end'[0].writing.type # Data
    <2>1. end'[0].out = Append(end[0].out, Pkg(Data, 0)) /\ end'[0].writing = end[0].writing
      BY <1>1, ConnectSucceedsEffect
    <2>2. Once(Append(end[0].out, Pkg(Data, 0)), {Data})
      BY <1>3, OnceIs
    <2>3. QED
      BY <1>3, <2>1, <2>2, NoneIsNoPackage DEF Data
  <1>5. DataIsSentOnce'
    BY <1>1, <1>2, <1>3, <1>4 DEF DataIsSentOnce
  <1>6. \A s \in Sessions : DataIsOnTheWay(s)' => DataIsOnTheWay(s)
    BY <1>2 DEF DataIsOnTheWay
  <1>7. QED
    BY <1>5, <1>6

LEMMA TakesNextData ==
  ASSUME IInv, CoSendWakes(0), end[0].out # <<>>, end'[0].sending,
         end'[0].out = Tail(end[0].out), end'[0].writing = Head(end[0].out)
  PROVE  /\ DataIsSentOnce'
         /\ \A s \in Sessions : DataIsOnTheWay(s)' => DataIsOnTheWay(s)
  <1>1. TypeOK /\ Traffic /\ DataIsSentOnce
    BY DEF IInv
  <1>2. /\ attempt' = attempt /\ wire' = wire /\ end'[0].dialing = end[0].dialing
    BY <1>1, EndsAreRecords, CoSendWakesEffect DEF CoSendWakes
  <1>3. end[0].out \in Seq(ClientPackages) /\ Once(end[0].out, {Data})
    BY <1>1, TrafficIs DEF DataIsSentOnce
  <1>4. /\ Once(end'[0].out, {Data})
        /\ end'[0].writing.type = Data => ~Has(end'[0].out, {Data})
        /\ end'[0].writing.type = Data \/ Has(end'[0].out, {Data}) => Has(end[0].out, {Data})
    BY <1>3, OnceIs, HasIs
  <1>5. DataIsSentOnce'
    BY <1>1, <1>2, <1>4 DEF DataIsSentOnce
  <1>6. \A s \in Sessions : DataIsOnTheWay(s)' => DataIsOnTheWay(s)
    BY <1>2, <1>4 DEF DataIsOnTheWay
  <1>7. QED
    BY <1>5, <1>6

LEMMA WritesData ==
  ASSUME IInv, CoSendWrites(0)
  PROVE  /\ DataIsSentOnce'
         /\ \A s \in Sessions : DataIsOnTheWay(s)' => DataIsOnTheWay(s)
  <1>1. TypeOK /\ Traffic /\ DataIsSentOnce /\ AttemptIsTold /\ 0 \in Ends
    BY EndsAreRecords DEF IInv
  <1> DEFINE w == end[0].writing
  <1>2. /\ w \in Packages /\ w # None /\ wire' = Put(0, w)
        /\ end'[0].dialing = end[0].dialing
        /\ \/ /\ end[0].out # <<>> /\ end'[0].sending = end[0].sending
              /\ end'[0].out = Tail(end[0].out) /\ end'[0].writing = Head(end[0].out)
           \/ /\ end'[0].out = <<>> /\ end'[0].writing = None
    BY <1>1, CoSendWritesEffect
  <1>3. end[0].sending /\ ~end[0].dialing /\ attempt \in Sessions /\ attempt' = attempt
    <2>1. end[0].sending
      BY <1>1, <1>2 DEF DataIsSentOnce
    <2>2. ~end[0].dialing /\ attempt # 0
      BY <1>1, <2>1 DEF AttemptIsTold
    <2>3. QED
      BY <1>1, <2>1, <2>2, EndsAreRecords DEF CoSendWrites
  <1>4. /\ end[0].out \in Seq(ClientPackages) /\ Once(end[0].out, {Data})
        /\ \A s \in Sessions : wire[s] \in Seq(ClientPackages) /\ Once(wire[s], {Data})
    BY <1>1, TrafficIs DEF DataIsSentOnce
  <1>5. /\ w.type = Data => ~Has(end[0].out, {Data}) /\ ~Has(wire[attempt], {Data})
        /\ Has(end[0].out, {Data}) => ~Has(wire[attempt], {Data})
    BY <1>1 DEF DataIsSentOnce
  <1>6. \A s \in Sessions : \/ wire'[s] = wire[s]
                            \/ wire'[s] = Append(wire[s], w) /\ s = attempt
    BY <1>1, <1>2, PutIs, EndsAreRecords DEF Sessions
  <1>7. /\ Once(end'[0].out, {Data})
        /\ end'[0].writing.type = Data => ~Has(end'[0].out, {Data})
        /\ end'[0].writing.type = Data \/ Has(end'[0].out, {Data}) => Has(end[0].out, {Data})
    <2>1. CASE end[0].out # <<>> /\ end'[0].out = Tail(end[0].out) /\ end'[0].writing = Head(end[0].out)
      BY <1>4, <2>1, OnceIs, HasIs
    <2>2. CASE end'[0].out = <<>> /\ end'[0].writing = None
      BY <1>4, <2>2, OnceIs, HasIs, NoneIsNoPackage DEF Data
    <2>3. QED
      BY <1>2, <2>1, <2>2
  <1> HIDE DEF w
  <1>8. \A s \in Sessions :
           /\ Once(wire'[s], {Data})
           /\ Has(wire'[s], {Data}) => Has(wire[s], {Data}) \/ (s = attempt /\ w.type = Data)
    <2> TAKE s \in Sessions
    <2>1. CASE wire'[s] = wire[s]
      BY <1>4, <2>1
    <2>2. CASE wire'[s] = Append(wire[s], w) /\ s = attempt
      <3>1. Once(wire[s], {Data}) /\ wire[s] \in Seq(ClientPackages)
        BY <1>4
      <3>2. w.type \in {Data} => ~Has(wire[s], {Data})
        BY <1>5, <2>2
      <3>3. Once(Append(wire[s], w), {Data})
        BY <3>1, <3>2, OnceIs
      <3>4. Has(Append(wire[s], w), {Data}) => w.type = Data \/ Has(wire[s], {Data})
        BY <3>1, HasIs
      <3>5. QED
        BY <2>2, <3>3, <3>4
    <2>3. QED
      BY <1>6, <2>1, <2>2
  <1>9. ~end'[0].sending => end'[0].writing = None /\ ~Has(end'[0].out, {Data})
    <2>1. ~Has(<<>>, {Data})
      BY DEF Has
    <2>2. ~end'[0].sending => end'[0].out = <<>> /\ end'[0].writing = None
      BY <1>2, <1>3
    <2>3. QED
      BY <2>1, <2>2
  <1>10. \A s \in Sessions : s > attempt => s # attempt
    BY <1>3 DEF Sessions
  <1>11. DataIsSentOnce'
    BY <1>1, <1>2, <1>3, <1>5, <1>7, <1>8, <1>9, <1>10 DEF DataIsSentOnce
  <1>12. \A s \in Sessions : DataIsOnTheWay(s)' => DataIsOnTheWay(s)
    BY <1>2, <1>3, <1>7, <1>8 DEF DataIsOnTheWay, w
  <1>13. QED
    BY <1>11, <1>12

(* Every action but the four above leaves the device data where it is, or    *)
(* loses it.                                                                 *)
LEMMA DataUnmoved ==
  ASSUME IInv, Traffic', wire' \in [Ends -> Seq(Packages)], attempt' = attempt,
         end'[0].dialing => end[0].dialing,
         \/ Queue(end'[0]) = Queue(end[0]) /\ end'[0].sending = end[0].sending
         \/ /\ end'[0].writing = None /\ end'[0].out = <<>>
         \/ /\ \E c \in Nat : end'[0].out = Append(end[0].out, Pkg("CHALLENGE_RESPONSE", c))
            /\ end'[0].writing = end[0].writing /\ end'[0].sending = end[0].sending,
         \A s \in Sessions : \/ wire'[s] \in {wire[s], <<>>}
                             \/ wire[s] # <<>> /\ wire'[s] = Tail(wire[s])
  PROVE  /\ DataIsSentOnce'
         /\ \A s \in Sessions : DataIsOnTheWay(s)' => DataIsOnTheWay(s)
  <1>1. TypeOK /\ Traffic /\ DataIsSentOnce
    BY DEF IInv
  <1>2. wire'[0] \in Seq(ServerPackages)'
    BY <1>1, EndsAreRecords DEF Traffic, Gets
  <1>3. \A c : Pkg("CHALLENGE_RESPONSE", c).type # Data
    BY DEF Pkg, Data
  <1>4. /\ end'[0].writing \in {end[0].writing, None}
        /\ \/ end'[0].out \in {end[0].out, <<>>}
           \/ \E p : p.type # Data /\ end'[0].out = Append(end[0].out, p)
        /\ end'[0].sending = end[0].sending \/ (end'[0].writing = None /\ end'[0].out = <<>>)
    BY <1>3 DEF Queue
  <1>5. QED
    BY <1>1, <1>2, <1>4, DataKept

LEMMA ClientData ==
  ASSUME IInv, Traffic', ConnectFails \/ CoSendWakes(0) \/ CoSendFails(0)
  PROVE  /\ DataIsSentOnce'
         /\ \A s \in Sessions : DataIsOnTheWay(s)' => DataIsOnTheWay(s)
  <1>1. TypeOK /\ 0 \in Ends
    BY EndsAreRecords DEF IInv
  <1>2. wire' = wire /\ attempt' = attempt /\ wire' \in [Ends -> Seq(Packages)]
    BY <1>1 DEF ConnectFails, CoSendWakes, CoSendFails, TypeOK
  <1>3. CASE ConnectFails
    <2>1. /\ Queue(end'[0]) = Queue(end[0]) /\ end'[0].sending = end[0].sending
          /\ ~end'[0].dialing
      BY <1>1, <1>3, ConnectFailsEffect DEF Runs
    <2>2. QED
      BY <1>2, <2>1, DataUnmoved
  <1>4. CASE CoSendWakes(0)
    <2>1. CASE /\ end[0].out # <<>> /\ end'[0].sending
               /\ end'[0].out = Tail(end[0].out) /\ end'[0].writing = Head(end[0].out)
      BY <1>4, <2>1, TakesNextData
    <2>2. CASE end'[0].out = <<>> /\ end'[0].writing = None
      <3>1. end'[0].dialing = end[0].dialing
        BY <1>1, <1>4, CoSendWakesEffect
      <3>2. QED
        BY <1>2, <2>2, <3>1, DataUnmoved
    <2>3. QED
      BY <1>1, <1>4, <2>1, <2>2, CoSendWakesEffect
  <1>5. CASE CoSendFails(0)
    <2>1. /\ end'[0].writing = None /\ end'[0].out = <<>> /\ end'[0].dialing = end[0].dialing
      BY <1>1, <1>5, CoSendFailsEffect DEF Queue, Runs
    <2>2. QED
      BY <1>2, <2>1, DataUnmoved
  <1>6. QED
    BY <1>3, <1>4, <1>5

(* The connecting end does not change.                                       *)
LEMMA ServerData ==
  ASSUME IInv, Traffic', wire' \in [Ends -> Seq(Packages)], attempt' = attempt,
         NEW e \in Sessions, OnlyEnd(e),
         \/ wire' = wire
         \/ wire' = Put(e, end[e].writing) /\ end[e].writing \in Packages
         \/ wire' = NoReader(e)
         \/ /\ wire[e] # <<>> /\ wire'[e] \in {<<>>, Tail(wire[e])}
            /\ \A f \in Ends : f # e => wire'[f] = wire[f]
  PROVE  /\ DataIsSentOnce'
         /\ \A s \in Sessions : DataIsOnTheWay(s)' => DataIsOnTheWay(s)
  <1>1. TypeOK /\ 0 \in Ends /\ \A s \in Sessions : s \in Ends /\ s # 0
    BY EndsAreRecords DEF IInv, Sessions
  <1>2. end'[0] = end[0]
    BY <1>1 DEF OnlyEnd
  <1>3. \A s \in Sessions : \/ wire'[s] \in {wire[s], <<>>}
                            \/ wire[s] # <<>> /\ wire'[s] = Tail(wire[s])
    <2>1. CASE wire' = wire
      BY <2>1
    <2>2. CASE wire' = Put(e, end[e].writing) /\ end[e].writing \in Packages
      BY <1>1, <2>2, PutIs
    <2>3. CASE wire' = NoReader(e)
      BY <1>1, <2>3, NoReaderIs
    <2>4. CASE /\ wire[e] # <<>> /\ wire'[e] \in {<<>>, Tail(wire[e])}
               /\ \A f \in Ends : f # e => wire'[f] = wire[f]
      BY <1>1, <2>4
    <2>5. QED
      BY <2>1, <2>2, <2>3, <2>4
  <1>4. QED
    BY <1>2, <1>3, DataUnmoved

(* No wire but the connecting end's own changes, and its queue does not.     *)
LEMMA ReadsData ==
  ASSUME IInv, Traffic', wire' \in [Ends -> Seq(Packages)], attempt' = attempt,
         end'[0].dialing = end[0].dialing, end'[0].sending = end[0].sending,
         Queue(end'[0]) = Queue(end[0]),
         \A f \in Ends : f # 0 => wire'[f] = wire[f]
  PROVE  /\ DataIsSentOnce'
         /\ \A s \in Sessions : DataIsOnTheWay(s)' => DataIsOnTheWay(s)
  <1>1. \A s \in Sessions : s \in Ends /\ s # 0
    BY EndsAreRecords DEF IInv, Sessions
  <1>2. QED
    BY <1>1, DataUnmoved
-------------------------------------------------------------------------------
(* Decisions *)

Decided == DataIsSentOnce /\ DecisionsFollowData /\ ApprovalFollowsAnswer /\ SeekNeedsConsent

(* A step decides nothing: no consent is withdrawn and nothing is sought.    *)
LEMMA DecisionsKept ==
  ASSUME IInv, DataIsSentOnce', \A s \in Sessions : DataIsOnTheWay(s)' => DataIsOnTheWay(s),
         \A s \in Sessions : end'[s].code = end[s].code,
         accepted' = accepted, approving' \in {0, approving}, seeks' = seeks,
         asked' \subseteq asked, mode' = mode, typed \subseteq typed', approved \subseteq approved'
  PROVE  Decided'
  <1>1. TypeOK /\ DecisionsFollowData /\ ApprovalFollowsAnswer /\ SeekNeedsConsent
    BY DEF IInv
  <1>2. asked \subseteq Sessions /\ \A k \in DOMAIN seeks : seeks[k] \in Sessions
    BY <1>1 DEF TypeOK
  <1>3. approving \in Sessions \/ approving = 0
    BY <1>1, EndsAreRecords DEF TypeOK
  <1>4. 0 \notin Sessions
    BY DEF Sessions
  <1>5. DecisionsFollowData'
    <2>1. \A s \in Sessions : Undecided(s) => Undecided(s)'
      BY <1>4 DEF Undecided
    <2>2. QED
      BY <1>1, <1>2, <2>1 DEF DecisionsFollowData
  <1>6. ApprovalFollowsAnswer'
    BY <1>1, <1>3 DEF ApprovalFollowsAnswer
  <1>7. SeekNeedsConsent'
    BY <1>1, <1>2 DEF SeekNeedsConsent
  <1>8. QED
    BY <1>5, <1>6, <1>7 DEF Decided

LEMMA ConnectDecides ==
  ASSUME IInv, NEW how \in Modes, Connect(how)
  PROVE  Decided'
  <1>1. TypeOK /\ DecisionsFollowData /\ ApprovalFollowsAnswer /\ SeekNeedsConsent
    BY DEF IInv
  <1>2. DataIsSentOnce' /\ \A s \in Sessions : DataIsOnTheWay(s)' => DataIsOnTheWay(s)
    BY ConnectData
  <1>3. /\ \A s \in Sessions : end'[s].code = end[s].code
        /\ UNCHANGED <<accepted, approving, seeks, asked, typed, approved>>
    BY <1>1, ConnectEffect, EndsAreRecords DEF OnlyEnd, Sessions, Connect, app, primary
  <1>4. \A k \in DOMAIN seeks : seeks[k] \in Sessions /\ mode'[seeks[k]] = mode[seeks[k]]
    <2> TAKE k \in DOMAIN seeks
    <2>1. seeks[k] \in Sessions /\ attempt \in Nat /\ seeks[k] \in Nat
      <3>1. seeks[k] \in Sessions
        BY <1>1 DEF TypeOK
      <3>2. attempt \in Nat
        BY <1>1, HandshakeBounds DEF TypeOK, Ends
      <3>3. QED
        BY <3>1, <3>2 DEF Sessions
    <2>2. ~(seeks[k] > attempt)
      BY <1>1, <2>1 DEF DecisionsFollowData, DataIsOnTheWay, Undecided
    <2>3. QED
      BY <1>1, <2>1, <2>2 DEF Connect, TypeOK
  <1>5. DecisionsFollowData'
    <2>1. \A s \in Sessions : Undecided(s) => Undecided(s)'
      BY <1>3 DEF Undecided
    <2>2. QED
      BY <1>1, <1>2, <1>3, <2>1 DEF DecisionsFollowData, TypeOK
  <1>6. ApprovalFollowsAnswer'
    <2>1. approving \in Sessions \/ approving = 0
      BY <1>1, EndsAreRecords DEF TypeOK
    <2>2. QED
      BY <1>1, <1>3, <2>1 DEF ApprovalFollowsAnswer
  <1>7. SeekNeedsConsent'
    BY <1>1, <1>3, <1>4 DEF SeekNeedsConsent
  <1>8. QED
    BY <1>2, <1>5, <1>6, <1>7 DEF Decided

(* One more seek, of a session that has every consent it needs.              *)
LEMMA ConsentedSeek ==
  ASSUME IInv, TypeOK', NEW s \in Sessions, seeks' = Append(seeks, s),
         \A t \in Sessions : end'[t].code = end[t].code,
         mode' = mode, accepted \subseteq accepted', typed' = typed, approved \subseteq approved',
         \/ mode[s] = "CONNECT_WITH_PAIR"
         \/ /\ s \in accepted'
            /\ (mode[s] = "PAIR_AND_CONNECT" \/ end[s].code # 0) => <<s, s>> \in typed /\ s \in approved'
  PROVE  /\ SeekNeedsConsent'
         /\ \A k \in DOMAIN seeks' : seeks'[k] = s \/ \E j \in DOMAIN seeks : seeks'[k] = seeks[j]
  <1>1. TypeOK /\ SeekNeedsConsent
    BY DEF IInv
  <1>2. /\ DOMAIN seeks' = 1 .. Len(seeks) + 1 /\ DOMAIN seeks = 1 .. Len(seeks)
        /\ \A k \in 1 .. Len(seeks) : seeks'[k] = seeks[k] /\ seeks[k] \in Sessions
        /\ seeks'[Len(seeks) + 1] = s /\ Len(seeks) \in Nat
    BY <1>1, AppendProperties DEF TypeOK
  <1>3. \A k \in DOMAIN seeks' : k \in DOMAIN seeks \/ k = Len(seeks) + 1
    BY <1>2
  <1>4. ASSUME NEW k \in DOMAIN seeks, NEW t, t = seeks[k]
        PROVE  \/ mode'[t] = "CONNECT_WITH_PAIR"
               \/ /\ t \in accepted'
                  /\ (mode'[t] = "PAIR_AND_CONNECT" \/ end'[t].code # 0) =>
                        <<t, t>> \in typed' /\ t \in approved'
    BY <1>1, <1>2, <1>4 DEF SeekNeedsConsent
  <1>5. SeekNeedsConsent'
    BY <1>2, <1>3, <1>4 DEF SeekNeedsConsent
  <1>6. QED
    BY <1>2, <1>3, <1>5

LEMMA ReceivesDeviceDataDecides ==
  ASSUME IInv, NEW s \in Sessions, ReceivesDeviceData(s)
  PROVE  Decided'
  <1>1. /\ TypeOK /\ Traffic /\ DataIsSentOnce /\ DecisionsFollowData /\ ApprovalFollowsAnswer
        /\ SeekNeedsConsent /\ s \in Ends /\ TypeOK' /\ Traffic'
    BY ReceivesDeviceDataType, EndsAreRecords DEF IInv
  <1>2. /\ OnlyEnd(s) /\ end'[s].code = end[s].code /\ wire[s] # <<>>
        /\ Head(wire[s]).type = Data
        /\ wire'[s] \in {<<>>, Tail(wire[s])} /\ \A f \in Ends : f # s => wire'[f] = wire[f]
    BY <1>1, ReceivesDeviceDataEffect
  <1>3. UNCHANGED <<attempt, mode, accepted, approving, typed, approved>>
    BY DEF ReceivesDeviceData, ghosts
  <1>4. DataIsSentOnce' /\ \A t \in Sessions : DataIsOnTheWay(t)' => DataIsOnTheWay(t)
    BY <1>1, <1>2, <1>3, ServerData DEF TypeOK
  <1>5. \A t \in Sessions : end'[t].code = end[t].code
    BY <1>1, <1>2, EndsAreRecords DEF OnlyEnd
  <1>6. DataIsOnTheWay(s) /\ wire[s] \in Seq(ClientPackages) /\ Once(wire[s], {Data})
    BY <1>1, <1>2, TrafficIs, HasIs DEF DataIsOnTheWay, DataIsSentOnce
  <1>7. Undecided(s) /\ s \notin asked
    BY <1>1, <1>6 DEF DecisionsFollowData
  <1>8. ~DataIsOnTheWay(s)'
    <2>1. ~Has(wire'[s], {Data})
      <3>1. ~Has(<<>>, {Data})
        BY DEF Has
      <3>2. ~Has(Tail(wire[s]), {Data})
        BY <1>2, <1>6, OnceIs
      <3>3. QED
        BY <1>2, <3>1, <3>2
    <2>2. Has(wire[s], {Data})
      BY <1>2, <1>6, HasIs
    <2>3. ~(s > attempt)
      BY <1>1, <2>2 DEF DataIsSentOnce
    <2>4. s = attempt => ~end[0].dialing /\ end[0].writing.type # Data /\ ~Has(end[0].out, {Data})
      BY <1>1, <2>2 DEF DataIsSentOnce
    <2>5. end'[0] = end[0]
      BY <1>1, <1>2, EndsAreRecords DEF OnlyEnd, Sessions
    <2>6. QED
      BY <1>3, <2>1, <2>3, <2>4, <2>5 DEF DataIsOnTheWay
  <1>9. CASE UNCHANGED <<asked, primary>>
    BY <1>3, <1>4, <1>5, <1>9, DecisionsKept DEF primary
  <1>10. ApprovalFollowsAnswer'
    <2>1. approving \in Sessions \/ approving = 0
      BY <1>1, EndsAreRecords DEF TypeOK
    <2>2. QED
      BY <1>1, <1>3, <1>5, <2>1 DEF ApprovalFollowsAnswer
  <1>11. CASE mode[s] = "CONNECT_WITH_PAIR" /\ asked' = asked /\ seeks' = Append(seeks, s)
    <2>1. /\ SeekNeedsConsent'
          /\ \A k \in DOMAIN seeks' : seeks'[k] = s \/ \E j \in DOMAIN seeks : seeks'[k] = seeks[j]
      BY <1>1, <1>3, <1>5, <1>11, ConsentedSeek
    <2>2. \A t \in Sessions : t # s /\ Undecided(t) => Undecided(t)'
      BY <1>3, <1>5, <2>1 DEF Undecided
    <2>3. DecisionsFollowData'
      BY <1>1, <1>4, <1>7, <1>8, <1>11, <2>2 DEF DecisionsFollowData, TypeOK
    <2>4. QED
      BY <1>4, <1>10, <2>1, <2>3 DEF Decided
  <1>12. CASE asked' = asked \cup {s} /\ UNCHANGED primary
    <2>1. \A t \in Sessions : Undecided(t) => Undecided(t)'
      BY <1>3, <1>5, <1>12 DEF Undecided, primary
    <2>2. DecisionsFollowData'
      BY <1>1, <1>4, <1>7, <1>8, <1>12, <2>1 DEF DecisionsFollowData, TypeOK
    <2>3. SeekNeedsConsent'
      BY <1>1, <1>3, <1>5, <1>12 DEF SeekNeedsConsent, TypeOK, primary
    <2>4. QED
      BY <1>4, <1>10, <2>2, <2>3 DEF Decided
  <1>13. QED
    BY <1>1, <1>9, <1>11, <1>12, ReceivesDeviceDataEffect

LEMMA ReceivesAnswerDecides ==
  ASSUME IInv, NEW s \in Sessions, ReceivesRightAnswer(s) \/ ReceivesWrongAnswer(s)
  PROVE  Decided'
  <1>1. /\ TypeOK /\ Traffic /\ DecisionsFollowData /\ ApprovalFollowsAnswer
        /\ SeekNeedsConsent /\ s \in Ends /\ TypeOK' /\ Traffic'
    BY ReceivesAnswerType, EndsAreRecords DEF IInv
  <1>2. /\ OnlyEnd(s) /\ end'[s].code = end[s].code
        /\ wire[s] # <<>> /\ Head(wire[s]).type = "CHALLENGE_RESPONSE"
        /\ wire'[s] \in {<<>>, Tail(wire[s])} /\ \A f \in Ends : f # s => wire'[f] = wire[f]
    BY <1>1, ReceivesRightAnswerEffect, ReceivesWrongAnswerEffect
  <1>3. UNCHANGED <<attempt, mode, accepted, asked, seeks, typed, approved>>
    BY DEF ReceivesRightAnswer, ReceivesWrongAnswer, app, primary, ghosts
  <1>4. DataIsSentOnce' /\ \A t \in Sessions : DataIsOnTheWay(t)' => DataIsOnTheWay(t)
    BY <1>1, <1>2, <1>3, ServerData DEF TypeOK
  <1>5. \A t \in Sessions : end'[t].code = end[t].code
    BY <1>1, <1>2, EndsAreRecords DEF OnlyEnd
  <1>6. CASE ReceivesWrongAnswer(s)
    BY <1>3, <1>4, <1>5, <1>6, DecisionsKept DEF ReceivesWrongAnswer, app
  <1>7. CASE ReceivesRightAnswer(s)
    <2>1. approving' = s /\ Head(wire[s]).about = end[s].code
      BY <1>1, <1>7, ReceivesRightAnswerEffect DEF ReceivesRightAnswer
    <2>2. Head(wire[s]) \in ClientPackages
      BY <1>1, <1>2, TrafficIs, HeadTailProperties
    <2>3. Head(wire[s]).about \in Codes
      BY <1>2, <2>2 DEF ClientPackages, Data
    <2>4. end[s].code = s /\ <<s, s>> \in typed
      <3>1. end[s].code \in {0, s} /\ s \in 1 .. MaxSession
        BY <1>1 DEF ApprovalFollowsAnswer, Sessions
      <3>2. end[s].code \in Codes
        BY <2>1, <2>3
      <3>3. QED
        BY <3>1, <3>2, HandshakeBounds DEF Codes, Sessions
    <2>5. ApprovalFollowsAnswer'
      BY <1>1, <1>3, <1>5, <2>1, <2>4 DEF ApprovalFollowsAnswer
    <2>6. ~Undecided(s)
      BY <2>4 DEF Undecided, Sessions
    <2>7. \A t \in Sessions : t # s /\ Undecided(t) => Undecided(t)'
      BY <1>3, <1>5, <2>1 DEF Undecided
    <2>8. DecisionsFollowData'
      BY <1>1, <1>3, <1>4, <2>6, <2>7 DEF DecisionsFollowData, TypeOK
    <2>9. SeekNeedsConsent'
      BY <1>1, <1>3, <1>5 DEF SeekNeedsConsent, TypeOK
    <2>10. QED
      BY <1>4, <2>5, <2>8, <2>9 DEF Decided
  <1>8. QED
    BY <1>6, <1>7

LEMMA AppDecides ==
  ASSUME IInv, NEW s \in Sessions, AppStep(s)
  PROVE  Decided'
  <1>1. /\ TypeOK /\ Traffic /\ DecisionsFollowData /\ ApprovalFollowsAnswer
        /\ SeekNeedsConsent /\ s \in Ends /\ TypeOK' /\ Traffic'
    BY AppType, EndsAreRecords DEF IInv
  <1>2. OnlyEnd(s)
    BY <1>1, AppRejectsEffect, AppAcceptsEffect, AppAcceptsIfVerifiedEffect DEF AppStep
  <1>3. /\ UNCHANGED <<attempt, mode, wire, approving, typed, approved>>
        /\ s \in asked /\ asked' = asked \ {s}
    BY DEF AppStep, AppRejects, AppAccepts, AppAcceptsIfVerified
  <1>4. DataIsSentOnce' /\ \A t \in Sessions : DataIsOnTheWay(t)' => DataIsOnTheWay(t)
    BY <1>1, <1>2, <1>3, ServerData DEF TypeOK
  <1>5. Undecided(s) /\ ~DataIsOnTheWay(s)
    BY <1>1, <1>3 DEF DecisionsFollowData
  <1>6. CASE AppRejects(s)
    <2>1. \A t \in Sessions : end'[t].code = end[t].code
      BY <1>1, <1>2, <1>6, AppRejectsEffect, EndsAreRecords DEF OnlyEnd
    <2>2. QED
      BY <1>3, <1>4, <1>6, <2>1, DecisionsKept DEF AppRejects, primary
  <1>7. CASE AppAccepts(s)
    <2>1. accepted' = accepted \cup {s}
      BY <1>7 DEF AppAccepts
    <2>2. \A t \in Sessions : end'[t].code = end[t].code
      BY <1>1, <1>2, <1>7, AppAcceptsEffect, EndsAreRecords DEF OnlyEnd
    <2>3. ApprovalFollowsAnswer'
      <3>1. approving \in Sessions \/ approving = 0
        BY <1>1, EndsAreRecords DEF TypeOK
      <3>2. QED
        BY <1>1, <1>3, <2>1, <2>2, <3>1 DEF ApprovalFollowsAnswer
    <2>4. CASE UNCHANGED primary
      <3>1. \A t \in Sessions : t # s /\ Undecided(t) => Undecided(t)'
        BY <1>3, <2>1, <2>2, <2>4 DEF Undecided, primary
      <3>2. DecisionsFollowData'
        BY <1>1, <1>3, <1>4, <1>5, <3>1 DEF DecisionsFollowData, TypeOK
      <3>3. SeekNeedsConsent'
        BY <1>1, <1>3, <2>1, <2>2, <2>4 DEF SeekNeedsConsent, TypeOK, primary
      <3>4. QED
        BY <1>4, <2>3, <3>2, <3>3 DEF Decided
    <2>5. CASE mode[s] # "PAIR_AND_CONNECT" /\ seeks' = Append(seeks, s)
      <3>1. /\ SeekNeedsConsent'
            /\ \A k \in DOMAIN seeks' : seeks'[k] = s \/ \E j \in DOMAIN seeks : seeks'[k] = seeks[j]
        BY <1>1, <1>3, <1>5, <2>1, <2>2, <2>5, ConsentedSeek DEF Undecided
      <3>2. \A t \in Sessions : t # s /\ Undecided(t) => Undecided(t)'
        BY <1>3, <2>1, <2>2, <3>1 DEF Undecided
      <3>3. DecisionsFollowData'
        BY <1>1, <1>3, <1>4, <1>5, <3>2 DEF DecisionsFollowData, TypeOK
      <3>4. QED
        BY <1>4, <2>3, <3>1, <3>3 DEF Decided
    <2>6. QED
      BY <1>1, <1>7, <2>4, <2>5, AppAcceptsEffect
  <1>8. CASE AppAcceptsIfVerified(s)
    <2>1. accepted' = accepted \cup {s} /\ seeks' = seeks
      BY <1>8 DEF AppAcceptsIfVerified, primary
    <2>2. end'[s].code = s /\ \A t \in Sessions : t # s => end'[t].code = end[t].code
      BY <1>1, <1>2, <1>8, AppAcceptsIfVerifiedEffect, EndsAreRecords DEF OnlyEnd
    <2>3. ApprovalFollowsAnswer'
      <3>1. approving \in Sessions \/ approving = 0
        BY <1>1, EndsAreRecords DEF TypeOK
      <3>2. approving # s
        BY <1>5 DEF Undecided
      <3>3. QED
        BY <1>1, <1>3, <2>1, <2>2, <3>1, <3>2 DEF ApprovalFollowsAnswer
    <2>4. \A t \in Sessions : t # s /\ Undecided(t) => Undecided(t)'
      BY <1>3, <2>1, <2>2 DEF Undecided
    <2>5. DecisionsFollowData'
      BY <1>1, <1>3, <1>4, <1>5, <2>4 DEF DecisionsFollowData, TypeOK
    <2>6. \A k \in DOMAIN seeks : seeks[k] # s /\ seeks[k] \in Sessions
      BY <1>1, <1>5 DEF Undecided, TypeOK
    <2>7. SeekNeedsConsent'
      BY <1>1, <1>3, <2>1, <2>2, <2>6 DEF SeekNeedsConsent
    <2>8. QED
      BY <1>4, <2>3, <2>5, <2>7 DEF Decided
  <1>9. QED
    BY <1>6, <1>7, <1>8 DEF AppStep

LEMMA UserApprovesDecides ==
  ASSUME IInv, UserApproves
  PROVE  Decided'
  <1>1. /\ TypeOK /\ Traffic /\ DecisionsFollowData /\ ApprovalFollowsAnswer
        /\ SeekNeedsConsent /\ Sessions \subseteq Ends /\ TypeOK' /\ Traffic'
    BY UserType, EndsAreRecords DEF IInv
  <1>2. PICK s \in Sessions : s = approving
    BY <1>1, UserApprovesEffect
  <1>3. /\ OnlyEnd(s) /\ end'[s].code = end[s].code /\ approving' = 0
        /\ seeks' = Append(seeks, s)
    BY <1>1, <1>2, UserApprovesEffect
  <1>4. /\ UNCHANGED <<attempt, mode, wire, asked, accepted, typed>>
        /\ approved' = approved \cup {s}
    BY <1>2 DEF UserApproves
  <1>5. DataIsSentOnce' /\ \A t \in Sessions : DataIsOnTheWay(t)' => DataIsOnTheWay(t)
    BY <1>1, <1>3, <1>4, ServerData DEF TypeOK
  <1>6. \A t \in Sessions : end'[t].code = end[t].code
    BY <1>1, <1>3, EndsAreRecords DEF OnlyEnd
  <1>7. s \in accepted /\ <<s, s>> \in typed /\ end[s].code # 0
    BY <1>1, <1>2 DEF ApprovalFollowsAnswer, Sessions
  <1>8. /\ SeekNeedsConsent'
        /\ \A k \in DOMAIN seeks' : seeks'[k] = s \/ \E j \in DOMAIN seeks : seeks'[k] = seeks[j]
    BY <1>1, <1>3, <1>4, <1>6, <1>7, ConsentedSeek
  <1>9. \A t \in Sessions : Undecided(t) => Undecided(t)'
    BY <1>3, <1>4, <1>6, <1>7, <1>8 DEF Undecided, Sessions
  <1>10. DecisionsFollowData'
    BY <1>1, <1>4, <1>5, <1>9 DEF DecisionsFollowData, TypeOK
  <1>11. ApprovalFollowsAnswer'
    BY <1>1, <1>3, <1>4, <1>6 DEF ApprovalFollowsAnswer
  <1>12. QED
    BY <1>5, <1>8, <1>10, <1>11 DEF Decided

(* The other actions of the connecting device.                               *)
LEMMA ClientDecides ==
  ASSUME IInv, \/ ConnectSucceeds \/ ConnectFails
               \/ CoSend(0) \/ DropsAndEnds(0) \/ CoReceiveFails(0) \/ ClientReceives
               \/ \E code \in {verifying, MaxSession + 1} : UserAnswers(code)
               \/ AppDisconnects(0) \/ CloseDrained(0) \/ CloseTimesOut(0)
  PROVE  Decided'
  <1>1. TypeOK /\ 0 \in Ends /\ \A s \in Sessions : s \in Ends /\ s # 0
    BY EndsAreRecords DEF IInv, Sessions
  <1>2. /\ attempt' = attempt /\ UNCHANGED <<mode, accepted, approving, asked, seeks, approved>>
        /\ typed \subseteq typed'
    BY DEF ConnectSucceeds, ConnectFails, CoSend, CoSendWakes, CoSendWrites, CoSendFails,
           DropsAndEnds, CoReceiveFails, ClientReceives, ReceivesEndpoint,
           ReceivesWrongAnswerReport, ReceivesPrompt, ReceivesReason, UserAnswers,
           AppDisconnects, CloseDrained, CloseTimesOut, app, primary, ghosts
  <1>3. ASSUME DataIsSentOnce', \A s \in Sessions : DataIsOnTheWay(s)' => DataIsOnTheWay(s),
               OnlyEnd(0)
        PROVE  Decided'
    <2>1. \A s \in Sessions : end'[s].code = end[s].code
      BY <1>1, <1>3 DEF OnlyEnd
    <2>2. QED
      BY <1>2, <1>3, <2>1, DecisionsKept
  <1>4. CASE ConnectSucceeds
    BY <1>1, <1>3, <1>4, ConnectSucceedsData, ConnectSucceedsEffect
  <1>5. CASE ConnectFails
    BY <1>1, <1>3, <1>5, ClientData, ConnectFailsEffect, DialType
  <1>6. CASE CoSend(0)
    <2>1. CASE CoSendWakes(0)
      BY <1>1, <1>3, <2>1, ClientData, CoSendWakesEffect, CoSendWakesType
    <2>2. CASE CoSendWrites(0)
      BY <1>1, <1>3, <2>2, WritesData, CoSendWritesEffect
    <2>3. CASE CoSendFails(0)
      BY <1>1, <1>3, <2>3, ClientData, CoSendFailsEffect, CoSendFailsType
    <2>4. QED
      BY <1>6, <2>1, <2>2, <2>3 DEF CoSend
  <1>7. CASE DropsAndEnds(0) \/ CoReceiveFails(0)
    <2>1. /\ OnlyEnd(0) /\ Queue(end'[0]) = Queue(end[0]) /\ wire' = NoReader(0)
          /\ end'[0].dialing = end[0].dialing /\ end'[0].sending = end[0].sending
      BY <1>1, <1>7, DropsAndEndsEffect, CoReceiveFailsEffect DEF Runs
    <2>2. Traffic' /\ wire' \in [Ends -> Seq(Packages)] /\ \A f \in Ends : f # 0 => wire'[f] = wire[f]
      BY <1>1, <1>7, <2>1, StopsReceivingType, NoReaderIs
    <2>3. QED
      BY <1>2, <1>3, <2>1, <2>2, ReadsData
  <1>8. CASE ClientReceives
    <2>1. /\ OnlyEnd(0) /\ Queue(end'[0]) = Queue(end[0])
          /\ end'[0].dialing = end[0].dialing /\ end'[0].sending = end[0].sending
          /\ \A f \in Ends : f # 0 => wire'[f] = wire[f]
      <3>1. CASE ReceivesEndpoint
        BY <1>1, <3>1, ReceivesEndpointEffect
      <3>2. CASE ReceivesReason
        BY <1>1, <3>2, ReceivesReasonEffect DEF Runs
      <3>3. CASE ReceivesWrongAnswerReport \/ ReceivesPrompt
        BY <1>1, <3>3, ReportEffect DEF OnlyEnd, TypeOK
      <3>4. QED
        BY <1>8, <3>1, <3>2, <3>3 DEF ClientReceives
    <2>2. Traffic' /\ wire' \in [Ends -> Seq(Packages)]
      BY <1>8, ReceivesEndpointType, ReceivesReasonType, ReportType DEF ClientReceives, TypeOK
    <2>3. QED
      BY <1>2, <1>3, <2>1, <2>2, ReadsData
  <1>9. CASE \E code \in {verifying, MaxSession + 1} : UserAnswers(code)
    <2>1. PICK code \in {verifying, MaxSession + 1} : UserAnswers(code)
      BY <1>9
    <2>2. code \in Nat
      BY <1>1, <2>1, TypedCodes
    <2>3. /\ OnlyEnd(0)
          /\ end'[0].dialing = end[0].dialing /\ end'[0].sending = end[0].sending
          /\ end'[0].out = Append(end[0].out, Pkg("CHALLENGE_RESPONSE", code))
          /\ end'[0].writing = end[0].writing
      BY <1>1, <2>1, <2>2, UserAnswersEffect DEF Runs
    <2>4. Traffic' /\ wire' \in [Ends -> Seq(Packages)] /\ wire' = wire
      BY <1>1, <1>9, UserType DEF TypeOK, UserAnswers
    <2>5. QED
      BY <1>2, <1>3, <2>2, <2>3, <2>4, DataUnmoved
  <1>10. CASE AppDisconnects(0) \/ CloseDrained(0) \/ CloseTimesOut(0)
    <2>1. /\ OnlyEnd(0) /\ Queue(end'[0]) = Queue(end[0])
          /\ end'[0].dialing = end[0].dialing /\ end'[0].sending = end[0].sending
      BY <1>1, <1>10, AppDisconnectsEffect, CloseEffect DEF Runs
    <2>2. Traffic' /\ wire' \in [Ends -> Seq(Packages)] /\ wire' = wire
      BY <1>1, <1>10, AppDisconnectsType, CloseType
         DEF AppDisconnects, CloseDrained, CloseTimesOut, TypeOK
    <2>3. QED
      BY <1>2, <1>3, <2>1, <2>2, ReadsData
  <1>11. QED
    BY <1>4, <1>5, <1>6, <1>7, <1>8, <1>9, <1>10

(* The other actions of the accepting ends.                                  *)
LEMMA ServerDecides ==
  ASSUME IInv, NEW s \in Sessions,
         \/ Accepts(s) \/ CoSend(s) \/ DropsAndEnds(s) \/ CoReceiveFails(s)
         \/ AppDisconnects(s) \/ CloseDrained(s) \/ CloseTimesOut(s)
         \/ UserDenies /\ approving = s
         \/ \E k \in 1 .. MaxSeek : PrimaryListens(k) /\ seeks[k] = s
  PROVE  Decided'
  <1>1. TypeOK /\ 0 \in Ends /\ s \in Ends /\ s # 0
    BY EndsAreRecords DEF IInv, Sessions
  <1>2. /\ attempt' = attempt
        /\ UNCHANGED <<mode, accepted, asked, seeks, typed, approved>>
        /\ approving' \in {0, approving}
    BY DEF Accepts, CoSend, CoSendWakes, CoSendWrites, CoSendFails, DropsAndEnds, CoReceiveFails,
           AppDisconnects, CloseDrained, CloseTimesOut, UserDenies, PrimaryListens,
           app, primary, ghosts
  <1>3. /\ OnlyEnd(s) /\ end'[s].code = end[s].code
        /\ \/ wire' = wire
           \/ wire' = Put(s, end[s].writing) /\ end[s].writing \in Packages
           \/ wire' = NoReader(s)
        /\ Traffic' /\ wire' \in [Ends -> Seq(Packages)]
    <2>1. CASE Accepts(s)
      BY <1>1, <2>1, AcceptsEffect, AcceptsType DEF Accepts, TypeOK
    <2>2. CASE CoSend(s)
      <3>1. CASE CoSendWakes(s)
        BY <1>1, <3>1, CoSendWakesEffect, CoSendWakesType DEF CoSendWakes, TypeOK
      <3>2. CASE CoSendWrites(s)
        BY <1>1, <3>2, CoSendWritesEffect, CoSendWritesType DEF TypeOK
      <3>3. CASE CoSendFails(s)
        BY <1>1, <3>3, CoSendFailsEffect, CoSendFailsType DEF CoSendFails, TypeOK
      <3>4. QED
        BY <2>2, <3>1, <3>2, <3>3 DEF CoSend
    <2>3. CASE DropsAndEnds(s) \/ CoReceiveFails(s)
      BY <1>1, <2>3, DropsAndEndsEffect, CoReceiveFailsEffect, StopsReceivingType DEF TypeOK
    <2>4. CASE AppDisconnects(s)
      BY <1>1, <2>4, AppDisconnectsEffect, AppDisconnectsType DEF AppDisconnects, TypeOK
    <2>5. CASE CloseDrained(s) \/ CloseTimesOut(s)
      BY <1>1, <2>5, CloseEffect, CloseType DEF CloseDrained, CloseTimesOut, TypeOK
    <2>6. CASE UserDenies /\ approving = s
      BY <1>1, <2>6, UserDeniesEffect, UserType DEF UserDenies, TypeOK
    <2>7. CASE \E k \in 1 .. MaxSeek : PrimaryListens(k) /\ seeks[k] = s
      <3>1. PICK k \in 1 .. MaxSeek : PrimaryListens(k) /\ seeks[k] = s
        BY <2>7
      <3>2. k \in Nat
        BY <3>1
      <3>3. QED
        BY <1>1, <3>1, <3>2, PrimaryListensEffect, PrimaryListensType DEF PrimaryListens, TypeOK
    <2>8. QED
      BY <2>1, <2>2, <2>3, <2>4, <2>5, <2>6, <2>7
  <1>4. DataIsSentOnce' /\ \A t \in Sessions : DataIsOnTheWay(t)' => DataIsOnTheWay(t)
    BY <1>2, <1>3, ServerData
  <1>5. \A t \in Sessions : end'[t].code = end[t].code
    BY <1>1, <1>3, EndsAreRecords DEF OnlyEnd
  <1>6. QED
    BY <1>2, <1>4, <1>5, DecisionsKept

LEMMA WorldDecides ==
  ASSUME IInv, NetworkResets \/ BanExpires \/ UNCHANGED vars
  PROVE  Decided'
  <1>1. /\ UNCHANGED <<attempt, mode, end, wire, accepted, asked, approving, seeks, typed, approved>>
        /\ Traffic' /\ TypeOK'
    BY WorldType DEF NetworkResets, BanExpires, vars, app, primary, ghosts
  <1>2. DataIsSentOnce' /\ \A t \in Sessions : DataIsOnTheWay(t)' => DataIsOnTheWay(t)
    BY <1>1, DataUnmoved DEF TypeOK
  <1>3. QED
    BY <1>1, <1>2, DecisionsKept
-------------------------------------------------------------------------------
(* Reasons come last *)

LEMMA InOrderIs ==
  ASSUME NEW S, NEW q \in Seq(S)
  PROVE  /\ InOrder(<<>>)
         /\ q # <<>> /\ InOrder(q) =>
               InOrder(Tail(q)) /\ (Head(q).type \in Reasons => ~Has(Tail(q), Prompts))
         /\ \A p : InOrder(q) /\ (p.type \in Prompts => ~Has(q, Reasons)) =>
                      InOrder(Append(q, p))
  <1>1. InOrder(<<>>)
    BY DEF InOrder
  <1>2. ASSUME q # <<>>, InOrder(q)
        PROVE  InOrder(Tail(q)) /\ (Head(q).type \in Reasons => ~Has(Tail(q), Prompts))
    <2>1. /\ Head(q) = q[1] /\ DOMAIN q = 1 .. Len(q) /\ Len(q) \in Nat \ {0}
          /\ DOMAIN Tail(q) = 1 .. Len(q) - 1
          /\ \A i \in 1 .. Len(q) - 1 : Tail(q)[i] = q[i + 1] /\ i + 1 \in DOMAIN q
          /\ 1 \in DOMAIN q
      BY <1>2
    <2>2. InOrder(Tail(q))
      BY <1>2, <2>1 DEF InOrder
    <2>3. Head(q).type \in Reasons => ~Has(Tail(q), Prompts)
      BY <1>2, <2>1 DEF InOrder, Has
    <2>4. QED
      BY <2>2, <2>3
  <1>3. ASSUME NEW p, InOrder(q), p.type \in Prompts => ~Has(q, Reasons)
        PROVE  InOrder(Append(q, p))
    <2>1. /\ DOMAIN q = 1 .. Len(q) /\ Len(q) \in Nat
          /\ DOMAIN Append(q, p) = 1 .. Len(q) + 1
          /\ \A i \in 1 .. Len(q) : Append(q, p)[i] = q[i]
          /\ Append(q, p)[Len(q) + 1] = p
      OBVIOUS
    <2>2. QED
      BY <1>3, <2>1 DEF InOrder, Has
  <1>4. QED
    BY <1>1, <1>2, <1>3

LEMMA TypesDiffer ==
  /\ Reasons \cap Prompts = {} /\ Seek \notin Reasons \cup Prompts
  /\ None.type \notin Reasons \cup Prompts
  BY NoneIsNoPackage DEF Reasons, Prompts, Seek

(* The connecting end reads, stops reading, or connects; the ends of the     *)
(* sessions do not change.                                                   *)
LEMMA ClientOrder ==
  ASSUME IInv, \A s \in Sessions : end'[s] = end[s], asked' = asked,
         \/ attempt' = attempt
         \/ wire'[0] = <<>> /\ ~end'[0].terminal,
         \/ wire'[0] \in {wire[0], <<>>}
         \/ wire[0] # <<>> /\ wire'[0] = Tail(wire[0]),
         end'[0].terminal =>
            \/ end[0].terminal
            \/ /\ wire[0] # <<>> /\ Head(wire[0]).type \in Reasons
               /\ wire'[0] \in {<<>>, Tail(wire[0])}
  PROVE  ReasonsComeLast'
  <1>1. TypeOK /\ Traffic /\ ReasonsComeLast
    BY DEF IInv
  <1>2. wire[0] \in Seq(ServerPackages) /\ InOrder(wire[0])
    BY <1>1, TrafficIs DEF ReasonsComeLast
  <1>3. ~Has(<<>>, Reasons) /\ ~Has(<<>>, Prompts)
    BY DEF Has
  <1>4. /\ InOrder(wire'[0])
        /\ Has(wire'[0], Reasons) => Has(wire[0], Reasons)
        /\ Has(wire'[0], Prompts) => Has(wire[0], Prompts)
    <2>1. CASE wire'[0] = wire[0]
      BY <1>2, <2>1
    <2>2. CASE wire'[0] = <<>>
      BY <1>2, <1>3, <2>2, InOrderIs
    <2>3. CASE wire[0] # <<>> /\ wire'[0] = Tail(wire[0])
      BY <1>2, <2>3, HasIs, InOrderIs
    <2>4. QED
      BY <2>1, <2>2, <2>3
  <1>5. end'[0].terminal => Has(wire[0], Reasons) \/ end[0].terminal
    BY <1>2, HasIs
  <1>6. end'[0].terminal => ~Has(wire'[0], Prompts)
    <2>1. CASE end[0].terminal
      BY <1>1, <1>4, <2>1 DEF ReasonsComeLast
    <2>2. CASE /\ wire[0] # <<>> /\ Head(wire[0]).type \in Reasons
               /\ wire'[0] \in {<<>>, Tail(wire[0])}
      BY <1>2, <1>3, <2>2, InOrderIs
    <2>3. QED
      BY <2>1, <2>2
  <1>7. ASSUME NEW s \in Sessions
        PROVE  SessionInOrder(s)'
    <2>1. /\ SessionInOrder(s) /\ end'[s] = end[s] /\ (s \in asked' <=> s \in asked)
      BY <1>1 DEF ReasonsComeLast
    <2>2. s = attempt' /\ (Has(wire'[0], Reasons) \/ end'[0].terminal) =>
             s = attempt /\ (Has(wire[0], Reasons) \/ end[0].terminal)
      BY <1>3, <1>4, <1>5
    <2>3. Refused(s)' => Refused(s)
      BY <2>1, <2>2 DEF Refused
    <2>4. QED
      BY <2>1, <2>2, <2>3 DEF SessionInOrder
  <1>8. QED
    BY <1>4, <1>6, <1>7 DEF ReasonsComeLast

(* The queue of session s moves, and nothing reaches the wire.               *)
LEMMA QueueOrder ==
  ASSUME IInv, NEW s \in Sessions, wire'[0] = wire[0], end'[0] = end[0], attempt' = attempt,
         \/ Queue(end'[s]) = Queue(end[s])
         \/ end'[s].out = <<>> /\ end'[s].writing = None
         \/ /\ end[s].writing = None /\ end[s].out # <<>>
            /\ end'[s].out = Tail(end[s].out) /\ end'[s].writing = Head(end[s].out)
         \/ /\ end'[s].writing = end[s].writing
            /\ \E p : /\ end'[s].out = Append(end[s].out, p)
                      /\ p.type \in Prompts => ~Refused(s)
                      /\ p.type \in Reasons =>
                            end'[s].state \in {"DISCONNECTING", "DISCONNECTED"} /\ s \notin asked',
         Refused(s) => end'[s].state \in {"DISCONNECTING", "DISCONNECTED"} /\ s \notin asked'
  PROVE  SessionInOrder(s)'
  <1>1. TypeOK /\ Traffic /\ SessionInOrder(s)
    BY DEF IInv, ReasonsComeLast
  <1>2. end[s].out \in Seq(ServerPackages) /\ InOrder(end[s].out)
    BY <1>1, TrafficIs DEF SessionInOrder
  <1>3. CASE Queue(end'[s]) = Queue(end[s])
    <2>1. end'[s].out = end[s].out /\ end'[s].writing = end[s].writing
      BY <1>3 DEF Queue
    <2>2. Refused(s)' => Refused(s)
      BY <2>1 DEF Refused
    <2>3. QED
      BY <1>1, <2>1, <2>2 DEF SessionInOrder
  <1>4. CASE end'[s].out = <<>> /\ end'[s].writing = None
    <2>1. ~Has(end'[s].out, Reasons) /\ ~Has(end'[s].out, Prompts) /\ InOrder(end'[s].out)
      BY <1>4 DEF Has, InOrder
    <2>2. Refused(s)' => Refused(s)
      BY <1>4, <2>1, TypesDiffer DEF Refused
    <2>3. QED
      BY <1>1, <1>4, <2>1, <2>2, TypesDiffer DEF SessionInOrder
  <1>5. CASE /\ end[s].writing = None /\ end[s].out # <<>>
             /\ end'[s].out = Tail(end[s].out) /\ end'[s].writing = Head(end[s].out)
    <2>1. /\ InOrder(end'[s].out)
          /\ end'[s].writing.type \in Reasons => ~Has(end'[s].out, Prompts)
      BY <1>2, <1>5, InOrderIs
    <2>2. /\ end'[s].writing.type \in Reasons \/ Has(end'[s].out, Reasons) <=> Has(end[s].out, Reasons)
          /\ end'[s].writing.type \in Prompts \/ Has(end'[s].out, Prompts) <=> Has(end[s].out, Prompts)
      BY <1>2, <1>5, HasIs
    <2>3. Refused(s)' => Refused(s)
      BY <2>2 DEF Refused
    <2>4. QED
      BY <1>1, <2>1, <2>2, <2>3 DEF SessionInOrder
  <1>6. ASSUME NEW p, end'[s].writing = end[s].writing, end'[s].out = Append(end[s].out, p),
               p.type \in Prompts => ~Refused(s),
               p.type \in Reasons =>
                  end'[s].state \in {"DISCONNECTING", "DISCONNECTED"} /\ s \notin asked'
        PROVE  SessionInOrder(s)'
    <2>1. /\ Has(end'[s].out, Reasons) <=> p.type \in Reasons \/ Has(end[s].out, Reasons)
          /\ Has(end'[s].out, Prompts) <=> p.type \in Prompts \/ Has(end[s].out, Prompts)
      BY <1>2, <1>6, HasIs
    <2>2. p.type \in Prompts => ~Has(end[s].out, Reasons)
      BY <1>6 DEF Refused
    <2>3. InOrder(end'[s].out)
      BY <1>2, <1>6, <2>2, InOrderIs
    <2>4. end'[s].writing.type \in Reasons => ~Has(end'[s].out, Prompts)
      BY <1>1, <1>6, <2>1 DEF SessionInOrder, Refused
    <2>5. s = attempt /\ (Has(wire[0], Reasons) \/ end[0].terminal) =>
             end'[s].writing.type \notin Prompts /\ ~Has(end'[s].out, Prompts)
      BY <1>1, <1>6, <2>1 DEF SessionInOrder, Refused
    <2>6. Refused(s)' => Refused(s) \/ p.type \in Reasons
      BY <1>6, <2>1 DEF Refused
    <2>7. QED
      BY <1>6, <2>3, <2>4, <2>5, <2>6 DEF SessionInOrder
  <1>7. QED
    BY <1>3, <1>4, <1>5, <1>6

(* Only the end of session s changes, and nothing reaches the wire.          *)
LEMMA ServerOrder ==
  ASSUME IInv, NEW s \in Sessions, OnlyEnd(s), wire'[0] = wire[0], attempt' = attempt,
         asked' \subseteq asked \cup {s}, SessionInOrder(s)'
  PROVE  ReasonsComeLast'
  <1>1. TypeOK /\ ReasonsComeLast /\ 0 \in Ends /\ \A t \in Sessions : t \in Ends /\ t # 0
    BY EndsAreRecords DEF IInv, Sessions
  <1>2. end'[0] = end[0]
    BY <1>1 DEF OnlyEnd
  <1>3. ASSUME NEW t \in Sessions, t # s
        PROVE  SessionInOrder(t)'
    <2>1. end'[t] = end[t] /\ SessionInOrder(t) /\ (t \in asked' => t \in asked)
      BY <1>1, <1>3 DEF OnlyEnd, ReasonsComeLast
    <2>2. Refused(t)' => Refused(t)
      BY <1>2, <2>1 DEF Refused
    <2>3. QED
      BY <1>2, <2>1, <2>2 DEF SessionInOrder
  <1>4. QED
    BY <1>1, <1>2, <1>3 DEF ReasonsComeLast

(* The package that session s was writing reaches the connecting device.     *)
LEMMA WritesOrder ==
  ASSUME IInv, NEW s \in Sessions, CoSendWrites(s)
  PROVE  ReasonsComeLast'
  <1>1. /\ TypeOK /\ Traffic /\ ReasonsComeLast /\ 0 \in Ends
        /\ \A t \in Sessions : t \in Ends /\ t # 0
    BY EndsAreRecords DEF IInv, Sessions
  <1>2. /\ OnlyEnd(s) /\ end'[s].state = end[s].state /\ end[s].writing \in Packages
        /\ \/ /\ end[s].out # <<>>
              /\ end'[s].out = Tail(end[s].out) /\ end'[s].writing = Head(end[s].out)
           \/ end'[s].out = <<>> /\ end'[s].writing = None
        /\ wire' = Put(s, end[s].writing)
    BY <1>1, CoSendWritesEffect
  <1>3. attempt' = attempt /\ asked' = asked /\ end'[0] = end[0]
    BY <1>1, <1>2 DEF CoSendWrites, app, OnlyEnd
  <1> DEFINE w == end[s].writing
  <1>4. wire'[0] = wire[0] \/ (wire'[0] = Append(wire[0], w) /\ attempt = s)
    BY <1>1, <1>2, PutIs
  <1>5. /\ wire[0] \in Seq(ServerPackages) /\ end[s].out \in Seq(ServerPackages)
        /\ SessionInOrder(s) /\ InOrder(wire[0]) /\ InOrder(end[s].out)
    BY <1>1, TrafficIs DEF ReasonsComeLast, SessionInOrder
  <1>6. /\ Has(wire'[0], Reasons) => Has(wire[0], Reasons) \/ (w.type \in Reasons /\ attempt = s)
        /\ Has(wire'[0], Prompts) => Has(wire[0], Prompts) \/ (w.type \in Prompts /\ attempt = s)
    <2>1. CASE wire'[0] = wire[0]
      BY <2>1
    <2>2. CASE wire'[0] = Append(wire[0], w) /\ attempt = s
      <3>1. /\ Has(Append(wire[0], w), Reasons) <=> w.type \in Reasons \/ Has(wire[0], Reasons)
            /\ Has(Append(wire[0], w), Prompts) <=> w.type \in Prompts \/ Has(wire[0], Prompts)
        BY <1>5, HasIs
      <3>2. QED
        BY <2>2, <3>1
    <2>3. QED
      BY <1>4, <2>1, <2>2
  <1>7. InOrder(wire'[0])
    <2>1. attempt = s /\ w.type \in Prompts => ~Has(wire[0], Reasons)
      BY <1>5 DEF SessionInOrder
    <2>2. QED
      BY <1>4, <1>5, <2>1, InOrderIs
  <1>8. end[0].terminal => ~Has(wire'[0], Prompts)
    BY <1>1, <1>5, <1>6 DEF ReasonsComeLast, SessionInOrder
  <1>9. /\ InOrder(end'[s].out)
        /\ end'[s].writing.type \in Reasons => ~Has(end'[s].out, Prompts)
        /\ Has(end'[s].out, Reasons) \/ end'[s].writing.type \in Reasons => Has(end[s].out, Reasons)
        /\ Has(end'[s].out, Prompts) \/ end'[s].writing.type \in Prompts => Has(end[s].out, Prompts)
    <2>1. CASE end'[s].out = <<>> /\ end'[s].writing = None
      <3>1. ~Has(<<>>, Reasons) /\ ~Has(<<>>, Prompts) /\ InOrder(<<>>)
        BY DEF Has, InOrder
      <3>2. QED
        BY <2>1, <3>1, TypesDiffer
    <2>2. CASE /\ end[s].out # <<>>
               /\ end'[s].out = Tail(end[s].out) /\ end'[s].writing = Head(end[s].out)
      BY <1>5, <2>2, HasIs, InOrderIs
    <2>3. QED
      BY <1>2, <2>1, <2>2
  <1>10. SessionInOrder(s)'
    <2>1. Refused(s)' => Refused(s)
      BY <1>3, <1>6, <1>9 DEF Refused
    <2>2. s = attempt /\ (Has(wire'[0], Reasons) \/ end[0].terminal) =>
             end'[s].writing.type \notin Prompts /\ ~Has(end'[s].out, Prompts)
      BY <1>5, <1>6, <1>9 DEF SessionInOrder
    <2>3. QED
      BY <1>2, <1>3, <1>5, <1>9, <2>1, <2>2 DEF SessionInOrder
  <1>11. ASSUME NEW t \in Sessions, t # s
         PROVE  SessionInOrder(t)'
    <2>1. end'[t] = end[t] /\ SessionInOrder(t)
      BY <1>1, <1>2, <1>11 DEF OnlyEnd, ReasonsComeLast
    <2>2. t = attempt /\ Has(wire'[0], Reasons) => Has(wire[0], Reasons)
      BY <1>6, <1>11
    <2>3. Refused(t)' => Refused(t)
      BY <1>3, <2>1, <2>2 DEF Refused
    <2>4. QED
      BY <1>3, <2>1, <2>2, <2>3 DEF SessionInOrder
  <1>12. QED
    BY <1>3, <1>7, <1>8, <1>10, <1>11 DEF ReasonsComeLast

(* A session in state CONNECTED or CONNECTING, or that is asked about, was   *)
(* not refused.                                                              *)
LEMMA NotRefused ==
  ASSUME IInv, NEW s \in Sessions,
         end[s].state \in {"CONNECTED", "CONNECTING"} \/ s \in asked
  PROVE  ~Refused(s)
  BY DEF IInv, ReasonsComeLast, SessionInOrder

(* The queue of session s is left alone, cleared, or gives its head.         *)
LEMMA NothingQueued ==
  ASSUME IInv, NEW s \in Sessions, OnlyEnd(s), wire'[0] = wire[0], attempt' = attempt,
         asked' = asked \/ (asked' = asked \cup {s} /\ end[s].state = "CONNECTED")
                       \/ asked' = asked \ {s},
         \/ Queue(end'[s]) = Queue(end[s])
         \/ end'[s].out = <<>> /\ end'[s].writing = None
         \/ /\ end[s].writing = None /\ end[s].out # <<>>
            /\ end'[s].out = Tail(end[s].out) /\ end'[s].writing = Head(end[s].out),
         \/ end[s].state = "CONNECTING"
         \/ end'[s].state \in {end[s].state, "DISCONNECTING", "DISCONNECTED"}
  PROVE  ReasonsComeLast'
  <1>1. Refused(s) => /\ end[s].state \in {"DISCONNECTING", "DISCONNECTED"} /\ s \notin asked
                      /\ end[s].state \notin {"CONNECTED", "CONNECTING"}
    BY DEF IInv, ReasonsComeLast, SessionInOrder
  <1>2. end'[0] = end[0]
    BY EndsAreRecords DEF IInv, OnlyEnd, Sessions
  <1>3. Refused(s) => end'[s].state \in {"DISCONNECTING", "DISCONNECTED"} /\ s \notin asked'
    BY <1>1
  <1>4. SessionInOrder(s)'
    BY <1>2, <1>3, QueueOrder
  <1>5. asked' \subseteq asked \cup {s}
    OBVIOUS
  <1>6. QED
    BY <1>4, <1>5, ServerOrder

(* A package is queued: a prompt for a session that was not refused, or the  *)
(* reason for which it is ended.                                             *)
LEMMA PackageQueued ==
  ASSUME IInv, NEW s \in Sessions, OnlyEnd(s), wire'[0] = wire[0], attempt' = attempt,
         asked' \subseteq asked,
         NEW p, end'[s].out = Append(end[s].out, p), end'[s].writing = end[s].writing,
         end'[s].state \in {end[s].state, "DISCONNECTING", "DISCONNECTED"},
         p.type \in Prompts => ~Refused(s),
         p.type \in Reasons =>
            end'[s].state \in {"DISCONNECTING", "DISCONNECTED"} /\ s \notin asked
  PROVE  ReasonsComeLast'
  <1>1. Refused(s) => end'[s].state \in {"DISCONNECTING", "DISCONNECTED"} /\ s \notin asked'
    BY DEF IInv, ReasonsComeLast, SessionInOrder
  <1>2. end'[0] = end[0]
    BY EndsAreRecords DEF IInv, OnlyEnd, Sessions
  <1>3. SessionInOrder(s)'
    BY <1>1, <1>2, QueueOrder
  <1>4. asked' \subseteq asked \cup {s}
    OBVIOUS
  <1>5. QED
    BY <1>3, <1>4, ServerOrder

LEMMA ServerReceivesInOrder ==
  ASSUME IInv, NEW s \in Sessions, ServerReceives(s)
  PROVE  ReasonsComeLast'
  <1>1. TypeOK /\ 0 \in Ends /\ s \in Ends /\ s # 0
    BY EndsAreRecords DEF IInv, Sessions
  <1>2. CASE ReceivesDeviceData(s)
    <2>1. /\ OnlyEnd(s) /\ end[s].state = "CONNECTED" /\ wire'[0] = wire[0]
          /\ end'[s].writing = end[s].writing
          /\ wire[s] # <<>> /\ Head(wire[s]).type = Data
      BY <1>1, <1>2, ReceivesDeviceDataEffect
    <2>2. attempt' = attempt
      BY <1>2 DEF ReceivesDeviceData
    <2>3. s \notin asked
      <3>1. DataIsOnTheWay(s)
        BY <1>1, <2>1, TrafficIs, HasIs DEF IInv, DataIsOnTheWay
      <3>2. QED
        BY <3>1 DEF IInv, DecisionsFollowData
    <2>4. ASSUME NEW type \in Reasons, end'[s].out = Append(end[s].out, Pkg(type, 0)),
                 end'[s].state = "DISCONNECTING", asked' = asked
          PROVE  ReasonsComeLast'
      <3>1. Pkg(type, 0).type \in Reasons /\ Pkg(type, 0).type \notin Prompts
        BY TypesDiffer DEF Pkg
      <3>2. QED
        BY <2>1, <2>2, <2>3, <2>4, <3>1, PackageQueued
    <2>5. CASE /\ end'[s].state = "CONNECTED" /\ end'[s].out = end[s].out
               /\ asked' = asked \/ asked' = asked \cup {s}
      BY <2>1, <2>2, <2>5, NothingQueued DEF Queue
    <2>6. QED
      BY <1>1, <1>2, <2>4, <2>5, ReceivesDeviceDataEffect
  <1>3. CASE ReceivesRightAnswer(s) \/ ReceivesWrongAnswer(s)
    <2>1. /\ OnlyEnd(s) /\ end[s].state = "CONNECTED" /\ wire'[0] = wire[0]
          /\ end'[s].writing = end[s].writing
          /\ end'[s].state \in {"CONNECTED", "DISCONNECTING"}
      BY <1>1, <1>3, ReceivesRightAnswerEffect, ReceivesWrongAnswerEffect
    <2>2. /\ attempt' = attempt /\ asked' = asked
      BY <1>3 DEF ReceivesRightAnswer, ReceivesWrongAnswer, app
    <2>3. \E type \in Prompts, n \in Nat : end'[s].out = Append(end[s].out, Pkg(type, n))
      BY <1>1, <1>3, ReceivesRightAnswerEffect, ReceivesWrongAnswerEffect DEF Prompts
    <2>4. PICK type \in Prompts, n \in Nat : end'[s].out = Append(end[s].out, Pkg(type, n))
      BY <2>3
    <2>5. Pkg(type, n).type \in Prompts /\ Pkg(type, n).type \notin Reasons
      BY TypesDiffer DEF Pkg
    <2>6. ~Refused(s)
      BY <2>1, NotRefused
    <2>7. QED
      BY <2>1, <2>2, <2>4, <2>5, <2>6, PackageQueued
  <1>4. QED
    BY <1>2, <1>3 DEF ServerReceives

LEMMA AppInOrder ==
  ASSUME IInv, NEW s \in Sessions, AppStep(s)
  PROVE  ReasonsComeLast'
  <1>1. TypeOK /\ 0 \in Ends /\ s \in Ends
    BY EndsAreRecords DEF IInv
  <1>2. s \in asked /\ asked' = asked \ {s} /\ wire' = wire /\ attempt' = attempt
    BY DEF AppStep, AppRejects, AppAccepts, AppAcceptsIfVerified
  <1>3. CASE AppRejects(s) \/ AppAccepts(s)
    <2>1. /\ OnlyEnd(s) /\ Queue(end'[s]) = Queue(end[s])
          /\ end'[s].state \in {end[s].state, "DISCONNECTED", "DISCONNECTING"}
      BY <1>1, <1>3, AppRejectsEffect, AppAcceptsEffect
    <2>2. QED
      BY <1>2, <2>1, NothingQueued
  <1>4. CASE AppAcceptsIfVerified(s)
    <2> DEFINE p == Pkg("CHALLENGE_ANSWER_REQUEST", 0)
    <2>1. /\ OnlyEnd(s) /\ end'[s].state = end[s].state /\ end'[s].writing = end[s].writing
          /\ end'[s].out = Append(end[s].out, p)
      BY <1>1, <1>4, AppAcceptsIfVerifiedEffect
    <2>2. p.type \in Prompts /\ p.type \notin Reasons
      BY DEF Pkg, Prompts, Reasons
    <2>3. ~Refused(s)
      BY <1>2, NotRefused
    <2> HIDE DEF p
    <2>4. QED
      BY <1>2, <2>1, <2>2, <2>3, PackageQueued
  <1>5. QED
    BY <1>3, <1>4 DEF AppStep

LEMMA UserInOrder ==
  ASSUME IInv, UserDenies \/ UserApproves \/ \E k \in 1 .. MaxSeek : PrimaryListens(k)
  PROVE  ReasonsComeLast'
  <1>1. TypeOK
    BY DEF IInv
  <1>2. wire' = wire /\ attempt' = attempt /\ asked' = asked
    BY DEF UserDenies, UserApproves, PrimaryListens, app
  <1>3. CASE UserDenies
    <2>1. PICK s \in Sessions : s = approving
      BY <1>1, <1>3, UserDeniesEffect
    <2> DEFINE p == Pkg("CONNECTION_APPROVAL_DENIED", 0)
    <2>2. /\ OnlyEnd(s) /\ end'[s].state \in {"DISCONNECTED", "DISCONNECTING"}
          /\ end'[s].writing = end[s].writing /\ end'[s].out = Append(end[s].out, p)
      BY <1>1, <1>3, <2>1, UserDeniesEffect
    <2>3. p.type \in Reasons /\ p.type \notin Prompts
      BY DEF Pkg, Prompts, Reasons
    <2>4. s \notin asked
      BY <2>1 DEF IInv, DecisionsFollowData, Undecided
    <2> HIDE DEF p
    <2>5. QED
      BY <1>2, <2>2, <2>3, <2>4, PackageQueued
  <1>4. CASE UserApproves
    <2>1. PICK s \in Sessions : s = approving
      BY <1>1, <1>4, UserApprovesEffect
    <2>2. OnlyEnd(s) /\ end'[s].state = end[s].state /\ Queue(end'[s]) = Queue(end[s])
      BY <1>1, <1>4, <2>1, UserApprovesEffect
    <2>3. QED
      BY <1>2, <2>2, NothingQueued
  <1>5. ASSUME NEW k \in 1 .. MaxSeek, PrimaryListens(k)
        PROVE  ReasonsComeLast'
    <2>1. k \in Nat
      OBVIOUS
    <2>2. PICK s \in Sessions : s = seeks[k]
      BY <1>1, <1>5, <2>1, PrimaryListensEffect
    <2> DEFINE p == Pkg(Seek, k)
    <2>3. /\ OnlyEnd(s) /\ end'[s].state \in {"DISCONNECTED", "DISCONNECTING"}
          /\ end'[s].writing = end[s].writing /\ end'[s].out = Append(end[s].out, p)
      BY <1>1, <1>5, <2>1, <2>2, PrimaryListensEffect
    <2>4. p.type \notin Reasons /\ p.type \notin Prompts
      BY TypesDiffer DEF Pkg
    <2> HIDE DEF p
    <2>5. QED
      BY <1>2, <2>3, <2>4, PackageQueued
  <1>6. QED
    BY <1>3, <1>4, <1>5

LEMMA ServerInOrder ==
  ASSUME IInv, NEW s \in Sessions,
         \/ Accepts(s) \/ CoSend(s) \/ DropsAndEnds(s) \/ CoReceiveFails(s)
         \/ AppDisconnects(s) \/ CloseDrained(s) \/ CloseTimesOut(s)
  PROVE  ReasonsComeLast'
  <1>1. TypeOK /\ 0 \in Ends /\ s \in Ends /\ s # 0
    BY EndsAreRecords DEF IInv, Sessions
  <1>2. attempt' = attempt /\ asked' = asked
    BY DEF Accepts, CoSend, CoSendWakes, CoSendWrites, CoSendFails, DropsAndEnds,
           CoReceiveFails, AppDisconnects, CloseDrained, CloseTimesOut, app
  <1>3. CASE Accepts(s)
    BY <1>1, <1>2, <1>3, AcceptsEffect, NothingQueued DEF Accepts
  <1>4. CASE CoSendWakes(s)
    <2>1. wire' = wire
      BY <1>4 DEF CoSendWakes
    <2>2. QED
      BY <1>1, <1>2, <1>4, <2>1, CoSendWakesEffect, NothingQueued
  <1>5. CASE CoSendFails(s)
    <2>1. /\ wire' = wire
      BY <1>5 DEF CoSendFails
    <2>2. OnlyEnd(s) /\ end'[s].out = <<>> /\ end'[s].writing = None
      BY <1>1, <1>5, CoSendFailsEffect DEF Queue
    <2>3. end'[s].state \in {"DISCONNECTED", "DISCONNECTING"}
      BY <1>1, <1>5, CoSendFailsEffect
    <2>4. QED
      BY <1>2, <2>1, <2>2, <2>3, NothingQueued
  <1>6. CASE DropsAndEnds(s) \/ CoReceiveFails(s)
    <2>1. /\ OnlyEnd(s) /\ Queue(end'[s]) = Queue(end[s]) /\ wire' = NoReader(s)
          /\ end'[s].state \in {end[s].state, "DISCONNECTED", "DISCONNECTING"}
      BY <1>1, <1>6, DropsAndEndsEffect, CoReceiveFailsEffect
    <2>2. wire'[0] = wire[0]
      BY <1>1, <2>1, NoReaderIs
    <2>3. QED
      BY <1>2, <2>1, <2>2, NothingQueued
  <1>7. CASE AppDisconnects(s) \/ CloseDrained(s) \/ CloseTimesOut(s)
    <2>1. /\ OnlyEnd(s) /\ Queue(end'[s]) = Queue(end[s])
          /\ end'[s].state \in {"DISCONNECTED", "DISCONNECTING"}
      BY <1>1, <1>7, AppDisconnectsEffect, CloseEffect
    <2>2. wire' = wire
      BY <1>7 DEF AppDisconnects, CloseDrained, CloseTimesOut
    <2>3. QED
      BY <1>2, <2>1, <2>2, NothingQueued
  <1>8. QED
    BY <1>3, <1>4, <1>5, <1>6, <1>7, WritesOrder DEF CoSend

(* The connecting device's actions.                                          *)
LEMMA ClientInOrder ==
  ASSUME IInv, \/ \E how \in Modes : Connect(how)
               \/ ConnectSucceeds \/ ConnectFails
               \/ CoSend(0) \/ DropsAndEnds(0) \/ CoReceiveFails(0) \/ ClientReceives
               \/ \E code \in {verifying, MaxSession + 1} : UserAnswers(code)
               \/ AppDisconnects(0) \/ CloseDrained(0) \/ CloseTimesOut(0)
  PROVE  ReasonsComeLast'
  <1>1. TypeOK /\ 0 \in Ends /\ \A s \in Sessions : s \in Ends /\ s # 0
    BY EndsAreRecords DEF IInv, Sessions
  <1>2. asked' = asked
    BY DEF Connect, ConnectSucceeds, ConnectFails, CoSend, CoSendWakes, CoSendWrites, CoSendFails,
           DropsAndEnds, CoReceiveFails, ClientReceives, ReceivesEndpoint,
           ReceivesWrongAnswerReport, ReceivesPrompt, ReceivesReason, UserAnswers,
           AppDisconnects, CloseDrained, CloseTimesOut, app
  <1>3. ASSUME OnlyEnd(0), attempt' = attempt, wire'[0] \in {wire[0], <<>>},
               Flags(end'[0]) = Flags(end[0])
        PROVE  ReasonsComeLast'
    <2>1. \A s \in Sessions : end'[s] = end[s]
      BY <1>1, <1>3 DEF OnlyEnd
    <2>2. end'[0].terminal = end[0].terminal
      BY <1>3 DEF Flags
    <2>3. QED
      BY <1>2, <1>3, <2>1, <2>2, ClientOrder
  <1>4. CASE \E how \in Modes : Connect(how)
    <2>1. PICK how \in Modes : Connect(how)
      BY <1>4
    <2>2. /\ \A s \in Sessions : end'[s] = end[s]
          /\ wire'[0] = <<>> /\ ~end'[0].terminal
      BY <1>1, <2>1, ConnectEffect DEF OnlyEnd, Flags
    <2>3. QED
      BY <1>2, <2>2, ClientOrder
  <1>5. CASE ConnectSucceeds
    BY <1>1, <1>3, <1>5, ConnectSucceedsEffect DEF ConnectSucceeds
  <1>6. CASE ConnectFails
    BY <1>1, <1>3, <1>6, ConnectFailsEffect DEF ConnectFails
  <1>7. CASE CoSend(0)
    <2>1. CASE CoSendWakes(0)
      BY <1>1, <1>3, <2>1, CoSendWakesEffect DEF CoSendWakes
    <2>2. CASE CoSendWrites(0)
      <3>1. attempt # 0
        <4>1. end[0].sending
          BY <2>2 DEF CoSendWrites, IInv, DataIsSentOnce
        <4>2. QED
          BY <4>1 DEF IInv, AttemptIsTold
      <3>2. OnlyEnd(0) /\ Flags(end'[0]) = Flags(end[0]) /\ wire'[0] = wire[0]
        BY <1>1, <2>2, <3>1, CoSendWritesEffect, PutIs
      <3>3. QED
        BY <1>3, <2>2, <3>2 DEF CoSendWrites
    <2>3. CASE CoSendFails(0)
      BY <1>1, <1>3, <2>3, CoSendFailsEffect DEF CoSendFails
    <2>4. QED
      BY <1>7, <2>1, <2>2, <2>3 DEF CoSend
  <1>8. CASE DropsAndEnds(0) \/ CoReceiveFails(0)
    <2>1. /\ OnlyEnd(0) /\ Flags(end'[0]) = Flags(end[0]) /\ wire' = NoReader(0)
      BY <1>1, <1>8, DropsAndEndsEffect, CoReceiveFailsEffect
    <2>2. wire'[0] = <<>> /\ attempt' = attempt
      BY <1>1, <1>8, <2>1, NoReaderIs DEF DropsAndEnds, CoReceiveFails
    <2>3. QED
      BY <1>3, <2>1, <2>2
  <1>9. CASE ClientReceives
    <2>1. attempt' = attempt
      BY <1>9 DEF ClientReceives, ReceivesEndpoint, ReceivesWrongAnswerReport, ReceivesPrompt,
                  ReceivesReason
    <2>2. CASE ReceivesEndpoint
      BY <1>1, <1>2, <2>1, <2>2, ReceivesEndpointEffect, ClientOrder DEF OnlyEnd
    <2>3. CASE ReceivesReason
      BY <1>1, <1>2, <2>1, <2>3, ReceivesReasonEffect, ClientOrder DEF OnlyEnd
    <2>4. CASE ReceivesWrongAnswerReport \/ ReceivesPrompt
      BY <1>1, <1>2, <2>1, <2>4, ReportEffect, ClientOrder
    <2>5. QED
      BY <1>9, <2>2, <2>3, <2>4 DEF ClientReceives
  <1>10. CASE \E code \in {verifying, MaxSession + 1} : UserAnswers(code)
    <2>1. PICK code \in {verifying, MaxSession + 1} : UserAnswers(code)
      BY <1>10
    <2>2. code \in Nat
      BY <1>1, <2>1, TypedCodes
    <2>3. OnlyEnd(0) /\ Flags(end'[0]) = Flags(end[0])
      BY <1>1, <2>1, <2>2, UserAnswersEffect
    <2>4. wire' = wire /\ attempt' = attempt
      BY <2>1 DEF UserAnswers
    <2>5. QED
      BY <1>3, <2>3, <2>4
  <1>11. CASE AppDisconnects(0) \/ CloseDrained(0) \/ CloseTimesOut(0)
    <2>1. OnlyEnd(0) /\ Flags(end'[0]) = Flags(end[0])
      BY <1>1, <1>11, AppDisconnectsEffect, CloseEffect
    <2>2. wire' = wire /\ attempt' = attempt
      BY <1>11 DEF AppDisconnects, CloseDrained, CloseTimesOut
    <2>3. QED
      BY <1>3, <2>1, <2>2
  <1>12. QED
    BY <1>4, <1>5, <1>6, <1>7, <1>8, <1>9, <1>10, <1>11

LEMMA WorldInOrder ==
  ASSUME IInv, NetworkResets \/ BanExpires \/ UNCHANGED vars
  PROVE  ReasonsComeLast'
  <1>1. UNCHANGED <<attempt, end, wire, asked>>
    BY DEF NetworkResets, BanExpires, vars, app
  <1>2. QED
    BY <1>1, ClientOrder DEF IInv
-------------------------------------------------------------------------------
(* What the attempt is told *)

(* The connecting device hears nothing and its end does not change.          *)
LEMMA NothingTold ==
  ASSUME IInv, end'[0] = end[0], attempt' = attempt, told' = told, abandoned' = abandoned
  PROVE  AttemptIsTold'
  BY DEF IInv, AttemptIsTold, Outcome

LEMMA ServerTells ==
  ASSUME IInv, NEW s \in Sessions,
         \/ Accepts(s) \/ AppStep(s)
         \/ CoSend(s) \/ DropsAndEnds(s) \/ CoReceiveFails(s) \/ ServerReceives(s)
         \/ AppDisconnects(s) \/ CloseDrained(s) \/ CloseTimesOut(s)
         \/ UserDenies \/ UserApproves
         \/ \E k \in 1 .. MaxSeek : PrimaryListens(k)
  PROVE  AttemptIsTold'
  <1>1. TypeOK /\ 0 \in Ends /\ \A t \in Sessions : t \in Ends /\ t # 0
    BY EndsAreRecords DEF IInv, Sessions
  <1>2. /\ attempt' = attempt /\ told' = told /\ abandoned' = abandoned
    <2>1. s # 0
      BY <1>1
    <2>2. QED
      BY <2>1 DEF Accepts, AppStep, AppRejects, AppAccepts, AppAcceptsIfVerified, CoSend,
                  CoSendWakes, CoSendWrites, CoSendFails, DropsAndEnds, CoReceiveFails,
                  ServerReceives, ReceivesDeviceData, ReceivesRightAnswer, ReceivesWrongAnswer,
                  AppDisconnects, CloseDrained, CloseTimesOut, UserDenies, UserApproves,
                  PrimaryListens, TellsError, Tells, app, ghosts
  <1>3. end'[0] = end[0]
    <2>1. ASSUME NEW t \in Sessions, OnlyEnd(t)
          PROVE  end'[0] = end[0]
      BY <1>1, <2>1 DEF OnlyEnd
    <2>2. CASE Accepts(s) \/ AppStep(s)
      BY <1>1, <2>1, <2>2, AcceptsEffect, AppRejectsEffect, AppAcceptsEffect,
         AppAcceptsIfVerifiedEffect DEF AppStep
    <2>3. CASE CoSend(s)
      BY <1>1, <2>1, <2>3, CoSendWakesEffect, CoSendWritesEffect, CoSendFailsEffect DEF CoSend
    <2>4. CASE DropsAndEnds(s) \/ CoReceiveFails(s)
      BY <1>1, <2>1, <2>4, DropsAndEndsEffect, CoReceiveFailsEffect
    <2>5. CASE ServerReceives(s)
      BY <1>1, <2>1, <2>5, ReceivesDeviceDataEffect, ReceivesRightAnswerEffect,
         ReceivesWrongAnswerEffect DEF ServerReceives
    <2>6. CASE AppDisconnects(s) \/ CloseDrained(s) \/ CloseTimesOut(s)
      BY <1>1, <2>1, <2>6, AppDisconnectsEffect, CloseEffect
    <2>7. CASE UserDenies
      BY <1>1, <2>1, <2>7, UserDeniesEffect
    <2>8. CASE UserApproves
      BY <1>1, <2>1, <2>8, UserApprovesEffect
    <2>9. ASSUME NEW k \in 1 .. MaxSeek, PrimaryListens(k)
          PROVE  end'[0] = end[0]
      <3>1. k \in Nat
        OBVIOUS
      <3>2. QED
        BY <1>1, <2>1, <2>9, <3>1, PrimaryListensEffect
    <2>10. QED
      BY <2>2, <2>3, <2>4, <2>5, <2>6, <2>7, <2>8, <2>9
  <1>4. QED
    BY <1>2, <1>3, NothingTold

LEMMA ConnectTells ==
  ASSUME IInv, \/ \E how \in Modes : Connect(how)
               \/ ConnectSucceeds \/ ConnectFails
  PROVE  AttemptIsTold'
  <1>1. TypeOK /\ AttemptIsTold /\ attempt \in Nat
    <2>1. TypeOK /\ AttemptIsTold
      BY DEF IInv
    <2>2. QED
      BY <2>1, HandshakeBounds DEF TypeOK, Ends
  <1>2. ASSUME NEW how \in Modes, Connect(how)
        PROVE  AttemptIsTold'
    <2>1. /\ end'[0].dialing /\ ~end'[0].sending /\ ~end'[0].receiving /\ ~end'[0].closing
          /\ ~end'[0].final /\ ~end'[0].quiet /\ ~end'[0].terminal
      BY <1>1, <1>2, ConnectEffect DEF Runs, Flags
    <2>2. attempt' = attempt + 1 /\ told' = "nothing"
      BY <1>2 DEF Connect
    <2>3. attempt' # 0
      BY <1>1, <2>2
    <2>4. QED
      BY <2>1, <2>2, <2>3 DEF AttemptIsTold
  <1>3. CASE ConnectSucceeds
    <2>1. /\ end[0].dialing /\ end'[0].state = "CONNECTED"
          /\ ~end'[0].dialing /\ end'[0].sending /\ end'[0].receiving
          /\ end'[0].closing = end[0].closing
          /\ end'[0].final = end[0].final /\ end'[0].quiet = end[0].quiet
          /\ end'[0].terminal = end[0].terminal
      BY <1>1, <1>3, ConnectSucceedsEffect DEF Runs, Flags
    <2>2. attempt' = attempt /\ told' = told /\ abandoned' = abandoned
      BY <1>3 DEF ConnectSucceeds, app, ghosts
    <2>3. QED
      BY <1>1, <2>1, <2>2 DEF AttemptIsTold
  <1>4. CASE ConnectFails
    <2>1. /\ end[0].dialing /\ ~end'[0].dialing
          /\ end'[0].closing => \/ end'[0].state = "DISCONNECTING"
                                \/ end[0].closing /\ end[0].state # "DISCONNECTING"
          /\ end'[0].final = end[0].final /\ end'[0].quiet = end[0].quiet
          /\ end'[0].terminal = end[0].terminal
      BY <1>1, <1>4, ConnectFailsEffect DEF Runs, Flags
    <2>2. attempt' = attempt /\ told' = "error" /\ abandoned' = abandoned
      BY <1>4 DEF ConnectFails, Tells, app
    <2>3. QED
      BY <1>1, <2>1, <2>2 DEF AttemptIsTold, Outcome
  <1>5. QED
    BY <1>2, <1>3, <1>4

(* An error is reported unless the attempt has its outcome already.          *)
LEMMA ErrorTold ==
  ASSUME IInv, TellsError(0), attempt' = attempt, attempt # 0, abandoned' = abandoned,
         ~end[0].dialing, ~end'[0].dialing,
         end'[0].closing => \/ end'[0].state = "DISCONNECTING"
                            \/ end[0].closing /\ end[0].state # "DISCONNECTING",
         Flags(end'[0]) = Flags(end[0])
  PROVE  AttemptIsTold'
  <1>1. TypeOK /\ AttemptIsTold /\ attempt \in Nat
    <2>1. TypeOK /\ AttemptIsTold
      BY DEF IInv
    <2>2. QED
      BY <2>1, HandshakeBounds DEF TypeOK, Ends
  <1>2. /\ end'[0].final = end[0].final /\ end'[0].quiet = end[0].quiet
        /\ end'[0].terminal = end[0].terminal
    BY DEF Flags
  <1>3. CASE Reports(end[0])
    <2>1. told' = "error" /\ ~end[0].terminal
      BY <1>3 DEF TellsError, Tells, Reports
    <2>2. QED
      BY <1>1, <1>2, <2>1 DEF AttemptIsTold, Outcome
  <1>4. CASE ~Reports(end[0])
    <2>1. told' = told
      BY <1>4 DEF TellsError, Tells
    <2>2. end[0].final \/ end[0].terminal
      BY <1>1, <1>4 DEF Reports, AttemptIsTold
    <2>3. QED
      BY <1>1, <1>2, <2>1, <2>2 DEF AttemptIsTold, Outcome
  <1>5. QED
    BY <1>3, <1>4

LEMMA CoSendTells ==
  ASSUME IInv, CoSend(0)
  PROVE  AttemptIsTold'
  <1>1. TypeOK /\ AttemptIsTold /\ 0 \in Ends
    BY EndsAreRecords DEF IInv
  <1>2. end[0].sending
    <2>1. ~end[0].sending => end[0].writing = None
      BY DEF IInv, DataIsSentOnce
    <2>2. QED
      BY <2>1 DEF CoSend, CoSendWakes, CoSendWrites, CoSendFails
  <1>3. ~end[0].dialing /\ attempt # 0
    BY <1>1, <1>2 DEF AttemptIsTold
  <1>4. attempt' = attempt /\ abandoned' = abandoned
    BY DEF CoSend, CoSendWakes, CoSendWrites, CoSendFails, app
  <1>5. CASE CoSendWakes(0) \/ CoSendWrites(0)
    <2>1. /\ end'[0].state = end[0].state /\ end'[0].closing = end[0].closing
          /\ end'[0].dialing = end[0].dialing /\ end'[0].receiving = end[0].receiving
          /\ end'[0].final = end[0].final /\ end'[0].quiet = end[0].quiet
          /\ end'[0].terminal = end[0].terminal
      BY <1>1, <1>5, CoSendWakesEffect, CoSendWritesEffect DEF Flags
    <2>2. told' = told
      BY <1>5 DEF CoSendWakes, CoSendWrites, ghosts
    <2>3. QED
      BY <1>1, <1>3, <1>4, <2>1, <2>2 DEF AttemptIsTold, Outcome
  <1>6. CASE CoSendFails(0)
    <2>1. /\ end'[0].closing => \/ end'[0].state = "DISCONNECTING"
                                \/ end[0].closing /\ end[0].state # "DISCONNECTING"
          /\ end'[0].dialing = end[0].dialing
          /\ Flags(end'[0]) = Flags(end[0])
      BY <1>1, <1>6, CoSendFailsEffect DEF Runs
    <2>2. TellsError(0)
      BY <1>6 DEF CoSendFails
    <2>3. QED
      BY <1>3, <1>4, <2>1, <2>2, ErrorTold
  <1>7. QED
    BY <1>5, <1>6 DEF CoSend

LEMMA CoReceiveTells ==
  ASSUME IInv, DropsAndEnds(0) \/ CoReceiveFails(0) \/ ClientReceives
  PROVE  AttemptIsTold'
  <1>1. TypeOK /\ AttemptIsTold /\ 0 \in Ends
    BY EndsAreRecords DEF IInv
  <1>2. end[0].receiving
    BY DEF DropsAndEnds, CoReceiveFails, ClientReceives, ReceivesEndpoint,
           ReceivesWrongAnswerReport, ReceivesPrompt, ReceivesReason, Reads
  <1>3. ~end[0].dialing /\ attempt # 0
    BY <1>1, <1>2 DEF AttemptIsTold
  <1>4. attempt' = attempt /\ abandoned' = abandoned
    BY DEF DropsAndEnds, CoReceiveFails, ClientReceives, ReceivesEndpoint,
           ReceivesWrongAnswerReport, ReceivesPrompt, ReceivesReason, app
  <1>5. CASE DropsAndEnds(0)
    <2>1. /\ end[0].state # "CONNECTED"
          /\ end'[0].state = end[0].state /\ end'[0].closing = end[0].closing
          /\ end'[0].dialing = end[0].dialing
          /\ end'[0].final = end[0].final /\ end'[0].quiet = end[0].quiet
          /\ end'[0].terminal = end[0].terminal
      BY <1>1, <1>5, DropsAndEndsEffect DEF Runs, Flags
    <2>2. told' = told
      BY <1>5 DEF DropsAndEnds, ghosts
    <2>3. QED
      BY <1>1, <1>3, <1>4, <2>1, <2>2 DEF AttemptIsTold, Outcome
  <1>6. CASE CoReceiveFails(0)
    <2>1. /\ end'[0].closing => \/ end'[0].state = "DISCONNECTING"
                                \/ end[0].closing /\ end[0].state # "DISCONNECTING"
          /\ end'[0].dialing = end[0].dialing
          /\ Flags(end'[0]) = Flags(end[0])
      BY <1>1, <1>6, CoReceiveFailsEffect
    <2>2. TellsError(0)
      BY <1>6 DEF CoReceiveFails
    <2>3. QED
      BY <1>3, <1>4, <2>1, <2>2, ErrorTold
  <1>7. CASE ReceivesEndpoint
    <2>1. /\ end'[0].closing => \/ end'[0].state = "DISCONNECTING"
                                \/ end[0].closing /\ end[0].state # "DISCONNECTING"
          /\ end'[0].dialing = end[0].dialing
          /\ end'[0].final /\ end'[0].quiet /\ end'[0].terminal = end[0].terminal
      BY <1>1, <1>7, ReceivesEndpointEffect
    <2>2. told' = told
      BY <1>7 DEF ReceivesEndpoint
    <2>3. QED
      BY <1>1, <1>3, <1>4, <2>1, <2>2 DEF AttemptIsTold, Outcome
  <1>8. CASE ReceivesReason
    <2>1. /\ end'[0].state = end[0].state /\ end'[0].closing = end[0].closing
          /\ end'[0].dialing = end[0].dialing
          /\ end'[0].final = end[0].final /\ end'[0].quiet = end[0].quiet
          /\ end'[0].terminal
      BY <1>1, <1>8, ReceivesReasonEffect DEF Runs, Flags
    <2>2. told' = "reason"
      BY <1>8 DEF ReceivesReason, Tells
    <2>3. QED
      BY <1>1, <1>3, <1>4, <2>1, <2>2 DEF AttemptIsTold, Outcome
  <1>9. CASE ReceivesWrongAnswerReport \/ ReceivesPrompt
    <2>1. /\ end' = end /\ end[0].receiving /\ end[0].state = "CONNECTED"
          /\ wire[0] # <<>> /\ Head(wire[0]).type \in Prompts
      BY <1>1, <1>9, ReportEffect
    <2>2. Has(wire[0], Prompts)
      BY <1>1, <2>1, TrafficIs, HasIs DEF IInv
    <2>3. ~end[0].terminal
      BY <2>2 DEF IInv, ReasonsComeLast
    <2>4. told' \in {"prompt", "missed"}
      BY <1>9 DEF ReceivesWrongAnswerReport, ReceivesPrompt, Tells
    <2>5. QED
      BY <1>1, <1>3, <1>4, <2>1, <2>3, <2>4 DEF AttemptIsTold, Outcome
  <1>10. QED
    BY <1>5, <1>6, <1>7, <1>8, <1>9 DEF ClientReceives

LEMMA ClientEndTells ==
  ASSUME IInv, \/ \E code \in {verifying, MaxSession + 1} : UserAnswers(code)
               \/ AppDisconnects(0) \/ CloseDrained(0) \/ CloseTimesOut(0)
  PROVE  AttemptIsTold'
  <1>1. TypeOK /\ AttemptIsTold /\ 0 \in Ends
    BY EndsAreRecords DEF IInv
  <1>2. CASE \E code \in {verifying, MaxSession + 1} : UserAnswers(code)
    <2>1. PICK code \in {verifying, MaxSession + 1} : UserAnswers(code)
      BY <1>2
    <2>2. code \in Nat
      BY <1>1, <2>1, TypedCodes
    <2>3. /\ end'[0].state = end[0].state /\ end'[0].closing = end[0].closing
          /\ end'[0].dialing = end[0].dialing /\ end'[0].receiving = end[0].receiving
          /\ end'[0].sending = end[0].sending
          /\ end'[0].final = end[0].final /\ end'[0].quiet = end[0].quiet
          /\ end'[0].terminal = end[0].terminal
      BY <1>1, <2>1, <2>2, UserAnswersEffect DEF Runs, Flags
    <2>4. attempt' = attempt /\ told' = told /\ abandoned' = abandoned
      BY <2>1 DEF UserAnswers, app
    <2>5. QED
      BY <1>1, <2>3, <2>4 DEF AttemptIsTold, Outcome
  <1>3. CASE AppDisconnects(0)
    <2>1. /\ end'[0].dialing = end[0].dialing /\ end'[0].receiving = end[0].receiving
          /\ end'[0].sending = end[0].sending
          /\ end'[0].final = end[0].final /\ end'[0].quiet = end[0].quiet
          /\ end'[0].terminal = end[0].terminal
      BY <1>1, <1>3, AppDisconnectsEffect DEF Runs, Flags
    <2>2. attempt' = attempt /\ told' = told /\ attempt \in abandoned' /\ attempt # 0
      BY <1>3 DEF AppDisconnects, Session
    <2>3. QED
      BY <1>1, <2>1, <2>2 DEF AttemptIsTold, Outcome
  <1>4. CASE CloseDrained(0) \/ CloseTimesOut(0)
    <2>1. /\ end[0].closing /\ ~end'[0].closing /\ end'[0].state = "DISCONNECTED"
          /\ end'[0].dialing = end[0].dialing /\ end'[0].receiving = end[0].receiving
          /\ end'[0].sending = end[0].sending
          /\ end'[0].final = end[0].final /\ end'[0].quiet = end[0].quiet
          /\ end'[0].terminal = end[0].terminal
      BY <1>1, <1>4, CloseEffect DEF Runs, Flags
    <2>2. attempt' = attempt /\ told' = told /\ abandoned' = abandoned
      BY <1>4 DEF CloseDrained, CloseTimesOut, app, ghosts
    <2>3. QED
      BY <1>1, <2>1, <2>2 DEF AttemptIsTold, Outcome
  <1>5. QED
    BY <1>2, <1>3, <1>4
-------------------------------------------------------------------------------
(* The invariant and the theorems *)

ClientStep ==
    \/ \E how \in Modes : Connect(how)
    \/ ConnectSucceeds \/ ConnectFails
    \/ CoSend(0) \/ DropsAndEnds(0) \/ CoReceiveFails(0) \/ ClientReceives
    \/ \E code \in {verifying, MaxSession + 1} : UserAnswers(code)
    \/ AppDisconnects(0) \/ CloseDrained(0) \/ CloseTimesOut(0)

ServerStep(s) ==
    \/ Accepts(s) \/ AppStep(s)
    \/ CoSend(s) \/ DropsAndEnds(s) \/ CoReceiveFails(s) \/ ServerReceives(s)
    \/ AppDisconnects(s) \/ CloseDrained(s) \/ CloseTimesOut(s)

UserStep == UserDenies \/ UserApproves \/ \E k \in 1 .. MaxSeek : PrimaryListens(k)

LEMMA StepsAre ==
  ASSUME IInv, [Next]_vars
  PROVE  \/ ClientStep
         \/ \E s \in Sessions : ServerStep(s)
         \/ UserStep
         \/ NetworkResets \/ BanExpires \/ UNCHANGED vars
  <1>1. /\ 0 \notin Sessions /\ Sessions \subseteq Ends
        /\ \A e \in Ends : e = 0 \/ e \in Sessions
    BY EndsAreRecords DEF IInv, Sessions
  <1>2. ASSUME NEW e \in Ends,
               \/ CoSend(e) \/ CoReceive(e) \/ CloseDrained(e) \/ CloseTimesOut(e)
               \/ AppDisconnects(e)
        PROVE  ClientStep \/ \E s \in Sessions : ServerStep(s)
    <2>1. CASE e = 0
      BY <1>2, <2>1 DEF CoReceive, ClientStep
    <2>2. CASE e \in Sessions
      BY <1>1, <1>2, <2>2 DEF CoReceive, ServerStep
    <2>3. QED
      BY <1>1, <2>1, <2>2
  <1>3. ASSUME NEW s \in Sessions, Accepts(s) \/ AppStep(s)
        PROVE  \E t \in Sessions : ServerStep(t)
    BY <1>3 DEF ServerStep
  <1>4. QED
    BY <1>2, <1>3 DEF Next, ClientStep, UserStep

LEMMA ClientStepKeeps ==
  ASSUME IInv, ClientStep
  PROVE  IInv'
  <1>1. TypeOK' /\ Traffic'
    <2>1. 0 \in Ends
      BY EndsAreRecords DEF IInv
    <2>2. CASE CoSend(0)
      BY <2>1, <2>2, CoSendWakesType, CoSendWritesType, CoSendFailsType DEF CoSend
    <2>3. CASE ClientReceives
      BY <2>3, ReceivesEndpointType, ReceivesReasonType, ReportType DEF ClientReceives
    <2>4. QED
      BY <2>1, <2>2, <2>3, ConnectType, DialType, StopsReceivingType, UserType, AppDisconnectsType,
         CloseType DEF ClientStep
  <1>2. Decided'
    BY ConnectDecides, ClientDecides DEF ClientStep
  <1>3. ReasonsComeLast'
    BY ClientInOrder DEF ClientStep
  <1>4. AttemptIsTold'
    BY ConnectTells, CoSendTells, CoReceiveTells, ClientEndTells DEF ClientStep
  <1>5. QED
    BY <1>1, <1>2, <1>3, <1>4 DEF IInv, Decided

LEMMA ServerStepKeeps ==
  ASSUME IInv, NEW s \in Sessions, ServerStep(s)
  PROVE  IInv'
  <1>1. s \in Ends
    BY EndsAreRecords DEF IInv
  <1>2. TypeOK' /\ Traffic'
    <2>1. CASE CoSend(s)
      BY <1>1, <2>1, CoSendWakesType, CoSendWritesType, CoSendFailsType DEF CoSend
    <2>2. CASE ServerReceives(s)
      BY <2>2, ReceivesDeviceDataType, ReceivesAnswerType DEF ServerReceives
    <2>3. QED
      BY <1>1, <2>1, <2>2, AcceptsType, AppType, StopsReceivingType, AppDisconnectsType,
         CloseType DEF ServerStep
  <1>3. Decided'
    BY AppDecides, ReceivesDeviceDataDecides, ReceivesAnswerDecides, ServerDecides
       DEF ServerStep, ServerReceives
  <1>4. ReasonsComeLast'
    BY AppInOrder, ServerReceivesInOrder, ServerInOrder DEF ServerStep
  <1>5. AttemptIsTold'
    BY ServerTells DEF ServerStep
  <1>6. QED
    BY <1>2, <1>3, <1>4, <1>5 DEF IInv, Decided

LEMMA UserStepKeeps ==
  ASSUME IInv, UserStep
  PROVE  IInv'
  <1>1. TypeOK
    BY DEF IInv
  <1>2. TypeOK' /\ Traffic'
    BY UserType, PrimaryListensType DEF UserStep
  <1>3. \E s \in Sessions : \/ approving = s /\ (UserDenies \/ UserApproves)
                            \/ \E k \in 1 .. MaxSeek : PrimaryListens(k) /\ seeks[k] = s
    <2>1. \A k \in 1 .. MaxSeek : k \in Nat
      OBVIOUS
    <2>2. QED
      BY <1>1, <2>1, UserDeniesEffect, UserApprovesEffect, PrimaryListensEffect DEF UserStep
  <1>4. PICK s \in Sessions : \/ approving = s /\ (UserDenies \/ UserApproves)
                              \/ \E k \in 1 .. MaxSeek : PrimaryListens(k) /\ seeks[k] = s
    BY <1>3
  <1>5. Decided'
    BY <1>4, UserApprovesDecides, ServerDecides
  <1>6. ReasonsComeLast'
    BY UserInOrder DEF UserStep
  <1>7. AttemptIsTold'
    BY <1>4, ServerTells DEF UserStep
  <1>8. QED
    BY <1>2, <1>5, <1>6, <1>7 DEF IInv, Decided

LEMMA StepIInv == IInv /\ [Next]_vars => IInv'
  <1> SUFFICES ASSUME IInv, [Next]_vars
               PROVE  IInv'
    OBVIOUS
  <1>1. CASE NetworkResets \/ BanExpires \/ UNCHANGED vars
    <2>1. TypeOK' /\ Traffic'
      BY <1>1, WorldType
    <2>2. Decided'
      BY <1>1, WorldDecides
    <2>3. ReasonsComeLast'
      BY <1>1, WorldInOrder
    <2>4. AttemptIsTold'
      BY <1>1, NothingTold DEF NetworkResets, BanExpires, vars, app, ghosts
    <2>5. QED
      BY <2>1, <2>2, <2>3, <2>4 DEF IInv, Decided
  <1>2. QED
    BY <1>1, StepsAre, ClientStepKeeps, ServerStepKeeps, UserStepKeeps

(* IInv holds in every behaviour; the theorems below follow from it.        *)
THEOREM HandshakeInvariance == Spec => []IInv
  <1>1. Init => IInv
    BY InitIInv
  <1>2. IInv /\ [Next]_vars => IInv'
    BY StepIInv
  <1>3. QED
    BY <1>1, <1>2, PTL DEF Spec

(* The handshake's members, wires and events keep their types: codes, tries  *)
(* and seeks of InitialConnection stay within what it declares.              *)
THEOREM HandshakeIsTyped == Spec => []TypeOK
  <1>1. IInv => TypeOK
    BY DEF IInv
  <1>2. QED
    BY <1>1, HandshakeInvariance, PTL

(* No device seeks a primary connection without the consent of its           *)
(* application and, where there is a pairing code, the right answer of the   *)
(* other user and the approval of this one (CoProcessConnectionPendingCallback *)
(* and the approval callback), for any number of attempts and answers.       *)
THEOREM ConsentComesFirst == Spec => []SeekNeedsConsent
  <1>1. IInv => SeekNeedsConsent
    BY DEF IInv
  <1>2. QED
    BY <1>1, HandshakeInvariance, PTL

(* However its coroutines, the drain and the network interleave, an attempt  *)
(* that is over has told its application an error or a reason, handed over   *)
(* to the primary connection, or was ended by the application.               *)
THEOREM NoAttemptEndsInSilence == Spec => []EndsAreTold
  <1>1. IInv => EndsAreTold
    BY DEF IInv, AttemptIsTold, EndsAreTold, LastAttemptIsOver, Closed, Outcome
  <1>2. QED
    BY <1>1, HandshakeInvariance, PTL

(* After the peer's reason nothing else is told of the attempt: no prompt    *)
(* overtakes a reason in the queues and the wire, and the errors that follow *)
(* are suppressed (m_receivedTerminalHandshakeReason).                       *)
THEOREM NothingCoversAReason == Spec => ReasonIsLast
  <1>1. ASSUME IInv, [Next]_vars, told = "reason", attempt' = attempt
        PROVE  told' = "reason"
    <2>1. /\ TypeOK /\ AttemptIsTold /\ attempt \in Nat /\ 0 \notin Sessions
      <3>1. TypeOK /\ AttemptIsTold
        BY <1>1 DEF IInv
      <3>2. QED
        BY <3>1, HandshakeBounds DEF TypeOK, Ends, Sessions
    <2>2. end[0].terminal /\ ~end[0].dialing /\ ~Reports(end[0])
      BY <1>1, <2>1 DEF AttemptIsTold, Reports
    <2>3. ASSUME NEW e \in Ends, TellsError(e)
          PROVE  told' = told
      BY <1>1, <2>2, <2>3 DEF TellsError, Tells
    <2>4. CASE ClientStep
      <3>1. ~\E how \in Modes : Connect(how)
        BY <1>1, <2>1 DEF Connect
      <3>2. ~ConnectFails
        BY <2>2 DEF ConnectFails
      <3>3. ~(ReceivesWrongAnswerReport \/ ReceivesPrompt)
        <4>1. ~Has(wire[0], Prompts)
          BY <1>1, <2>2 DEF IInv, ReasonsComeLast
        <4>2. QED
          BY <1>1, <2>1, <4>1, ReportEffect, TrafficIs, HasIs DEF IInv
      <3>4. CASE CoSend(0) \/ CoReceiveFails(0)
        BY <1>1, <2>1, <2>3, <3>4, EndsAreRecords
           DEF CoSend, CoSendWakes, CoSendWrites, CoSendFails, CoReceiveFails, ghosts
      <3>5. CASE ClientReceives
        BY <1>1, <3>3, <3>5 DEF ClientReceives, ReceivesEndpoint, ReceivesReason, Tells
      <3>6. CASE ConnectSucceeds \/ DropsAndEnds(0) \/ CloseDrained(0) \/ CloseTimesOut(0)
        BY <1>1, <3>6 DEF ConnectSucceeds, DropsAndEnds, CloseDrained, CloseTimesOut, ghosts
      <3>7. CASE \/ \E code \in {verifying, MaxSession + 1} : UserAnswers(code)
                 \/ AppDisconnects(0)
        BY <1>1, <3>7 DEF UserAnswers, AppDisconnects
      <3>8. QED
        BY <2>4, <3>1, <3>2, <3>4, <3>5, <3>6, <3>7 DEF ClientStep
    <2>5. ASSUME NEW s \in Sessions, ServerStep(s)
          PROVE  told' = told
      <3>1. CASE CoSend(s) \/ CoReceiveFails(s)
        BY <2>1, <2>3, <3>1, EndsAreRecords
           DEF CoSend, CoSendWakes, CoSendWrites, CoSendFails, CoReceiveFails, ghosts
      <3>2. CASE ServerReceives(s)
        BY <3>2 DEF ServerReceives, ReceivesDeviceData, ReceivesRightAnswer, ReceivesWrongAnswer,
                    ghosts
      <3>3. QED
        BY <2>5, <3>1, <3>2 DEF ServerStep, Accepts, AppStep, AppRejects, AppAccepts,
           AppAcceptsIfVerified, DropsAndEnds, AppDisconnects, CloseDrained, CloseTimesOut, ghosts
    <2>6. CASE UserStep \/ NetworkResets \/ BanExpires \/ UNCHANGED vars
      BY <1>1, <2>6 DEF UserStep, UserDenies, UserApproves, PrimaryListens, NetworkResets,
                        BanExpires, vars, ghosts
    <2>7. QED
      BY <1>1, <2>4, <2>5, <2>6, StepsAre
  <1>2. QED
    BY <1>1, HandshakeInvariance, PTL DEF Spec, ReasonIsLast
===============================================================================
