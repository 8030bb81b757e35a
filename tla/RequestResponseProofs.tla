------------------------- MODULE RequestResponseProofs -------------------------
(***************************************************************************)
(* Theorems about RequestResponse for any number of callers and requests:  *)
(* no flag is left in m_requestAwaitableMap, an answer is left behind only *)
(* by a request that timed out, a flag has one holder, and a request that  *)
(* comes back empty-handed without timing out was cancelled.               *)
(***************************************************************************)
EXTENDS RequestResponse, TLAPS

(* Who could still set the flag of r. *)
Held(r) ==
    \/ r \in awaitableMap
    \/ processor.at # "take" /\ processor.request = r
    \/ \E k \in Cancellers : r \in canceller[k].flags

(* Two calls never share a number. *)
Distinct ==
    /\ \A c \in Callers : At(c, InSendRequest) => caller[c].request < nextRequest
    /\ \A c, d \in Callers :
         (At(c, InSendRequest) /\ At(d, InSendRequest) /\ caller[c].request = caller[d].request)
            => c = d

(* Nothing is known yet of a number that is not registered. *)
Fresh ==
    \A r \in Requests :
        (Held(r) \/ r \in signalled \cup gaveUp) =>
            /\ r < nextRequest
            /\ \A c \in Callers : At(c, {"register"}) => caller[c].request # r

(* A flag is set by the one who took it, and only once. *)
SetOnce ==
    /\ \A r \in signalled : ~Held(r)
    /\ \A c \in Callers :
         At(c, {"answered", "pop"}) => ~Held(caller[c].request) /\ caller[c].request \notin signalled

(* A flag in the map is that of a caller who has not been woken. *)
Registered ==
    \A r \in awaitableMap :
        \E c \in Callers : At(c, {"send", "wait", "timedOut"}) /\ caller[c].request = r

(* The package loop works for a caller who still waits, or gave up. *)
ProcessorServes ==
    processor.at # "take" =>
        \/ \E c \in Callers : At(c, {"send", "wait"}) /\ caller[c].request = processor.request
        \/ processor.request \in gaveUp

(* Whoever is woken finds its answer, unless a canceller was there. *)
Kept ==
    /\ \A k \in Cancellers : canceller[k].flags \subseteq cancelled
    /\ processor.at = "signal" => processor.request \in packageMap \cup cancelled \cup gaveUp
    /\ \A r \in signalled : r \in packageMap \cup cancelled \cup gaveUp
    /\ \A c \in Callers :
         At(c, {"answered", "pop"}) => caller[c].request \in packageMap \cup cancelled

(* Only a caller past its timeout has given up. *)
GaveUpIsOver ==
    \A c \in Callers :
        At(c, InSendRequest) => (caller[c].request \in gaveUp <=> At(c, {"timedOut", "drop"}))

IInv ==
    /\ TypeOK /\ Distinct /\ Fresh /\ OneHolderPerFlag /\ SetOnce /\ Registered
    /\ ProcessorServes /\ Kept /\ GaveUpIsOver /\ AnswersLeftAreLate

(* Where a caller or a canceller is, and what a step leaves alone, is used by *)
(* every lemma below.                                                         *)
USE DEF At, Moves, Enters, InSendRequest, Requests, Cancellers, link, maps, traffic, ghosts

LEMMA SendRequestStep ==
  ASSUME IInv, NEW c \in Callers, SendRequest(c)
  PROVE  IInv'
  <1>1. TypeOK'
    BY RequestBounds DEF IInv, TypeOK, SendRequest
  <1>2. Distinct'
    BY DEF IInv, TypeOK, Distinct, SendRequest
  <1>3. Fresh'
    BY DEF IInv, TypeOK, Fresh, Held, Distinct, SendRequest
  <1>4. SetOnce'
    BY DEF IInv, TypeOK, SetOnce, Held, Fresh, SendRequest
  <1>5. Registered'
    BY DEF IInv, TypeOK, Registered, SendRequest
  <1>6. ProcessorServes'
    BY DEF IInv, TypeOK, ProcessorServes, SendRequest
  <1>7. Kept'
    BY DEF IInv, TypeOK, Kept, SendRequest
  <1>8. GaveUpIsOver'
    BY DEF IInv, TypeOK, GaveUpIsOver, Fresh, Held, SendRequest
  <1>9. AnswersLeftAreLate'
    BY DEF IInv, TypeOK, AnswersLeftAreLate, Pending, SendRequest
  <1>10. OneHolderPerFlag'
    BY DEF IInv, OneHolderPerFlag, SendRequest
  <1>11. QED
    BY <1>1, <1>2, <1>3, <1>4, <1>5, <1>6, <1>7, <1>8, <1>9, <1>10 DEF IInv

LEMMA RegistersStep ==
  ASSUME IInv, NEW c \in Callers, Registers(c)
  PROVE  IInv'
  <1>1. TypeOK'
    BY DEF IInv, TypeOK, Registers
  <1>2. Distinct'
    BY DEF IInv, TypeOK, Distinct, Registers
  <1>3. Fresh'
    BY DEF IInv, TypeOK, Fresh, Held, Distinct, Registers
  <1>4. OneHolderPerFlag'
    BY DEF IInv, TypeOK, OneHolderPerFlag, Fresh, Held, Registers
  <1>5. SetOnce'
    BY DEF IInv, TypeOK, SetOnce, Held, Fresh, Distinct, Registers
  <1>6. Registered'
    BY DEF IInv, TypeOK, Registered, Registers
  <1>7. ProcessorServes'
    BY DEF IInv, TypeOK, ProcessorServes, Registers
  <1>8. Kept'
    BY DEF IInv, TypeOK, Kept, Registers
  <1>9. GaveUpIsOver'
    BY DEF IInv, TypeOK, GaveUpIsOver, Registers
  <1>10. AnswersLeftAreLate'
    BY DEF IInv, TypeOK, AnswersLeftAreLate, Pending, Registers
  <1>11. QED
    BY <1>1, <1>2, <1>3, <1>4, <1>5, <1>6, <1>7, <1>8, <1>9, <1>10 DEF IInv

LEMMA SendsStep ==
  ASSUME IInv, NEW c \in Callers, Sends(c)
  PROVE  IInv'
  <1>1. TypeOK'
    BY DEF IInv, TypeOK, Sends
  <1>2. Distinct'
    BY DEF IInv, TypeOK, Distinct, Sends
  <1>3. Fresh'
    BY DEF IInv, TypeOK, Fresh, Held, Sends
  <1>4. SetOnce'
    BY DEF IInv, TypeOK, SetOnce, Held, Sends
  <1>5. Registered'
    BY DEF IInv, TypeOK, Registered, Sends
  <1>6. ProcessorServes'
    BY DEF IInv, TypeOK, ProcessorServes, Sends
  <1>7. Kept'
    BY DEF IInv, TypeOK, Kept, Sends
  <1>8. GaveUpIsOver'
    BY DEF IInv, TypeOK, GaveUpIsOver, Sends
  <1>9. AnswersLeftAreLate'
    BY DEF IInv, TypeOK, AnswersLeftAreLate, Pending, Sends
  <1>10. OneHolderPerFlag'
    BY DEF IInv, OneHolderPerFlag, Sends
  <1>11. QED
    BY <1>1, <1>2, <1>3, <1>4, <1>5, <1>6, <1>7, <1>8, <1>9, <1>10 DEF IInv

LEMMA WaitSucceedsStep ==
  ASSUME IInv, NEW c \in Callers, WaitSucceeds(c)
  PROVE  IInv'
  <1>1. TypeOK'
    BY DEF IInv, TypeOK, WaitSucceeds
  <1>2. Distinct'
    BY DEF IInv, TypeOK, Distinct, WaitSucceeds
  <1>3. Fresh'
    BY DEF IInv, TypeOK, Fresh, Held, WaitSucceeds
  <1>4. SetOnce'
    BY DEF IInv, TypeOK, SetOnce, Held, Distinct, WaitSucceeds
  <1>5. Registered'
    BY DEF IInv, TypeOK, Registered, SetOnce, Held, WaitSucceeds
  <1>6. ProcessorServes'
    BY DEF IInv, TypeOK, ProcessorServes, SetOnce, Held, WaitSucceeds
  <1>7. Kept'
    BY DEF IInv, TypeOK, Kept, GaveUpIsOver, WaitSucceeds
  <1>8. GaveUpIsOver'
    BY DEF IInv, TypeOK, GaveUpIsOver, WaitSucceeds
  <1>9. AnswersLeftAreLate'
    BY DEF IInv, TypeOK, AnswersLeftAreLate, Pending, WaitSucceeds
  <1>10. OneHolderPerFlag'
    BY DEF IInv, OneHolderPerFlag, WaitSucceeds
  <1>11. QED
    BY <1>1, <1>2, <1>3, <1>4, <1>5, <1>6, <1>7, <1>8, <1>9, <1>10 DEF IInv

LEMMA WaitTimesOutStep ==
  ASSUME IInv, NEW c \in Callers, WaitTimesOut(c)
  PROVE  IInv'
  <1>1. TypeOK'
    BY DEF IInv, TypeOK, WaitTimesOut
  <1>2. Distinct'
    BY DEF IInv, TypeOK, Distinct, WaitTimesOut
  <1>3. Fresh'
    BY DEF IInv, TypeOK, Fresh, Held, Distinct, WaitTimesOut
  <1>4. SetOnce'
    BY DEF IInv, TypeOK, SetOnce, Held, WaitTimesOut
  <1>5. Registered'
    BY DEF IInv, TypeOK, Registered, WaitTimesOut
  <1>6. ProcessorServes'
    BY DEF IInv, TypeOK, ProcessorServes, WaitTimesOut
  <1>7. Kept'
    BY DEF IInv, TypeOK, Kept, WaitTimesOut
  <1>8. GaveUpIsOver'
    BY DEF IInv, TypeOK, GaveUpIsOver, Distinct, WaitTimesOut
  <1>9. AnswersLeftAreLate'
    BY DEF IInv, TypeOK, AnswersLeftAreLate, Pending, WaitTimesOut
  <1>10. OneHolderPerFlag'
    BY DEF IInv, OneHolderPerFlag, WaitTimesOut
  <1>11. QED
    BY <1>1, <1>2, <1>3, <1>4, <1>5, <1>6, <1>7, <1>8, <1>9, <1>10 DEF IInv

LEMMA ErasesFlagStep ==
  ASSUME IInv, NEW c \in Callers, ErasesFlag(c)
  PROVE  IInv'
  <1>1. TypeOK'
    BY DEF IInv, TypeOK, ErasesFlag
  <1>2. Distinct'
    BY DEF IInv, TypeOK, Distinct, ErasesFlag
  <1>3. Fresh'
    BY DEF IInv, TypeOK, Fresh, Held, ErasesFlag
  <1>4. OneHolderPerFlag'
    BY DEF IInv, TypeOK, OneHolderPerFlag, ErasesFlag
  <1>5. SetOnce'
    BY DEF IInv, TypeOK, SetOnce, Held, ErasesFlag
  <1>6. Registered'
    BY DEF IInv, TypeOK, Registered, Distinct, ErasesFlag
  <1>7. ProcessorServes'
    BY DEF IInv, TypeOK, ProcessorServes, ErasesFlag
  <1>8. Kept'
    BY DEF IInv, TypeOK, Kept, ErasesFlag
  <1>9. GaveUpIsOver'
    BY DEF IInv, TypeOK, GaveUpIsOver, ErasesFlag
  <1>10. AnswersLeftAreLate'
    BY DEF IInv, TypeOK, AnswersLeftAreLate, Pending, ErasesFlag
  <1>11. QED
    BY <1>1, <1>2, <1>3, <1>4, <1>5, <1>6, <1>7, <1>8, <1>9, <1>10 DEF IInv

LEMMA ReturnsStep ==
  ASSUME IInv, NEW c \in Callers, Returns(c)
  PROVE  IInv'
  <1>1. TypeOK'
    BY DEF IInv, TypeOK, Returns
  <1>2. Distinct'
    BY DEF IInv, TypeOK, Distinct, Returns
  <1>3. Fresh'
    BY DEF IInv, TypeOK, Fresh, Held, Returns
  <1>4. SetOnce'
    BY DEF IInv, TypeOK, SetOnce, Held, Returns
  <1>5. Registered'
    BY DEF IInv, TypeOK, Registered, Returns
  <1>6. ProcessorServes'
    BY DEF IInv, TypeOK, ProcessorServes, Returns
  <1>7. Kept'
    BY DEF IInv, TypeOK, Kept, SetOnce, Held, Distinct, GaveUpIsOver, Returns
  <1>8. GaveUpIsOver'
    BY DEF IInv, TypeOK, GaveUpIsOver, Returns
  <1>9. AnswersLeftAreLate'
    BY DEF IInv, TypeOK, AnswersLeftAreLate, Pending, Distinct, Returns
  <1>10. OneHolderPerFlag'
    BY DEF IInv, OneHolderPerFlag, Returns
  <1>11. QED
    BY <1>1, <1>2, <1>3, <1>4, <1>5, <1>6, <1>7, <1>8, <1>9, <1>10 DEF IInv

LEMMA PeerAnswersStep ==
  ASSUME IInv, NEW r \in Requests, PeerAnswers(r)
  PROVE  IInv'
  <1>1. TypeOK'
    BY DEF IInv, TypeOK, PeerAnswers
  <1>2. /\ Distinct' /\ Fresh' /\ OneHolderPerFlag' /\ SetOnce'
        /\ Registered' /\ ProcessorServes' /\ Kept' /\ GaveUpIsOver' /\ AnswersLeftAreLate'
    BY DEF IInv, Distinct, Fresh, Held, OneHolderPerFlag, SetOnce, Registered,
      ProcessorServes, Kept, GaveUpIsOver, AnswersLeftAreLate, Pending,
      PeerAnswers
  <1>3. QED
    BY <1>1, <1>2 DEF IInv

LEMMA TakesAnswerStep ==
  ASSUME IInv, NEW r \in Requests, TakesAnswer(r)
  PROVE  IInv'
  <1>1. TypeOK'
    BY DEF IInv, TypeOK, TakesAnswer
  <1>2. Fresh'
    BY DEF IInv, TypeOK, Fresh, Held, TakesAnswer
  <1>3. OneHolderPerFlag'
    BY DEF IInv, TypeOK, OneHolderPerFlag, TakesAnswer
  <1>4. SetOnce'
    BY DEF IInv, TypeOK, SetOnce, Held, TakesAnswer
  <1>5. Registered'
    BY DEF IInv, TypeOK, Registered, TakesAnswer
  <1>6. ProcessorServes'
    BY DEF IInv, TypeOK, ProcessorServes, Registered, GaveUpIsOver, TakesAnswer
  <1>7. Kept'
    BY DEF IInv, TypeOK, Kept, TakesAnswer
  <1>8. /\ Distinct' /\ GaveUpIsOver' /\ AnswersLeftAreLate'
    BY DEF IInv, Distinct, GaveUpIsOver, AnswersLeftAreLate, Pending,
      TakesAnswer
  <1>9. QED
    BY <1>1, <1>2, <1>3, <1>4, <1>5, <1>6, <1>7, <1>8 DEF IInv

LEMMA StoresAnswerStep ==
  ASSUME IInv, StoresAnswer
  PROVE  IInv'
  <1>1. TypeOK'
    BY DEF IInv, TypeOK, StoresAnswer
  <1>2. Fresh'
    BY DEF IInv, TypeOK, Fresh, Held, StoresAnswer
  <1>3. OneHolderPerFlag'
    BY DEF IInv, TypeOK, OneHolderPerFlag, StoresAnswer
  <1>4. SetOnce'
    BY DEF IInv, TypeOK, SetOnce, Held, StoresAnswer
  <1>5. ProcessorServes'
    BY DEF IInv, TypeOK, ProcessorServes, StoresAnswer
  <1>6. Kept'
    BY DEF IInv, TypeOK, Kept, StoresAnswer
  <1>7. AnswersLeftAreLate'
    BY DEF IInv, TypeOK, AnswersLeftAreLate, Pending, ProcessorServes,
      StoresAnswer
  <1>8. /\ Distinct' /\ Registered' /\ GaveUpIsOver'
    BY DEF IInv, Distinct, Registered, GaveUpIsOver, StoresAnswer
  <1>9. QED
    BY <1>1, <1>2, <1>3, <1>4, <1>5, <1>6, <1>7, <1>8 DEF IInv

LEMMA SignalsAnswerStep ==
  ASSUME IInv, SignalsAnswer
  PROVE  IInv'
  <1>1. TypeOK'
    BY DEF IInv, TypeOK, SignalsAnswer
  <1>2. Fresh'
    BY DEF IInv, TypeOK, Fresh, Held, SignalsAnswer
  <1>3. OneHolderPerFlag'
    BY DEF IInv, TypeOK, OneHolderPerFlag, SignalsAnswer
  <1>4. SetOnce'
    BY DEF IInv, TypeOK, SetOnce, Held, OneHolderPerFlag, SignalsAnswer
  <1>5. ProcessorServes'
    BY DEF IInv, TypeOK, ProcessorServes, SignalsAnswer
  <1>6. Kept'
    BY DEF IInv, TypeOK, Kept, SignalsAnswer
  <1>7. /\ Distinct' /\ Registered' /\ GaveUpIsOver' /\ AnswersLeftAreLate'
    BY DEF IInv, Distinct, Registered, GaveUpIsOver, AnswersLeftAreLate,
      Pending, SignalsAnswer
  <1>8. QED
    BY <1>1, <1>2, <1>3, <1>4, <1>5, <1>6, <1>7 DEF IInv

LEMMA ManagerDisconnectsStep ==
  ASSUME IInv, ManagerDisconnects
  PROVE  IInv'
  <1>1. TypeOK'
    BY DEF IInv, TypeOK, ManagerDisconnects
  <1>2. Fresh'
    BY DEF IInv, TypeOK, Fresh, Held, ManagerDisconnects
  <1>3. OneHolderPerFlag'
    BY DEF IInv, TypeOK, OneHolderPerFlag, ManagerDisconnects
  <1>4. SetOnce'
    BY DEF IInv, TypeOK, SetOnce, Held, ManagerDisconnects
  <1>5. Kept'
    BY DEF IInv, TypeOK, Kept, ManagerDisconnects
  <1>6. /\ Distinct' /\ Registered'
        /\ ProcessorServes' /\ GaveUpIsOver' /\ AnswersLeftAreLate'
    BY DEF IInv, Distinct, Registered, ProcessorServes, GaveUpIsOver,
      AnswersLeftAreLate, Pending, ManagerDisconnects
  <1>7. QED
    BY <1>1, <1>2, <1>3, <1>4, <1>5, <1>6 DEF IInv

LEMMA CoDisconnectStep ==
  ASSUME IInv, CoDisconnect
  PROVE  IInv'
  <1>1. TypeOK'
    BY DEF IInv, TypeOK, CoDisconnect
  <1>2. Fresh'
    BY DEF IInv, TypeOK, Fresh, Held, CoDisconnect
  <1>3. OneHolderPerFlag'
    BY DEF IInv, TypeOK, OneHolderPerFlag, CoDisconnect
  <1>4. SetOnce'
    BY DEF IInv, TypeOK, SetOnce, Held, CoDisconnect
  <1>5. Kept'
    BY DEF IInv, TypeOK, Kept, CoDisconnect
  <1>6. /\ Distinct' /\ Registered'
        /\ ProcessorServes' /\ GaveUpIsOver' /\ AnswersLeftAreLate'
    BY DEF IInv, Distinct, Registered, ProcessorServes, GaveUpIsOver,
      AnswersLeftAreLate, Pending, CoDisconnect
  <1>7. QED
    BY <1>1, <1>2, <1>3, <1>4, <1>5, <1>6 DEF IInv

LEMMA PopsFlagsStep ==
  ASSUME IInv, NEW k \in Cancellers, PopsFlags(k)
  PROVE  IInv'
  <1>1. TypeOK'
    BY DEF IInv, TypeOK, PopsFlags
  <1>2. Fresh'
    BY DEF IInv, TypeOK, Fresh, Held, PopsFlags
  <1>3. OneHolderPerFlag'
    BY DEF IInv, TypeOK, OneHolderPerFlag, PopsFlags
  <1>4. SetOnce'
    BY DEF IInv, TypeOK, SetOnce, Held, PopsFlags
  <1>5. Registered'
    BY DEF IInv, TypeOK, Registered, PopsFlags
  <1>6. Kept'
    BY DEF IInv, TypeOK, Kept, PopsFlags
  <1>7. /\ Distinct' /\ ProcessorServes' /\ GaveUpIsOver' /\ AnswersLeftAreLate'
    BY DEF IInv, Distinct, ProcessorServes, GaveUpIsOver, AnswersLeftAreLate,
      Pending, PopsFlags
  <1>8. QED
    BY <1>1, <1>2, <1>3, <1>4, <1>5, <1>6, <1>7 DEF IInv

LEMMA PopsPackagesStep ==
  ASSUME IInv, NEW k \in Cancellers, PopsPackages(k)
  PROVE  IInv'
  <1>1. TypeOK'
    BY DEF IInv, TypeOK, PopsPackages
  <1>2. Fresh'
    BY DEF IInv, TypeOK, Fresh, Held, PopsPackages
  <1>3. OneHolderPerFlag'
    BY DEF IInv, TypeOK, OneHolderPerFlag, PopsPackages
  <1>4. SetOnce'
    BY DEF IInv, TypeOK, SetOnce, Held, PopsPackages
  <1>5. Kept'
    BY DEF IInv, TypeOK, Kept, PopsPackages
  <1>6. AnswersLeftAreLate'
    BY DEF IInv, TypeOK, AnswersLeftAreLate, Pending, PopsPackages
  <1>7. /\ Distinct' /\ Registered' /\ ProcessorServes' /\ GaveUpIsOver'
    BY DEF IInv, Distinct, Registered, ProcessorServes, GaveUpIsOver,
      PopsPackages
  <1>8. QED
    BY <1>1, <1>2, <1>3, <1>4, <1>5, <1>6, <1>7 DEF IInv

LEMMA SignalsFlagStep ==
  ASSUME IInv, NEW k \in Cancellers, SignalsFlag(k)
  PROVE  IInv'
  <1>1. TypeOK'
    BY DEF IInv, TypeOK, SignalsFlag
  <1>2. Fresh'
    BY DEF IInv, TypeOK, Fresh, Held, SignalsFlag
  <1>3. OneHolderPerFlag'
    BY DEF IInv, TypeOK, OneHolderPerFlag, SignalsFlag
  <1>4. SetOnce'
    BY DEF IInv, TypeOK, SetOnce, Held, OneHolderPerFlag, SignalsFlag
  <1>5. Kept'
    BY DEF IInv, TypeOK, Kept, SignalsFlag
  <1>6. /\ Distinct' /\ Registered'
        /\ ProcessorServes' /\ GaveUpIsOver' /\ AnswersLeftAreLate'
    BY DEF IInv, Distinct, Registered, ProcessorServes, GaveUpIsOver,
      AnswersLeftAreLate, Pending, SignalsFlag
  <1>7. QED
    BY <1>1, <1>2, <1>3, <1>4, <1>5, <1>6 DEF IInv

LEMMA CancelEndsStep ==
  ASSUME IInv, NEW k \in Cancellers, CancelEnds(k)
  PROVE  IInv'
  <1>1. TypeOK'
    BY DEF IInv, TypeOK, CancelEnds
  <1>2. Fresh'
    BY DEF IInv, TypeOK, Fresh, Held, CancelEnds
  <1>3. OneHolderPerFlag'
    BY DEF IInv, TypeOK, OneHolderPerFlag, CancelEnds
  <1>4. SetOnce'
    BY DEF IInv, TypeOK, SetOnce, Held, CancelEnds
  <1>5. Kept'
    BY DEF IInv, TypeOK, Kept, CancelEnds
  <1>6. /\ Distinct' /\ Registered'
        /\ ProcessorServes' /\ GaveUpIsOver' /\ AnswersLeftAreLate'
    BY DEF IInv, Distinct, Registered, ProcessorServes, GaveUpIsOver,
      AnswersLeftAreLate, Pending, CancelEnds
  <1>7. QED
    BY <1>1, <1>2, <1>3, <1>4, <1>5, <1>6 DEF IInv

LEMMA ReconnectsStep ==
  ASSUME IInv, Reconnects
  PROVE  IInv'
  <1>1. TypeOK'
    BY RequestBounds DEF IInv, TypeOK, Reconnects
  <1>2. /\ Distinct' /\ Fresh' /\ OneHolderPerFlag' /\ SetOnce'
        /\ Registered' /\ ProcessorServes' /\ Kept' /\ GaveUpIsOver' /\ AnswersLeftAreLate'
    BY DEF IInv, Distinct, Fresh, Held, OneHolderPerFlag, SetOnce, Registered,
      ProcessorServes, Kept, GaveUpIsOver, AnswersLeftAreLate, Pending,
      Reconnects
  <1>3. QED
    BY <1>1, <1>2 DEF IInv

LEMMA InitStep == Init => IInv
  <1> SUFFICES ASSUME Init PROVE IInv
    OBVIOUS
  <1>1. TypeOK
    <2>1. 0 \in Requests /\ 0 \in 0 .. MaxSession /\ 0 \in 0 .. MaxRequest
      BY RequestBounds
    <2>2. caller \in [Callers -> [at : InSendRequest \cup {"idle"}, request : Requests]]
      BY <2>1 DEF Init
    <2>3. canceller \in [Cancellers -> [at : {"away", "flags", "packages", "signal"},
                                         flags : SUBSET Requests]]
      BY DEF Init
    <2>4. QED
      BY <2>1, <2>2, <2>3 DEF Init, TypeOK
  <1>2. Distinct /\ Fresh /\ OneHolderPerFlag /\ SetOnce /\ Registered
    BY DEF Init, Distinct, Fresh, Held, OneHolderPerFlag, SetOnce, Registered
  <1>3. ProcessorServes /\ Kept /\ GaveUpIsOver /\ AnswersLeftAreLate
    BY DEF Init, ProcessorServes, Kept, GaveUpIsOver, AnswersLeftAreLate
  <1>4. QED
    BY <1>1, <1>2, <1>3 DEF IInv

LEMMA StutterStep ==
  ASSUME IInv, UNCHANGED vars
  PROVE  IInv'
  <1>1. /\ TypeOK' /\ Distinct' /\ Fresh' /\ OneHolderPerFlag' /\ SetOnce'
    BY DEF IInv, vars, TypeOK, Distinct, Fresh, Held, OneHolderPerFlag, SetOnce
  <1>2. /\ Registered' /\ ProcessorServes' /\ Kept' /\ GaveUpIsOver'
        /\ AnswersLeftAreLate'
    BY DEF IInv, vars, Registered, ProcessorServes, Kept, GaveUpIsOver,
           AnswersLeftAreLate, Pending
  <1>3. QED
    BY <1>1, <1>2 DEF IInv

LEMMA NextStep ==
  ASSUME IInv, Next
  PROVE  IInv'
  <1>1. CASE \E c \in Callers : CallerStep(c)
    BY <1>1, SendRequestStep, RegistersStep, SendsStep, WaitSucceedsStep,
       WaitTimesOutStep, ErasesFlagStep, ReturnsStep, Zenon DEF CallerStep
  <1>2. CASE \E r \in Requests : PeerAnswers(r)
    BY <1>2, PeerAnswersStep, Zenon
  <1>3. CASE ProcessorStep
    BY <1>3, TakesAnswerStep, StoresAnswerStep, SignalsAnswerStep, Zenon
    DEF ProcessorStep
  <1>4. CASE \E k \in Cancellers : CancelStep(k)
    BY <1>4, PopsFlagsStep, PopsPackagesStep, SignalsFlagStep, CancelEndsStep, Zenon
    DEF CancelStep
  <1>5. CASE ManagerDisconnects \/ CoDisconnect \/ Reconnects
    BY <1>5, ManagerDisconnectsStep, CoDisconnectStep, ReconnectsStep, Zenon
  <1>6. QED
    BY <1>1, <1>2, <1>3, <1>4, <1>5, Zenon DEF Next

(* IInv is inductive. *)
THEOREM RequestsInvariance == Spec => []IInv
  <1>1. Init => IInv
    BY InitStep
  <1>2. IInv /\ [Next]_vars => IInv'
    BY NextStep, StutterStep, Zenon
  <1>3. QED
    BY <1>1, <1>2, PTL DEF Spec

(* Every variable of SendRequest, CoProcessPackages and CancelPendingRequests *)
(* keeps its type.                                                           *)
THEOREM RequestsTypeCorrect == Spec => []TypeOK
  BY RequestsInvariance, PTL DEF IInv

(* An entry of m_requestAwaitableMap always has a SendRequest that will erase *)
(* it: the map cannot grow with requests that are over.                      *)
THEOREM NoFlagIsEverLeft == Spec => []NoFlagIsLeft
  <1>1. IInv => NoFlagIsLeft
    BY DEF IInv, Registered, NoFlagIsLeft, Pending
  <1>2. QED
    BY RequestsInvariance, <1>1, PTL

(* An entry of m_requestPackageMap is left behind only by a request that     *)
(* timed out while CoProcessPackages had taken its flag.                     *)
THEOREM OnlyLateAnswersAreLeft == Spec => []AnswersLeftAreLate
  BY RequestsInvariance, PTL DEF IInv

(* The map, CoProcessPackages and the two runs of CancelPendingRequests      *)
(* never hold the same flag twice.                                           *)
THEOREM FlagsHaveOneHolder == Spec => []OneHolderPerFlag
  BY RequestsInvariance, PTL DEF IInv

(* SendRequest returns nullopt to a caller that was woken only if a          *)
(* CancelPendingRequests took its flag or its answer.                        *)
THEOREM WokenMeansAnsweredOrCancelled == Spec => EmptyHandedIsCancelled
  <1> DEFINE A == \A c \in Callers :
         (At(c, {"pop"}) /\ Returns(c) /\ caller[c].request \notin packageMap)
             => caller[c].request \in cancelled
  <1>1. IInv => A
    BY DEF IInv, Kept
  <1> HIDE DEF A
  <1>2. IInv /\ [Next]_vars => [A]_vars
    BY <1>1
  <1>3. Spec => [][A]_vars
    BY RequestsInvariance, <1>2, PTL DEF Spec
  <1>4. QED
    BY <1>3 DEF EmptyHandedIsCancelled, A
===============================================================================
