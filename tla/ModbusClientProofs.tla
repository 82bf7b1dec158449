-------------------------- MODULE ModbusClientProofs --------------------------
(* Theorems about ModbusClient, for every value of its constants. *)
EXTENDS ModbusClient, TLAPS, SequenceTheorems

(* ------------------------------ the sequences ----------------------------- *)

Item == Frame \cup {Junk}

(* Ageing keeps a frame a frame, and junk junk. *)
LEMMA OlderType ==
  /\ \A f \in Item : Older(f) \in Item
  /\ \A f \in Frame : Older(f) \in Frame
  BY ClientAssumption, ClientModelValues DEF Item, Older, Frame

(* Ageing a stream ages its elements. *)
LEMMA AllOlderType ==
  ASSUME NEW S, NEW T, \A f \in S : Older(f) \in T, NEW q \in Seq(S)
  PROVE  AllOlder(q) \in Seq(T)
<1>1. \A k \in 1 .. Len(q) : Older(q[k]) \in T
  BY ElementOfSeq
<1>2. Len(q) \in Nat
  BY LenProperties
<1> QED
  BY <1>1, <1>2, IsASeq DEF AllOlder

(* A reading that is broken off leaves some suffix of the stream, aligned or  *)
(* not.                                                                       *)
LEMMA JunkRestType ==
  ASSUME NEW S, Junk \in S, NEW q \in Seq(S), NEW rest \in JunkRests(q)
  PROVE  rest \in Seq(S)
<1>1. PICK k \in 2 .. Len(q) + 1 :
        rest = SubSeq(q, k, Len(q)) \/ rest = <<Junk>> \o SubSeq(q, k, Len(q))
  BY DEF JunkRests
<1>2. SubSeq(q, k, Len(q)) \in Seq(S)
  BY LenProperties, SubSeqProperties
<1>3. <<Junk>> \in Seq(S)
  OBVIOUS
<1> QED
  BY <1>1, <1>2, <1>3, ConcatProperties

(* A flush leaves a suffix, or nothing. *)
LEMMA FlushType ==
  ASSUME NEW S, Junk \in S, rx \in Seq(S), Flush
  PROVE  rx' \in Seq(S)
<1>1. <<>> \in Seq(S)
  OBVIOUS
<1>2. rx' = <<>> \/ rx' \in JunkRests(rx)
  BY DEF Flush
<1> QED
  BY <1>1, <1>2, JunkRestType

(* ---------------------------- types and the link -------------------------- *)

(* A call runs only on an open stream, and the retry loop is never left with  *)
(* RET_IO, so the flush after it finds the stream open: NeedRetry lets only   *)
(* RET_CRC and RET_SKIP reach the end of the loop.                            *)
LinkInv ==
  /\ connected <=> io = "open"
  /\ pc # "idle" => connected
  /\ pc = "judge" => ret \in Returns
  /\ pc \in {"exhausted", "flush"} => ret \in {"OK", "CRC", "SKIP"}

BaseInv == TypeOK /\ LinkInv

(* The empty queue and the frame of a new request have their types. *)
LEMMA RequestType ==
  ASSUME TypeOK
  PROVE  /\ NextTid(tid) \in Tids
         /\ Request \in Frame
<1>1. NextTid(tid) \in Tids
  BY ClientAssumption DEF TypeOK, NextTid, Tids
<1>2. op.fc \in Codes /\ op.count \in {o.count : o \in Ops}
  BY DEF TypeOK, Codes
<1> QED
  BY <1>1, <1>2, ClientAssumption DEF TypeOK, Request, Frame

(* Something going wrong, or not, leaves a typed budget. *)
LEMMA SpendType ==
  ASSUME TypeOK, (\E k \in {"write", "slow", "late", "partial"} : Spend(k)) \/ UNCHANGED faults
  PROVE  faults' \in [left : 0 .. MaxFaults, disturbed : BOOLEAN]
<1>1. ASSUME NEW k, Spend(k)
      PROVE  faults' \in [left : 0 .. MaxFaults, disturbed : BOOLEAN]
  BY <1>1, ClientAssumption DEF Spend, TypeOK
<1> QED
  BY <1>1 DEF TypeOK

LEMMA BaseInit == Init => BaseInv
  BY ClientAssumption
  DEF Init, BaseInv, TypeOK, LinkInv, Tids, Steps, Returns

LEMMA SettingsBase ==
  ASSUME BaseInv,
         (\E s \in Slaves : SetSlave(s)) \/ (\E b \in BOOLEAN : SetAutoReconnect(b))
  PROVE  BaseInv'
  BY DEF BaseInv, TypeOK, LinkInv, SetSlave, SetAutoReconnect, link, call, line

LEMMA CallBase ==
  ASSUME BaseInv, NEW o \in Ops, Call(o)
  PROVE  BaseInv'
<1>1. 0 \in Tids /\ "OK" \in Returns /\ "IO" \in Returns
  BY ClientAssumption DEF Tids, Returns
<1>2. LoopHead(0) \in {"send", "exhausted"}
  BY DEF LoopHead
<1>3. CASE CallConnected(o)
  BY <1>1, <1>2, <1>3
  DEF BaseInv, TypeOK, LinkInv, CallConnected, StartCall, EnterLoop, link, line, Steps
<1>4. CASE CallWithoutReconnect(o)
  BY <1>1, <1>4
  DEF BaseInv, TypeOK, LinkInv, CallWithoutReconnect, StartCall, link, line
<1>5. CASE CallConnectFails(o)
  BY <1>1, <1>5, ClientAssumption
  DEF BaseInv, TypeOK, LinkInv, CallConnectFails, StartCall, Spend, link
<1>6. CASE CallReconnects(o)
  BY <1>1, <1>2, <1>6
  DEF BaseInv, TypeOK, LinkInv, CallReconnects, StartCall, EnterLoop, line, Steps
<1> QED
  BY <1>3, <1>4, <1>5, <1>6 DEF Call

LEMMA SendBase ==
  ASSUME BaseInv, Send
  PROVE  BaseInv'
<1>1. TypeOK
  BY DEF BaseInv
<1>2. rx' \in Seq(Item) /\ AllOlder(pending) \in Seq(Frame)
  BY <1>1, OlderType, AllOlderType DEF Send, TypeOK, Item
<1>3. pending' \in Seq(Frame)
  BY <1>1, <1>2, RequestType, AppendProperties DEF Send
<1>4. faults' \in [left : 0 .. MaxFaults, disturbed : BOOLEAN]
  BY <1>1, SpendType DEF Send
<1> QED
  BY <1>1, <1>2, <1>3, <1>4, RequestType
  DEF BaseInv, TypeOK, LinkInv, Send, link, call, Steps, Returns, Item

LEMMA CheckTimeoutBase ==
  ASSUME BaseInv, CheckTimeout
  PROVE  BaseInv'
<1>1. faults' \in [left : 0 .. MaxFaults, disturbed : BOOLEAN]
  BY SpendType DEF BaseInv, CheckTimeout
<1> QED
  BY <1>1 DEF BaseInv, TypeOK, LinkInv, CheckTimeout, link, call, Steps, Returns

(* Recv leaves in the stream what was in it, and at most junk besides, hands   *)
(* out a frame only with RET_OK, and only one that passed the checks.         *)
Outcome(S, P, r, rest, a) ==
  /\ Received(r, rest, a)
  /\ r \in Returns /\ rest \in Seq(S) /\ a \in (S \ {Junk}) \cup {None}
  /\ pending' \in Seq(P)
  /\ r = "OK" => a \in S \ {Junk} /\ BelongsToRequest(a)
  /\ r # "OK" => a = None

LEMMA RecvOutcome ==
  ASSUME NEW S, NEW P, Junk \in S, rx \in Seq(S), pending \in Seq(P), Recv
  PROVE  \E r, rest, a : Outcome(S, P, r, rest, a)
<1>1. <<>> \in Seq(S) /\ <<Junk>> \in Seq(S)
  OBVIOUS
<1>2. rx # <<>> => /\ Tail(rx) \in Seq(S)
                   /\ <<Junk>> \o Tail(rx) \in Seq(S)
                   /\ Head(rx) \in S
  BY <1>1, HeadTailProperties, ConcatProperties
<1>3. ASSUME NEW r \in Returns \ {"OK"}, NEW rest \in Seq(S),
             Received(r, rest, None), pending' \in Seq(P)
      PROVE  \E q, a : Outcome(S, P, r, q, a)
  BY <1>3 DEF Outcome
<1>4. UNCHANGED pending => pending' \in Seq(P)
  OBVIOUS
<1>5. CASE RecvNothing
  BY <1>1, <1>3, <1>4, <1>5 DEF RecvNothing, Returns
<1>6. CASE RecvPartial
  <2>1. PICK r \in {"IO", "FAIL", "CRC"} : Received(r, <<Junk>>, None)
    BY <1>6 DEF RecvPartial
  <2>2. pending' \in Seq(P)
    BY <1>6, HeadTailProperties DEF RecvPartial
  <2> QED
    BY <1>1, <1>3, <2>1, <2>2 DEF Returns
<1>7. CASE RecvOtherTid
  BY <1>2, <1>3, <1>4, <1>7 DEF RecvOtherTid, FrameAtHead, Returns
<1>8. CASE RecvOtherSlave
  <2>1. PICK rest \in JunkRests(rx) : Received("SKIP", rest, None)
    BY <1>8 DEF RecvOtherSlave
  <2>2. rest \in Seq(S) /\ pending' \in Seq(P)
    BY <1>4, <1>8, JunkRestType DEF RecvOtherSlave
  <2> QED
    BY <1>3, <2>1, <2>2 DEF Returns
<1>9. CASE RecvOtherFunction
  BY <1>2, <1>3, <1>4, <1>9 DEF RecvOtherFunction, FromOurSlave, FrameAtHead, Returns
<1>10. CASE RecvException
  BY <1>2, <1>3, <1>4, <1>10 DEF RecvException, FromOurSlave, FrameAtHead, Returns
<1>11. CASE RecvGarbled
  <2>1. rx # <<>>
    BY <1>11 DEF RecvGarbled, FromOurSlave, FrameAtHead
  <2>2. PICK r \in {"CRC", "IO"}, rest \in {Tail(rx), <<Junk>> \o Tail(rx)} :
          Received(r, rest, None)
    BY <1>11 DEF RecvGarbled
  <2>3. r \in Returns \ {"OK"} /\ rest \in Seq(S) /\ pending' \in Seq(P)
    BY <1>2, <1>4, <1>11, <2>1 DEF RecvGarbled, Returns
  <2> QED
    BY <1>3, <2>2, <2>3
<1>12. CASE RecvAnswer
  <2>1. rx # <<>> /\ Head(rx) # Junk /\ BelongsToRequest(Head(rx))
    BY <1>12 DEF RecvAnswer, FromOurSlave, FrameAtHead
  <2>2. CASE Received("OK", Tail(rx), Head(rx))
    <3>1. Outcome(S, P, "OK", Tail(rx), Head(rx))
      BY <1>2, <1>4, <1>12, <2>1, <2>2 DEF Outcome, RecvAnswer, Returns
    <3> QED
      BY <3>1
  <2>3. CASE Received("BAD_PARAMS", Tail(rx), None)
    BY <1>2, <1>3, <1>4, <1>12, <2>1, <2>3 DEF RecvAnswer, Returns
  <2> QED
    BY <1>12, <2>2, <2>3 DEF RecvAnswer
<1>13. CASE RecvJunk
  <2>1. PICK r \in {"IO", "FAIL", "CRC", "SKIP"}, rest \in JunkRests(rx) :
          Received(r, rest, None)
    BY <1>13 DEF RecvJunk
  <2>2. rest \in Seq(S) /\ r \in Returns \ {"OK"} /\ pending' \in Seq(P)
    BY <1>4, <1>13, JunkRestType DEF RecvJunk, Returns
  <2> QED
    BY <1>3, <2>1, <2>2
<1> QED
  BY <1>5, <1>6, <1>7, <1>8, <1>9, <1>10, <1>11, <1>12, <1>13 DEF Recv

LEMMA RecvBase ==
  ASSUME BaseInv, Recv
  PROVE  BaseInv'
<1>1. Junk \in Item /\ rx \in Seq(Item) /\ pending \in Seq(Frame) /\ Item \ {Junk} \subseteq Frame
  BY DEF BaseInv, TypeOK, Item
<1>2. PICK r, rest, a : Outcome(Item, Frame, r, rest, a)
  BY <1>1, RecvOutcome
<1>3. faults' \in [left : 0 .. MaxFaults, disturbed : BOOLEAN]
  BY SpendType
  DEF BaseInv, Recv, RecvNothing, RecvPartial, RecvOtherTid, RecvOtherSlave,
      RecvOtherFunction, RecvException, RecvGarbled, RecvAnswer, RecvJunk
<1>4. Reported(r) \in Returns
  BY <1>2 DEF Outcome, Reported, Returns
<1>5. answer' \in Frame \cup {None} /\ rx' \in Seq(Frame \cup {Junk})
  BY <1>1, <1>2 DEF Outcome, Received, Item
<1> QED
  BY <1>2, <1>3, <1>4, <1>5
  DEF BaseInv, TypeOK, LinkInv, Outcome, Received, link, call, Steps

LEMMA AfterAttemptBase ==
  ASSUME BaseInv, Retry \/ Return \/ Exhausted \/ Flush
  PROVE  BaseInv'
<1>1. CASE Retry
  <2>1. LoopHead(attempt + 1) \in {"send", "exhausted"} /\ attempt + 1 \in Nat
    BY DEF LoopHead, BaseInv, TypeOK
  <2> QED
    BY <1>1, <2>1 DEF BaseInv, TypeOK, LinkInv, Retry, NeedRetry, link, line, Steps
<1>2. CASE Return
  <2>1. CASE ret = "IO" /\ connected
    <3>1. rx' \in Seq(Frame \cup {Junk}) /\ pending' \in Seq(Frame)
      <4>1. <<>> \in Seq(Frame \cup {Junk}) /\ <<>> \in Seq(Frame) /\ pending \in Seq(Frame)
        BY DEF BaseInv, TypeOK
      <4>2. rx' = <<>> /\ pending' = IF Transport = "serial" THEN pending ELSE <<>>
        BY <1>2, <2>1 DEF Return, CheckConnectStatus
      <4> QED
        BY <4>1, <4>2
    <3>2. connected' = FALSE /\ io' = "closed" /\ UNCHANGED <<autoReconnect, faults>>
      BY <1>2, <2>1 DEF Return, CheckConnectStatus
    <3> QED
      BY <1>2, <3>1, <3>2 DEF BaseInv, TypeOK, LinkInv, Return, call, Steps
  <2>2. CASE ~(ret = "IO" /\ connected)
    BY <1>2, <2>2
    DEF BaseInv, TypeOK, LinkInv, Return, CheckConnectStatus, link, line, call, Steps
  <2> QED
    BY <2>1, <2>2
<1>3. CASE Exhausted
  BY <1>3
  DEF BaseInv, TypeOK, LinkInv, Exhausted, CheckConnectStatus, link, line, call, Steps
<1>4. CASE Flush
  <2>1. rx' \in Seq(Frame \cup {Junk})
    BY <1>4, FlushType DEF BaseInv, TypeOK
  <2> QED
    BY <1>4, <2>1 DEF BaseInv, TypeOK, LinkInv, Flush, link, call, Steps
<1> QED
  BY <1>1, <1>2, <1>3, <1>4

LEMMA FarEndBase ==
  ASSUME BaseInv, FarEnd
  PROVE  BaseInv'
<1>1. TypeOK /\ pending # <<>>
  BY DEF BaseInv, FarEnd, Answer, Lose, AnswerException, AnswerAsOther, AnswerGarbled, Deliver
<1>2. Head(pending) \in Frame /\ Tail(pending) \in Seq(Frame)
  BY <1>1, HeadTailProperties DEF TypeOK
<1>3. ASSUME NEW k, Spend(k)
      PROVE  faults' \in [left : 0 .. MaxFaults, disturbed : BOOLEAN]
  BY <1>1, <1>3, ClientAssumption DEF Spend, TypeOK
<1>4. ASSUME NEW f \in Frame, Deliver(f),
             faults' \in [left : 0 .. MaxFaults, disturbed : BOOLEAN]
      PROVE  BaseInv'
  <2>1. rx' \in Seq(Item)
    BY <1>1, <1>4, AppendProperties DEF Deliver, TypeOK, Item
  <2> QED
    BY <1>2, <1>4, <2>1 DEF BaseInv, TypeOK, LinkInv, Deliver, link, call, Item
<1>5. CASE Answer
  BY <1>1, <1>2, <1>4, <1>5 DEF Answer, TypeOK
<1>6. CASE Lose
  BY <1>2, <1>3, <1>6 DEF BaseInv, TypeOK, LinkInv, Lose, link, call
<1>7. CASE AnswerException
  <2>1. [Head(pending) EXCEPT !.exception = TRUE] \in Frame
    BY <1>2 DEF Frame
  <2> QED
    BY <1>3, <1>4, <1>7, <2>1 DEF AnswerException
<1>8. CASE AnswerAsOther
  <2>1. [Head(pending) EXCEPT !.slave = Alien] \in Frame
    BY <1>2 DEF Frame
  <2> QED
    BY <1>3, <1>4, <1>8, <2>1 DEF AnswerAsOther
<1>9. CASE AnswerGarbled
  <2>1. PICK c \in {Head(pending).fc, Alien} :
          Deliver([Head(pending) EXCEPT !.fc = c, !.intact = FALSE])
    BY <1>9 DEF AnswerGarbled
  <2>2. [Head(pending) EXCEPT !.fc = c, !.intact = FALSE] \in Frame
    BY <1>2 DEF Frame, Codes
  <2> QED
    BY <1>3, <1>4, <1>9, <2>1, <2>2 DEF AnswerGarbled
<1> QED
  BY <1>5, <1>6, <1>7, <1>8, <1>9 DEF FarEnd

LEMMA BaseStep == BaseInv /\ [Next]_vars => BaseInv'
<1> SUFFICES ASSUME BaseInv, [Next]_vars PROVE BaseInv'
  OBVIOUS
<1>1. CASE UNCHANGED vars
  BY <1>1 DEF BaseInv, TypeOK, LinkInv, vars
<1>2. CASE Next
  BY <1>2, SettingsBase, CallBase, SendBase, CheckTimeoutBase, RecvBase,
     AfterAttemptBase, FarEndBase
  DEF Next, ClientStep
<1> QED
  BY <1>1, <1>2

(* The base invariant holds in every state. *)
LEMMA BaseInvariant == Spec => []BaseInv
  BY BaseInit, BaseStep, PTL DEF Spec

(* The fields keep their types (TypeOK). *)
THEOREM TypeCorrect == Spec => []TypeOK
<1>1. BaseInv => TypeOK
  BY DEF BaseInv
<1> QED
  BY <1>1, BaseInvariant, PTL

(* No step of a call uses a released stream (OnlyOpenIoUsed), for any number  *)
(* of retries: the flush after the loop of modbus_client_read_bits and its    *)
(* like is safe because RET_IO leaves the loop early.                         *)
THEOREM ReleasedIoUnused == Spec => []OnlyOpenIoUsed
<1>1. BaseInv => OnlyOpenIoUsed
  BY DEF BaseInv, LinkInv, OnlyOpenIoUsed
<1> QED
  BY <1>1, BaseInvariant, PTL

(* ------------------------- how a call comes to an end ----------------------- *)

(* What a call has returned says whether the connection is there              *)
(* (ReturnTellsLink), on every transport and for every number of retries.     *)
LEMMA TellsStep ==
  ASSUME BaseInv, ReturnTellsLink, [Next]_vars
  PROVE  ReturnTellsLink'
<1>1. CASE UNCHANGED vars
  BY <1>1 DEF ReturnTellsLink, vars
<1>2. ASSUME NEW o \in Ops, Call(o)
      PROVE  ReturnTellsLink'
  BY <1>2 DEF Call, CallConnected, CallWithoutReconnect, CallConnectFails, CallReconnects,
              StartCall, EnterLoop, LoopHead, link, ReturnTellsLink
<1>3. CASE Return
  BY <1>3 DEF Return, CheckConnectStatus, link, BaseInv, LinkInv, ReturnTellsLink
<1>4. CASE Flush
  BY <1>4 DEF Flush, link, BaseInv, LinkInv, ReturnTellsLink
<1>5. CASE Send \/ CheckTimeout \/ Recv \/ Retry \/ Exhausted
  <2>1. Recv => pc' = "judge"
    BY DEF Recv, RecvNothing, RecvPartial, RecvOtherTid, RecvOtherSlave, RecvOtherFunction,
           RecvException, RecvGarbled, RecvAnswer, RecvJunk, Received
  <2> QED
    BY <1>5, <2>1 DEF Send, CheckTimeout, Retry, LoopHead, Exhausted, ReturnTellsLink
<1>6. CASE FarEnd \/ (\E s \in Slaves : SetSlave(s)) \/ (\E b \in BOOLEAN : SetAutoReconnect(b))
  BY <1>6 DEF FarEnd, Answer, Lose, AnswerException, AnswerAsOther, AnswerGarbled, Deliver,
              SetSlave, SetAutoReconnect, link, ReturnTellsLink
<1> QED
  BY <1>1, <1>2, <1>3, <1>4, <1>5, <1>6 DEF Next, ClientStep

(* RET_IO is returned if and only if there is no connection left.             *)
THEOREM IoMeansDisconnected == Spec => []ReturnTellsLink
<1>1. Init => ReturnTellsLink
  BY DEF Init, ReturnTellsLink
<1>2. BaseInv /\ ReturnTellsLink /\ [Next]_vars => ReturnTellsLink'
  BY TellsStep
<1> QED
  BY <1>1, <1>2, BaseInvariant, PTL DEF Spec

(* Within the loop there is an attempt left.                                  *)
AttemptInv == pc \in {"send", "check", "recv", "judge"} => attempt < RetryTimes

(* The own steps of a call, and where they lead. *)
OwnStep ==
  \/ pc = "send" /\ pc' \in {"check", "judge"} /\ attempt' = attempt
  \/ pc = "check" /\ pc' \in {"recv", "judge"} /\ attempt' = attempt
  \/ pc = "recv" /\ pc' = "judge" /\ attempt' = attempt
  \/ pc = "judge" /\ pc' = LoopHead(attempt + 1) /\ attempt' = attempt + 1
  \/ pc = "judge" /\ pc' = "idle"
  \/ pc = "exhausted" /\ pc' = "flush"
  \/ pc = "flush" /\ pc' = "idle"

(* A step begins a call, is one of its own, or leaves it where it is. *)
LEMMA StepKinds ==
  ASSUME [Next]_vars
  PROVE  \/ pc = "idle" /\ (pc' = "idle" \/ (pc' = LoopHead(0) /\ attempt' = 0))
         \/ OwnStep
         \/ UNCHANGED <<link, slave, tid, pc, call, ret, answer>>
<1>1. CASE UNCHANGED vars
  BY <1>1 DEF vars, link, call
<1>2. ASSUME NEW o \in Ops, Call(o)
      PROVE  pc = "idle" /\ (pc' = "idle" \/ (pc' = LoopHead(0) /\ attempt' = 0))
  BY <1>2 DEF Call, CallConnected, CallWithoutReconnect, CallConnectFails, CallReconnects,
              StartCall, EnterLoop
<1>3. CASE (\E s \in Slaves : SetSlave(s)) \/ (\E b \in BOOLEAN : SetAutoReconnect(b))
  BY <1>3 DEF SetSlave, SetAutoReconnect
<1>4. Recv => pc = "recv" /\ pc' = "judge" /\ attempt' = attempt
  BY DEF Recv, RecvNothing, RecvPartial, RecvOtherTid, RecvOtherSlave, RecvOtherFunction,
         RecvException, RecvGarbled, RecvAnswer, RecvJunk, Received, call
<1>5. ClientStep => OwnStep
  BY <1>4 DEF ClientStep, OwnStep, Send, CheckTimeout, Retry, Return, Exhausted, Flush, call
<1>6. FarEnd => UNCHANGED <<link, slave, tid, pc, call, ret, answer>>
  BY DEF FarEnd, Answer, Lose, AnswerException, AnswerAsOther, AnswerGarbled, Deliver
<1> QED
  BY <1>1, <1>2, <1>3, <1>5, <1>6 DEF Next

LEMMA AttemptStep ==
  ASSUME TypeOK, AttemptInv, [Next]_vars
  PROVE  AttemptInv'
<1>1. attempt \in Nat /\ RetryTimes \in Nat
  BY ClientAssumption DEF TypeOK
<1>2. CASE pc = "idle" /\ (pc' = "idle" \/ (pc' = LoopHead(0) /\ attempt' = 0))
  BY <1>1, <1>2 DEF AttemptInv, LoopHead
<1>3. CASE OwnStep
  BY <1>1, <1>3 DEF AttemptInv, OwnStep, LoopHead
<1>4. CASE UNCHANGED <<link, slave, tid, pc, call, ret, answer>>
  BY <1>4 DEF AttemptInv, call
<1> QED
  BY <1>2, <1>3, <1>4, StepKinds

(* A call sends retry_times requests at most, and takes four steps for each   *)
(* and two more before it returns (CallsAreBounded): with the timeouts of     *)
(* every read and write, it ends.                                             *)
THEOREM CallsEnd == Spec => CallsAreBounded
<1> DEFINE Bounded ==
             IF pc = "idle" THEN StepsLeft' <= 4 * RetryTimes + 2
             ELSE \/ 0 <= StepsLeft' /\ StepsLeft' < StepsLeft
                  \/ UNCHANGED <<link, slave, tid, pc, call, ret, answer>>
<1>1. Init => AttemptInv
  BY DEF Init, AttemptInv
<1>2. BaseInv /\ AttemptInv /\ [Next]_vars => AttemptInv'
  BY AttemptStep DEF BaseInv
<1>3. BaseInv /\ AttemptInv /\ [Next]_vars => Bounded
  <2> SUFFICES ASSUME BaseInv, AttemptInv, [Next]_vars PROVE Bounded
    OBVIOUS
  <2>1. /\ attempt \in Nat /\ RetryTimes \in Nat /\ pc \in Steps
        /\ attempt' \in Nat /\ pc' \in Steps
    BY BaseStep, ClientAssumption DEF BaseInv, TypeOK
  <2>2. CASE pc = "idle" /\ (pc' = "idle" \/ (pc' = LoopHead(0) /\ attempt' = 0))
    BY <2>1, <2>2 DEF StepsLeft, LoopHead
  <2>3. CASE OwnStep
    <3>1. AttemptInv'
      BY AttemptStep DEF BaseInv
    <3>2. 0 <= StepsLeft'
      BY <2>1, <3>1 DEF AttemptInv, StepsLeft, Steps
    <3>3. pc # "idle" /\ StepsLeft' < StepsLeft
      BY <2>1, <2>3 DEF OwnStep, AttemptInv, StepsLeft, LoopHead
    <3> QED
      BY <3>2, <3>3
  <2>4. CASE UNCHANGED <<link, slave, tid, pc, call, ret, answer>>
    BY <2>1, <2>4 DEF StepsLeft, call
  <2> QED
    BY <2>2, <2>3, <2>4, StepKinds
<1> QED
  BY <1>1, <1>2, <1>3, BaseInvariant, PTL DEF Spec, CallsAreBounded

(* ----------------------- tcp: whose answer is it --------------------------- *)

(* The transaction id of a frame of the given age, counted back from t: what  *)
(* modbus_common_update_transaction_id gave its request.                      *)
Back(t, age) == IF age <= t THEN t - age ELSE t - age + TidMod

Fits(t, f) == f.age < TidMod => f.tid = Back(t, f.age)

FitFrame(t) == {f \in Frame : Fits(t, f)}

FitItem(t) == FitFrame(t) \cup {Junk}

(* On tcp every frame on its way belongs to the current connection, so its id *)
(* tells its age up to one turn of the counter.  An early return after a      *)
(* timeout leaves such frames unread, which is why this must be said of the   *)
(* whole stream and not of its head.                                          *)
StreamInv == rx \in Seq(FitItem(tid)) /\ pending \in Seq(FitFrame(tid))

ClosedInv == ~connected => rx = <<>> /\ pending = <<>>

AnswerInv ==
  /\ answer # None => AnswersLastRequest(answer)
  /\ pc \in {"judge", "idle"} /\ ret = "OK" => answer # None
  /\ pc \in {"exhausted", "flush"} => ret \in {"CRC", "SKIP"}

TcpInv == BaseInv /\ StreamInv /\ ClosedInv /\ AnswerInv

(* The ids of the frames on their way go with the counter, across its wrap.   *)
LEMMA OlderFits ==
  ASSUME NEW t \in Tids
  PROVE  /\ \A f \in FitFrame(t) : Older(f) \in FitFrame(NextTid(t))
         /\ \A f \in FitItem(t) : Older(f) \in FitItem(NextTid(t))
<1>1. ASSUME NEW f \in FitFrame(t)
      PROVE  Older(f) \in FitFrame(NextTid(t))
  <2>1. f \in Frame /\ Fits(t, f) /\ f # Junk /\ Older(f) \in Frame
    BY ClientModelValues, OlderType DEF FitFrame
  <2>2. f.age \in 0 .. TidMod /\ t \in 0 .. TidMod - 1 /\ TidMod \in Nat
    BY <2>1, ClientAssumption DEF Frame, Tids
  <2>3. /\ Older(f).age = IF f.age < TidMod THEN f.age + 1 ELSE TidMod
        /\ Older(f).tid = f.tid
    BY <2>1 DEF Older, Frame
  <2>4. ASSUME f.age + 1 < TidMod
        PROVE  f.tid = Back(NextTid(t), f.age + 1)
    BY <2>1, <2>2, <2>4 DEF Fits, Back, NextTid
  <2>5. Fits(NextTid(t), Older(f))
    BY <2>2, <2>3, <2>4 DEF Fits
  <2> QED
    BY <2>1, <2>5 DEF FitFrame
<1>2. Older(Junk) = Junk
  BY DEF Older
<1> QED
  BY <1>1, <1>2 DEF FitItem

(* A frame with the id of the last request is its answer, or a whole turn old. *)
LEMMA SameTid ==
  ASSUME NEW t \in Tids, NEW f \in FitFrame(t), f.tid = t
  PROVE  f.age = 0 \/ f.age = TidMod
<1>1. f.age \in 0 .. TidMod /\ t \in 0 .. TidMod - 1 /\ TidMod \in Nat
  BY ClientAssumption DEF FitFrame, Frame, Tids
<1> QED
  BY <1>1 DEF FitFrame, Fits, Back

LEMMA TcpInit == IsTcp => (Init => TcpInv)
  BY BaseInit DEF Init, TcpInv, StreamInv, ClosedInv, AnswerInv

LEMMA TcpSettings ==
  ASSUME TcpInv,
         (\E s \in Slaves : SetSlave(s)) \/ (\E b \in BOOLEAN : SetAutoReconnect(b))
  PROVE  StreamInv' /\ ClosedInv' /\ AnswerInv'
<1>1. UNCHANGED <<connected, tid, pc, ret, answer, rx, pending>>
  BY DEF SetSlave, SetAutoReconnect, link, line
<1> QED
  BY <1>1 DEF TcpInv, StreamInv, ClosedInv, AnswerInv

LEMMA TcpCall ==
  ASSUME TcpInv, RetryTimes > 0, NEW o \in Ops, Call(o)
  PROVE  StreamInv' /\ ClosedInv' /\ AnswerInv'
<1>1. LoopHead(0) = "send"
  BY DEF LoopHead
<1>2. CASE CallConnected(o)
  BY <1>1, <1>2
  DEF TcpInv, StreamInv, ClosedInv, AnswerInv, CallConnected, StartCall, EnterLoop, link, line
<1>3. CASE CallWithoutReconnect(o)
  BY <1>3 DEF TcpInv, BaseInv, StreamInv, ClosedInv, AnswerInv, CallWithoutReconnect,
              StartCall, link, line
<1>4. CASE CallConnectFails(o)
  BY <1>4 DEF TcpInv, BaseInv, StreamInv, ClosedInv, AnswerInv, CallConnectFails,
              StartCall, link
<1>5. CASE CallReconnects(o)
  <2>1. rx' = <<>> /\ pending' = <<>>
    BY <1>5 DEF TcpInv, ClosedInv, CallReconnects, line
  <2> QED
    BY <1>1, <1>5, <2>1
    DEF StreamInv, ClosedInv, AnswerInv, CallReconnects, StartCall, EnterLoop
<1> QED
  BY <1>2, <1>3, <1>4, <1>5 DEF Call

LEMMA TcpSend ==
  ASSUME TcpInv, Send
  PROVE  StreamInv' /\ ClosedInv' /\ AnswerInv'
<1>1. tid \in Tids /\ TypeOK /\ connected
  BY DEF TcpInv, BaseInv, TypeOK, LinkInv, Send
<1>2. rx' \in Seq(FitItem(tid')) /\ AllOlder(pending) \in Seq(FitFrame(tid'))
  BY <1>1, OlderFits, AllOlderType DEF TcpInv, StreamInv, Send
<1>3. Request \in FitFrame(tid')
  <2>1. Request.age = 0 /\ Request.tid = tid' /\ tid' \in Tids
    BY <1>1, RequestType DEF Request, Send
  <2> QED
    BY <1>1, <2>1, RequestType, ClientAssumption DEF FitFrame, Fits, Back, Tids
<1>4. pending' \in Seq(FitFrame(tid'))
  BY <1>2, <1>3, AppendProperties DEF Send
<1>5. UNCHANGED <<connected, answer>> /\ pc' \in {"check", "judge"} /\ (pc' = "judge" => ret' = "IO")
  BY DEF Send, link
<1> QED
  BY <1>1, <1>2, <1>4, <1>5 DEF TcpInv, StreamInv, ClosedInv, AnswerInv

LEMMA TcpRecv ==
  ASSUME IsTcp, TcpInv, Recv
  PROVE  StreamInv' /\ ClosedInv' /\ AnswerInv'
<1>1. PICK r, rest, a : Outcome(FitItem(tid), FitFrame(tid), r, rest, a)
  BY RecvOutcome DEF TcpInv, StreamInv, FitItem
<1>2. /\ pc = "recv" /\ pc' = "judge" /\ UNCHANGED <<connected, tid>>
      /\ ret' = Reported(r) /\ answer' = a /\ rx' = rest
      /\ rest \in Seq(FitItem(tid)) /\ pending' \in Seq(FitFrame(tid))
  BY <1>1 DEF Outcome, Received, link
<1>3. ret' = "OK" => r = "OK"
  BY <1>2 DEF Reported
<1>4. r = "OK" => a # None /\ AnswersLastRequest(a)
  <2> SUFFICES ASSUME r = "OK" PROVE a # None /\ AnswersLastRequest(a)
    OBVIOUS
  <2>1. a \in FitFrame(tid) /\ a.tid = tid
    BY <1>1 DEF Outcome, FitItem, BelongsToRequest
  <2>2. a # None
    BY <2>1, ClientModelValues DEF FitFrame
  <2>3. a.age = 0 \/ a.age = TidMod
    BY <2>1, SameTid DEF TcpInv, BaseInv, TypeOK
  <2> QED
    BY <2>2, <2>3 DEF AnswersLastRequest
<1>5. r # "OK" => a = None
  BY <1>1 DEF Outcome
<1>6. connected
  BY <1>2 DEF TcpInv, BaseInv, LinkInv
<1> QED
  BY <1>2, <1>3, <1>4, <1>5, <1>6 DEF StreamInv, ClosedInv, AnswerInv

LEMMA TcpAfterAttempt ==
  ASSUME IsTcp, TcpInv, RetryTimes > 0, CheckTimeout \/ Retry \/ Return \/ Exhausted \/ Flush
  PROVE  StreamInv' /\ ClosedInv' /\ AnswerInv'
<1>1. CASE CheckTimeout
  BY <1>1 DEF TcpInv, StreamInv, ClosedInv, AnswerInv, CheckTimeout, link
<1>2. CASE Retry
  <2>1. LoopHead(attempt + 1) \in {"send", "exhausted"}
    BY DEF LoopHead
  <2> QED
    BY <1>2, <2>1 DEF TcpInv, StreamInv, ClosedInv, AnswerInv, Retry, NeedRetry, link, line
<1>3. ASSUME CheckConnectStatus, UNCHANGED tid
      PROVE  StreamInv' /\ ClosedInv'
  <2>1. CASE ret = "IO" /\ connected
    <3>1. rx' = <<>> /\ pending' = <<>>
      BY <1>3, <2>1 DEF CheckConnectStatus, IsTcp
    <3> QED
      BY <3>1 DEF StreamInv, ClosedInv
  <2>2. CASE ~(ret = "IO" /\ connected)
    <3>1. UNCHANGED <<link, line>>
      BY <1>3, <2>2 DEF CheckConnectStatus
    <3> QED
      BY <1>3, <3>1 DEF TcpInv, StreamInv, ClosedInv, link, line
  <2> QED
    BY <2>1, <2>2
<1>4. CASE Return
  BY <1>3, <1>4 DEF TcpInv, AnswerInv, Return
<1>5. CASE Exhausted
  BY <1>3, <1>5 DEF TcpInv, AnswerInv, Exhausted
<1>6. CASE Flush
  <2>1. UNCHANGED <<connected, tid, ret, answer, pending>> /\ pc' = "idle" /\ pc = "flush"
    BY <1>6 DEF Flush, link
  <2>2. rx' \in Seq(FitItem(tid))
    BY <1>6, FlushType DEF TcpInv, StreamInv, FitItem
  <2>3. connected
    BY <2>1 DEF TcpInv, BaseInv, LinkInv
  <2> QED
    BY <2>1, <2>2, <2>3 DEF TcpInv, StreamInv, ClosedInv, AnswerInv
<1> QED
  BY <1>1, <1>2, <1>4, <1>5, <1>6

LEMMA TcpFarEnd ==
  ASSUME IsTcp, TcpInv, FarEnd
  PROVE  StreamInv' /\ ClosedInv' /\ AnswerInv'
<1>1. pending # <<>> /\ UNCHANGED <<connected, tid, pc, ret, answer>>
  BY DEF FarEnd, Answer, Lose, AnswerException, AnswerAsOther, AnswerGarbled, Deliver, link
<1>2. Head(pending) \in FitFrame(tid) /\ Tail(pending) \in Seq(FitFrame(tid)) /\ connected
  BY <1>1, HeadTailProperties DEF TcpInv, StreamInv, ClosedInv
<1>3. pending' = Tail(pending)
  BY DEF FarEnd, Answer, Lose, AnswerException, AnswerAsOther, AnswerGarbled, Deliver
<1>4. ASSUME NEW f \in FitFrame(tid), Deliver(f)
      PROVE  rx' \in Seq(FitItem(tid))
  BY <1>4, AppendProperties DEF Deliver, TcpInv, StreamInv, FitItem
<1>5. rx' \in Seq(FitItem(tid))
  <2>1. CASE Answer
    BY <1>2, <1>4, <2>1 DEF Answer
  <2>2. CASE Lose
    BY <2>2 DEF Lose, TcpInv, StreamInv
  <2>3. CASE AnswerException
    <3>1. [Head(pending) EXCEPT !.exception = TRUE] \in FitFrame(tid)
      BY <1>2 DEF FitFrame, Fits, Frame
    <3> QED
      BY <1>4, <2>3, <3>1 DEF AnswerException
  <2>4. CASE AnswerAsOther
    <3>1. [Head(pending) EXCEPT !.slave = Alien] \in FitFrame(tid)
      BY <1>2 DEF FitFrame, Fits, Frame
    <3> QED
      BY <1>4, <2>4, <3>1 DEF AnswerAsOther
  <2> QED
    BY <2>1, <2>2, <2>3, <2>4 DEF FarEnd, AnswerGarbled
<1> QED
  BY <1>1, <1>2, <1>3, <1>5 DEF TcpInv, StreamInv, ClosedInv, AnswerInv

LEMMA TcpStep ==
  ASSUME IsTcp, RetryTimes > 0, TcpInv, [Next]_vars
  PROVE  TcpInv'
<1>1. BaseInv'
  BY BaseStep DEF TcpInv
<1>2. CASE UNCHANGED vars
  BY <1>1, <1>2 DEF TcpInv, StreamInv, ClosedInv, AnswerInv, vars
<1>3. CASE Next
  BY <1>1, <1>3, TcpSettings, TcpCall, TcpSend, TcpRecv, TcpAfterAttempt, TcpFarEnd
  DEF Next, ClientStep, TcpInv
<1> QED
  BY <1>2, <1>3

(* On tcp, whatever is late, lost, partly read or answered wrongly, a call    *)
(* that returns RET_OK hands out the answer to its own request                *)
(* (ReplyIsOurs), for every number of transaction ids, retries and faults;    *)
(* only an answer held back for a whole turn of the id could pass for it.     *)
THEOREM TcpReplyIsOurs ==
  ASSUME IsTcp, RetryTimes > 0
  PROVE  Spec => []ReplyIsOurs
<1>1. Init => TcpInv
  BY TcpInit
<1>2. TcpInv /\ [Next]_vars => TcpInv'
  BY TcpStep
<1>3. TcpInv => ReplyIsOurs
  BY DEF TcpInv, AnswerInv, ReplyIsOurs
<1> QED
  BY <1>1, <1>2, <1>3, PTL DEF Spec

(* ------------- tcp: when the transaction ids do not come round -------------- *)

(* The requests taken and never answered. *)
Lost == IF "lost" \in FaultKinds THEN MaxFaults - faults.left ELSE 0

MaxLost == IF "lost" \in FaultKinds THEN MaxFaults ELSE 0

(* Frames keep their order and none disappears before the one it follows,     *)
(* so a frame is no older than the number of frames behind it and of lost     *)
(* ones.                                                                      *)
AgeInv ==
  /\ Len(rx) <= MaxQueue /\ Len(pending) <= MaxQueue
  /\ \A k \in 1 .. Len(pending) : pending[k].age <= Len(pending) - k
  /\ \A k \in 1 .. Len(rx) :
       rx[k] # Junk => rx[k].age <= Len(rx) - k + Len(pending) + Lost

(* A request that could not be written takes an id and no place; the          *)
(* connection does not outlive it.                                            *)
OrderInv == (pc = "judge" /\ ret = "IO") \/ AgeInv

TurnInv == TcpInv /\ OrderInv /\ AnsweredInTurn

(* What is left of a stream keeps its distance to the stream's end. *)
Remains(q, rest) ==
  /\ Len(rest) <= Len(q)
  /\ \A k \in 1 .. Len(rest) : rest[k] # Junk => rest[k] = q[Len(q) - Len(rest) + k]

LEMMA SuffixRemains ==
  ASSUME NEW S, NEW q \in Seq(S), NEW k \in 2 .. Len(q) + 1
  PROVE  /\ Remains(q, SubSeq(q, k, Len(q)))
         /\ Remains(q, <<Junk>> \o SubSeq(q, k, Len(q)))
<1> DEFINE s == SubSeq(q, k, Len(q))
           j == <<Junk>> \o s
<1>1. Len(q) \in Nat
  BY LenProperties
<1>2. /\ s \in Seq(S) /\ Len(s) = Len(q) - k + 1
      /\ \A i \in 1 .. Len(s) : s[i] = q[k + i - 1]
  BY <1>1, SubSeqProperties
<1>3. Remains(q, s)
  <2> HIDE DEF s
  <2> QED
    BY <1>1, <1>2 DEF Remains
<1>4. Len(j) = Len(s) + 1 /\ \A i \in 1 .. Len(j) : j[i] = IF i = 1 THEN Junk ELSE s[i - 1]
  <2> HIDE DEF s
  <2>1. <<Junk>> \in Seq({Junk}) /\ s \in Seq(S) /\ Len(<<Junk>>) = 1 /\ <<Junk>>[1] = Junk
    BY <1>2
  <2>2. <<Junk>> \in Seq(S \cup {Junk}) /\ s \in Seq(S \cup {Junk})
    BY <2>1
  <2> QED
    BY <2>1, <2>2, ConcatProperties
<1>5. Remains(q, j)
  <2> HIDE DEF s, j
  <2> QED
    BY <1>1, <1>2, <1>4 DEF Remains
<1> QED
  BY <1>3, <1>5

LEMMA TailRemains ==
  ASSUME NEW S, NEW q \in Seq(S), q # <<>>
  PROVE  Remains(q, Tail(q)) /\ Remains(q, <<Junk>> \o Tail(q)) /\ Remains(q, <<>>)
<1>1. Len(q) \in Nat /\ 1 <= Len(q)
  BY EmptySeq, LenProperties
<1>2. Tail(q) = SubSeq(q, 2, Len(q))
  OBVIOUS
<1>3. Len(<<>>) = 0
  OBVIOUS
<1> QED
  BY <1>1, <1>2, <1>3, SuffixRemains DEF Remains

(* So does what a flush leaves. *)
LEMMA FlushRemains ==
  ASSUME NEW S, rx \in Seq(S), Flush
  PROVE  Remains(rx, rx')
<1>1. CASE rx' = <<>>
  BY <1>1, LenProperties DEF Remains
<1>2. CASE rx' \in JunkRests(rx)
  BY <1>2, SuffixRemains DEF JunkRests
<1> QED
  BY <1>1, <1>2 DEF Flush

(* Recv takes frames from the front, or nothing.                              *)
Taken(r, rest, a) ==
  /\ Received(r, rest, a)
  /\ a # None => rx # <<>> /\ a = Head(rx) /\ a # Junk
  /\ \/ Remains(rx, rest) /\ pending' = pending
     \/ rx = <<>> /\ rest = <<Junk>> /\ pending # <<>> /\ pending' = Tail(pending)

LEMMA RecvTakes ==
  ASSUME NEW S, rx \in Seq(S), Recv
  PROVE  \E r, rest, a : Taken(r, rest, a)
<1>1. ASSUME NEW r, NEW rest, Received(r, rest, None), Remains(rx, rest), UNCHANGED pending
      PROVE  \E q, p, a : Taken(q, p, a)
  BY <1>1 DEF Taken
<1>2. rx # <<>> => /\ Remains(rx, Tail(rx))
                   /\ Remains(rx, <<Junk>> \o Tail(rx))
  BY TailRemains
<1>3. Remains(rx, <<>>)
  BY LenProperties DEF Remains
<1>4. CASE RecvNothing
  BY <1>1, <1>3, <1>4 DEF RecvNothing
<1>5. CASE RecvPartial
  <2>1. PICK r : Received(r, <<Junk>>, None)
    BY <1>5 DEF RecvPartial
  <2> QED
    BY <1>5, <2>1 DEF RecvPartial, Taken
<1>6. CASE RecvOtherTid
  BY <1>1, <1>2, <1>6 DEF RecvOtherTid, FrameAtHead
<1>7. CASE RecvOtherSlave
  <2>1. PICK rest \in JunkRests(rx) : Received("SKIP", rest, None)
    BY <1>7 DEF RecvOtherSlave
  <2>2. Remains(rx, rest)
    BY SuffixRemains DEF JunkRests
  <2> QED
    BY <1>1, <1>7, <2>1, <2>2 DEF RecvOtherSlave
<1>8. CASE RecvOtherFunction
  BY <1>1, <1>2, <1>8 DEF RecvOtherFunction, FromOurSlave, FrameAtHead
<1>9. CASE RecvException
  BY <1>1, <1>2, <1>9 DEF RecvException, FromOurSlave, FrameAtHead
<1>10. CASE RecvGarbled
  <2>1. PICK r \in {"CRC", "IO"}, rest \in {Tail(rx), <<Junk>> \o Tail(rx)} :
          Received(r, rest, None)
    BY <1>10 DEF RecvGarbled
  <2> QED
    BY <1>1, <1>2, <1>10, <2>1 DEF RecvGarbled, FromOurSlave, FrameAtHead
<1>11. CASE RecvAnswer
  <2>1. rx # <<>> /\ Head(rx) # Junk /\ UNCHANGED pending /\ Remains(rx, Tail(rx))
    BY <1>2, <1>11 DEF RecvAnswer, FromOurSlave, FrameAtHead
  <2>2. Received("OK", Tail(rx), Head(rx)) \/ Received("BAD_PARAMS", Tail(rx), None)
    BY <1>11 DEF RecvAnswer
  <2> QED
    BY <2>1, <2>2 DEF Taken
<1>12. CASE RecvJunk
  <2>1. PICK r \in {"IO", "FAIL", "CRC", "SKIP"}, rest \in JunkRests(rx) :
          Received(r, rest, None)
    BY <1>12 DEF RecvJunk
  <2>2. Remains(rx, rest)
    BY SuffixRemains DEF JunkRests
  <2> QED
    BY <1>1, <1>12, <2>1, <2>2 DEF RecvJunk
<1> QED
  BY <1>4, <1>5, <1>6, <1>7, <1>8, <1>9, <1>10, <1>11, <1>12 DEF Recv

(* Only Recv hands out a frame, and every step spends a fault or none.        *)
LEMMA AnswerKept ==
  ASSUME [Next]_vars, ~Recv
  PROVE  answer' \in {answer, None}
BY DEF Next, vars, Call, CallConnected, CallWithoutReconnect, CallConnectFails, CallReconnects,
       StartCall, SetSlave, SetAutoReconnect, ClientStep, Send, CheckTimeout, Retry, Return,
       Exhausted, Flush, FarEnd, Answer, Lose, AnswerException, AnswerAsOther, AnswerGarbled,
       Deliver

LEMMA BudgetStep ==
  ASSUME [Next]_vars
  PROVE  (\E k : Spend(k)) \/ UNCHANGED faults
<1>1. ASSUME NEW o \in Ops, Call(o)
      PROVE  (\E k : Spend(k)) \/ UNCHANGED faults
  BY <1>1 DEF Call, CallConnected, CallWithoutReconnect, CallConnectFails, CallReconnects, line
<1>2. Recv => (\E k : Spend(k)) \/ UNCHANGED faults
  BY DEF Recv, RecvNothing, RecvPartial, RecvOtherTid, RecvOtherSlave, RecvOtherFunction,
         RecvException, RecvGarbled, RecvAnswer, RecvJunk
<1>3. Send \/ CheckTimeout \/ Retry \/ Return \/ Exhausted \/ Flush
        => (\E k : Spend(k)) \/ UNCHANGED faults
  BY DEF Send, CheckTimeout, Retry, Return, Exhausted, Flush, CheckConnectStatus, line
<1>4. FarEnd => (\E k : Spend(k)) \/ UNCHANGED faults
  BY DEF FarEnd, Answer, Lose, AnswerException, AnswerAsOther, AnswerGarbled
<1> QED
  BY <1>1, <1>2, <1>3, <1>4 DEF Next, ClientStep, vars, SetSlave, SetAutoReconnect, line

(* The lost requests are counted up, whatever goes wrong.                     *)
LEMMA LostGrows ==
  ASSUME TypeOK, (\E k : Spend(k)) \/ UNCHANGED faults
  PROVE  /\ Lost \in Nat /\ Lost' \in Nat /\ Lost <= Lost'
         /\ Spend("lost") => Lost' = Lost + 1
         /\ Lost <= MaxLost
BY ClientAssumption DEF TypeOK, Spend, Lost, MaxLost

LEMMA OlderAge ==
  ASSUME NEW f \in Frame
  PROVE  Older(f) # Junk /\ Older(f).age <= f.age + 1 /\ f.age \in Nat /\ Older(f).age \in Nat
<1>1. f # Junk /\ Older(f) \in Frame
  BY ClientModelValues, OlderType
<1> QED
  BY <1>1, ClientModelValues, ClientAssumption DEF Older, Frame

LEMMA OrderUnchanged ==
  ASSUME AgeInv, TypeOK, UNCHANGED <<rx, pending>>, (\E k : Spend(k)) \/ UNCHANGED faults
  PROVE  AgeInv'
<1>1. Lost \in Nat /\ Lost' \in Nat /\ Lost <= Lost'
  BY LostGrows
<1>2. rx \in Seq(Item) /\ pending \in Seq(Frame)
  BY DEF TypeOK, Item
<1>3. Len(rx) \in Nat /\ Len(pending) \in Nat
  BY <1>2, LenProperties
<1>4. ASSUME NEW k \in 1 .. Len(rx), rx[k] # Junk
      PROVE  rx[k].age <= Len(rx) - k + Len(pending) + Lost'
  <2>1. rx[k] \in Frame
    BY <1>2, <1>4, ElementOfSeq DEF Item
  <2>2. rx[k].age \in Int
    BY <2>1, ClientAssumption DEF Frame
  <2>3. rx[k].age <= Len(rx) - k + Len(pending) + Lost
    BY <1>4 DEF AgeInv
  <2> QED
    BY <1>1, <1>3, <2>2, <2>3
<1> QED
  BY <1>4 DEF AgeInv

(* Nor does taking from the front of the stream put its frames out of order.  *)
LEMMA RemainsInOrder ==
  ASSUME AgeInv, TypeOK, TypeOK', Remains(rx, rx'), UNCHANGED pending,
         (\E k : Spend(k)) \/ UNCHANGED faults
  PROVE  AgeInv'
<1>1. Lost \in Nat /\ Lost' \in Nat /\ Lost <= Lost'
  BY LostGrows
<1>2. rx \in Seq(Item) /\ rx' \in Seq(Item) /\ pending \in Seq(Frame)
  BY DEF TypeOK, Item
<1>3. Len(rx) \in Nat /\ Len(rx') \in Nat /\ Len(pending) \in Nat /\ MaxQueue \in Nat
  BY <1>2, LenProperties, ClientAssumption
<1>4. ASSUME NEW k \in 1 .. Len(rx'), rx'[k] # Junk
      PROVE  rx'[k].age <= Len(rx') - k + Len(pending') + Lost'
  <2> DEFINE j == Len(rx) - Len(rx') + k
  <2>1. j \in 1 .. Len(rx) /\ rx'[k] = rx[j]
    BY <1>3, <1>4 DEF Remains
  <2>2. rx[j] \in Frame
    BY <1>2, <1>4, <2>1, ElementOfSeq DEF Item
  <2>3. rx[j].age <= Len(rx) - j + Len(pending) + Lost
    BY <1>4, <2>1 DEF AgeInv
  <2>4. rx[j].age \in Nat /\ pending' = pending
    BY <2>2, OlderAge
  <2>5. k \in Int /\ Len(rx) - j = Len(rx') - k
    BY <1>3, <1>4
  <2>6. rx[j].age <= Len(rx') - k + Len(pending) + Lost
    BY <2>3, <2>5
  <2>7. rx[j].age <= Len(rx') - k + Len(pending) + Lost'
    <3> HIDE DEF j
    <3> QED
      BY <1>1, <1>3, <2>4, <2>5, <2>6
  <2> HIDE DEF j
  <2> QED
    BY <2>1, <2>4, <2>7
<1>5. Len(rx') <= MaxQueue
  BY <1>3 DEF Remains, AgeInv
<1> QED
  BY <1>4, <1>5 DEF AgeInv

LEMMA EmptyInOrder ==
  ASSUME rx' = <<>>, pending' = <<>>
  PROVE  AgeInv'
BY ClientAssumption DEF AgeInv

LEMMA OrderCall ==
  ASSUME TurnInv, NEW o \in Ops, Call(o)
  PROVE  AgeInv' /\ answer' = None
<1>1. TypeOK /\ pc = "idle" /\ AgeInv
  BY DEF TurnInv, TcpInv, BaseInv, OrderInv, Call, CallConnected, CallWithoutReconnect,
         CallConnectFails, CallReconnects, StartCall
<1>2. answer' = None /\ UNCHANGED <<rx, pending>> /\ ((\E k : Spend(k)) \/ UNCHANGED faults)
  BY DEF Call, CallConnected, CallWithoutReconnect, CallConnectFails, CallReconnects,
         StartCall, line
<1> QED
  BY <1>1, <1>2, OrderUnchanged

(* One more request, one more turn of age. *)
LEMMA OrderSend ==
  ASSUME TurnInv, Send
  PROVE  OrderInv' /\ answer' = answer
<1>1. TypeOK /\ AgeInv /\ answer' = answer
  BY DEF TurnInv, TcpInv, BaseInv, OrderInv, Send
<1>2. CASE pc' = "judge" /\ ret' = "IO"
  BY <1>1, <1>2 DEF OrderInv
<1>3. CASE /\ Len(pending) < MaxQueue /\ pending' = Append(AllOlder(pending), Request)
           /\ UNCHANGED faults
  <2> DEFINE p == AllOlder(pending)
             l == Len(rx)
             n == Len(pending)
  <2>1. rx \in Seq(Item) /\ pending \in Seq(Frame)
    BY <1>1 DEF TypeOK, Item
  <2>2. l \in Nat /\ n \in Nat
    BY <2>1, LenProperties
  <2>3. rx' \in Seq(Item) /\ p \in Seq(Frame)
    BY <2>1, OlderType, AllOlderType DEF Send
  <2>4. Len(rx') = l /\ \A k \in 1 .. l : rx'[k] = Older(rx[k])
    BY <2>2 DEF Send, AllOlder
  <2>5. Len(p) = n /\ \A k \in 1 .. n : p[k] = Older(pending[k])
    BY <2>2 DEF AllOlder
  <2>6. Request \in Frame /\ Request.age = 0
    BY <1>1, RequestType DEF Request
  <2>7. Len(pending') = n + 1 /\ \A k \in 1 .. n + 1 : pending'[k] = IF k = n + 1 THEN Request ELSE p[k]
    <3>1. pending' = Append(p, Request)
      BY <1>3
    <3> HIDE DEF p, n
    <3>2. /\ Len(pending') = Len(p) + 1
          /\ \A k \in 1 .. Len(p) : pending'[k] = p[k]
          /\ pending'[Len(p) + 1] = Request
      BY <2>3, <2>6, <3>1, AppendProperties
    <3> QED
      BY <2>2, <2>5, <3>2
  <2>8. Lost \in Nat /\ Lost' = Lost
    BY <1>1, <1>3, LostGrows DEF Lost
  <2>9. ASSUME NEW k \in 1 .. n + 1
        PROVE  pending'[k].age <= n + 1 - k
    <3>1. CASE k = n + 1
      BY <2>2, <2>6, <2>7, <3>1
    <3>2. CASE k # n + 1
      <4>1. k \in 1 .. n /\ pending[k] \in Frame /\ pending'[k] = Older(pending[k])
        BY <2>1, <2>2, <2>5, <2>7, <3>2, ElementOfSeq
      <4>2. pending[k].age <= n - k
        BY <1>1, <4>1 DEF AgeInv
      <4> QED
        BY <2>2, <4>1, <4>2, OlderAge
    <3> QED
      BY <3>1, <3>2
  <2>10. ASSUME NEW k \in 1 .. l, rx'[k] # Junk
         PROVE  rx'[k].age <= l - k + (n + 1) + Lost
    <3>1. rx[k] \in Item /\ rx'[k] = Older(rx[k]) /\ Older(Junk) = Junk
      BY <2>1, <2>4, ElementOfSeq DEF Older
    <3>2. rx[k] \in Frame /\ rx[k] # Junk
      BY <2>10, <3>1 DEF Item
    <3>3. rx[k].age <= l - k + n + Lost
      BY <1>1, <3>2 DEF AgeInv
    <3> QED
      BY <2>2, <2>8, <3>1, <3>2, <3>3, OlderAge
  <2>11. l <= MaxQueue /\ n + 1 <= MaxQueue
    BY <1>1, <1>3, <2>2, ClientAssumption DEF AgeInv
  <2>12. Len(rx') = l /\ Len(pending') = n + 1
    BY <2>4, <2>7
  <2> HIDE DEF p, l, n
  <2>13. AgeInv'
    BY <2>2, <2>8, <2>9, <2>10, <2>11, <2>12 DEF AgeInv
  <2> QED
    BY <1>1, <2>13 DEF OrderInv
<1> QED
  BY <1>1, <1>2, <1>3 DEF Send

LEMMA OrderRecv ==
  ASSUME IsTcp, TurnInv, TidMod > 2 * MaxQueue - 1 + MaxLost, Recv
  PROVE  OrderInv' /\ AnsweredInTurn'
<1>1. PICK r, rest, a : Taken(r, rest, a)
  BY RecvTakes DEF TurnInv, TcpInv, BaseInv, TypeOK
<1>2. /\ pc = "recv" /\ rx' = rest /\ answer' = a /\ pc' = "judge"
      /\ (\E k : Spend(k)) \/ UNCHANGED faults
  BY <1>1 DEF Taken, Received, Recv, RecvNothing, RecvPartial, RecvOtherTid, RecvOtherSlave,
              RecvOtherFunction, RecvException, RecvGarbled, RecvAnswer, RecvJunk
<1>3. TypeOK /\ AgeInv
  BY <1>2 DEF TurnInv, TcpInv, BaseInv, OrderInv
<1>4. rx \in Seq(Item) /\ pending \in Seq(Frame) /\ rx' \in Seq(Item) /\ pending' \in Seq(Frame)
  BY <1>2, <1>3, RecvBase DEF TurnInv, TcpInv, BaseInv, TypeOK, Item
<1>5. /\ Len(rx) \in Nat /\ Len(pending) \in Nat /\ Len(rx') \in Nat /\ Len(pending') \in Nat
      /\ MaxQueue \in Nat \ {0}
  BY <1>4, LenProperties, ClientAssumption
<1>6. Lost \in Nat /\ Lost' \in Nat /\ Lost <= Lost' /\ Lost <= MaxLost
  BY <1>2, <1>3, LostGrows
<1>7. AgeInv'
  <2>1. CASE Remains(rx, rest) /\ pending' = pending
    <3>1. TypeOK'
      BY <1>2, RecvBase DEF TurnInv, TcpInv, BaseInv
    <3> QED
      BY <1>2, <1>3, <2>1, <3>1, RemainsInOrder
  <2>2. CASE rx = <<>> /\ rest = <<Junk>> /\ pending # <<>> /\ pending' = Tail(pending)
    <3>1. Len(rx') = 1 /\ rx'[1] = Junk
      BY <1>2, <2>2
    <3>2. /\ Len(pending') = Len(pending) - 1
          /\ \A k \in 1 .. Len(pending') : pending'[k] = pending[k + 1]
      BY <1>4, <2>2, HeadTailProperties
    <3>3. \A k \in 1 .. Len(pending') : pending'[k].age <= Len(pending') - k
      <4>1. ASSUME NEW k \in 1 .. Len(pending')
            PROVE  pending'[k].age <= Len(pending') - k
        <5>1. k + 1 \in 1 .. Len(pending) /\ pending'[k] = pending[k + 1]
          BY <1>5, <3>2
        <5>2. pending[k + 1].age <= Len(pending) - (k + 1)
          BY <1>3, <5>1 DEF AgeInv
        <5> QED
          BY <1>5, <3>2, <5>1, <5>2
      <4> QED
        BY <4>1
    <3> QED
      BY <1>3, <1>5, <3>1, <3>2, <3>3 DEF AgeInv
  <2> QED
    BY <1>1, <2>1, <2>2 DEF Taken
<1>8. AnsweredInTurn'
  <2> SUFFICES ASSUME a # None PROVE a.age = 0
    BY <1>2 DEF AnsweredInTurn
  <2>1. a # Junk /\ a = rx[1] /\ 1 \in 1 .. Len(rx) /\ a \in Frame
    <3>1. rx # <<>> /\ a = Head(rx) /\ a # Junk
      BY <1>1 DEF Taken
    <3> QED
      BY <1>4, <3>1, HeadTailProperties, EmptySeq, LenProperties DEF Item
  <2>2. a.age <= Len(rx) - 1 + Len(pending) + Lost
    BY <1>3, <2>1 DEF AgeInv
  <2>3. Len(rx) <= MaxQueue /\ Len(pending) <= MaxQueue /\ MaxLost \in Nat /\ TidMod \in Nat
    BY <1>3, ClientAssumption DEF AgeInv, MaxLost
  <2>4. a.age < TidMod /\ a.age \in Nat
    BY <1>5, <1>6, <2>1, <2>2, <2>3, OlderAge
  <2> QED
    BY <1>2, <2>4, TcpRecv DEF TurnInv, AnswerInv, AnswersLastRequest
<1> QED
  BY <1>7, <1>8 DEF OrderInv

LEMMA OrderAfterAttempt ==
  ASSUME IsTcp, TurnInv, CheckTimeout \/ Retry \/ Return \/ Exhausted \/ Flush
  PROVE  OrderInv' /\ answer' = answer
<1>1. TypeOK /\ BaseInv /\ AnswerInv /\ answer' = answer
  BY DEF TurnInv, TcpInv, BaseInv, CheckTimeout, Retry, Return, Exhausted, Flush
<1>2. CASE CheckTimeout
  BY <1>1, <1>2, OrderUnchanged DEF TurnInv, OrderInv, CheckTimeout
<1>3. CASE Retry
  BY <1>1, <1>3, OrderUnchanged DEF TurnInv, OrderInv, Retry, NeedRetry, line
<1>4. CASE Return
  <2>1. CASE ret = "IO"
    <3>1. rx' = <<>> /\ pending' = <<>>
      BY <1>1, <1>4, <2>1 DEF Return, CheckConnectStatus, BaseInv, LinkInv, IsTcp
    <3> QED
      BY <1>1, <3>1, EmptyInOrder DEF OrderInv
  <2>2. CASE ret # "IO"
    BY <1>1, <1>4, <2>2, OrderUnchanged DEF TurnInv, OrderInv, Return, CheckConnectStatus, line
  <2> QED
    BY <2>1, <2>2
<1>5. CASE Exhausted
  <2>1. ret # "IO" /\ pc # "judge"
    BY <1>1, <1>5 DEF AnswerInv, Exhausted
  <2> QED
    BY <1>1, <1>5, <2>1, OrderUnchanged DEF TurnInv, OrderInv, Exhausted, CheckConnectStatus, line
<1>6. CASE Flush
  <2>1. AgeInv /\ UNCHANGED <<pending, faults>>
    BY <1>6 DEF TurnInv, OrderInv, Flush
  <2>2. TypeOK' /\ Remains(rx, rx')
    BY <1>1, <1>6, AfterAttemptBase, FlushRemains DEF BaseInv, TypeOK
  <2> QED
    BY <1>1, <2>1, <2>2, RemainsInOrder DEF OrderInv
<1> QED
  BY <1>1, <1>2, <1>3, <1>4, <1>5, <1>6 DEF TurnInv, TcpInv

LEMMA OrderFarEnd ==
  ASSUME IsTcp, TurnInv, FarEnd
  PROVE  OrderInv' /\ answer' = answer
<1>1. /\ pending # <<>> /\ pending' = Tail(pending) /\ UNCHANGED <<pc, ret, answer>>
      /\ (\E k : Spend(k)) \/ UNCHANGED faults
  BY DEF FarEnd, Answer, Lose, AnswerException, AnswerAsOther, AnswerGarbled, Deliver
<1>2. SUFFICES ASSUME AgeInv PROVE AgeInv'
  BY <1>1 DEF TurnInv, OrderInv
<1>3. TypeOK /\ rx \in Seq(Item) /\ pending \in Seq(Frame)
  BY DEF TurnInv, TcpInv, BaseInv, TypeOK, Item
<1>4. /\ Len(pending) \in Nat /\ Len(rx) \in Nat /\ MaxQueue \in Nat
      /\ Len(pending) >= 1 /\ Len(pending') = Len(pending) - 1
      /\ \A k \in 1 .. Len(pending') : pending'[k] = pending[k + 1]
      /\ Head(pending) = pending[1] /\ Head(pending) \in Frame
  BY <1>1, <1>3, HeadTailProperties, EmptySeq, LenProperties, ClientAssumption
<1>5. Lost \in Nat /\ Lost' \in Nat /\ Lost <= Lost'
  BY <1>1, <1>3, LostGrows
<1>6. /\ Len(pending') <= MaxQueue
      /\ \A k \in 1 .. Len(pending') : pending'[k].age <= Len(pending') - k
  BY <1>2, <1>4 DEF AgeInv
<1>7. ASSUME NEW k \in 1 .. Len(rx), rx[k] # Junk
      PROVE  rx[k].age \in Nat /\ rx[k].age <= Len(rx) - k + Len(pending) + Lost
  BY <1>2, <1>3, <1>7, ElementOfSeq, OlderAge DEF AgeInv, Item
<1>8. ASSUME NEW f \in Frame, f.age = Head(pending).age, Deliver(f)
      PROVE  AgeInv'
  <2>1. CASE rx' = rx /\ io # "open"
    <3>1. FALSE
      BY <1>1, <2>1 DEF TurnInv, TcpInv, BaseInv, LinkInv, ClosedInv
    <3> QED
      BY <3>1
  <2>2. CASE rx' = Append(rx, f)
    <3>1. f \in Item
      BY DEF Item
    <3>2. /\ Len(rx') = Len(rx) + 1 /\ rx'[Len(rx) + 1] = f
          /\ \A k \in 1 .. Len(rx) : rx'[k] = rx[k]
      BY <1>3, <2>2, <3>1, AppendProperties
    <3>3. f.age \in Nat /\ f.age <= Len(pending) - 1
      BY <1>2, <1>4, <1>8, OlderAge DEF AgeInv
    <3>4. Len(rx') <= MaxQueue
      BY <1>4, <1>8, <3>2 DEF Deliver
    <3>5. ASSUME NEW k \in 1 .. Len(rx'), rx'[k] # Junk
          PROVE  rx'[k].age <= Len(rx') - k + Len(pending') + Lost'
      <4>1. CASE k \in 1 .. Len(rx)
        <5>1. rx'[k] = rx[k]
          BY <3>2, <4>1
        <5>2. rx[k].age \in Nat /\ rx[k].age <= Len(rx) - k + Len(pending) + Lost
          BY <1>7, <3>5, <4>1, <5>1
        <5> QED
          BY <1>4, <1>5, <3>2, <4>1, <5>1, <5>2
      <4>2. CASE k = Len(rx) + 1
        BY <1>4, <1>5, <3>2, <3>3, <4>2
      <4> QED
        BY <1>4, <3>2, <4>1, <4>2
    <3> QED
      BY <1>6, <3>4, <3>5 DEF AgeInv
  <2> QED
    BY <1>8, <2>1, <2>2 DEF Deliver
<1>9. CASE Answer
  BY <1>4, <1>8, <1>9 DEF Answer
<1>10. CASE Lose
  <2>1. Lost' = Lost + 1 /\ rx' = rx
    BY <1>3, <1>10, LostGrows DEF Lose
  <2> QED
    BY <1>2, <1>4, <1>5, <1>6, <1>7, <2>1 DEF AgeInv
<1>11. CASE AnswerException
  <2>1. [Head(pending) EXCEPT !.exception = TRUE] \in Frame
    BY <1>4 DEF Frame
  <2>2. [Head(pending) EXCEPT !.exception = TRUE].age = Head(pending).age
    BY <1>4 DEF Frame
  <2> QED
    BY <1>8, <1>11, <2>1, <2>2 DEF AnswerException
<1>12. CASE AnswerAsOther
  <2>1. [Head(pending) EXCEPT !.slave = Alien] \in Frame
    BY <1>4 DEF Frame
  <2>2. [Head(pending) EXCEPT !.slave = Alien].age = Head(pending).age
    BY <1>4 DEF Frame
  <2> QED
    BY <1>8, <1>12, <2>1, <2>2 DEF AnswerAsOther
<1> QED
  BY <1>9, <1>10, <1>11, <1>12 DEF FarEnd, AnswerGarbled

LEMMA TurnStep ==
  ASSUME IsTcp, RetryTimes > 0, TidMod > 2 * MaxQueue - 1 + MaxLost, TurnInv, [Next]_vars
  PROVE  TurnInv'
<1>1. TcpInv'
  BY TcpStep DEF TurnInv
<1>2. AnsweredInTurn /\ OrderInv /\ TypeOK
  BY DEF TurnInv, TcpInv, BaseInv
<1>3. answer' = answer => AnsweredInTurn'
  BY <1>2 DEF AnsweredInTurn
<1>4. CASE UNCHANGED vars
  BY <1>1, <1>2, <1>4 DEF TurnInv, OrderInv, AgeInv, AnsweredInTurn, Lost, vars
<1>5. ASSUME NEW o \in Ops, Call(o)
      PROVE  TurnInv'
  BY <1>1, <1>5, OrderCall DEF TurnInv, OrderInv, AnsweredInTurn
<1>6. CASE (\E s \in Slaves : SetSlave(s)) \/ (\E b \in BOOLEAN : SetAutoReconnect(b))
  <2>1. UNCHANGED <<pc, ret, answer, rx, pending, faults>>
    BY <1>6 DEF SetSlave, SetAutoReconnect, line
  <2> QED
    BY <1>1, <1>2, <2>1 DEF TurnInv, OrderInv, AgeInv, AnsweredInTurn, Lost
<1>7. CASE Send
  BY <1>1, <1>3, <1>7, OrderSend DEF TurnInv
<1>8. CASE Recv
  BY <1>1, <1>8, OrderRecv DEF TurnInv
<1>9. CASE CheckTimeout \/ Retry \/ Return \/ Exhausted \/ Flush
  BY <1>1, <1>3, <1>9, OrderAfterAttempt DEF TurnInv
<1>10. CASE FarEnd
  BY <1>1, <1>3, <1>10, OrderFarEnd DEF TurnInv
<1> QED
  BY <1>4, <1>5, <1>6, <1>7, <1>8, <1>9, <1>10 DEF Next, ClientStep

(* On tcp, where there are more transaction ids than requests can be waiting  *)
(* on the line or have been lost, no frame handed out is old (AnsweredInTurn): *)
(* the ids of the code, 65536 of them, tell the answers apart whatever is     *)
(* late, cut short or answered wrongly, without the flush after the loop and  *)
(* without a word about time.                                                 *)
THEOREM IdsDoNotComeRound ==
  ASSUME IsTcp, RetryTimes > 0, TidMod > 2 * MaxQueue - 1 + MaxLost
  PROVE  Spec => []AnsweredInTurn
<1>1. Init => TurnInv
  <2> SUFFICES ASSUME Init PROVE TurnInv
    OBVIOUS
  <2>1. rx = <<>> /\ pending = <<>> /\ answer = None
    BY DEF Init
  <2> QED
    BY <2>1, TcpInit, ClientAssumption DEF TurnInv, OrderInv, AgeInv, AnsweredInTurn
<1>2. TurnInv /\ [Next]_vars => TurnInv'
  BY TurnStep
<1>3. TurnInv => AnsweredInTurn
  BY DEF TurnInv
<1> QED
  BY <1>1, <1>2, <1>3, PTL DEF Spec

(* Steps within a call, of the far end and of the settings are not seen by    *)
(* the promise.                                                               *)
LEMMA Unseen ==
  \/ pc # "idle" /\ pc' # "idle" /\ connected' = connected
  \/ UNCHANGED <<pc, connected, ret, answer>>
  => UNCHANGED Promise!promiseVars
  BY DEF Promise!promiseVars, AnswersLastRequest

LEMMA CallImplements ==
  ASSUME BaseInv, NEW o \in Ops, Call(o)
  PROVE  Promise!Begin \/ Promise!Refuse
<1>1. CASE CallConnected(o) \/ CallReconnects(o)
  <2>1. pc = "idle" /\ pc' # "idle" /\ connected'
    BY <1>1 DEF CallConnected, CallReconnects, StartCall, EnterLoop, LoopHead, link, BaseInv, TypeOK
  <2>2. connected' = TRUE
    BY <1>1 DEF CallConnected, CallReconnects, link, BaseInv, TypeOK
  <2> QED
    BY <2>1, <2>2 DEF Promise!Begin
<1>2. CASE CallWithoutReconnect(o) \/ CallConnectFails(o)
  BY <1>2 DEF CallWithoutReconnect, CallConnectFails, StartCall, link, Promise!Refuse
<1> QED
  BY <1>1, <1>2 DEF Call

LEMMA ReturnImplements ==
  ASSUME BaseInv, AnswerInv, Return \/ Flush
  PROVE  Promise!ReturnOk \/ Promise!ReturnError \/ Promise!ReturnDisconnected
<1>1. /\ pc # "idle" /\ pc' = "idle" /\ ret' = ret /\ answer' = answer /\ connected = TRUE
  BY DEF Return, Flush, BaseInv, TypeOK, LinkInv
<1>2. ret \in {"OK", "IO"} \cup Promise!Errors
  BY DEF Return, Flush, BaseInv, LinkInv, Returns, NeedRetry, Promise!Errors
<1>3. CASE ret = "OK"
  <2>1. Return /\ UNCHANGED connected /\ answer # None /\ AnswersLastRequest(answer)
    BY <1>3 DEF Return, Flush, CheckConnectStatus, AnswerInv, link
  <2> QED
    BY <1>1, <1>3, <2>1 DEF Promise!ReturnOk, AnswersLastRequest
<1>4. CASE ret = "IO"
  <2>1. Return /\ connected' = FALSE
    BY <1>1, <1>4 DEF Return, Flush, CheckConnectStatus, AnswerInv
  <2> QED
    BY <1>1, <1>4, <2>1 DEF Promise!ReturnDisconnected
<1>5. CASE ret \in Promise!Errors
  <2>1. ret \notin {"OK", "IO"}
    BY <1>5 DEF Promise!Errors
  <2>2. UNCHANGED connected
    BY <2>1 DEF Return, Flush, CheckConnectStatus, link
  <2> QED
    BY <1>1, <1>5, <2>1, <2>2 DEF Promise!ReturnError
<1> QED
  BY <1>2, <1>3, <1>4, <1>5

(* Every step of the client is one of the promise or unseen by it, where a    *)
(* frame handed out is the answer to the last request.                        *)
LEMMA StepImplements ==
  ASSUME BaseInv, AnswerInv, [Next]_vars
  PROVE  [Promise!Next]_(Promise!promiseVars)
<1>1. CASE UNCHANGED vars
  BY <1>1, Unseen DEF vars
<1>2. CASE \E o \in Ops : Call(o)
  BY <1>2, CallImplements DEF Promise!Next
<1>3. CASE Return \/ Flush
  BY <1>3, ReturnImplements DEF Promise!Next
<1>4. CASE Send \/ CheckTimeout \/ Recv \/ Retry
  <2>1. Recv => \E r, rest, a : Received(r, rest, a)
    BY DEF Recv, RecvNothing, RecvPartial, RecvOtherTid, RecvOtherSlave, RecvOtherFunction,
           RecvException, RecvGarbled, RecvAnswer, RecvJunk
  <2>2. pc # "idle" /\ pc' # "idle" /\ connected' = connected
    BY <1>4, <2>1 DEF Send, CheckTimeout, Received, Retry, LoopHead, link
  <2> QED
    BY <2>2, Unseen
<1>5. CASE Exhausted
  <2>1. ret # "IO"
    BY <1>5 DEF Exhausted, AnswerInv
  <2>2. pc # "idle" /\ pc' # "idle" /\ connected' = connected
    BY <1>5, <2>1 DEF Exhausted, CheckConnectStatus, link
  <2> QED
    BY <2>2, Unseen
<1>6. CASE FarEnd \/ (\E s \in Slaves : SetSlave(s)) \/ (\E b \in BOOLEAN : SetAutoReconnect(b))
  <2>1. UNCHANGED <<pc, connected, ret, answer>>
    BY <1>6 DEF FarEnd, Answer, Lose, AnswerException, AnswerAsOther, AnswerGarbled, Deliver,
                SetSlave, SetAutoReconnect, link
  <2> QED
    BY <2>1, Unseen
<1> QED
  BY <1>1, <1>2, <1>3, <1>4, <1>5, <1>6 DEF Next, ClientStep

(* On tcp the client keeps its promise (KeepsPromise): calls one at a time,   *)
(* RET_OK only with the own answer, the connection given up exactly by        *)
(* reporting RET_IO, and a call without one refused with RET_IO.              *)
THEOREM TcpClientKeepsPromise ==
  ASSUME IsTcp, RetryTimes > 0
  PROVE  Spec => KeepsPromise
<1>1. Init => TcpInv /\ Promise!Init
  BY TcpInit DEF Init, Promise!Init
<1>2. TcpInv /\ [Next]_vars => TcpInv'
  BY TcpStep
<1>3. TcpInv /\ [Next]_vars => [Promise!Next]_(Promise!promiseVars)
  BY StepImplements DEF TcpInv
<1> QED
  BY <1>1, <1>2, <1>3, PTL DEF Spec, Promise!Spec, KeepsPromise

(* ------------------- undisturbed: whose answer is it ----------------------- *)

(* A request of the present attempt, or its answer: only the exception bit    *)
(* may not be as asked.                                                       *)
Fresh ==
  {f \in Frame : /\ f.age = 0 /\ f.tid = tid /\ f.slave = slave
                 /\ f.fc = op.fc /\ f.intact}

(* Where nothing was late, foreign or damaged there is one frame on its way   *)
(* at most, that of the present attempt, and none once the attempt is judged. *)
Calm ==
  \/ rx = <<>> /\ pending = <<>>
  \/ /\ pc \in {"check", "recv"}
     /\ \E f \in Fresh : \/ rx = <<f>> /\ pending = <<>>
                         \/ rx = <<>> /\ pending = <<f>>

CalmInv == BaseInv /\ (~faults.disturbed => Calm /\ AnswerInv)

(* The first and only element of a sequence. *)
LEMMA One ==
  ASSUME NEW S, NEW f \in S
  PROVE  <<f>> # <<>> /\ Head(<<f>>) = f /\ Tail(<<f>>) = <<>> /\ Append(<<>>, f) = <<f>>
OBVIOUS

(* Whoever spends a disturbance disturbs. *)
LEMMA SpendCalm ==
  ASSUME NEW k, Spend(k), ~faults'.disturbed
  PROVE  ~faults.disturbed /\ k \notin Disturbances
BY DEF Spend

LEMMA EmptyIsCalm ==
  ASSUME rx' = <<>>, pending' = <<>>
  PROVE  Calm'
BY DEF Calm

LEMMA CalmCall ==
  ASSUME CalmInv, RetryTimes > 0, ~faults.disturbed, NEW o \in Ops, Call(o)
  PROVE  Calm' /\ AnswerInv'
<1>1. rx = <<>> /\ pending = <<>> /\ LoopHead(0) = "send"
  BY DEF CalmInv, Calm, Call, CallConnected, CallWithoutReconnect, CallConnectFails,
         CallReconnects, StartCall, LoopHead
<1>2. rx' = <<>> /\ pending' = <<>>
  BY <1>1 DEF Call, CallConnected, CallWithoutReconnect, CallConnectFails, CallReconnects, line
<1>3. AnswerInv
  BY DEF CalmInv
<1>4. CallConnected(o) => AnswerInv'
  BY <1>1 DEF AnswerInv, CallConnected, StartCall, EnterLoop
<1>5. CallWithoutReconnect(o) => AnswerInv'
  BY DEF AnswerInv, CallWithoutReconnect, StartCall
<1>6. CallConnectFails(o) => AnswerInv'
  BY DEF AnswerInv, CallConnectFails, StartCall
<1>7. CallReconnects(o) => AnswerInv'
  BY <1>1 DEF AnswerInv, CallReconnects, StartCall, EnterLoop
<1> QED
  BY <1>2, <1>4, <1>5, <1>6, <1>7, EmptyIsCalm DEF Call

LEMMA CalmSend ==
  ASSUME CalmInv, ~faults.disturbed, Send
  PROVE  Calm' /\ AnswerInv'
<1>1. rx = <<>> /\ pending = <<>> /\ TypeOK
  BY DEF CalmInv, BaseInv, Calm, Send
<1>2. AllOlder(<<>>) = <<>>
  BY DEF AllOlder
<1>3. rx' = <<>> /\ UNCHANGED <<op, slave, answer>> /\ tid' = NextTid(tid)
  BY <1>1, <1>2 DEF Send, call
<1>4. CASE pending' = Append(AllOlder(pending), Request) /\ pc' = "check"
  <2>1. pending' = <<Request>>
    BY <1>1, <1>2, <1>4, One, RequestType
  <2>2. Request \in Fresh'
    BY <1>1, <1>3, RequestType DEF Fresh, Request
  <2> QED
    BY <1>3, <1>4, <2>1, <2>2 DEF Calm, AnswerInv, CalmInv
<1>5. CASE pending' = AllOlder(pending) /\ ret' = "IO" /\ pc' = "judge"
  BY <1>1, <1>2, <1>3, <1>5, EmptyIsCalm DEF AnswerInv, CalmInv
<1> QED
  BY <1>4, <1>5 DEF Send

(* What can be received where nothing disturbs: nothing, as the request was   *)
(* lost, or the frame there is, which is read whole.                          *)
LEMMA CalmRecv ==
  ASSUME CalmInv, ~faults'.disturbed, Recv
  PROVE  Calm' /\ AnswerInv'
<1>1. ~faults.disturbed
  BY SpendCalm DEF Recv, RecvNothing, RecvPartial, RecvOtherTid, RecvOtherSlave,
         RecvOtherFunction, RecvException, RecvGarbled, RecvAnswer, RecvJunk
<1>2. Calm /\ AnswerInv /\ TypeOK
  BY <1>1 DEF CalmInv, BaseInv
<1>3. ASSUME NEW r \in Returns \ {"OK"}, Received(r, <<>>, None), pending' = <<>>
      PROVE  Calm' /\ AnswerInv'
  <2>1. ret' # "OK" /\ pc' = "judge" /\ answer' = None /\ rx' = <<>>
    BY <1>3 DEF Received, Reported
  <2> QED
    BY <1>3, <2>1, EmptyIsCalm DEF AnswerInv
<1>4. CASE rx = <<>>
  <2>1. CASE RecvNothing
    <3>1. pending = <<>> /\ pending' = pending /\ Received("IO", <<>>, None)
      BY <2>1, SpendCalm DEF RecvNothing, Disturbances
    <3> QED
      BY <1>3, <3>1 DEF Returns
  <2>2. ~RecvPartial
    BY SpendCalm DEF RecvPartial, Disturbances
  <2> QED
    BY <1>4, <2>1, <2>2
    DEF Recv, RecvOtherTid, RecvOtherSlave, RecvOtherFunction, RecvException, RecvGarbled,
        RecvAnswer, RecvJunk, FromOurSlave, FrameAtHead
<1>5. CASE rx # <<>>
  <2>1. PICK f \in Fresh : rx = <<f>> /\ pending = <<>>
    BY <1>2, <1>5 DEF Calm
  <2>2. /\ Head(rx) = f /\ Tail(rx) = <<>> /\ f \in Frame /\ f # Junk
        /\ f.age = 0 /\ f.tid = tid /\ f.slave = slave /\ f.fc = op.fc /\ f.intact
    BY <2>1, One, ClientModelValues DEF Fresh
  <2>3. BelongsToRequest(f)
    BY <2>2 DEF BelongsToRequest
  <2>4. ~RecvOtherSlave
    BY <2>2 DEF RecvOtherSlave
  <2>5. CASE RecvException
    BY <1>3, <2>1, <2>2, <2>5 DEF RecvException, Returns
  <2>6. CASE RecvAnswer
    <3>1. CASE Received("OK", Tail(rx), f)
      <4>1. f # None /\ AnswersLastRequest(f)
        BY <2>2, ClientModelValues DEF AnswersLastRequest
      <4>2. rx' = <<>> /\ pending' = <<>> /\ answer' = f /\ pc' = "judge"
        BY <2>1, <2>2, <2>6, <3>1 DEF RecvAnswer, Received
      <4> QED
        BY <4>1, <4>2, EmptyIsCalm DEF AnswerInv, AnswersLastRequest
    <3>2. CASE Received("BAD_PARAMS", Tail(rx), None)
      BY <1>3, <2>1, <2>2, <2>6, <3>2 DEF RecvAnswer, Returns
    <3> QED
      BY <2>2, <2>6, <3>1, <3>2 DEF RecvAnswer
  <2>7. ~RecvGarbled
    BY <2>2 DEF RecvGarbled, CrcOk, CrcSent, CrcChecked
  <2> QED
    BY <1>5, <2>2, <2>3, <2>4, <2>5, <2>6, <2>7
    DEF Recv, RecvNothing, RecvPartial, RecvOtherTid, RecvOtherFunction, RecvJunk
<1> QED
  BY <1>4, <1>5

LEMMA CalmAfterAttempt ==
  ASSUME CalmInv, RetryTimes > 0, ~faults'.disturbed,
         CheckTimeout \/ Retry \/ Return \/ Exhausted \/ Flush
  PROVE  Calm' /\ AnswerInv'
<1>1. CASE CheckTimeout
  <2>1. pc' = "recv" /\ UNCHANGED <<faults, op, slave, tid, ret, answer, rx, pending>>
    BY <1>1, SpendCalm DEF CheckTimeout, Disturbances, call
  <2> QED
    BY <2>1 DEF CalmInv, Calm, Fresh, AnswerInv
<1>2. CASE Retry \/ Return \/ Exhausted \/ Flush
  <2>1. UNCHANGED faults /\ UNCHANGED <<ret, answer>>
    BY <1>2 DEF Retry, Return, Exhausted, Flush, CheckConnectStatus, line
  <2>2. rx = <<>> /\ pending = <<>> /\ AnswerInv
    BY <1>2, <2>1 DEF CalmInv, Calm, Retry, Return, Exhausted, Flush
  <2>3. JunkRests(<<>>) = {}
    BY DEF JunkRests
  <2>5. rx' = <<>> /\ pending' = <<>>
    BY <1>2, <2>2, <2>3 DEF Retry, Return, Exhausted, Flush, CheckConnectStatus, line
  <2>4. AnswerInv'
    BY <1>2, <2>1, <2>2 DEF AnswerInv, Retry, Return, Exhausted, Flush, NeedRetry, LoopHead
  <2> QED
    BY <2>4, <2>5, EmptyIsCalm
<1> QED
  BY <1>1, <1>2

LEMMA CalmFarEnd ==
  ASSUME CalmInv, ~faults'.disturbed, FarEnd
  PROVE  Calm' /\ AnswerInv'
<1>1. ~faults.disturbed /\ ~AnswerGarbled /\ ~AnswerAsOther
  BY SpendCalm DEF FarEnd, Answer, Lose, AnswerException, AnswerAsOther, AnswerGarbled,
         Disturbances
<1>2. pending # <<>> /\ UNCHANGED <<op, slave, tid, pc, ret, answer>> /\ pending' = Tail(pending)
  BY DEF FarEnd, Answer, Lose, AnswerException, AnswerAsOther, AnswerGarbled, Deliver, call
<1>3. PICK f \in Fresh : rx = <<>> /\ pending = <<f>> /\ pc \in {"check", "recv"}
  BY <1>1, <1>2 DEF CalmInv, Calm
<1>4. Head(pending) = f /\ pending' = <<>>
  BY <1>2, <1>3, One
<1>5. AnswerInv'
  BY <1>1, <1>2 DEF CalmInv, AnswerInv
<1>6. ASSUME NEW g \in Fresh, Deliver(g)
      PROVE  Calm'
  <2>1. rx' = <<>> \/ rx' = <<g>>
    BY <1>3, <1>6 DEF Deliver
  <2>2. g \in Fresh'
    BY <1>2 DEF Fresh
  <2>3. pending' = <<>> /\ pc' \in {"check", "recv"}
    BY <1>2, <1>3, <1>4
  <2>4. CASE rx' = <<>>
    BY <2>3, <2>4, EmptyIsCalm
  <2>5. CASE rx' = <<g>>
    <3>1. \E h \in Fresh' : \/ rx' = <<h>> /\ pending' = <<>>
                            \/ rx' = <<>> /\ pending' = <<h>>
      BY <2>2, <2>3, <2>5, Zenon
    <3> QED
      BY <2>3, <3>1, Zenon DEF Calm
  <2> QED
    BY <2>1, <2>4, <2>5
<1>7. Answer => Calm'
  BY <1>4, <1>6 DEF Answer
<1>8. Lose => Calm'
  BY <1>3, <1>4, EmptyIsCalm DEF Lose
<1>9. ASSUME AnswerException PROVE Calm'
  <2>1. [f EXCEPT !.exception = TRUE] \in Fresh
    BY DEF Fresh, Frame
  <2> QED
    BY <1>4, <1>6, <1>9, <2>1 DEF AnswerException
<1> QED
  BY <1>1, <1>5, <1>7, <1>8, <1>9 DEF FarEnd

LEMMA CalmStep ==
  ASSUME RetryTimes > 0, CalmInv, [Next]_vars
  PROVE  CalmInv'
<1>1. BaseInv'
  BY BaseStep DEF CalmInv
<1>2. SUFFICES ASSUME ~faults'.disturbed PROVE Calm' /\ AnswerInv'
  BY <1>1 DEF CalmInv
<1>3. CASE UNCHANGED vars
  BY <1>2, <1>3 DEF CalmInv, Calm, Fresh, AnswerInv, vars
<1>4. CASE (\E s \in Slaves : SetSlave(s)) \/ (\E b \in BOOLEAN : SetAutoReconnect(b))
  <2>1. pc = "idle" /\ UNCHANGED <<faults, pc, ret, answer, rx, pending>>
    BY <1>4 DEF SetSlave, SetAutoReconnect, call, line
  <2>2. rx' = <<>> /\ pending' = <<>>
    BY <1>2, <2>1 DEF CalmInv, Calm
  <2> QED
    BY <1>2, <2>1, <2>2, EmptyIsCalm DEF CalmInv, AnswerInv
<1>5. ASSUME NEW o \in Ops, Call(o)
      PROVE  Calm' /\ AnswerInv'
  <2>1. ~faults.disturbed
    BY <1>2, <1>5, SpendCalm DEF Call, CallConnected, CallWithoutReconnect,
                                 CallConnectFails, CallReconnects, line
  <2> QED
    BY <1>5, <2>1, CalmCall
<1>6. CASE Send
  <2>1. ~faults.disturbed
    BY <1>2, <1>6, SpendCalm DEF Send
  <2> QED
    BY <1>6, <2>1, CalmSend
<1> QED
  BY <1>2, <1>3, <1>4, <1>5, <1>6, CalmRecv, CalmAfterAttempt, CalmFarEnd DEF Next, ClientStep

(* On every transport, a serial line included, as long as no answer was late, *)
(* none came from another unit and no frame was damaged, a call that returns  *)
(* RET_OK hands out the answer to its own request (UndisturbedReplyIsOurs):   *)
(* lost answers, failed writes, exceptions and retries alone do not get the   *)
(* two sides out of step.                                                     *)
THEOREM UndisturbedReply ==
  ASSUME RetryTimes > 0
  PROVE  Spec => []UndisturbedReplyIsOurs
<1>1. Init => CalmInv
  BY BaseInit DEF Init, CalmInv, Calm, AnswerInv
<1>2. CalmInv /\ [Next]_vars => CalmInv'
  BY CalmStep
<1>3. CalmInv => UndisturbedReplyIsOurs
  BY DEF CalmInv, AnswerInv, UndisturbedReplyIsOurs, ReplyIsOurs
<1> QED
  BY <1>1, <1>2, <1>3, PTL DEF Spec

(* In the same circumstances, and on every transport, the client keeps its    *)
(* promise (KeepsPromise).                                                    *)
THEOREM UndisturbedKeepsPromise ==
  ASSUME RetryTimes > 0
  PROVE  Spec /\ []~faults.disturbed => KeepsPromise
<1>1. Init => CalmInv /\ Promise!Init
  BY BaseInit DEF Init, CalmInv, Calm, AnswerInv, Promise!Init
<1>2. CalmInv /\ [Next]_vars => CalmInv'
  BY CalmStep
<1>3. CalmInv /\ ~faults.disturbed /\ [Next]_vars => [Promise!Next]_(Promise!promiseVars)
  BY StepImplements DEF CalmInv
<1> QED
  BY <1>1, <1>2, <1>3, PTL DEF Spec, Promise!Spec, KeepsPromise

(* In the same circumstances the frame handed out is that of the last request *)
(* itself (AnsweredInTurn), with no need of ids.                              *)
THEOREM UndisturbedAnsweredInTurn ==
  ASSUME RetryTimes > 0
  PROVE  Spec => [](~faults.disturbed => AnsweredInTurn)
<1> DEFINE Inv == CalmInv /\ (~faults.disturbed => AnsweredInTurn)
<1>1. Init => Inv
  BY BaseInit DEF Init, CalmInv, Calm, AnswerInv, AnsweredInTurn
<1>2. Inv /\ [Next]_vars => Inv'
  <2> SUFFICES ASSUME Inv, [Next]_vars, ~faults'.disturbed PROVE AnsweredInTurn'
    BY CalmStep
  <2>1. ~faults.disturbed
    <3>1. TypeOK
      BY DEF CalmInv, BaseInv
    <3>2. (\E k : Spend(k)) \/ UNCHANGED faults
      BY BudgetStep
    <3> QED
      BY <3>2, SpendCalm
  <2>2. CASE answer' \in {answer, None}
    BY <2>1, <2>2 DEF AnsweredInTurn
  <2>3. CASE Recv
    <3>1. PICK r, rest, a : Taken(r, rest, a)
      BY <2>3, RecvTakes DEF CalmInv, BaseInv, TypeOK
    <3>2. a # None => rx # <<>> /\ a = Head(rx) /\ answer' = a
      BY <3>1 DEF Taken, Received
    <3>3. rx # <<>> => \E f \in Fresh : rx = <<f>>
      BY <2>1 DEF CalmInv, Calm
    <3>4. a # None => a \in Fresh
      BY <3>2, <3>3, One DEF Fresh
    <3> QED
      BY <3>1, <3>2, <3>4 DEF AnsweredInTurn, Fresh, Taken, Received
  <2> QED
    BY <2>2, <2>3, AnswerKept
<1> QED
  BY <1>1, <1>2, PTL DEF Spec

(* ---------------------- what is taken for a crc error ---------------------- *)

(* Frames that are no exceptions, with and without junk between them.         *)
Plain == {f \in Frame : ~f.exception}

PlainInv == rx \in Seq(Plain \cup {Junk}) /\ pending \in Seq(Plain)

LEMMA PlainRecv ==
  ASSUME PlainInv, Recv
  PROVE  PlainInv'
<1>1. PICK r, rest, a : Outcome(Plain \cup {Junk}, Plain, r, rest, a)
  BY RecvOutcome DEF PlainInv
<1> QED
  BY <1>1 DEF Outcome, Received, PlainInv

LEMMA PlainFarEnd ==
  ASSUME "exception" \notin FaultKinds, PlainInv, FarEnd
  PROVE  PlainInv'
<1>1. pending # <<>> /\ pending' = Tail(pending) /\ ~AnswerException
  BY DEF FarEnd, Answer, Lose, AnswerException, AnswerAsOther, AnswerGarbled, Deliver, Spend
<1>2. Head(pending) \in Plain /\ Tail(pending) \in Seq(Plain)
  BY <1>1, HeadTailProperties DEF PlainInv
<1>3. ASSUME NEW f \in Plain, Deliver(f)
      PROVE  PlainInv'
  BY <1>1, <1>2, <1>3, AppendProperties DEF Deliver, PlainInv
<1>4. CASE Answer
  BY <1>2, <1>3, <1>4 DEF Answer
<1>5. CASE Lose
  BY <1>1, <1>2, <1>5 DEF Lose, PlainInv
<1>6. CASE AnswerAsOther
  <2>1. [Head(pending) EXCEPT !.slave = Alien] \in Plain
    BY <1>2 DEF Plain, Frame
  <2> QED
    BY <1>3, <1>6, <2>1 DEF AnswerAsOther
<1>7. CASE AnswerGarbled
  <2>1. PICK c \in {Head(pending).fc, Alien} :
          Deliver([Head(pending) EXCEPT !.fc = c, !.intact = FALSE])
    BY <1>7 DEF AnswerGarbled
  <2>2. [Head(pending) EXCEPT !.fc = c, !.intact = FALSE] \in Plain
    BY <1>2 DEF Plain, Frame, Codes
  <2> QED
    BY <1>3, <2>1, <2>2
<1> QED
  BY <1>1, <1>4, <1>5, <1>6, <1>7 DEF FarEnd

LEMMA PlainStep ==
  ASSUME "exception" \notin FaultKinds, TypeOK, PlainInv, [Next]_vars
  PROVE  PlainInv'
<1>1. UNCHANGED <<rx, pending>> => PlainInv'
  BY DEF PlainInv
<1>2. <<>> \in Seq(Plain \cup {Junk}) /\ <<>> \in Seq(Plain)
  OBVIOUS
<1>3. CASE Send
  <2>1. /\ \A f \in Plain \cup {Junk} : Older(f) \in Plain \cup {Junk}
        /\ \A f \in Plain : Older(f) \in Plain
    BY OlderType, ClientAssumption, ClientModelValues DEF Plain, Older, Item, Frame
  <2>2. AllOlder(rx) \in Seq(Plain \cup {Junk}) /\ AllOlder(pending) \in Seq(Plain)
    BY <2>1, AllOlderType DEF PlainInv
  <2>3. Request \in Plain
    BY RequestType DEF Plain, Request
  <2> QED
    BY <1>3, <2>2, <2>3, AppendProperties DEF Send, PlainInv
<1>4. CASE Return \/ Exhausted
  <2>1. CheckConnectStatus
    BY <1>4 DEF Return, Exhausted
  <2> QED
    BY <1>1, <1>2, <2>1 DEF CheckConnectStatus, line, PlainInv
<1>5. CASE Flush
  BY <1>5, FlushType DEF Flush, PlainInv
<1>6. ASSUME NEW o \in Ops, Call(o)
      PROVE  PlainInv'
  BY <1>1, <1>6 DEF Call, CallConnected, CallWithoutReconnect, CallConnectFails, CallReconnects, line
<1>7. CASE CheckTimeout \/ Retry
  BY <1>1, <1>7 DEF CheckTimeout, Retry, line
<1>8. CASE (\E s \in Slaves : SetSlave(s)) \/ (\E b \in BOOLEAN : SetAutoReconnect(b))
  BY <1>1, <1>8 DEF SetSlave, SetAutoReconnect, line
<1> QED
  BY <1>1, <1>3, <1>4, <1>5, <1>6, <1>7, <1>8, PlainRecv, PlainFarEnd DEF Next, ClientStep, vars

(* An undamaged frame is taken for a crc error (UndamagedIsNoCrcError denies  *)
(* it) by no transport but one with a crc, and there only if it may be an     *)
(* exception: over tcp, or from a slave that sends none, it never is.         *)
THEOREM OnlyExceptionsFailTheCrc ==
  ASSUME IsTcp \/ "exception" \notin FaultKinds
  PROVE  Spec => UndamagedIsNoCrcError
<1> DEFINE NoCrcError ==
             pc = "recv" /\ rx # <<>> /\ Head(rx) # Junk /\ Head(rx).intact /\ pc' = "judge"
               => ret' # "CRC"
           Inv == BaseInv /\ (IsTcp \/ PlainInv)
<1>1. Init => Inv
  BY BaseInit DEF Init, PlainInv
<1>2. Inv /\ [Next]_vars => Inv'
  BY BaseStep, PlainStep DEF BaseInv
<1>3. Inv /\ [Next]_vars => [NoCrcError]_vars
  <2> SUFFICES ASSUME Inv, [Next]_vars, pc = "recv", rx # <<>>, Head(rx) # Junk,
                      Head(rx).intact, pc' = "judge"
               PROVE  ret' # "CRC"
    OBVIOUS
  <2>1. Recv
    BY DEF Next, vars, Call, CallConnected, CallWithoutReconnect, CallConnectFails,
           CallReconnects, StartCall, SetSlave, SetAutoReconnect, ClientStep, Send,
           CheckTimeout, Retry, Return, Exhausted, Flush, FarEnd, Answer, Lose,
           AnswerException, AnswerAsOther, AnswerGarbled, Deliver
  <2>2. ASSUME NEW r, NEW rest, NEW a, Received(r, rest, a), r # "CRC"
        PROVE  ret' # "CRC"
    BY <2>2 DEF Received, Reported
  <2>3. IsTcp \/ ~Head(rx).exception
    BY HeadTailProperties, ClientModelValues DEF PlainInv, Plain
  <2>4. CrcOk(Head(rx))
    BY <2>3 DEF CrcOk, CrcSent, CrcChecked
  <2>5. CASE RecvOtherTid \/ RecvOtherSlave \/ RecvOtherFunction
    BY <2>2, <2>5 DEF RecvOtherTid, RecvOtherSlave, RecvOtherFunction
  <2>6. CASE RecvException \/ RecvAnswer
    BY <2>2, <2>4, <2>6 DEF RecvException, RecvAnswer
  <2> QED
    BY <2>1, <2>4, <2>5, <2>6 DEF Recv, RecvNothing, RecvPartial, RecvGarbled, RecvJunk
<1> QED
  BY <1>1, <1>2, <1>3, PTL DEF Spec, UndamagedIsNoCrcError
=============================================================================
