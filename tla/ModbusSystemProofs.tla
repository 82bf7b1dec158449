-------------------------- MODULE ModbusSystemProofs --------------------------
(* Theorems about ModbusSystem, for every value of its constants. *)
EXTENDS ModbusSystem, ModbusClientProofs

(* Every step of the system is one of the client, its line or nothing.        *)
LEMMA SystemStepIsClient == [SystemNext]_allvars => [Next]_vars
  BY DEF SystemNext, allvars, SysCall, SysSet, SysSend, SysLocal, SysEnd, SysAnswer,
         SysAnswerBadly, StrayServed, Next, ClientStep, Recv, FarEnd

(* ------------------------------ the sequences ----------------------------- *)

LEMMA WiderSeq ==
  ASSUME NEW S, NEW T, S \subseteq T, NEW q \in Seq(S)
  PROVE  q \in Seq(T)
<1>1. \A k \in 1 .. Len(q) : q[k] \in T
  BY ElementOfSeq
<1> QED
  BY <1>1, LenProperties, IsASeq

LEMMA TailElements ==
  ASSUME NEW S, NEW q \in Seq(S), q # <<>>
  PROVE  /\ Tail(q) \in Seq(S) /\ Len(q) \in Nat /\ Len(q) > 0
         /\ Len(Tail(q)) = Len(q) - 1 /\ Head(q) = q[1]
         /\ \A k \in 1 .. Len(q) - 1 : Tail(q)[k] = q[k + 1]
BY HeadTailProperties, LenProperties, EmptySeq

LEMMA AppendElements ==
  ASSUME NEW S, NEW q \in Seq(S), NEW x \in S
  PROVE  /\ Append(q, x) \in Seq(S) /\ Len(q) \in Nat
         /\ Len(Append(q, x)) = Len(q) + 1
         /\ \A k \in 1 .. Len(q) : Append(q, x)[k] = q[k]
         /\ Append(q, x)[Len(q) + 1] = x
BY AppendProperties, LenProperties

LEMMA AllOlderElements ==
  ASSUME NEW q, Len(q) \in Nat
  PROVE  /\ Len(AllOlder(q)) = Len(q)
         /\ \A k \in 1 .. Len(q) : AllOlder(q)[k] = Older(q[k])
BY DEF AllOlder

LEMMA OlderIsOld ==
  ASSUME NEW f \in Frame
  PROVE  Older(f) \in Frame /\ Older(f).age # 0
<1>1. f # Junk /\ f.age \in 0 .. TidMod /\ TidMod \in Nat \ {0, 1}
  BY ClientModelValues, ClientAssumption DEF Frame
<1>2. Older(f).age = IF f.age < TidMod THEN f.age + 1 ELSE TidMod
  BY <1>1 DEF Older, Frame
<1> QED
  BY <1>1, <1>2, OlderType

(* --------------------------- types and the cargo -------------------------- *)

Sorted(q) == \A j, k \in 1 .. Len(q) : j < k => q[j] <= q[k]

(* The cargo goes with the requests, and a call under way has none adrift.    *)
CargoInv ==
  /\ number \in 0 .. MaxCalls
  /\ cargo \in Seq(CallNumbers) /\ Len(cargo) = Len(pending)
  /\ Sorted(cargo)
  /\ stray \subseteq CallNumbers /\ carried \subseteq CallNumbers
  /\ pc # "idle" => number >= 1 /\ number \notin stray

SysInv == BaseInv /\ CargoInv

(* How a step can treat the cargo. *)
Keeps ==
  /\ UNCHANGED sysvars
  /\ Len(pending') = Len(pending) /\ (pc' # "idle" => pc # "idle")

Counts ==
  /\ number < MaxCalls /\ number' = number + 1
  /\ UNCHANGED <<cargo, stray, carried, pending>>

Loads ==
  /\ pc # "idle" /\ Len(pending') = Len(pending) + 1
  /\ cargo' = Append(cargo, number)
  /\ UNCHANGED <<number, stray, carried>>

Serves ==
  /\ pending # <<>> /\ pending' = Tail(pending)
  /\ cargo' = Tail(cargo) /\ carried' \in {carried, carried \cup {Head(cargo)}}
  /\ UNCHANGED <<number, stray>> /\ (pc' # "idle" => pc # "idle")

Closes ==
  /\ pending' = <<>> /\ cargo' = <<>> /\ pc' = "idle"
  /\ stray' = stray \cup {cargo[k] : k \in 1 .. Len(cargo)}
  /\ UNCHANGED <<number, carried>>

Drifts ==
  /\ \E n \in stray : /\ carried' \in {carried, carried \cup {n}}
                      /\ stray' \in {stray, stray \ {n}}
  /\ UNCHANGED <<vars, number, cargo>>

LEMMA SendCargo ==
  ASSUME SysInv, SysSend
  PROVE  Loads \/ Keeps
<1>1. pending \in Seq(Frame) /\ Len(pending) \in Nat /\ Request \in Frame /\ pc = "send"
  BY RequestType, LenProperties DEF SysInv, BaseInv, TypeOK, SysSend, Send
<1>2. AllOlder(pending) \in Seq(Frame) /\ Len(AllOlder(pending)) = Len(pending)
  BY <1>1, OlderType, AllOlderType, AllOlderElements
<1>3. CASE pending' = Append(AllOlder(pending), Request)
  <2>1. Len(pending') = Len(pending) + 1
    BY <1>1, <1>2, <1>3, AppendElements
  <2> QED
    BY <1>1, <2>1 DEF SysSend, Loads
<1>4. CASE pending' = AllOlder(pending)
  BY <1>1, <1>2, <1>4 DEF SysSend, Keeps, sysvars
<1> QED
  BY <1>3, <1>4 DEF SysSend, Send

(* A call ends in giving the connection up only by a return.                  *)
LEMMA EndCargo ==
  ASSUME SysInv, SysEnd
  PROVE  Closes \/ (Keeps /\ pending' = pending)
<1>1. pc # "idle" /\ CheckConnectStatus
  BY DEF SysEnd, Return, Exhausted
<1>2. pending' = pending \/ (ret = "IO" /\ pending' = <<>>)
  BY <1>1 DEF CheckConnectStatus, line
<1>3. ret = "IO" => Return
  BY DEF SysEnd, Exhausted, SysInv, BaseInv, LinkInv
<1> QED
  BY <1>1, <1>2, <1>3 DEF SysEnd, Keeps, Closes, Return, sysvars

LEMMA SystemStepCargo ==
  ASSUME SysInv, [SystemNext]_allvars
  PROVE  Keeps \/ Counts \/ Loads \/ Serves \/ Closes \/ Drifts
<1>1. CASE UNCHANGED allvars
  BY <1>1 DEF allvars, vars, sysvars, Keeps
<1>2. ASSUME NEW o \in Ops, SysCall(o)
      PROVE  Counts
  BY <1>2 DEF SysCall, Counts, far, Call, CallConnected, CallWithoutReconnect, CallConnectFails,
              CallReconnects, line
<1>3. CASE SysSet
  BY <1>3 DEF SysSet, Keeps, SetSlave, SetAutoReconnect, line
<1>4. CASE SysLocal
  <2>1. UNCHANGED pending /\ pc # "idle"
    BY <1>4 DEF SysLocal, CheckTimeout, Retry, Flush, RecvNothing, RecvOtherTid, RecvOtherSlave,
                RecvOtherFunction, RecvException, RecvGarbled, RecvAnswer, RecvJunk, Received, line
  <2> QED
    BY <1>4, <2>1 DEF SysLocal, Keeps
<1>5. CASE SysAnswer \/ SysAnswerBadly
  <2>1. pending # <<>> /\ pending' = Tail(pending) /\ (pc' # "idle" => pc # "idle")
    BY <1>5 DEF SysAnswer, SysAnswerBadly, RecvPartial, Received, Answer, Lose, AnswerException,
                AnswerAsOther, AnswerGarbled, Deliver
  <2> QED
    BY <1>5, <2>1 DEF SysAnswer, SysAnswerBadly, Served, Serves
<1>6. CASE StrayServed
  BY <1>6 DEF StrayServed, Drifts
<1> QED
  BY <1>1, <1>2, <1>3, <1>4, <1>5, <1>6, SendCargo, EndCargo DEF SystemNext

LEMMA CargoStep ==
  ASSUME SysInv, [SystemNext]_allvars
  PROVE  CargoInv'
<1> USE DEF CallNumbers
<1>1. /\ number \in Nat /\ number \in 0 .. MaxCalls /\ MaxCalls \in Nat
      /\ cargo \in Seq(1 .. number) /\ Len(cargo) = Len(pending) /\ Len(cargo) \in Nat
      /\ stray \subseteq 1 .. number /\ carried \subseteq 1 .. number
      /\ Sorted(cargo)
  BY SystemAssumption, LenProperties DEF SysInv, CargoInv
<1>2. pc # "idle" => number >= 1 /\ number \notin stray
  BY DEF SysInv, CargoInv
<1>3. \A k \in 1 .. Len(cargo) : cargo[k] \in 1 .. number
  BY <1>1, ElementOfSeq
<1>4. CASE Keeps
  BY <1>1, <1>2, <1>4 DEF Keeps, sysvars, CargoInv
<1>5. CASE Counts
  <2>1. cargo \in Seq(1 .. number + 1)
    BY <1>1, WiderSeq
  <2> QED
    BY <1>1, <1>5, <2>1 DEF Counts, CargoInv
<1>6. CASE Loads
  <2>1. number \in 1 .. number
    BY <1>1, <1>2, <1>6 DEF Loads
  <2>2. /\ cargo' \in Seq(1 .. number) /\ Len(cargo') = Len(cargo) + 1
        /\ \A k \in 1 .. Len(cargo) : cargo'[k] = cargo[k]
        /\ cargo'[Len(cargo) + 1] = number
    BY <1>1, <1>6, <2>1, AppendElements DEF Loads
  <2>3. ASSUME NEW j \in 1 .. Len(cargo) + 1, NEW k \in 1 .. Len(cargo) + 1, j < k
        PROVE  cargo'[j] <= cargo'[k]
    <3>1. j \in 1 .. Len(cargo) /\ cargo'[j] = cargo[j] /\ cargo[j] <= number
      BY <1>1, <1>3, <2>2, <2>3
    <3>2. CASE k = Len(cargo) + 1
      BY <2>2, <3>1, <3>2
    <3>3. CASE k \in 1 .. Len(cargo)
      BY <1>1, <2>2, <2>3, <3>1, <3>3 DEF Sorted
    <3> QED
      BY <1>1, <3>2, <3>3
  <2>4. Sorted(cargo')
    BY <2>2, <2>3 DEF Sorted
  <2> QED
    BY <1>1, <1>2, <1>6, <2>2, <2>4 DEF Loads, CargoInv, Sorted
<1>7. CASE Serves
  <2>1. cargo # <<>>
    BY <1>1, <1>7, EmptySeq DEF Serves, SysInv, BaseInv, TypeOK
  <2>2. /\ cargo' \in Seq(1 .. number) /\ Len(cargo') = Len(cargo) - 1
        /\ Head(cargo) = cargo[1] /\ Len(cargo) > 0
        /\ \A k \in 1 .. Len(cargo) - 1 : cargo'[k] = cargo[k + 1]
    BY <1>1, <1>7, <2>1, TailElements DEF Serves
  <2>3. Len(pending') = Len(pending) - 1
    BY <1>7, TailElements DEF Serves, SysInv, BaseInv, TypeOK
  <2>4. Sorted(cargo')
    BY <1>1, <2>2 DEF Sorted
  <2>5. carried' \subseteq 1 .. number
    BY <1>1, <1>3, <1>7, <2>2 DEF Serves
  <2> QED
    BY <1>1, <1>2, <1>7, <2>2, <2>3, <2>4, <2>5 DEF Serves, CargoInv, Sorted
<1>8. CASE Closes
  <2>1. stray' \subseteq 1 .. number
    BY <1>1, <1>3, <1>8 DEF Closes
  <2>2. cargo' \in Seq(1 .. number) /\ Len(cargo') = 0 /\ Len(pending') = 0
    BY <1>8 DEF Closes
  <2> QED
    BY <1>1, <1>8, <2>1, <2>2 DEF Closes, CargoInv, Sorted
<1>9. CASE Drifts
  BY <1>1, <1>2, <1>9 DEF Drifts, vars, CargoInv
<1> QED
  BY <1>4, <1>5, <1>6, <1>7, <1>8, <1>9, SystemStepCargo

LEMMA SysStep ==
  ASSUME SysInv, [SystemNext]_allvars
  PROVE  SysInv'
BY CargoStep, SystemStepIsClient, BaseStep DEF SysInv

LEMMA SysInvariant == SystemSpec => []SysInv
<1>1. SystemInit => SysInv
  BY BaseInit, SystemAssumption DEF SystemInit, Init, SysInv, CargoInv, CallNumbers, Sorted
<1>2. SysInv /\ [SystemNext]_allvars => SysInv'
  BY SysStep
<1> QED
  BY <1>1, <1>2, PTL DEF SystemSpec

(* Every pending request is one of a call that was made, in the order the     *)
(* calls were, and only calls that were made are carried out (SystemTypeOK).  *)
THEOREM SystemTypeCorrect == SystemSpec => []SystemTypeOK
<1>1. SysInv => SystemTypeOK
  BY DEF SysInv, BaseInv, CargoInv, Sorted, SystemTypeOK
<1> QED
  BY <1>1, SysInvariant, PTL

(* ------------------------------ what ok settles ---------------------------- *)

(* An answer that can still be accepted: no exception, its unit id and its    *)
(* bits as they were sent, to the last request.                               *)
Acceptable(f) ==
  f # Junk /\ f.age = 0 /\ ~f.exception /\ (IsTcp \/ f.intact) /\ f.slave # Alien

(* Of what is on its way only the last can be of the last request: while an   *)
(* acceptable answer waits to be read, the request is done and nothing else   *)
(* is pending.                                                                *)
LastInv ==
  pc \in {"check", "recv"} =>
    /\ \A k \in 1 .. Len(pending) :
         pending[k].age = 0 => k = Len(pending) /\ cargo[k] = number
    /\ \A k \in 1 .. Len(rx) :
         Acceptable(rx[k]) => pending = <<>> /\ number \in carried

OkInv ==
  /\ pc \in {"judge", "idle"} /\ ret = "OK" => answer # None
  /\ pc \in {"exhausted", "flush"} => ret \in {"CRC", "SKIP"}
  /\ pc \in {"judge", "idle"} /\ ret = "OK" /\ answer.age = 0
       => number \in carried /\ pending = <<>>

SettledInv == SysInv /\ LastInv /\ OkInv

LEMMA SettledCall ==
  ASSUME RetryTimes > 0, NEW o \in Ops, SysCall(o)
  PROVE  LastInv' /\ OkInv'
<1>1. pc' = "send" \/ (pc' = "idle" /\ ret' = "IO")
  BY DEF SysCall, Call, CallConnected, CallWithoutReconnect, CallConnectFails, CallReconnects,
         StartCall, EnterLoop, LoopHead
<1> QED
  BY <1>1 DEF LastInv, OkInv

LEMMA SettledSend ==
  ASSUME SettledInv, SysSend
  PROVE  LastInv' /\ OkInv'
<1>1. /\ pending \in Seq(Frame) /\ rx \in Seq(Item) /\ Request \in Frame
      /\ Len(pending) \in Nat /\ Len(rx) \in Nat
      /\ cargo \in Seq(CallNumbers) /\ Len(cargo) = Len(pending)
  BY RequestType, LenProperties
  DEF SettledInv, SysInv, BaseInv, TypeOK, CargoInv, Item
<1>2. CASE pc' = "judge" /\ ret' = "IO"
  BY <1>2 DEF LastInv, OkInv
<1>3. CASE pc' = "check" /\ pending' = Append(AllOlder(pending), Request)
  <2>1. /\ AllOlder(pending) \in Seq(Frame) /\ Len(AllOlder(pending)) = Len(pending)
        /\ \A k \in 1 .. Len(pending) : AllOlder(pending)[k] = Older(pending[k])
    BY <1>1, OlderType, AllOlderType, AllOlderElements
  <2>2. /\ Len(pending') = Len(pending) + 1
        /\ \A k \in 1 .. Len(pending) : pending'[k] = Older(pending[k])
    BY <1>1, <1>3, <2>1, AppendElements
  <2>3. \A k \in 1 .. Len(pending) : pending'[k].age # 0
    BY <1>1, <2>2, OlderIsOld, ElementOfSeq
  <2>4. cargo' = Append(cargo, number) /\ number \in CallNumbers /\ number' = number
    BY <2>2, <1>1 DEF SysSend, Send, SettledInv, SysInv, CargoInv, CallNumbers
  <2>5. cargo'[Len(cargo) + 1] = number
    BY <1>1, <2>4, AppendElements
  <2>6. \A k \in 1 .. Len(pending') :
          pending'[k].age = 0 => k = Len(pending') /\ cargo'[k] = number'
    BY <1>1, <2>2, <2>3, <2>4, <2>5
  <2>7. ASSUME NEW k \in 1 .. Len(rx')
        PROVE  ~Acceptable(rx'[k])
    <3>1. Len(rx') = Len(rx) /\ rx'[k] = Older(rx[k]) /\ rx[k] \in Item
      BY <1>1, <2>7, AllOlderElements, ElementOfSeq DEF SysSend, Send
    <3>2. CASE rx[k] = Junk
      BY <3>1, <3>2 DEF Older, Acceptable
    <3>3. CASE rx[k] \in Frame
      BY <3>1, <3>3, OlderIsOld DEF Acceptable
    <3> QED
      BY <3>1, <3>2, <3>3 DEF Item
  <2> QED
    BY <1>3, <2>6, <2>7 DEF LastInv, OkInv, Acceptable
<1> QED
  BY <1>2, <1>3 DEF SysSend, Send

(* RET_OK is returned only for an acceptable answer, or one a whole turn of   *)
(* the transaction ids old.                                                   *)
LEMMA RecvOk ==
  ASSUME TypeOK, Recv, ret' = "OK"
  PROVE  /\ rx # <<>> /\ answer' = Head(rx) /\ answer' # None
         /\ answer'.age = 0 => Acceptable(Head(rx))
         /\ UNCHANGED <<pending, faults>>
<1>1. RecvAnswer
  BY DEF Recv, RecvNothing, RecvPartial, RecvOtherTid, RecvOtherSlave, RecvOtherFunction,
         RecvException, RecvGarbled, RecvJunk, Received, Reported
<1>2. rx # <<>> /\ Head(rx) # Junk /\ answer' = Head(rx) /\ Head(rx).slave = slave
      /\ ~Head(rx).exception /\ (IsTcp \/ Head(rx).intact) /\ UNCHANGED <<pending, faults>>
  BY <1>1 DEF RecvAnswer, FromOurSlave, FrameAtHead, CrcOk, Received, Reported
<1>3. Head(rx) \in Frame
  BY <1>2, HeadTailProperties DEF TypeOK
<1>4. slave # Alien
  BY ClientAssumption DEF TypeOK
<1> QED
  BY <1>2, <1>3, <1>4, ClientModelValues DEF Acceptable

LEMMA SettledRecv ==
  ASSUME SettledInv, Recv, carried \subseteq carried', number' = number
  PROVE  LastInv' /\ OkInv'
<1>1. pc = "recv" /\ pc' = "judge" /\ TypeOK
  BY DEF Recv, RecvNothing, RecvPartial, RecvOtherTid, RecvOtherSlave, RecvOtherFunction,
         RecvException, RecvGarbled, RecvAnswer, RecvJunk, Received, SettledInv, SysInv, BaseInv
<1>2. CASE ret' # "OK"
  BY <1>1, <1>2 DEF LastInv, OkInv
<1>3. CASE ret' = "OK"
  <2>1. /\ rx # <<>> /\ answer' # None /\ pending' = pending
        /\ answer'.age = 0 => Acceptable(rx[1])
        /\ 1 \in 1 .. Len(rx)
    BY <1>1, <1>3, RecvOk, TailElements DEF TypeOK
  <2>2. answer'.age = 0 => pending = <<>> /\ number \in carried
    BY <1>1, <2>1 DEF SettledInv, LastInv
  <2> QED
    BY <1>1, <2>1, <2>2 DEF LastInv, OkInv
<1> QED
  BY <1>2, <1>3

LEMMA SettledAfter ==
  ASSUME SettledInv, CheckTimeout \/ Retry \/ Return \/ Exhausted \/ Flush,
         UNCHANGED <<number, carried>>, cargo' = cargo \/ pc' = "idle"
  PROVE  LastInv' /\ OkInv'
<1>1. CASE CheckTimeout
  BY <1>1 DEF CheckTimeout, SettledInv, LastInv, OkInv, Acceptable
<1>2. CASE Retry
  BY <1>2 DEF Retry, NeedRetry, LoopHead, SettledInv, LastInv, OkInv
<1>3. CASE Return
  <2>1. pc = "judge" /\ pc' = "idle" /\ UNCHANGED <<ret, answer>>
    BY <1>3 DEF Return
  <2>2. ret = "OK" => pending' = pending
    BY <1>3 DEF Return, CheckConnectStatus, line
  <2> QED
    BY <2>1, <2>2 DEF SettledInv, LastInv, OkInv
<1>4. CASE Exhausted
  BY <1>4 DEF Exhausted, SettledInv, LastInv, OkInv
<1>5. CASE Flush
  BY <1>5 DEF Flush, SettledInv, LastInv, OkInv
<1> QED
  BY <1>1, <1>2, <1>3, <1>4, <1>5

(* What the far end may put on the line for a request that was not done.      *)
Puts(f) == rx' = rx \/ rx' = Append(rx, f)

LEMMA FarEndPuts ==
  ASSUME TypeOK, FarEnd
  PROVE  /\ pending # <<>> /\ pending' = Tail(pending)
         /\ UNCHANGED <<pc, ret, answer>>
         /\ \E f \in Frame : /\ Puts(f)
                             /\ f.age = Head(pending).age
                             /\ Acceptable(f) => Answer \/ rx' = rx
<1>1. pending # <<>> /\ pending' = Tail(pending) /\ UNCHANGED <<pc, ret, answer>>
  BY DEF FarEnd, Answer, Lose, AnswerException, AnswerAsOther, AnswerGarbled, Deliver
<1> DEFINE h == Head(pending)
<1>2. h \in Frame
  BY <1>1, HeadTailProperties DEF TypeOK
<1>3. CASE Answer
  BY <1>1, <1>2, <1>3 DEF Answer, Deliver, Puts
<1>4. CASE Lose
  BY <1>1, <1>2, <1>4 DEF Lose, Puts
<1>5. CASE AnswerException
  <2> DEFINE f == [h EXCEPT !.exception = TRUE]
  <2>1. f \in Frame /\ f.age = h.age /\ f.exception
    BY <1>2 DEF Frame
  <2>2. Puts(f)
    BY <1>5 DEF AnswerException, Deliver, Puts
  <2> HIDE DEF f, h
  <2> QED
    BY <1>1, <2>1, <2>2 DEF Acceptable, h
<1>6. CASE AnswerAsOther
  <2> DEFINE f == [h EXCEPT !.slave = Alien]
  <2>1. f \in Frame /\ f.age = h.age /\ f.slave = Alien
    BY <1>2 DEF Frame
  <2>2. Puts(f)
    BY <1>6 DEF AnswerAsOther, Deliver, Puts
  <2> HIDE DEF f, h
  <2> QED
    BY <1>1, <2>1, <2>2 DEF Acceptable, h
<1>7. CASE AnswerGarbled
  <2>1. PICK c \in {h.fc, Alien} : Deliver([h EXCEPT !.fc = c, !.intact = FALSE])
    BY <1>7 DEF AnswerGarbled
  <2> DEFINE f == [h EXCEPT !.fc = c, !.intact = FALSE]
  <2>2. f \in Frame /\ f.age = h.age /\ ~f.intact
    BY <1>2 DEF Frame, Codes
  <2>3. Puts(f) /\ ~IsTcp
    BY <1>7, <2>1 DEF AnswerGarbled, Deliver, Puts
  <2> HIDE DEF f, h
  <2> QED
    BY <1>1, <2>2, <2>3 DEF Acceptable, h
<1> QED
  BY <1>3, <1>4, <1>5, <1>6, <1>7 DEF FarEnd

(* To go wrong is not to answer.                                              *)
LEMMA SpendIsNoAnswer ==
  ASSUME TypeOK, NEW k, Spend(k)
  PROVE  ~Answer
<1>1. faults'.left = faults.left - 1 /\ faults.left \in Int
  BY DEF Spend, TypeOK
<1> QED
  BY <1>1 DEF Answer

LEMMA SettledFarEnd ==
  ASSUME SettledInv, FarEnd, \E done \in BOOLEAN : Served(done), Answer => Served(TRUE)
  PROVE  LastInv' /\ OkInv'
<1>1. /\ TypeOK /\ pending \in Seq(Frame) /\ rx \in Seq(Item)
      /\ cargo \in Seq(CallNumbers) /\ Len(cargo) = Len(pending)
  BY DEF SettledInv, SysInv, BaseInv, TypeOK, CargoInv, Item
<1>2. /\ pending # <<>> /\ pending' = Tail(pending) /\ UNCHANGED <<pc, ret, answer, number>>
      /\ cargo' = Tail(cargo) /\ carried \subseteq carried'
  BY <1>1, FarEndPuts DEF Served
<1>3. PICK f \in Frame : Puts(f) /\ f.age = Head(pending).age
                       /\ (Acceptable(f) => Answer \/ rx' = rx)
  BY <1>1, FarEndPuts
<1>4. OkInv'
  BY <1>2 DEF SettledInv, OkInv
<1>5. CASE pc \in {"check", "recv"}
  <2>1. /\ Len(pending) \in Nat /\ Len(pending) > 0 /\ Len(pending') = Len(pending) - 1
        /\ Head(pending) = pending[1]
        /\ \A k \in 1 .. Len(pending) - 1 : pending'[k] = pending[k + 1]
    BY <1>1, <1>2, TailElements
  <2>2. cargo # <<>>
    BY <1>1, <2>1
  <2>3. /\ Head(cargo) = cargo[1]
        /\ \A k \in 1 .. Len(pending) - 1 : cargo'[k] = cargo[k + 1]
    BY <1>1, <1>2, <2>2, TailElements
  <2>4. /\ \A k \in 1 .. Len(pending) :
             pending[k].age = 0 => k = Len(pending) /\ cargo[k] = number
        /\ \A k \in 1 .. Len(rx) : ~Acceptable(rx[k])
    BY <1>2, <1>5 DEF SettledInv, LastInv
  <2>5. ASSUME NEW k \in 1 .. Len(pending'), pending'[k].age = 0
        PROVE  k = Len(pending') /\ cargo'[k] = number'
    <3>1. /\ k \in 1 .. Len(pending) - 1 /\ k + 1 \in 1 .. Len(pending)
          /\ pending'[k] = pending[k + 1] /\ cargo'[k] = cargo[k + 1]
      BY <2>1, <2>3
    <3>2. k + 1 = Len(pending) /\ cargo[k + 1] = number
      BY <2>4, <2>5, <3>1
    <3>3. number' = number
      BY <1>2
    <3>4. k = Len(pending) - 1
      BY <2>1, <3>1, <3>2
    <3> QED
      BY <2>1, <3>1, <3>2, <3>3, <3>4
  <2>6. ASSUME NEW k \in 1 .. Len(rx'), Acceptable(rx'[k])
        PROVE  pending' = <<>> /\ number' \in carried'
    <3>1. rx' # rx
      BY <2>4, <2>6
    <3>2. rx' = Append(rx, f) /\ rx \in Seq(Item) /\ f \in Item
      BY <1>1, <1>3, <3>1 DEF Puts, Item
    <3>3. k = Len(rx) + 1 /\ rx'[k] = f
      BY <2>4, <2>6, <3>2, AppendElements
    <3>4. Answer /\ f.age = 0
      BY <1>3, <2>6, <3>1, <3>3 DEF Acceptable
    <3>5. Len(pending) = 1 /\ cargo[1] = number
      BY <1>3, <2>1, <2>4, <3>4
    <3>6. carried' = carried \cup {Head(cargo)}
      BY <3>4 DEF Served
    <3> QED
      <4>1. number' = number /\ number \in carried'
        BY <1>2, <2>3, <3>5, <3>6
      <4>2. pending' \in Seq(Frame) /\ Len(pending') = 0
        BY <1>1, <1>2, <2>1, <3>5, TailElements
      <4> QED
        BY <4>1, <4>2, EmptySeq
  <2> QED
    BY <1>4, <2>5, <2>6 DEF LastInv, Acceptable
<1>6. CASE pc \notin {"check", "recv"}
  BY <1>2, <1>4, <1>6 DEF LastInv
<1> QED
  BY <1>5, <1>6

LEMMA SettledStep ==
  ASSUME RetryTimes > 0, SettledInv, [SystemNext]_allvars
  PROVE  SettledInv'
<1>1. SysInv'
  BY SysStep DEF SettledInv
<1>2. SUFFICES LastInv' /\ OkInv'
  BY <1>1 DEF SettledInv
<1>3. CASE UNCHANGED allvars
  BY <1>3 DEF allvars, vars, sysvars, SettledInv, LastInv, OkInv, Acceptable
<1>4. CASE SysSet
  <2>1. UNCHANGED <<pc, ret, answer, rx, pending, number, cargo, carried>>
    BY <1>4 DEF SysSet, sysvars, SetSlave, SetAutoReconnect, line
  <2> QED
    BY <2>1 DEF SettledInv, LastInv, OkInv, Acceptable
<1>5. CASE SysLocal
  <2>1. Recv \/ CheckTimeout \/ Retry \/ Flush
    BY <1>5 DEF SysLocal, Recv
  <2>2. UNCHANGED <<number, cargo, carried>>
    BY <1>5 DEF SysLocal, sysvars
  <2> QED
    BY <2>1, <2>2, SettledRecv, SettledAfter
<1>6. CASE SysEnd
  <2>1. cargo' = cargo \/ pc' = "idle"
    BY <1>6, EndCargo DEF SettledInv, Keeps, Closes, sysvars
  <2> QED
    BY <1>6, <2>1, SettledAfter DEF SysEnd
<1>7. CASE SysAnswer
  BY <1>7, SettledFarEnd DEF SysAnswer, FarEnd
<1>8. CASE SysAnswerBadly
  <2>1. PICK done \in BOOLEAN : Served(done)
    BY <1>8 DEF SysAnswerBadly
  <2>2. carried \subseteq carried' /\ number' = number
    BY <2>1 DEF Served
  <2>3. CASE RecvPartial
    BY <2>2, <2>3, SettledRecv DEF Recv
  <2>4. CASE Lose \/ AnswerException \/ AnswerAsOther \/ AnswerGarbled
    <3>1. ~Answer
      BY <2>4, SpendIsNoAnswer
      DEF Lose, AnswerException, AnswerAsOther, AnswerGarbled, SettledInv, SysInv, BaseInv
    <3> QED
      BY <2>1, <2>4, <3>1, SettledFarEnd DEF FarEnd
  <2> QED
    BY <1>8, <2>3, <2>4 DEF SysAnswerBadly
<1>9. CASE StrayServed
  <2>1. UNCHANGED <<vars, number, cargo>> /\ carried \subseteq carried'
    BY <1>9 DEF StrayServed
  <2> QED
    BY <2>1 DEF vars, SettledInv, LastInv, OkInv, Acceptable
<1> QED
  BY <1>3, <1>4, <1>5, <1>6, <1>7, <1>8, <1>9, SettledCall, SettledSend DEF SystemNext, SettledInv

LEMMA SettledInvariant ==
  ASSUME RetryTimes > 0
  PROVE  SystemSpec => []SettledInv
<1>1. SystemInit => SettledInv
  <2>1. SystemInit => SysInv
    BY BaseInit, SystemAssumption DEF SystemInit, Init, SysInv, CargoInv, CallNumbers, Sorted
  <2> QED
    BY <2>1 DEF SystemInit, Init, SettledInv, LastInv, OkInv
<1>2. SettledInv /\ [SystemNext]_allvars => SettledInv'
  BY SettledStep
<1> QED
  BY <1>1, <1>2, PTL DEF SystemSpec

(* On every transport, a call that returns RET_OK with the answer to its last *)
(* request has been carried out, and none of its requests, nor of a call      *)
(* before it, is left on the connection (OkIsSettled).                        *)
THEOREM OkSettles ==
  ASSUME RetryTimes > 0
  PROVE  SystemSpec => []OkIsSettled
<1>1. SettledInv => OkIsSettled
  <2> SUFFICES ASSUME SettledInv, pc = "idle", ret = "OK", answer # None => answer.age = 0
               PROVE  number \in carried /\ cargo = <<>>
    BY DEF OkIsSettled
  <2>1. number \in carried /\ pending = <<>>
    BY DEF SettledInv, OkInv
  <2>2. cargo \in Seq(CallNumbers) /\ Len(cargo) = Len(pending)
    BY DEF SettledInv, SysInv, CargoInv
  <2>3. Len(cargo) = 0
    BY <2>1, <2>2
  <2> QED
    BY <2>1, <2>2, <2>3, EmptySeq
<1> QED
  BY <1>1, SettledInvariant, PTL

(* ------------------------- the promise to the caller ----------------------- *)

(* What the promise sees of cargo and stray. *)
Loaded == {cargo[k] : k \in 1 .. Len(cargo)}
Mine == IF pc = "idle" THEN {} ELSE {number}
Waiting == Loaded \ Mine
Adrift == stray \ Mine
Ending == IF pc = "idle" THEN ret ELSE "NONE"

LEMMA TailLoaded ==
  ASSUME NEW S, NEW q \in Seq(S), q # <<>>
  PROVE  /\ {Tail(q)[k] : k \in 1 .. Len(Tail(q))} \subseteq {q[k] : k \in 1 .. Len(q)}
         /\ Head(q) \in {q[k] : k \in 1 .. Len(q)}
<1>1. \A k \in 1 .. Len(Tail(q)) : Tail(q)[k] = q[k + 1] /\ k + 1 \in 1 .. Len(q)
  BY TailElements
<1>2. Head(q) = q[1] /\ 1 \in 1 .. Len(q)
  BY TailElements
<1> QED
  BY <1>1, <1>2

LEMMA LoadedIsNumbered ==
  ASSUME SysInv
  PROVE  /\ number \in Nat /\ Loaded \subseteq 1 .. number /\ stray \subseteq 1 .. number
         /\ pc # "idle" => number \notin stray
         /\ pending = <<>> => Loaded = {}
<1>1. /\ number \in Nat /\ stray \subseteq 1 .. number /\ cargo \in Seq(1 .. number)
      /\ pc # "idle" => number \notin stray
      /\ Len(cargo) = Len(pending)
  BY SystemAssumption DEF SysInv, CargoInv, CallNumbers
<1>2. \A k \in 1 .. Len(cargo) : cargo[k] \in 1 .. number
  BY <1>1, ElementOfSeq
<1>3. pending = <<>> => Len(cargo) = 0
  BY <1>1
<1> QED
  BY <1>1, <1>2, <1>3 DEF Loaded

(* The steps of the promise, in terms of what it sees.                        *)
SeenSame == (pc' = "idle" <=> pc = "idle") /\ Ending' = Ending /\ number' = number

LEMMA RemoteStutter ==
  ASSUME SeenSame, carried' = carried, Waiting' = Waiting, Adrift' = Adrift
  PROVE  UNCHANGED Remote!vars
BY DEF SeenSame, Waiting, Adrift, Loaded, Mine, Ending, Remote!vars

LEMMA RemoteStart ==
  ASSUME pc = "idle", pc' # "idle", number' = number + 1, carried' = carried,
         Waiting' = Waiting, Adrift' = Adrift
  PROVE  Remote!Start
BY DEF Waiting, Adrift, Loaded, Mine, Remote!Start

LEMMA RemoteFailAtOnce ==
  ASSUME pc = "idle", pc' = "idle", ret' = "IO", number' = number + 1, carried' = carried,
         Waiting' = Waiting, Adrift' = Adrift
  PROVE  Remote!FailAtOnce
BY DEF Waiting, Adrift, Loaded, Mine, Remote!FailAtOnce

LEMMA RemoteSucceed ==
  ASSUME pc # "idle", pc' = "idle", ret' = "OK", number \in carried, Waiting = {},
         UNCHANGED <<number, carried>>, Waiting' = Waiting, Adrift' = Adrift
  PROVE  Remote!Succeed
BY DEF Waiting, Adrift, Loaded, Mine, Remote!Succeed

LEMMA RemoteFail ==
  ASSUME pc # "idle", pc' = "idle", ret' \notin {"NONE", "OK"}, UNCHANGED <<number, carried>>,
         Waiting' \subseteq Waiting \cup {number},
         Adrift' \subseteq Adrift \cup Waiting \cup {number}
  PROVE  Remote!Fail
BY DEF Waiting, Adrift, Loaded, Mine, Remote!Fail

LEMMA RemoteLose ==
  ASSUME SeenSame, carried' = carried, Waiting' \subseteq Waiting,
         Adrift' \subseteq Adrift \cup Waiting
  PROVE  Remote!Lose
BY DEF SeenSame, Waiting, Adrift, Loaded, Mine, Ending, Remote!Lose

LEMMA RemoteCarryOut ==
  ASSUME SeenSame, NEW n \in Waiting \cup Adrift \cup Mine,
         carried' = carried \cup {n}, Waiting' \subseteq Waiting, Adrift' \subseteq Adrift
  PROVE  \E m \in Waiting \cup Adrift \cup {number} : Remote!CarryOut(m)
BY DEF SeenSame, Waiting, Adrift, Loaded, Mine, Ending, Remote!CarryOut

(* Within a call its own requests do not count, so that loading one and       *)
(* looking at what has come change nothing.                                   *)
LEMMA WithinCall ==
  ASSUME SysInv, pc # "idle", pc' # "idle", UNCHANGED <<number, stray, carried>>,
         cargo' = cargo \/ cargo' = Append(cargo, number)
  PROVE  UNCHANGED Remote!vars
<1>1. Loaded' = Loaded \/ Loaded' = Loaded \cup {number}
  <2>1. CASE cargo' = cargo
    BY <2>1 DEF Loaded
  <2>2. CASE cargo' = Append(cargo, number)
    <3>1. cargo \in Seq(1 .. number) /\ number \in 1 .. number
      BY SystemAssumption DEF SysInv, CargoInv, CallNumbers
    <3>2. /\ Len(cargo') = Len(cargo) + 1 /\ Len(cargo) \in Nat
          /\ \A k \in 1 .. Len(cargo) : cargo'[k] = cargo[k]
          /\ cargo'[Len(cargo) + 1] = number
      BY <2>2, <3>1, AppendElements
    <3>3. 1 .. Len(cargo') = (1 .. Len(cargo)) \cup {Len(cargo) + 1}
      BY <3>2
    <3> QED
      BY <3>2, <3>3 DEF Loaded
  <2> QED
    BY <2>1, <2>2
<1>2. Waiting' = Waiting /\ Adrift' = Adrift /\ SeenSame
  BY <1>1 DEF Waiting, Adrift, Mine, SeenSame, Ending
<1> QED
  BY <1>2, RemoteStutter

LEMMA ServedRemote ==
  ASSUME SysInv, pending # <<>>, NEW done \in BOOLEAN, Served(done),
         \/ pc # "idle" /\ pc' # "idle"
         \/ UNCHANGED <<pc, ret>>
  PROVE  Remote!Next
<1>1. cargo \in Seq(1 .. number) /\ Len(cargo) = Len(pending)
      /\ (pc # "idle" => number \notin stray)
  BY DEF SysInv, CargoInv, CallNumbers
<1>2. cargo # <<>>
  BY <1>1, TailElements DEF SysInv, BaseInv, TypeOK
<1>3. Loaded' \subseteq Loaded /\ Head(cargo) \in Loaded
  BY <1>1, <1>2, TailLoaded DEF Loaded, Served
<1>4. SeenSame /\ stray' = stray /\ Mine' = Mine
  BY DEF SeenSame, Ending, Served, Mine
<1>5. Waiting' \subseteq Waiting /\ Adrift' = Adrift
  BY <1>3, <1>4 DEF Waiting, Adrift
<1>6. CASE carried' = carried
  BY <1>4, <1>5, <1>6, RemoteLose DEF Remote!Next
<1>7. CASE carried' = carried \cup {Head(cargo)}
  <2>1. Head(cargo) \in Waiting \cup Adrift \cup Mine
    BY <1>3 DEF Waiting
  <2> QED
    BY <1>4, <1>5, <1>7, <2>1, RemoteCarryOut DEF Remote!Next, Waiting, Adrift, Loaded, Mine
<1> QED
  BY <1>6, <1>7 DEF Served

LEMMA EndRemote ==
  ASSUME SettledInv, AnsweredInTurn, SysEnd
  PROVE  [Remote!Next]_(Remote!vars)
<1>1. SysInv /\ pc # "idle" /\ UNCHANGED <<number, carried, ret, answer>>
  BY DEF SettledInv, SysEnd, Return, Exhausted
<1>2. /\ Loaded \subseteq 1 .. number /\ number \notin stray
      /\ pending = <<>> => Loaded = {}
  BY <1>1, LoadedIsNumbered
<1>3. (pc' = "idle" /\ Return) \/ (pc' # "idle" /\ UNCHANGED <<cargo, stray>>)
  BY <1>1, EndCargo DEF SysEnd, Return, Exhausted, Closes, Keeps, sysvars
<1>4. CASE pc' # "idle"
  BY <1>1, <1>3, <1>4, WithinCall
<1>5. CASE Return /\ ret = "OK"
  <2>1. pc' = "idle" /\ ret' = "OK" /\ UNCHANGED pending
    BY <1>5 DEF Return, CheckConnectStatus, line
  <2>2. number \in carried /\ pending = <<>> /\ UNCHANGED <<cargo, stray>>
    BY <1>5, <2>1 DEF SettledInv, OkInv, AnsweredInTurn, Return, SysEnd
  <2>3. Loaded = {} /\ Loaded' = Loaded
    BY <1>2, <2>2 DEF Loaded
  <2>4. Waiting = {} /\ Waiting' = Waiting /\ Adrift' = Adrift
    BY <1>2, <2>1, <2>2, <2>3 DEF Waiting, Adrift, Mine
  <2> QED
    BY <1>1, <2>1, <2>2, <2>4, RemoteSucceed DEF Remote!Next
<1>6. CASE Return /\ ret # "OK"
  <2>1. pc' = "idle" /\ ret' \notin {"NONE", "OK"}
    BY <1>1, <1>6 DEF Return, SettledInv, SysInv, BaseInv, LinkInv, Returns
  <2>2. \/ Loaded' = Loaded /\ stray' = stray
        \/ Loaded' = {} /\ stray' = stray \cup Loaded
    BY <1>1, EndCargo DEF Closes, Keeps, sysvars, Loaded
  <2>3. /\ Waiting' \subseteq Waiting \cup {number}
        /\ Adrift' \subseteq Adrift \cup Waiting \cup {number}
    BY <2>2 DEF Waiting, Adrift, Mine
  <2> QED
    BY <1>1, <2>1, <2>3, RemoteFail DEF Remote!Next
<1> QED
  BY <1>3, <1>4, <1>5, <1>6

LEMMA SystemImplements ==
  ASSUME RetryTimes > 0, SettledInv, AnsweredInTurn, [SystemNext]_allvars
  PROVE  [Remote!Next]_(Remote!vars)
<1>0. SysInv /\ TypeOK
  BY DEF SettledInv, SysInv, BaseInv
<1>1. CASE UNCHANGED allvars \/ SysSet
  <2>1. UNCHANGED <<pc, ret, number, cargo, stray, carried>>
    BY <1>1 DEF allvars, vars, sysvars, SysSet, SetSlave, SetAutoReconnect
  <2> QED
    BY <2>1, RemoteStutter DEF SeenSame, Ending, Waiting, Adrift, Loaded, Mine
<1>2. ASSUME NEW o \in Ops, SysCall(o)
      PROVE  Remote!Next
  <2>1. /\ pc = "idle" /\ number' = number + 1 /\ UNCHANGED <<cargo, stray, carried>>
        /\ pc' # "idle" \/ (pc' = "idle" /\ ret' = "IO")
    BY <1>2 DEF SysCall, far, Call, CallConnected, CallWithoutReconnect, CallConnectFails,
                CallReconnects, StartCall, EnterLoop, LoopHead
  <2>2. Loaded \subseteq 1 .. number /\ stray \subseteq 1 .. number /\ number \in Nat
    BY <1>0, LoadedIsNumbered
  <2>3. number + 1 \notin Loaded /\ number + 1 \notin stray /\ Loaded' = Loaded
    BY <2>1, <2>2 DEF Loaded
  <2>4. Waiting' = Waiting /\ Adrift' = Adrift
    BY <2>1, <2>3 DEF Waiting, Adrift, Mine
  <2> QED
    BY <2>1, <2>4, RemoteStart, RemoteFailAtOnce DEF Remote!Next
<1>3. CASE SysSend
  <2>1. pc # "idle" /\ pc' # "idle"
    BY <1>3 DEF SysSend, Send
  <2> QED
    BY <1>0, <1>3, <2>1, WithinCall DEF SysSend
<1>4. CASE SysLocal
  <2>1. CASE Flush
    <3>1. pc # "idle" /\ pc' = "idle" /\ ret' \notin {"NONE", "OK"}
      BY <2>1 DEF Flush, SettledInv, OkInv
    <3>2. UNCHANGED <<number, cargo, stray, carried>>
      BY <1>4 DEF SysLocal, sysvars
    <3>3. Waiting' \subseteq Waiting \cup {number} /\ Adrift' \subseteq Adrift \cup {number}
      BY <3>1, <3>2 DEF Waiting, Adrift, Loaded, Mine
    <3> QED
      BY <3>1, <3>2, <3>3, RemoteFail DEF Remote!Next
  <2>2. CASE ~Flush
    <3>1. pc # "idle" /\ pc' # "idle" /\ UNCHANGED <<number, cargo, stray, carried>>
      BY <1>4, <2>2 DEF SysLocal, sysvars, CheckTimeout, Retry, LoopHead, RecvNothing,
          RecvOtherTid, RecvOtherSlave, RecvOtherFunction, RecvException, RecvGarbled,
          RecvAnswer, RecvJunk, Received
    <3> QED
      BY <1>0, <3>1, WithinCall
  <2> QED
    BY <2>1, <2>2
<1>5. CASE SysEnd
  BY <1>5, EndRemote
<1>6. CASE SysAnswer \/ SysAnswerBadly
  <2>1. PICK done \in BOOLEAN : Served(done)
    BY <1>6 DEF SysAnswer, SysAnswerBadly
  <2>2. pending # <<>> /\ ((pc # "idle" /\ pc' # "idle") \/ UNCHANGED <<pc, ret>>)
    BY <1>6 DEF SysAnswer, SysAnswerBadly, RecvPartial, Received, Answer, Lose,
                AnswerException, AnswerAsOther, AnswerGarbled, Deliver
  <2> QED
    BY <1>0, <2>1, <2>2, ServedRemote
<1>7. CASE StrayServed
  <2>1. PICK n \in stray : /\ carried' \in {carried, carried \cup {n}}
                           /\ stray' \in {stray, stray \ {n}}
    BY <1>7 DEF StrayServed
  <2>2. UNCHANGED <<pc, ret, number, cargo>>
    BY <1>7 DEF StrayServed, vars
  <2>3. SeenSame /\ Waiting' = Waiting /\ Adrift' \subseteq Adrift
    BY <2>1, <2>2 DEF SeenSame, Ending, Waiting, Adrift, Loaded, Mine
  <2>4. CASE carried' = carried
    BY <2>3, <2>4, RemoteLose DEF Remote!Next
  <2>5. CASE carried' = carried \cup {n}
    <3>1. n \in Waiting \cup Adrift \cup Mine
      BY DEF Adrift
    <3> QED
      BY <2>3, <2>5, <3>1, RemoteCarryOut DEF Remote!Next, Waiting, Adrift, Loaded, Mine
  <2> QED
    BY <2>1, <2>4, <2>5
<1> QED
  BY <1>1, <1>2, <1>3, <1>4, <1>5, <1>6, <1>7 DEF SystemNext

(* As long as no answer handed out was a whole turn of the transaction ids    *)
(* old (on a line without ids: was one to an earlier call), client and slave  *)
(* together keep the promise of RemoteCall (KeepsRemotePromise): what RET_OK  *)
(* was returned for was done, never after the return, and together with       *)
(* everything the connection carried before it.                               *)
THEOREM SystemKeepsRemotePromise ==
  ASSUME RetryTimes > 0
  PROVE  SystemSpec /\ []AnsweredInTurn => KeepsRemotePromise
<1>1. SystemInit => Remote!Init
  BY DEF SystemInit, Init, Remote!Init
<1>2. SettledInv /\ AnsweredInTurn /\ [SystemNext]_allvars => [Remote!Next]_(Remote!vars)
  BY SystemImplements
<1> QED
  BY <1>1, <1>2, SettledInvariant, PTL DEF SystemSpec, KeepsRemotePromise, Remote!Spec

(* ----------------------------- success is final ---------------------------- *)

(* Call n is over, and no request of it is left anywhere.                     *)
Gone(n) ==
  /\ n <= number /\ (pc # "idle" => n < number)
  /\ n \notin Loaded /\ n \notin stray

(* That cannot change: what is loaded is of the call under way, and what is   *)
(* adrift was loaded.                                                         *)
LEMMA GoneStep ==
  ASSUME SysInv, [SystemNext]_allvars, NEW n \in Nat, Gone(n)
  PROVE  Gone(n)'
<1>1. number \in Nat /\ cargo \in Seq(1 .. number) /\ Len(cargo) = Len(pending)
  BY SystemAssumption DEF SysInv, CargoInv, CallNumbers
<1>2. CASE Keeps
  BY <1>2 DEF Keeps, sysvars, Gone, Loaded
<1>3. CASE Counts
  BY <1>1, <1>3 DEF Counts, Gone, Loaded
<1>4. CASE Loads
  <2>1. number \in 1 .. number /\ n # number
    BY <1>1, <1>4 DEF Loads, Gone, SysInv, CargoInv
  <2>2. /\ Len(cargo') = Len(cargo) + 1 /\ Len(cargo) \in Nat
        /\ \A k \in 1 .. Len(cargo) : cargo'[k] = cargo[k]
        /\ cargo'[Len(cargo) + 1] = number
    BY <1>1, <1>4, <2>1, AppendElements DEF Loads
  <2>3. n \notin Loaded'
    BY <2>1, <2>2 DEF Gone, Loaded
  <2> QED
    BY <1>1, <1>4, <2>1, <2>3 DEF Loads, Gone
<1>5. CASE Serves
  <2>1. cargo # <<>>
    BY <1>1, <1>5, TailElements DEF Serves, SysInv, BaseInv, TypeOK
  <2>2. Loaded' \subseteq Loaded
    BY <1>1, <1>5, <2>1, TailLoaded DEF Serves, Loaded
  <2> QED
    BY <1>5, <2>2 DEF Serves, Gone
<1>6. CASE Closes
  <2>1. Loaded' = {} /\ stray' = stray \cup Loaded
    BY <1>6 DEF Closes, Loaded
  <2> QED
    BY <1>6, <2>1 DEF Closes, Gone
<1>7. CASE Drifts
  BY <1>7 DEF Drifts, vars, Gone, Loaded
<1> QED
  BY <1>2, <1>3, <1>4, <1>5, <1>6, <1>7, SystemStepCargo

(* A call that has returned RET_OK has none of its requests adrift.           *)
HereInv == pc = "idle" /\ ret = "OK" => number \notin stray

LEMMA HereStep ==
  ASSUME RetryTimes > 0, SettledInv, HereInv, [SystemNext]_allvars
  PROVE  HereInv'
<1>1. SysInv /\ OkInv
  BY DEF SettledInv
<1>2. pc # "idle" => number \notin stray
  BY <1>1, LoadedIsNumbered
<1>3. UNCHANGED <<ret, number>> /\ stray' \subseteq stray => HereInv'
  BY <1>2 DEF HereInv
<1>4. CASE UNCHANGED allvars \/ SysSet \/ StrayServed
  BY <1>3, <1>4 DEF allvars, vars, sysvars, SysSet, SetSlave, SetAutoReconnect, StrayServed
<1>5. ASSUME NEW o \in Ops, SysCall(o)
      PROVE  HereInv'
  BY <1>5 DEF HereInv, SysCall, Call, CallConnected, CallWithoutReconnect, CallConnectFails,
              CallReconnects, StartCall, EnterLoop, LoopHead
<1>6. CASE SysSend
  BY <1>6 DEF HereInv, SysSend, Send
<1>7. CASE SysLocal \/ SysAnswer \/ SysAnswerBadly
  <2>1. UNCHANGED <<number, stray>>
    BY <1>7 DEF SysLocal, SysAnswer, SysAnswerBadly, Served, sysvars
  <2>2. pc' = "idle" => pc # "idle" \/ UNCHANGED ret
    BY <1>7 DEF SysLocal, CheckTimeout, Retry, LoopHead, Flush, RecvNothing, RecvOtherTid,
                RecvOtherSlave, RecvOtherFunction, RecvException, RecvGarbled, RecvAnswer,
                RecvJunk, RecvPartial, Received, SysAnswer, SysAnswerBadly, Answer, Lose,
                AnswerException, AnswerAsOther, AnswerGarbled, Deliver
  <2> QED
    BY <1>2, <1>3, <2>1, <2>2 DEF HereInv
<1>8. CASE SysEnd
  <2>1. ret = "OK" => UNCHANGED stray
    BY <1>8 DEF SysEnd, Return, Exhausted, CheckConnectStatus, line
  <2>2. pc # "idle" /\ UNCHANGED <<ret, number>>
    BY <1>8 DEF SysEnd, Return, Exhausted
  <2> QED
    BY <1>2, <2>1, <2>2 DEF HereInv
<1> QED
  BY <1>4, <1>5, <1>6, <1>7, <1>8 DEF SystemNext

(* As long as no answer handed out was to an earlier call, success is final   *)
(* (SuccessIsFinal): of a call that returned RET_OK no request is left, on    *)
(* any connection, that could still be carried out.                           *)
THEOREM SuccessStaysFinal ==
  ASSUME RetryTimes > 0
  PROVE  SystemSpec /\ []AnsweredInTurn => SuccessIsFinal
<1> DEFINE Done(n) == pc = "idle" /\ ret = "OK" /\ number = n
           Final(n) == n \notin stray /\ \A k \in 1 .. Len(cargo) : cargo[k] # n
<1>1. SystemInit => HereInv
  BY DEF SystemInit, Init, HereInv
<1>2. SettledInv /\ HereInv /\ [SystemNext]_allvars => HereInv'
  BY HereStep
<1>3. ASSUME NEW n \in 1 .. MaxCalls
      PROVE  SystemSpec /\ []AnsweredInTurn => [](Done(n) => []Final(n))
  <2>1. SettledInv /\ HereInv /\ AnsweredInTurn => (Done(n) => Gone(n))
    <3> SUFFICES ASSUME SettledInv, HereInv, AnsweredInTurn, Done(n)
                 PROVE  Gone(n)
      OBVIOUS
    <3>1. pending = <<>> /\ n \notin stray
      BY DEF SettledInv, OkInv, AnsweredInTurn, HereInv
    <3>2. Loaded = {} /\ number \in Nat
      BY <3>1, LoadedIsNumbered DEF SettledInv
    <3> QED
      BY <3>1, <3>2 DEF Gone
  <2>2. SettledInv /\ Gone(n) /\ [SystemNext]_allvars => Gone(n)'
    BY GoneStep, SystemAssumption DEF SettledInv
  <2>3. Gone(n) => Final(n)
    BY DEF Gone, Loaded
  <2> QED
    BY <1>1, <1>2, <2>1, <2>2, <2>3, SettledInvariant, PTL DEF SystemSpec
<1> QED
  BY <1>3 DEF SuccessIsFinal

(* -------------------------- where nothing is assumed ----------------------- *)

(* The client in the system is the client of ModbusClient, so that what is    *)
(* proved of that one holds of this one too.                                  *)
THEOREM SystemRunsClient == SystemSpec => Spec
<1>1. SystemInit => Init
  BY DEF SystemInit
<1> QED
  BY <1>1, SystemStepIsClient, PTL DEF SystemSpec, Spec

(* Over tcp, with more transaction ids than requests can wait on the line or  *)
(* be lost, what is late, lost, partial or foreign cannot make client and     *)
(* slave break their promise (KeepsRemotePromise), and success is final       *)
(* (SuccessIsFinal).                                                          *)
THEOREM TcpSystemKeepsRemotePromise ==
  ASSUME IsTcp, RetryTimes > 0, TidMod > 2 * MaxQueue - 1 + MaxLost
  PROVE  SystemSpec => KeepsRemotePromise /\ SuccessIsFinal
BY SystemRunsClient, IdsDoNotComeRound, SystemKeepsRemotePromise, SuccessStaysFinal, PTL

(* The same on every transport as long as no answer is late and no frame is   *)
(* damaged.                                                                   *)
THEOREM UndisturbedSystemKeepsRemotePromise ==
  ASSUME RetryTimes > 0
  PROVE  SystemSpec /\ []~faults.disturbed => KeepsRemotePromise /\ SuccessIsFinal
BY SystemRunsClient, UndisturbedAnsweredInTurn, SystemKeepsRemotePromise, SuccessStaysFinal, PTL
=============================================================================
