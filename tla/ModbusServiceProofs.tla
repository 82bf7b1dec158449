------------------------- MODULE ModbusServiceProofs -------------------------
(* Theorems about ModbusService, for every value of its constants. *)
EXTENDS ModbusService, TLAPS, SequenceTheorems

(* Only modbus_service_rtu_start_impl shares its transport, and it serves rtu. *)
SharedIsRtu == \A m \in Modes : m.shared => m.proto = "rtu"

(* What a serial line may carry and a connection may not: a damaged frame. *)
Sound(m) == {f \in Frame : m.proto = "tcp" \/ f.intact => f.req \in Requests}
Item(m) == Sound(m) \cup {Junk, Eof}

(* ------------------------------ the sequences ----------------------------- *)

LEMMA SeenType ==
  /\ Requests \subseteq Seen
  /\ \A r \in Seen : r.slave \in Nat /\ r.fc \in Nat /\ r.value \in Values
<1> DEFINE Shape == [slave : Nat, fc : Nat, count : Counts, inside : BOOLEAN,
                    countEx : Counts, insideEx : BOOLEAN, value : Values]
<1>1. Requests \subseteq Shape /\ Alien \in Nat
  BY ServiceAssumption DEF Alien
<1>2. ASSUME NEW r \in Requests
      PROVE  Damaged(r) \subseteq Shape
  <2> DEFINE noisy(s, f, v) == [r EXCEPT !.slave = s, !.fc = f, !.value = v]
  <2>1. \A s \in {r.slave, Alien}, f \in {r.fc, Alien}, v \in Values : noisy(s, f, v) \in Shape
    BY <1>1
  <2>2. Damaged(r) = {noisy(s, f, v) : s \in {r.slave, Alien}, f \in {r.fc, Alien}, v \in Values}
    BY DEF Damaged
  <2> HIDE DEF Shape, noisy
  <2> QED
    BY <2>1, <2>2
<1>3. Seen \subseteq Shape
  <2> HIDE DEF Shape
  <2> QED
    BY <1>1, <1>2 DEF Seen
<1> QED
  BY <1>3 DEF Seen

(* What is left when reading stops behind a frame, or inside it. *)
LEMMA Left ==
  ASSUME NEW S, Junk \in S, NEW q \in Seq(S), q # <<>>
  PROVE  /\ Head(q) \in S /\ Tail(q) \in Seq(S)
         /\ <<Junk>> \o Tail(q) \in Seq(S)
<1>1. <<Junk>> \in Seq(S)
  OBVIOUS
<1> QED
  BY <1>1, HeadTailProperties, ConcatProperties

(* Reading out of junk leaves a suffix of the stream, aligned or not. *)
LEMMA JunkRestType ==
  ASSUME NEW S, Junk \in S, NEW q \in Seq(S), NEW rest \in JunkRests(q)
  PROVE  rest \in Seq(S)
<1>1. \/ \E k \in 2 .. Len(q) + 1 : rest = SubSeq(q, k, Len(q))
      \/ \E k \in 3 .. Len(q) + 1 : rest = <<Junk>> \o SubSeq(q, k, Len(q))
  BY DEF JunkRests
<1>2. \A k \in 2 .. Len(q) + 1 : SubSeq(q, k, Len(q)) \in Seq(S)
  BY LenProperties, SubSeqProperties
<1>3. <<Junk>> \in Seq(S)
  OBVIOUS
<1>4. Len(q) \in Nat
  BY LenProperties
<1>5. 3 .. Len(q) + 1 \subseteq 2 .. Len(q) + 1
  BY <1>4
<1> QED
  BY <1>1, <1>2, <1>3, <1>5, ConcatProperties

(* -------------------------- the invariant of a dispatch ------------------- *)

(* A request carried out is one for this unit and of a function it serves,    *)
(* nothing is read before its turn, and the second half of write and read     *)
(* comes after the limits were checked.                                       *)
DispatchInv ==
  /\ pc \in {"memory", "second", "reply"} => req.slave = Own /\ req.fc \in Served
  /\ pc \in {"memory", "second"} => data = None
  /\ pc = "second" => req.fc = Both /\ ~TooMany
  /\ pc \in {"wait", "skip"} => data = None

LineInv == in \in Seq(Item(mode))

Inv == TypeOK /\ LineInv /\ DispatchInv

LEMMA InvInit == Init => Inv
<1> SUFFICES ASSUME Init PROVE Inv
  OBVIOUS
<1>1. \A S : <<>> \in Seq(S)
  OBVIOUS
<1>2. MaxFaults \in 0 .. MaxFaults
  BY ServiceAssumption
<1> QED
  BY <1>1, <1>2 DEF Init, Inv, TypeOK, LineInv, DispatchInv, Rets, AnswerCodes

(* ------------------------------- receiving -------------------------------- *)

(* A step that receives rest-of-the-line q and leaves the rest of the state   *)
(* but the dispatch as it is.                                                 *)
Settled == UNCHANGED <<mode, mem, out, master>>

LEMMA SpendType ==
  ASSUME TypeOK, NEW k, Spend(k) \/ UNCHANGED faults
  PROVE  faults' \in 0 .. MaxFaults
  BY ServiceAssumption DEF TypeOK, Spend

LEMMA RejectKeeps ==
  ASSUME Inv, NEW r \in {"NOT_IMPL", "CRC", "FAIL"}, NEW rest \in Seq(Item(mode)),
         NEW what \in Seen \cup {None}, Reject(r, rest, what),
         tid' \in Tids, faults' \in 0 .. MaxFaults, Settled
  PROVE  Inv'
<1>1. in' \in Seq(Item(mode)) /\ Item(mode) \subseteq Frame \cup {Junk, Eof}
  BY DEF Reject, Item, Sound
<1> QED
  BY <1>1 DEF Inv, TypeOK, LineInv, DispatchInv, Reject, Settled, master, Rets, TooMany

LEMMA FlushKeeps ==
  ASSUME Inv, pc = "wait", RemoveOrFlush, UNCHANGED <<pc, local>>,
         tid' \in Tids, faults' \in 0 .. MaxFaults, Settled
  PROVE  Inv'
<1>1. in' = <<>> /\ attached' \in BOOLEAN
  BY ServiceAssumption DEF RemoveOrFlush, Inv, TypeOK
<1>2. \A S : <<>> \in Seq(S)
  OBVIOUS
<1> QED
  BY <1>1, <1>2 DEF Inv, TypeOK, LineInv, DispatchInv, Settled, master, local

LEMMA SkipKeeps ==
  ASSUME Inv, pc = "wait", NEW what \in Seen \cup {None}, Skip(what),
         tid' \in Tids, faults' \in 0 .. MaxFaults, Settled
  PROVE  Inv'
<1>1. in' \in {<<Eof>>, <<>>}
  BY DEF Skip
<1>2. in' \in Seq(Item(mode)) /\ in' \in Seq(Frame \cup {Junk, Eof})
  <2>1. \A S : Eof \in S => <<Eof>> \in Seq(S) /\ <<>> \in Seq(S)
    OBVIOUS
  <2> QED
    BY <1>1, <2>1 DEF Item
<1>3. /\ pc' \in {"wait", "skip"} /\ req' \in Seen \cup {None}
      /\ ret' \in Rets /\ data' = None /\ attached' \in BOOLEAN
  BY DEF Skip, Inv, TypeOK, DispatchInv, local, Rets
<1> QED
  BY <1>2, <1>3 DEF Inv, TypeOK, LineInv, DispatchInv, Settled, master

LEMMA RecvKeeps ==
  ASSUME Inv, Recv
  PROVE  Inv'
<1>1. /\ Junk \in Item(mode) /\ in \in Seq(Item(mode)) /\ Item(mode) \ {Junk, Eof} = Sound(mode)
      /\ pc = "wait" /\ in # <<>>
  BY ServiceModelValues
  DEF Inv, LineInv, Item, Sound, Recv, AtWait, FrameAtHead, RecvEof, RecvOther, RecvUnknown,
      RecvDamaged, RecvRequest, RecvJunkShort, RecvJunkSkip, RecvJunkFail, RecvJunkLookalike
<1>2. /\ Head(in) \in Item(mode)
      /\ Tail(in) \in Seq(Item(mode)) /\ <<Junk>> \o Tail(in) \in Seq(Item(mode))
  BY <1>1, Left
<1>3. \A rest \in JunkRests(in) : rest \in Seq(Item(mode))
  BY <1>1, JunkRestType
<1>4. ASSUME FrameAtHead
      PROVE  Head(in) \in Sound(mode) /\ Head(in).req \in Seen /\ Head(in).tid \in Tids
  BY <1>1, <1>2, <1>4 DEF FrameAtHead, Sound, Frame
<1>5. ASSUME NEW t \in Tids, SetTid(t) PROVE tid' \in Tids
  BY <1>5 DEF SetTid, Inv, TypeOK
<1>6. tid \in Tids /\ faults \in 0 .. MaxFaults
  BY DEF Inv, TypeOK
<1>7. CASE RecvEof
  BY <1>1, <1>6, <1>7, FlushKeeps DEF RecvEof, Settled, master, local
<1>8. CASE RecvOther
  <2>1. Skip(Head(in).req) /\ tid' \in Tids /\ Head(in).req \in Seen
    BY <1>4, <1>5, <1>8 DEF RecvOther
  <2> QED
    BY <1>1, <1>6, <1>8, <2>1, SkipKeeps DEF RecvOther, Settled, master
<1>9. CASE RecvUnknown
  <2>1. /\ Head(in).req \in Seen /\ tid' \in Tids
        /\ \E rest \in Seq(Item(mode)) : Reject("NOT_IMPL", rest, Head(in).req)
    BY <1>2, <1>4, <1>5, <1>9 DEF RecvUnknown
  <2> QED
    BY <1>6, <1>9, <2>1, RejectKeeps DEF RecvUnknown, Settled, master
<1>10. CASE RecvDamaged
  <2>1. Head(in).req \in Seen /\ Settled /\ tid' \in Tids /\ faults' \in 0 .. MaxFaults
    BY <1>4, <1>6, <1>10 DEF RecvDamaged, Settled, master
  <2>2. \/ \E rest \in Seq(Item(mode)) : Reject("CRC", rest, Head(in).req)
        \/ RemoveOrFlush /\ UNCHANGED <<pc, local>>
    BY <1>2, <1>10 DEF RecvDamaged
  <2> QED
    BY <1>1, <2>1, <2>2, RejectKeeps, FlushKeeps
<1>11. CASE RecvRequest
  <2>1. Head(in).req \in Requests /\ Head(in).req.slave = Own /\ Head(in).req.fc \in Served
    BY <1>4, <1>11 DEF RecvRequest, Sound, CrcOk, ForUs
  <2>2. tid' \in Tids
    BY <1>4, <1>5, <1>11 DEF RecvRequest
  <2>3. in' \in Seq(Item(mode)) /\ in' \in Seq(Frame \cup {Junk, Eof})
    BY <1>2, <1>11 DEF RecvRequest, Item, Sound
  <2> QED
    BY <1>11, <2>1, <2>2, <2>3, SeenType
    DEF RecvRequest, Inv, TypeOK, LineInv, DispatchInv, master, Rets
<1>12. CASE RecvJunkShort
  BY <1>1, <1>6, <1>12, FlushKeeps DEF RecvJunkShort, Settled, master, local
<1>13. CASE RecvJunkSkip
  <2>1. tid' \in Tids
    BY <1>5, <1>13 DEF RecvJunkSkip
  <2> QED
    BY <1>1, <1>6, <1>13, <2>1, SkipKeeps DEF RecvJunkSkip, Settled, master
<1>14. CASE RecvJunkFail
  <2>1. PICK rest \in JunkRests(in) : Reject("FAIL", rest, None)
    BY <1>14 DEF RecvJunkFail
  <2> QED
    BY <1>3, <1>6, <1>14, <2>1, RejectKeeps DEF RecvJunkFail, Settled, master
<1>15. CASE RecvJunkLookalike
  <2>1. PICK rest \in JunkRests(in), r \in {"NOT_IMPL", "CRC"} : Reject(r, rest, None)
    BY <1>15 DEF RecvJunkLookalike
  <2>2. tid' \in Tids
    BY <1>5, <1>15 DEF RecvJunkLookalike
  <2>3. faults' \in 0 .. MaxFaults
    BY <1>15, SpendType DEF RecvJunkLookalike, Inv
  <2> QED
    BY <1>3, <1>15, <2>1, <2>2, <2>3, RejectKeeps DEF RecvJunkLookalike, Settled, master
<1> QED
  BY <1>7, <1>8, <1>9, <1>10, <1>11, <1>12, <1>13, <1>14, <1>15 DEF Recv

(* -------------------------- carrying out, answering ----------------------- *)

LEMMA VerdictType ==
  \A count, inside : /\ Verdict(count, inside) \in {"OK", "BAD_PARAMS", "INVALID_ADDR"}
                     /\ Verdict(count, inside) = "OK" => count # "none" /\ inside
  BY DEF Verdict

LEMMA CarryKeeps ==
  ASSUME Inv, Carry
  PROVE  Inv'
<1>1. /\ req \in Requests /\ req \in Seen /\ req.fc \in Served
      /\ mem[Table(req.fc)] \in Values /\ req.value \in Values /\ data = None
      /\ req.slave = Own
  BY SeenType
  DEF Inv, TypeOK, DispatchInv, Tables, Carry, Exceed, ReadMemory, WriteMemory, WriteFirst, ReadSecond
<1>2. Served = Reads \cup Writes \cup {Both} /\ Both \notin Writes /\ Reads \cap Writes = {}
  BY DEF Served, Reads, Writes, Both
<1>3. None \notin Values
  BY ServiceModelValues
<1>4. ASSUME NEW r \in {"OK", "BAD_PARAMS", "INVALID_ADDR"}, Judge(r), req' = req, mode' = mode,
             attached' = attached, tid' = tid, in' = in, out' = out, UNCHANGED master,
             faults' = faults, mem' \in [Tables -> Values], data' \in Values \cup {None},
             r = "OK" => (data' = None <=> req.fc \in Writes)
      PROVE  Inv'
  <2>1. ret' = r /\ pc' \in {"reply", "except"} /\ (pc' = "reply" => r = "OK") /\ r \in Rets
    BY <1>4 DEF Judge, Rets
  <2>2. TypeOK'
    BY <1>1, <1>4, <2>1 DEF Inv, TypeOK, master
  <2>3. DispatchInv'
    BY <1>1, <1>4, <2>1 DEF Inv, DispatchInv
  <2>4. LineInv'
    BY <1>4 DEF Inv, LineInv
  <2> QED
    BY <2>2, <2>3, <2>4 DEF Inv
<1>5. mem \in [Tables -> Values]
  BY DEF Inv, TypeOK
<1>6. CASE Exceed
  <2>1. Judge("INVALID_ADDR")
    BY <1>6 DEF Exceed
  <2> QED
    BY <1>1, <1>4, <1>5, <1>6, <2>1 DEF Exceed
<1>7. CASE ReadMemory
  <2>1. ret' = Verdict(req.count, req.inside) /\ Judge(Verdict(req.count, req.inside))
    BY <1>7 DEF ReadMemory, Judge
  <2>2. data' \in Values \cup {None} /\ (ret' = "OK" => data' # None)
    BY <1>1, <1>3, <1>7 DEF ReadMemory
  <2> QED
    BY <1>1, <1>2, <1>4, <1>5, <1>7, <2>1, <2>2, VerdictType DEF ReadMemory
<1>8. CASE WriteMemory
  <2>1. Judge(Verdict(req.count, req.inside)) /\ mem' \in [Tables -> Values]
    BY <1>1, <1>5, <1>8 DEF WriteMemory, Store
  <2> QED
    BY <1>1, <1>4, <1>8, <2>1, VerdictType DEF WriteMemory
<1>9. CASE WriteFirst
  <2>1. mem' \in [Tables -> Values]
    BY <1>1, <1>5, <1>9 DEF WriteFirst, Store
  <2> QED
    BY <1>9, <2>1 DEF WriteFirst, Inv, TypeOK, LineInv, DispatchInv, TooMany, local, master
<1>10. CASE ReadSecond
  <2>1. ret' = Verdict(req.count, req.inside) /\ Judge(Verdict(req.count, req.inside))
    BY <1>10 DEF ReadSecond, Judge
  <2>2. data' \in Values \cup {None} /\ (ret' = "OK" => data' # None)
    BY <1>1, <1>3, <1>10 DEF ReadSecond
  <2>3. req.fc = Both
    BY <1>10 DEF ReadSecond, Inv, DispatchInv
  <2> QED
    BY <1>1, <1>2, <1>4, <1>5, <1>10, <2>1, <2>2, <2>3, VerdictType DEF ReadSecond
<1> QED
  BY <1>6, <1>7, <1>8, <1>9, <1>10 DEF Carry

LEMMA ReplyType ==
  ASSUME Inv, Answering, NEW fc \in ReplyFcs
  PROVE  Reply(fc) \in Answers
<1>1. AnyFc \subseteq Nat /\ Alien \in Nat
  BY SeenType DEF AnyFc, Alien
<1>2. fc \in Nat
  BY <1>1, SeenType DEF ReplyFcs, Inv, TypeOK
<1>3. Code \in AnswerCodes
  BY DEF Code, AnswerCodes
<1> QED
  BY <1>2, <1>3 DEF Reply, Answers, AnswerCodes, Inv, TypeOK

LEMMA SendKeeps ==
  ASSUME Inv, Send \/ SendFails
  PROVE  Inv'
<1>1. /\ pc' = "wait" /\ req' = None /\ ret' = "OK" /\ data' = None
      /\ UNCHANGED <<mode, tid, mem, master>>
  BY DEF Send, SendFails, Done
<1>2. in' \in Seq(Item(mode)) /\ in' \in Seq(Frame \cup {Junk, Eof}) /\ attached' \in BOOLEAN
  <2>1. \A S : <<>> \in Seq(S)
    OBVIOUS
  <2>2. mode.shared \in BOOLEAN
    BY ServiceAssumption DEF Inv, TypeOK
  <2> QED
    BY <2>1, <2>2 DEF Send, SendFails, RemoveOrFlush, Inv, TypeOK, LineInv
<1>3. out' \in Seq(Answers)
  <2>1. CASE Send
    <3>1. PICK fc \in ReplyFcs : out' = Append(out, Reply(fc))
      BY <2>1 DEF Send
    <3>2. Reply(fc) \in Answers
      BY <2>1, ReplyType DEF Send
    <3> QED
      BY <3>1, <3>2, AppendProperties DEF Inv, TypeOK
  <2>2. CASE SendFails
    BY <2>2 DEF SendFails, Inv, TypeOK
  <2> QED
    BY <2>1, <2>2
<1>4. faults' \in 0 .. MaxFaults
  BY SpendType DEF Send, SendFails, Inv
<1> QED
  BY <1>1, <1>2, <1>3, <1>4 DEF Inv, TypeOK, LineInv, DispatchInv, master, Rets

(* ------------------------ the line and the application -------------------- *)

LEMMA ArriveKeeps ==
  ASSUME Inv, NEW f \in Item(mode), Arrive(<<f>>) \/ Arrive(<<>>) \/ Arrive(<<f, Eof>>)
  PROVE  in' \in Seq(Item(mode)) /\ in' \in Seq(Frame \cup {Junk, Eof})
<1>1. Eof \in Item(mode) /\ Item(mode) \subseteq Frame \cup {Junk, Eof}
  BY DEF Item, Sound
<1>2. <<f>> \in Seq(Item(mode)) /\ <<>> \in Seq(Item(mode)) /\ <<f, Eof>> \in Seq(Item(mode))
  BY <1>1
<1>3. in' \in Seq(Item(mode))
  BY <1>2, ConcatProperties DEF Arrive, Inv, LineInv
<1> QED
  BY <1>1, <1>3

LEMMA AskKeeps ==
  ASSUME SharedIsRtu, Inv, NEW r \in Requests, NEW t \in Tids, Ask(r, t)
  PROVE  Inv'
<1>1. asked' = [req |-> r, tid |-> t, intact |-> TRUE] /\ asked' \in Sound(mode)
  BY SeenType DEF Ask, Sound, Frame
<1>2. mode.shared => mode.proto # "tcp"
  BY DEF SharedIsRtu, Inv, TypeOK
<1>3. ASSUME NEW d \in Damaged(r), mode.shared
      PROVE  [asked' EXCEPT !.intact = FALSE, !.req = d] \in Item(mode)
  <2> DEFINE noisy == [asked' EXCEPT !.intact = FALSE, !.req = d]
  <2>1. asked' \in Frame /\ d \in Seen
    BY <1>1, <1>3 DEF Sound, Seen
  <2>2. noisy \in Frame /\ noisy.intact = FALSE
    BY <2>1 DEF Frame
  <2> HIDE DEF noisy
  <2>3. noisy \in Item(mode)
    BY <1>2, <1>3, <2>2 DEF Item, Sound
  <2> QED
    BY <2>3 DEF noisy
<1>4. \E f \in Item(mode) : Arrive(<<f>>) \/ Arrive(<<>>) \/ Arrive(<<f, Eof>>)
  <2>1. asked' \in Item(mode) /\ Junk \in Item(mode)
    BY <1>1 DEF Item
  <2> QED
    BY <1>3, <2>1 DEF Ask
<1>5. in' \in Seq(Item(mode)) /\ in' \in Seq(Frame \cup {Junk, Eof})
  BY <1>4, ArriveKeeps
<1>6. faults' \in 0 .. MaxFaults
  <2>1. UNCHANGED faults \/ \E k \in {"lost", "garbled", "cut"} : Spend(k)
    BY DEF Ask
  <2> QED
    BY <2>1, SpendType DEF Inv
<1>7. asked' \in Frame /\ got' = None
  BY <1>1 DEF Ask, Sound
<1>8. UNCHANGED <<mode, attached, tid, pc, local, mem, out>>
  BY DEF Ask
<1> QED
  BY <1>5, <1>6, <1>7, <1>8 DEF Inv, TypeOK, LineInv, DispatchInv, TooMany, local

LEMMA OthersKeep ==
  ASSUME Inv, \/ Connect \/ TakeReply \/ GiveUp \/ Noise \/ Hangup
              \/ \E d \in Tables, v \in Values : OwnWrite(d, v)
  PROVE  Inv'
<1>1. \A S : <<>> \in Seq(S)
  OBVIOUS
<1>2. CASE Connect
  BY <1>1, <1>2 DEF Connect, Inv, TypeOK, LineInv, DispatchInv, TooMany, local
<1>3. CASE TakeReply
  <2>1. out' \in Seq(Answers) /\ Head(out) \in Answers
    BY <1>3, HeadTailProperties DEF TakeReply, Inv, TypeOK
  <2>2. asked' \in Frame \cup {None} /\ got' \in AnswerCodes \cup {None}
    BY <1>3, <2>1 DEF TakeReply, Inv, TypeOK, master, Answers
  <2> QED
    BY <1>3, <2>1, <2>2 DEF TakeReply, Inv, TypeOK, LineInv, DispatchInv, TooMany, local
<1>4. CASE GiveUp
  <2>1. faults' \in 0 .. MaxFaults
    BY <1>4, SpendType DEF GiveUp, Inv
  <2> QED
    BY <1>4, <2>1 DEF GiveUp, Inv, TypeOK, LineInv, DispatchInv, TooMany, local
<1>5. CASE Noise \/ Hangup
  <2>1. Junk \in Item(mode) /\ Eof \in Item(mode)
    BY DEF Item
  <2>2. in' \in Seq(Item(mode)) /\ in' \in Seq(Frame \cup {Junk, Eof})
    BY <1>5, <2>1, ArriveKeeps DEF Noise, Hangup
  <2>3. faults' \in 0 .. MaxFaults
    BY <1>5, SpendType DEF Noise, Hangup, Inv
  <2> QED
    BY <1>5, <2>2, <2>3
    DEF Noise, Hangup, Inv, TypeOK, LineInv, DispatchInv, TooMany, local, master
<1>6. ASSUME NEW d \in Tables, NEW v \in Values, OwnWrite(d, v) PROVE Inv'
  <2>1. mem' \in [Tables -> Values]
    BY <1>6 DEF OwnWrite, Inv, TypeOK
  <2> QED
    BY <1>6, <2>1 DEF OwnWrite, Inv, TypeOK, LineInv, DispatchInv, TooMany, local, master
<1> QED
  BY <1>2, <1>3, <1>4, <1>5, <1>6

LEMMA InvStep ==
  ASSUME SharedIsRtu, Inv, [Next]_vars
  PROVE  Inv'
<1>1. CASE UNCHANGED vars
  BY <1>1 DEF vars, local, master, Inv, TypeOK, LineInv, DispatchInv, TooMany
<1>2. CASE Next
  BY <1>2, RecvKeeps, CarryKeeps, SendKeeps, AskKeeps, OthersKeep DEF Next, ServiceStep
<1> QED
  BY <1>1, <1>2

LEMMA InvHolds ==
  ASSUME SharedIsRtu
  PROVE  Spec => []Inv
  BY InvInit, InvStep, PTL DEF Spec

(* ------------------------------ the theorems ------------------------------ *)

(* The state keeps its types, and a request is carried out only when a master *)
(* asked it (TypeOK), as long as what is shared is an rtu line.               *)
THEOREM TypeCorrect ==
  ASSUME SharedIsRtu
  PROVE  Spec => []TypeOK
<1>1. Inv => TypeOK
  BY DEF Inv
<1> QED
  BY <1>1, InvHolds, PTL

(* A service on a shared transport is never taken out of the event loop       *)
(* (SharedStaysAttached), whatever arrives and whichever sends fail.          *)
THEOREM SharedServiceStays == Spec => []SharedStaysAttached
<1>1. Init => SharedStaysAttached
  BY DEF Init, SharedStaysAttached
<1>2. ASSUME SharedStaysAttached, [Next]_vars PROVE SharedStaysAttached'
  <2>1. CASE Recv
    BY <1>2, <2>1
    DEF Recv, RecvEof, RecvOther, RecvUnknown, RecvDamaged, RecvRequest, RecvJunkShort,
        RecvJunkSkip, RecvJunkFail, RecvJunkLookalike, RemoveOrFlush, Skip, Reject,
        SharedStaysAttached
  <2>2. CASE Carry \/ Send \/ SendFails
    BY <1>2, <2>2
    DEF Carry, Exceed, ReadMemory, WriteMemory, WriteFirst, ReadSecond, Send, SendFails,
        RemoveOrFlush, SharedStaysAttached
  <2>3. CASE UNCHANGED <<mode, attached>>
    BY <1>2, <2>3 DEF SharedStaysAttached
  <2>4. Connect => SharedStaysAttached'
    BY DEF Connect, SharedStaysAttached
  <2>5. TakeReply \/ GiveUp \/ Noise \/ Hangup => UNCHANGED <<mode, attached>>
    BY DEF TakeReply, GiveUp, Noise, Hangup
  <2>6. \A d \in Tables, v \in Values : OwnWrite(d, v) => UNCHANGED <<mode, attached>>
    BY DEF OwnWrite
  <2>7. \A r \in Requests, t \in Tids : Ask(r, t) => UNCHANGED <<mode, attached>>
    BY DEF Ask
  <2> QED
    BY <1>2, <2>1, <2>2, <2>3, <2>4, <2>5, <2>6, <2>7 DEF Next, ServiceStep, vars
<1> QED
  BY <1>1, <1>2, PTL DEF Spec

(* ------------------------- one true answer a request ---------------------- *)

(* Write and read with one half that the memory carries out and one that it   *)
(* refuses: what the write returned is not looked at.                         *)
Split(r) ==
  /\ r.fc = Both /\ r.count # "excess" /\ r.countEx # "excess"
  /\ ~(r.count = "some" /\ r.inside <=> r.countEx = "some" /\ r.insideEx)

HalvesAgree == \A r \in Requests : ~Split(r)

Splits == pc \in {"memory", "second"} /\ Split(req)

(* A request that is met with an exception could not be carried out. *)
RefusedInv ==
  pc = "except" /\ req \in Requests /\ ret # "CRC" => ~Promise!Possible(req)

LEMMA PossibleIs ==
  ASSUME NEW r
  PROVE  /\ Promise!Possible(r) => r.fc \in Served /\ r.count = "some" /\ r.inside
         /\ r.fc \in Reads \cup Writes /\ r.count = "some" /\ r.inside => Promise!Possible(r)
         /\ Promise!Possible(r) /\ r.fc = Both => r.countEx = "some" /\ r.insideEx
  BY DEF Promise!Possible, Promise!Reads, Promise!Writes, Promise!Both, Served, Reads, Writes, Both

LEMMA CountOk ==
  ASSUME NEW r \in Requests
  PROVE  /\ r.count \in Counts /\ r.countEx \in Counts
         /\ r.count # "excess" => (Verdict(r.count, r.inside) = "OK" <=> r.count = "some" /\ r.inside)
         /\ r.countEx # "excess" =>
              (Verdict(r.countEx, r.insideEx) = "OK" <=> r.countEx = "some" /\ r.insideEx)
  BY ServiceAssumption DEF Verdict, Counts

LEMMA RefusedStep ==
  ASSUME Inv, RefusedInv, [Next]_vars
  PROVE  RefusedInv'
<1>1. None \notin Requests
  BY ServiceModelValues, SeenType
<1>2. CASE Recv
  <2>1. ASSUME NEW r, NEW rest, NEW what, Reject(r, rest, what),
               r = "CRC" \/ what = None \/ what.fc \notin Served
        PROVE  RefusedInv'
    BY <1>1, <2>1, PossibleIs DEF Reject, RefusedInv
  <2>2. pc' # "except" => RefusedInv'
    BY DEF RefusedInv
  <2>3. pc = "wait"
    BY <1>2 DEF Recv, AtWait, FrameAtHead, RecvEof, RecvOther, RecvUnknown, RecvDamaged,
                RecvRequest, RecvJunkShort, RecvJunkSkip, RecvJunkFail, RecvJunkLookalike
  <2> QED
    BY <1>2, <2>1, <2>2, <2>3
    DEF Recv, RecvEof, RecvOther, RecvUnknown, RecvDamaged, RecvRequest, RecvJunkShort,
        RecvJunkSkip, RecvJunkFail, RecvJunkLookalike, Skip, local
<1>3. CASE Carry
  <2>1. req \in Requests /\ req' = req
    BY <1>3 DEF Carry, Exceed, ReadMemory, WriteMemory, WriteFirst, ReadSecond, Inv, TypeOK, local
  <2>2. CASE Exceed
    BY <2>1, <2>2, PossibleIs DEF Exceed, TooMany, RefusedInv
  <2>3. CASE ReadMemory \/ WriteMemory
    BY <2>1, <2>3, CountOk, PossibleIs DEF ReadMemory, WriteMemory, TooMany, Judge, RefusedInv
  <2>4. CASE WriteFirst
    BY <2>4 DEF WriteFirst, RefusedInv
  <2>5. CASE ReadSecond
    <3>1. req.count # "excess"
      BY <2>1, <2>5 DEF ReadSecond, Inv, DispatchInv, TooMany
    <3> QED
      BY <2>1, <2>5, <3>1, CountOk, PossibleIs DEF ReadSecond, Judge, RefusedInv
  <2> QED
    BY <1>3, <2>2, <2>3, <2>4, <2>5 DEF Carry
<1>4. CASE Send \/ SendFails
  BY <1>4 DEF Send, SendFails, Done, RefusedInv
<1>5. CASE UNCHANGED <<pc, local>>
  BY <1>5 DEF local, RefusedInv
<1>6. Connect \/ TakeReply \/ GiveUp \/ Noise \/ Hangup => UNCHANGED <<pc, local>>
  BY DEF Connect, TakeReply, GiveUp, Noise, Hangup
<1>7. \A d \in Tables, v \in Values : OwnWrite(d, v) => UNCHANGED <<pc, local>>
  BY DEF OwnWrite
<1>8. \A r \in Requests, t \in Tids : Ask(r, t) => UNCHANGED <<pc, local>>
  BY DEF Ask
<1> QED
  BY <1>2, <1>3, <1>4, <1>5, <1>6, <1>7, <1>8 DEF Next, ServiceStep, vars, local

(* How the steps of a dispatch are seen by the promise. *)
LEMMA StageIs ==
  /\ pc \in {"wait", "skip"} => Stage = "idle"
  /\ pc = "memory" => Stage = "taken"
  /\ pc = "second" => Stage = IF Servable(req) THEN "written" ELSE "taken"
  /\ pc = "reply" => Stage = "done"
  /\ pc = "except" /\ req \in Requests /\ ret # "CRC" => Stage = "taken"
  /\ pc = "except" /\ ~(req \in Requests /\ ret # "CRC") => Stage = "idle"
  BY DEF Stage

LEMMA TableIs == \A fc : Promise!Table(fc) = Table(fc)
  BY DEF Promise!Table, Table

LEMMA PromiseInit == Init => Promise!Init
<1> SUFFICES ASSUME Init PROVE Promise!Init
  OBVIOUS
<1>1. {Promise!Table(r.fc) : r \in Requests} = Tables
  BY TableIs DEF Tables
<1>2. mem \in [Tables -> Values]
  BY DEF Init
<1>3. Stage = "idle" /\ out = <<>>
  BY StageIs DEF Init
<1> QED
  BY <1>1, <1>2, <1>3 DEF Promise!Init

LEMMA RecvImplements ==
  ASSUME Inv, Recv
  PROVE  [Promise!Next]_(Promise!promiseVars)
<1>1. Stage = "idle" /\ UNCHANGED <<mode, mem, out>> /\ tid' \in Tids
  <2>1. Inv'
    BY RecvKeeps
  <2> QED
    BY <2>1, StageIs
    DEF Inv, TypeOK, Recv, AtWait, FrameAtHead, RecvEof, RecvOther, RecvUnknown, RecvDamaged,
        RecvRequest, RecvJunkShort, RecvJunkSkip, RecvJunkFail, RecvJunkLookalike
<1>2. Stage' = "idle" \/ (Stage' = "taken" /\ req' \in Requests /\ req'.slave = Own /\ data' = None)
  <2>1. None \notin Requests
    BY ServiceModelValues, SeenType
  <2>2. ASSUME NEW r, NEW rest, NEW what, Reject(r, rest, what), what = None \/ what.slave = Own
        PROVE  Stage' = "idle" \/ (Stage' = "taken" /\ req' \in Requests /\ req'.slave = Own /\ data' = None)
    BY <2>1, <2>2 DEF Reject, Stage
  <2>3. RecvRequest => Stage' = "taken" /\ req' \in Requests /\ req'.slave = Own /\ data' = None
    <3>1. RecvRequest => Inv' /\ pc' = "memory" /\ data' = None
      BY RecvKeeps DEF Recv, RecvRequest
    <3> QED
      BY <3>1 DEF Inv, TypeOK, DispatchInv, Stage
  <2>4. pc' \in {"wait", "skip"} => Stage' = "idle"
    BY DEF Stage
  <2>5. pc = "wait"
    BY DEF Recv, AtWait, FrameAtHead, RecvEof, RecvOther, RecvUnknown, RecvDamaged,
           RecvRequest, RecvJunkShort, RecvJunkSkip, RecvJunkFail, RecvJunkLookalike
  <2> QED
    BY <2>2, <2>3, <2>4, <2>5
    DEF Recv, RecvEof, RecvOther, RecvUnknown, RecvDamaged, RecvJunkShort,
        RecvJunkSkip, RecvJunkFail, RecvJunkLookalike, Skip, ForUs, local
<1>3. CASE Stage' = "idle"
  BY <1>1, <1>3 DEF Promise!promiseVars
<1>4. CASE Stage' = "taken" /\ req' \in Requests /\ req'.slave = Own /\ data' = None
  <2>1. Promise!Take(req', tid')
    BY <1>1, <1>4 DEF Promise!Take
  <2> QED
    BY <1>1, <1>4, <2>1 DEF Promise!Next
<1> QED
  BY <1>2, <1>3, <1>4

LEMMA CarryImplements ==
  ASSUME Inv, ~Splits, Carry
  PROVE  [Promise!Next]_(Promise!promiseVars)
<1>1. req \in Requests /\ UNCHANGED <<mode, tid, req, out>>
  BY DEF Carry, Exceed, ReadMemory, WriteMemory, WriteFirst, ReadSecond, Inv, TypeOK, local
<1>2. ASSUME pc = "memory", UNCHANGED <<mem, data>>, pc' = "except", ret' # "CRC"
      PROVE  UNCHANGED Promise!promiseVars
  BY <1>1, <1>2, StageIs DEF Promise!promiseVars, Stage
<1>3. data = None
  BY DEF Inv, DispatchInv, Carry, Exceed, ReadMemory, WriteMemory, WriteFirst, ReadSecond
<1>4. /\ Reads = Promise!Reads /\ Writes = Promise!Writes /\ Both = Promise!Both
      /\ Both \notin Reads \cup Writes /\ Reads \cap Writes = {}
  BY DEF Reads, Writes, Both, Promise!Reads, Promise!Writes, Promise!Both
<1>5. CASE Exceed
  BY <1>2, <1>5 DEF Exceed, Judge
<1>6. CASE ReadMemory
  <2>1. Verdict(req.count, req.inside) # "CRC"
    BY VerdictType
  <2>2. CASE ret' # "OK"
    BY <1>2, <1>3, <1>6, <2>1, <2>2 DEF ReadMemory, Judge
  <2>3. CASE ret' = "OK"
    <3>1. Promise!Possible(req)
      BY <1>1, <1>6, <2>3, CountOk, PossibleIs DEF ReadMemory, Judge, TooMany
    <3>2. Stage = "taken" /\ Stage' = "done"
      BY <1>6, <2>3 DEF ReadMemory, Judge, Stage
    <3>3. Promise!Read
      BY <1>1, <1>4, <1>6, <2>3, <3>1, <3>2, TableIs DEF ReadMemory, Promise!Read
    <3> QED
      BY <3>3 DEF Promise!Next
  <2> QED
    BY <2>2, <2>3
<1>7. CASE WriteMemory
  <2>1. Verdict(req.count, req.inside) # "CRC"
    BY VerdictType
  <2>2. CASE ret' # "OK"
    BY <1>2, <1>7, <2>1, <2>2 DEF WriteMemory, Judge, Store
  <2>3. CASE ret' = "OK"
    <3>1. Promise!Possible(req)
      BY <1>1, <1>7, <2>3, CountOk, PossibleIs DEF WriteMemory, Judge, TooMany
    <3>2. Stage = "taken" /\ Stage' = "done"
      BY <1>7, <2>3 DEF WriteMemory, Judge, Stage
    <3>3. mem' = [mem EXCEPT ![Promise!Table(req.fc)] = req.value]
      BY <1>7, <2>3, TableIs DEF WriteMemory, Store
    <3>4. req.fc # Both
      BY <1>4, <1>7 DEF WriteMemory
    <3>5. Promise!Write
      BY <1>1, <1>4, <1>7, <3>1, <3>2, <3>3, <3>4 DEF WriteMemory, Promise!Write
    <3> QED
      BY <3>5 DEF Promise!Next
  <2> QED
    BY <2>2, <2>3
<1>8. CASE WriteFirst
  <2>1. /\ req.fc = Both /\ req.count # "excess" /\ req.countEx # "excess"
        /\ req' = req /\ data' = data /\ pc' = "second"
        /\ Stage = "taken" /\ Stage' = IF Servable(req) THEN "written" ELSE "taken"
    BY <1>8, StageIs DEF WriteFirst, TooMany, local, Stage, Servable
  <2>2. CASE Servable(req)
    <3>1. Promise!Possible(req) /\ Verdict(req.countEx, req.insideEx) = "OK"
      BY <1>1, <2>1, <2>2, CountOk DEF Servable, Promise!Possible, Promise!Both, Both
    <3>2. mem' = [mem EXCEPT ![Promise!Table(req.fc)] = req.value]
      BY <1>8, <3>1, TableIs DEF WriteFirst, Store
    <3>3. Promise!Write
      BY <1>1, <1>4, <2>1, <2>2, <3>1, <3>2 DEF Promise!Write
    <3> QED
      BY <3>3 DEF Promise!Next
  <2>3. CASE ~Servable(req)
    <3>1. Verdict(req.countEx, req.insideEx) # "OK"
      BY <1>1, <1>8, <2>1, <2>3, CountOk
      DEF WriteFirst, Splits, Split, Servable, Inv, DispatchInv
    <3>2. UNCHANGED mem
      BY <1>8, <3>1 DEF WriteFirst, Store
    <3> QED
      BY <1>1, <2>1, <2>3, <3>2 DEF Promise!promiseVars
  <2> QED
    BY <2>2, <2>3
<1>9. CASE ReadSecond
  <2>1. /\ req.fc = Both /\ req.count # "excess" /\ req.countEx # "excess"
        /\ Stage = IF Servable(req) THEN "written" ELSE "taken"
    BY <1>9, StageIs DEF ReadSecond, Inv, DispatchInv, TooMany
  <2>2. CASE Servable(req)
    <3>1. ret' = "OK" /\ data' = mem[Promise!Table(req.fc)]
      BY <1>1, <1>9, <2>1, <2>2, CountOk, TableIs DEF ReadSecond, Judge, Servable
    <3>2. Stage = "written" /\ Stage' = "done"
      BY <1>9, <2>1, <2>2, <3>1 DEF ReadSecond, Judge, Stage
    <3>3. Promise!Read
      BY <1>1, <1>9, <3>1, <3>2 DEF ReadSecond, Promise!Read
    <3> QED
      BY <3>3 DEF Promise!Next
  <2>3. CASE ~Servable(req)
    <3>1. Verdict(req.count, req.inside) # "OK" /\ Verdict(req.count, req.inside) # "CRC"
      BY <1>1, <1>9, <2>1, <2>3, CountOk, VerdictType
      DEF ReadSecond, Splits, Split, Servable, Inv, DispatchInv
    <3>2. /\ pc' = "except" /\ ret' # "CRC" /\ data' = None
          /\ UNCHANGED <<mem, req, out, tid>>
      BY <1>9, <3>1 DEF ReadSecond, Judge
    <3>3. Stage = "taken" /\ Stage' = "taken"
      BY <1>1, <2>1, <2>3, <3>2, StageIs DEF Stage
    <3> QED
      BY <1>3, <3>2, <3>3 DEF Promise!promiseVars
  <2> QED
    BY <2>2, <2>3
<1> QED
  BY <1>5, <1>6, <1>7, <1>8, <1>9 DEF Carry

LEMMA AppendIs ==
  ASSUME NEW S, NEW q \in Seq(S), NEW a \in S
  PROVE  /\ Len(Append(q, a)) = Len(q) + 1
         /\ SubSeq(Append(q, a), 1, Len(q)) = q
         /\ Append(q, a)[Len(q) + 1] = a
<1>1. /\ Append(q, a) \in Seq(S) /\ Len(Append(q, a)) = Len(q) + 1
      /\ \A k \in 1 .. Len(q) : Append(q, a)[k] = q[k]
      /\ Append(q, a)[Len(q) + 1] = a
  BY AppendProperties
<1> DEFINE s == SubSeq(Append(q, a), 1, Len(q))
<1>2. Len(q) \in Nat
  BY LenProperties
<1>3. s \in Seq(S) /\ Len(s) = Len(q) /\ \A k \in 1 .. Len(q) : s[k] = Append(q, a)[k]
  BY <1>1, <1>2, SubSeqProperties
<1>4. s = q
  BY <1>1, <1>3, SeqEqual
<1> QED
  BY <1>1, <1>4

LEMMA SendImplements ==
  ASSUME Inv, RefusedInv, Send
  PROVE  [Promise!Next]_(Promise!promiseVars)
<1>1. Stage' = "idle" /\ UNCHANGED mem
  BY DEF Send, Done, Stage
<1>2. PICK fc \in ReplyFcs : out' = Append(out, Reply(fc))
  BY DEF Send
<1>3. out \in Seq(Answers) /\ Reply(fc) \in Answers
  BY <1>2, ReplyType DEF Send, Inv, TypeOK
<1>4. Code \in Promise!Codes
  BY DEF Code, Promise!Codes
<1>5. None \notin Requests
  BY ServiceModelValues, SeenType
<1>6. CASE pc = "reply"
  <2>1. req \in Requests /\ Stage = "done"
    BY <1>6, StageIs DEF Inv, TypeOK
  <2>2. Reply(fc) = [tid |-> tid, fc |-> req.fc, code |-> "NONE", value |-> data]
    BY <1>2, <1>5, <1>6, <2>1 DEF Reply, ReplyFcs
  <2>3. Promise!Answer
    BY <1>1, <1>2, <2>1, <2>2 DEF Promise!Answer, Promise!Close
  <2> QED
    BY <2>3 DEF Promise!Next
<1>7. CASE pc = "except" /\ req \in Requests /\ ret # "CRC"
  <2>1. Stage = "taken" /\ ~Promise!Possible(req)
    BY <1>7, StageIs DEF RefusedInv
  <2>2. Reply(fc) = [tid |-> tid, fc |-> req.fc, code |-> Code, value |-> None]
    BY <1>2, <1>5, <1>7 DEF Reply, ReplyFcs
  <2>3. Promise!Answer
    BY <1>1, <1>2, <1>4, <2>1, <2>2 DEF Promise!Answer, Promise!Close
  <2> QED
    BY <2>3 DEF Promise!Next
<1>8. CASE pc = "skip" \/ (pc = "except" /\ ~(req \in Requests /\ ret # "CRC"))
  <2>1. Stage = "idle"
    BY <1>8, StageIs
  <2>2. Promise!IsException(Reply(fc))
    BY <1>4, <1>8 DEF Reply, Promise!IsException
  <2>3. Len(out') = Len(out) + 1 /\ SubSeq(out', 1, Len(out)) = out /\ out'[Len(out) + 1] = Reply(fc)
    BY <1>2, <1>3, AppendIs
  <2>4. Promise!Complain
    BY <1>1, <2>1, <2>2, <2>3 DEF Promise!Complain
  <2> QED
    BY <2>4 DEF Promise!Next
<1> QED
  BY <1>6, <1>7, <1>8 DEF Send, Answering

LEMMA OthersImplement ==
  ASSUME Inv, \/ SendFails \/ Connect \/ TakeReply \/ GiveUp \/ Noise \/ Hangup
              \/ \E d \in Tables, v \in Values : OwnWrite(d, v)
              \/ \E r \in Requests, t \in Tids : Ask(r, t)
  PROVE  [Promise!Next]_(Promise!promiseVars)
<1>1. CASE SendFails
  <2>1. Stage' = "idle" /\ UNCHANGED <<mem, out>>
    BY <1>1 DEF SendFails, Done, Stage
  <2>2. Promise!Drop
    BY <2>1 DEF Promise!Drop, Promise!Close
  <2> QED
    BY <2>2 DEF Promise!Next
<1>2. CASE Connect
  <2>1. Stage' = "idle" /\ UNCHANGED mem /\ out' = <<>>
    BY <1>2 DEF Connect, Stage
  <2>2. Promise!Drop
    BY <2>1 DEF Promise!Drop, Promise!Close
  <2> QED
    BY <2>2 DEF Promise!Next
<1>3. CASE TakeReply
  <2>1. UNCHANGED <<tid, pc, local, mem>> /\ out # <<>> /\ out' = Tail(out)
    BY <1>3 DEF TakeReply
  <2>2. Promise!Deliver
    BY <2>1 DEF Promise!Deliver, local, Stage
  <2> QED
    BY <2>2 DEF Promise!Next
<1>4. ASSUME NEW d \in Tables, NEW v \in Values, OwnWrite(d, v)
      PROVE  Promise!Next
  <2>1. UNCHANGED <<tid, pc, local, out>> /\ mem' = [mem EXCEPT ![d] = v] /\ d \in DOMAIN mem
    BY <1>4 DEF OwnWrite, Inv, TypeOK
  <2>2. Promise!OwnWrite
    BY <2>1 DEF Promise!OwnWrite, local, Stage
  <2> QED
    BY <2>2 DEF Promise!Next
<1>5. ASSUME UNCHANGED <<tid, pc, local, mem, out>> PROVE UNCHANGED Promise!promiseVars
  BY <1>5 DEF Promise!promiseVars, local, Stage
<1>6. GiveUp \/ Noise \/ Hangup => UNCHANGED <<tid, pc, local, mem, out>>
  BY DEF GiveUp, Noise, Hangup
<1>7. \A r \in Requests, t \in Tids : Ask(r, t) => UNCHANGED <<tid, pc, local, mem, out>>
  BY DEF Ask
<1> QED
  BY <1>1, <1>2, <1>3, <1>4, <1>5, <1>6, <1>7

LEMMA DispatchHolds ==
  ASSUME SharedIsRtu
  PROVE  Spec => [](Inv /\ RefusedInv)
<1>1. Init => Inv /\ RefusedInv
  BY InvInit DEF Init, RefusedInv
<1>2. Inv /\ RefusedInv /\ [Next]_vars => (Inv /\ RefusedInv)'
  BY InvStep, RefusedStep
<1> QED
  BY <1>1, <1>2, PTL DEF Spec

LEMMA StepImplements ==
  ASSUME Inv, RefusedInv, ~Splits, [Next]_vars
  PROVE  [Promise!Next]_(Promise!promiseVars)
<1>1. CASE UNCHANGED vars
  BY <1>1 DEF vars, local, master, Promise!promiseVars, Stage
<1>2. CASE Next
  BY <1>2, RecvImplements, CarryImplements, SendImplements, OthersImplement
  DEF Next, ServiceStep
<1> QED
  BY <1>1, <1>2

(* Whatever masters ask, the promise is broken by nothing but a write and     *)
(* read that the memory carries out in one half and refuses in the other:     *)
(* every step with no such request under way is a step of SlavePromise, or    *)
(* none at all.                                                               *)
THEOREM OnlySplitPairsBreakIt ==
  ASSUME SharedIsRtu
  PROVE  Spec => [][~Splits => [Promise!Next]_(Promise!promiseVars)]_vars
<1>1. Inv /\ RefusedInv /\ [Next]_vars
        => [~Splits => [Promise!Next]_(Promise!promiseVars)]_vars
  BY StepImplements
<1> QED
  BY <1>1, DispatchHolds, PTL DEF Spec

(* The slave keeps its promise (KeepsPromise): for any requests, transaction  *)
(* ids, noise and lines, every normal answer tells of a request of this unit  *)
(* that was carried out once and whole, an exception of one that was not      *)
(* carried out at all, and nothing else changes the memory.                   *)
THEOREM OneTrueAnswer ==
  ASSUME SharedIsRtu, HalvesAgree
  PROVE  Spec => KeepsPromise
<1>1. ASSUME Inv PROVE ~Splits
  BY <1>1 DEF Splits, HalvesAgree, Inv, TypeOK
<1>2. Inv /\ RefusedInv /\ [Next]_vars => [Promise!Next]_(Promise!promiseVars)
  BY <1>1, StepImplements
<1> QED
  BY <1>2, DispatchHolds, PromiseInit, PTL DEF Spec, Promise!Spec, KeepsPromise

(* What is answered normally has passed the limits and could be read. *)
ReadInv ==
  pc = "reply" /\ req.fc = Both =>
    ~TooMany /\ req.count # "excess" /\ Verdict(req.count, req.inside) = "OK"

LEMMA ReadStep ==
  ASSUME Inv, ReadInv, [Next]_vars
  PROVE  ReadInv'
<1>1. CASE Recv
  BY <1>1
  DEF Recv, RecvEof, RecvOther, RecvUnknown, RecvDamaged, RecvRequest, RecvJunkShort,
      RecvJunkSkip, RecvJunkFail, RecvJunkLookalike, AtWait, FrameAtHead, Reject, Skip,
      local, ReadInv
<1>2. CASE Carry
  <2>1. req' = req
    BY <1>2 DEF Carry, Exceed, ReadMemory, WriteMemory, WriteFirst, ReadSecond, local
  <2>2. CASE Exceed \/ WriteFirst
    BY <2>2 DEF Exceed, WriteFirst, Judge, ReadInv
  <2>3. CASE ReadMemory \/ WriteMemory
    BY <2>1, <2>3 DEF ReadMemory, WriteMemory, Reads, Writes, Both, ReadInv
  <2>4. CASE ReadSecond
    BY <2>1, <2>4 DEF ReadSecond, Judge, Inv, DispatchInv, TooMany, ReadInv
  <2> QED
    BY <1>2, <2>2, <2>3, <2>4 DEF Carry
<1>3. CASE Send \/ SendFails
  BY <1>3 DEF Send, SendFails, Done, ReadInv
<1>4. CASE UNCHANGED <<pc, local>>
  BY <1>4 DEF local, ReadInv, TooMany
<1>5. Connect \/ TakeReply \/ GiveUp \/ Noise \/ Hangup => UNCHANGED <<pc, local>>
  BY DEF Connect, TakeReply, GiveUp, Noise, Hangup
<1>6. \A d \in Tables, v \in Values : OwnWrite(d, v) => UNCHANGED <<pc, local>>
  BY DEF OwnWrite
<1>7. \A r \in Requests, t \in Tids : Ask(r, t) => UNCHANGED <<pc, local>>
  BY DEF Ask
<1> QED
  BY <1>1, <1>2, <1>3, <1>4, <1>5, <1>6, <1>7 DEF Next, ServiceStep, vars, local

(* A normal answer to write and read tells the truth of its write             *)
(* (AnsweredIsWritten) where no request has one half carried out and the      *)
(* other refused: such a request is all it takes to break it, and nothing     *)
(* else does.                                                                 *)
THEOREM AgreedIsWritten ==
  ASSUME SharedIsRtu, HalvesAgree
  PROVE  Spec => []AnsweredIsWritten
<1>1. Init => ReadInv
  BY DEF Init, ReadInv
<1>2. Inv /\ ReadInv => AnsweredIsWritten
  <2> SUFFICES ASSUME Inv, ReadInv, pc = "reply", req.fc = Both
               PROVE  req.countEx = "some" /\ req.insideEx
    BY DEF AnsweredIsWritten
  <2>1. req \in Requests /\ ~Split(req) /\ req.countEx # "excess" /\ req.count # "excess"
    BY DEF Inv, TypeOK, HalvesAgree, ReadInv, TooMany
  <2>2. req.count = "some" /\ req.inside
    BY <2>1, CountOk DEF ReadInv
  <2> QED
    BY <2>1, <2>2 DEF Split
<1>3. Inv /\ ReadInv /\ [Next]_vars => ReadInv'
  BY ReadStep
<1> QED
  BY <1>1, <1>2, <1>3, InvHolds, PTL DEF Spec
=============================================================================
