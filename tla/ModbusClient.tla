----------------------------- MODULE ModbusClient -----------------------------
(* The modbus client (src/modbus_client.c over src/modbus_common.c): one call *)
(* at a time runs connect, send, wait, receive, retry and disconnect over a   *)
(* stream whose far end may answer late, partly, wrongly or not at all.       *)
(*                                                                            *)
(* A frame is a record of the fields the receiver looks at.  Junk stands for  *)
(* the bytes left of a frame whose reading stopped in its middle: the next    *)
(* read starts inside it.  A frame is in rx from its first byte on; the rest  *)
(* of it may still be arriving.  A frame's age counts the requests sent since *)
(* the one it belongs to, up to TidMod; the program does not have it.         *)
EXTENDS Integers, Sequences, FiniteSets

CONSTANTS
  Transport,   \* the schema of the client's url: "tcp", "rtu_over_tcp" or "serial"
  Ops,         \* what the application may call: records [fc, count]
  Slaves,      \* the unit ids the application may set
  RetryTimes,  \* client->retry_times
  TidMod,      \* number of transaction ids, 2^16 in the code
  FaultKinds,  \* what may go wrong (see Spend)
  MaxFaults,   \* how many times something goes wrong
  MaxQueue,    \* frames the stream and the line hold
  Junk,        \* model value: the unread rest of a frame
  None         \* model value: no answer

WriteAndReadFc == 23
ReadFcs == {1, 2, 3, 4, WriteAndReadFc}
Alien == 0     \* a function code or unit id that no request of ours carries

ASSUME ClientAssumption ==
  /\ Transport \in {"tcp", "rtu_over_tcp", "serial"}
  /\ Ops # {} /\ Ops \subseteq [fc : Nat \ {Alien}, count : Nat]
  /\ Slaves # {} /\ Slaves \subseteq Nat \ {Alien}
  /\ RetryTimes \in Nat
  /\ TidMod \in Nat \ {0, 1}
  /\ MaxFaults \in Nat
  /\ MaxQueue \in Nat \ {0}

IsTcp == Transport = "tcp"
Codes == {o.fc : o \in Ops} \cup {Alien}
Tids == 0 .. TidMod - 1

Frame == [tid : Tids, slave : Slaves \cup {Alien}, fc : Codes,
          count : {o.count : o \in Ops}, exception : BOOLEAN, intact : BOOLEAN,
          age : 0 .. TidMod]

ASSUME ClientModelValues == Junk \notin Frame /\ None \notin Frame

Returns == {"OK", "IO", "FAIL", "TIMEOUT", "CRC", "SKIP", "BAD_PARAMS"}

VARIABLES
  connected,      \* client->is_connected
  autoReconnect,  \* client->auto_reconnect
  io,             \* the stream: "open", or "closed" once deinit released it
  slave,          \* common->slave
  tid,            \* common->transaction_id
  pc,             \* where the call is; "idle" between calls
  op,             \* the arguments of the call
  attempt,        \* i of the retry loop
  ret,            \* ret of the call
  answer,         \* the frame whose data the call handed out, or None
  rx,             \* what has arrived and is not read yet
  pending,        \* requests the far end has not answered yet
  faults          \* how often something may still go wrong, and whether it has

link == <<connected, autoReconnect, io>>
call == <<op, attempt>>
line == <<rx, pending, faults>>
vars == <<connected, autoReconnect, io, slave, tid, pc, op, attempt, ret,
          answer, rx, pending, faults>>

Init ==
  /\ connected = TRUE /\ autoReconnect = TRUE /\ io = "open"
  /\ slave \in Slaves /\ tid = 0
  /\ pc = "idle" /\ op \in Ops /\ attempt = 0 /\ ret = "NONE" /\ answer = None
  /\ rx = <<>> /\ pending = <<>>
  /\ faults = [left |-> MaxFaults, disturbed |-> FALSE]

(* Every way the environment departs from answering in time, and as asked,    *)
(* takes one of MaxFaults.  Those of Disturbances can leave an answer, or the *)
(* rest of a frame, to be read by a later attempt or call.                    *)
Disturbances == {"slow", "late", "partial", "unit", "garbled"}

Spend(kind) ==
  /\ kind \in FaultKinds
  /\ faults.left > 0
  /\ faults' = [left |-> faults.left - 1,
                disturbed |-> faults.disturbed \/ kind \in Disturbances]

----------------------------------------------------------------------------
(* Settings, between calls. *)

SetSlave(s) ==
  /\ pc = "idle"
  /\ slave' = s
  /\ UNCHANGED <<link, tid, pc, call, ret, answer, line>>

SetAutoReconnect(b) ==
  /\ pc = "idle"
  /\ autoReconnect' = b
  /\ UNCHANGED <<connected, io, slave, tid, pc, call, ret, answer, line>>

----------------------------------------------------------------------------
(* The entry of a call: modbus_client_check_and_auto_connect. *)

LoopHead(i) == IF i < RetryTimes THEN "send" ELSE "exhausted"

StartCall(o) ==
  /\ pc = "idle"
  /\ op' = o
  /\ answer' = None

EnterLoop ==
  /\ attempt' = 0
  /\ ret' = "OK"
  /\ pc' = LoopHead(0)

CallConnected(o) ==
  /\ StartCall(o)
  /\ connected
  /\ EnterLoop
  /\ UNCHANGED <<link, slave, tid, line>>

CallWithoutReconnect(o) ==
  /\ StartCall(o)
  /\ ~connected /\ ~autoReconnect
  /\ ret' = "IO"
  /\ UNCHANGED <<link, slave, tid, pc, attempt, line>>

CallConnectFails(o) ==
  /\ StartCall(o)
  /\ ~connected /\ autoReconnect
  /\ Spend("refused")
  /\ ret' = "IO"
  /\ UNCHANGED <<link, slave, tid, pc, attempt, rx, pending>>

(* Slip: the flags are set without a new stream. *)
CallReconnectsWithoutStream(o) ==
  /\ StartCall(o)
  /\ ~connected /\ autoReconnect
  /\ connected' = TRUE
  /\ tid' = 0
  /\ EnterLoop
  /\ UNCHANGED <<autoReconnect, io, slave, line>>

(* modbus_client_init over a new stream. *)
CallReconnects(o) ==
  /\ StartCall(o)
  /\ ~connected /\ autoReconnect
  /\ connected' = TRUE
  /\ io' = "open"
  /\ tid' = 0
  /\ EnterLoop
  /\ UNCHANGED <<autoReconnect, slave, line>>

----------------------------------------------------------------------------
(* One attempt: send the request, check the time left, receive. *)

(* Slip: no wrap at UINT16_MAX. *)
NextTidUnbounded(t) == t + 1

(* Slip: the id is kept in too few bits. *)
NextTidNarrow(t) == IF t < 1 THEN t + 1 ELSE 0

NextTid(t) == IF t < TidMod - 1 THEN t + 1 ELSE 0

Older(f) ==
  IF f = Junk THEN f
  ELSE [f EXCEPT !.age = IF f.age < TidMod THEN f.age + 1 ELSE TidMod]

AllOlder(q) == [k \in 1 .. Len(q) |-> Older(q[k])]

Request ==
  [tid |-> NextTid(tid), slave |-> slave, fc |-> op.fc, count |-> op.count,
   exception |-> FALSE, intact |-> TRUE, age |-> 0]

(* A write into a line that holds MaxQueue unanswered requests fails too: the *)
(* far end has stopped reading.                                               *)
Send ==
  /\ pc = "send"
  /\ tid' = NextTid(tid)
  /\ rx' = AllOlder(rx)
  /\ \/ /\ Len(pending) < MaxQueue
        /\ pending' = Append(AllOlder(pending), Request)
        /\ pc' = "check"
        /\ UNCHANGED <<ret, faults>>
     \/ /\ IF Len(pending) < MaxQueue THEN Spend("write") ELSE UNCHANGED faults
        /\ pending' = AllOlder(pending)
        /\ ret' = "IO"
        /\ pc' = "judge"
  /\ UNCHANGED <<link, slave, call, answer>>

(* modbus_client_check_and_set_recv_timeout: sending may have used up         *)
(* response_timeout.                                                          *)
CheckTimeout ==
  /\ pc = "check"
  /\ \/ /\ pc' = "recv"
        /\ UNCHANGED <<ret, faults>>
     \/ /\ Spend("slow")
        /\ ret' = "TIMEOUT"
        /\ pc' = "judge"
  /\ UNCHANGED <<link, slave, tid, call, answer, rx, pending>>

(* What the impl of the operation makes of a failed receive: that of          *)
(* write_and_read_registers turns every failure into RET_FAIL.                *)
Reported(r) == IF op.fc = WriteAndReadFc /\ r # "OK" THEN "FAIL" ELSE r

(* modbus_common_recv_resp and the decoding after it end with r, leave rest   *)
(* unread and hand out frame a.                                               *)
Received(r, rest, a) ==
  /\ pc = "recv"
  /\ ret' = Reported(r)
  /\ rx' = rest
  /\ answer' = a
  /\ pc' = "judge"
  /\ UNCHANGED <<link, slave, tid, call>>

(* Slip: the read waits without a timeout. *)
RecvWaits ==
  /\ pc = "recv" /\ rx = <<>>
  /\ UNCHANGED vars

(* Nothing comes within read_timeout. *)
RecvNothing ==
  /\ rx = <<>>
  /\ IF pending = <<>> THEN UNCHANGED faults ELSE Spend("late")
  /\ Received("IO", <<>>, None)
  /\ UNCHANGED pending

(* The answer comes in pieces, the last too late: what was read is gone, the  *)
(* rest arrives as junk.  A length that falls short is RET_IO, except that of *)
(* the crc (RET_CRC) and of the exception code, which is not checked.         *)
RecvPartial ==
  /\ rx = <<>> /\ pending # <<>>
  /\ Spend("partial")
  /\ \E r \in IF IsTcp THEN {"IO", "FAIL"} ELSE {"IO", "CRC"} :
       Received(r, <<Junk>>, None)
  /\ pending' = Tail(pending)

FrameAtHead == rx # <<>> /\ Head(rx) # Junk
(* Slip: the transaction id of an answer is not compared. *)
AnyTid(f) == TRUE

BelongsToRequest(f) == IsTcp => f.tid = tid

FromOurSlave(f) == FrameAtHead /\ BelongsToRequest(f) /\ f.slave = slave

RecvOtherTid ==
  /\ FrameAtHead /\ ~BelongsToRequest(Head(rx))
  /\ Received("IO", <<Junk>> \o Tail(rx), None)
  /\ UNCHANGED <<pending, faults>>

(* What may be left of q once its first frame was begun: any of the rest may  *)
(* be gone too, up to a point between two frames or inside one.               *)
JunkRests(q) ==
  UNION {{SubSeq(q, k, Len(q)), <<Junk>> \o SubSeq(q, k, Len(q))} :
         k \in 2 .. Len(q) + 1}

(* A unit id mismatch, found when the header was read, drops everything that  *)
(* has arrived; what is still arriving, of that very frame too, is not waited *)
(* for and stays to be read.                                                  *)
RecvOtherSlave ==
  /\ FrameAtHead /\ BelongsToRequest(Head(rx)) /\ Head(rx).slave # slave
  /\ \E rest \in JunkRests(rx) : Received("SKIP", rest, None)
  /\ UNCHANGED <<pending, faults>>

(* Neither the expected function code nor its exception: the rest of the      *)
(* frame stays unread.                                                        *)
RecvOtherFunction ==
  /\ FromOurSlave(Head(rx)) /\ Head(rx).fc # op.fc
  /\ Received("FAIL", <<Junk>> \o Tail(rx), None)
  /\ UNCHANGED <<pending, faults>>

(* The parts of a frame its sender's crc covers, and those the receiver       *)
(* computes its own over: the exception code is read past the buffer the      *)
(* receiver's crc is taken of.                                                *)
CrcSent(f) == IF f.exception THEN {"header", "code"} ELSE {"header", "payload"}
CrcChecked(f) == IF f.exception THEN {"header"} ELSE {"header", "payload"}
CrcOk(f) == IsTcp \/ (f.intact /\ CrcSent(f) = CrcChecked(f))

(* Slip: the exception code and the crc after it stay unread. *)
RecvExceptionUnread ==
  LET f == Head(rx) IN
  /\ FromOurSlave(f) /\ f.fc = op.fc /\ f.exception
  /\ Received(IF CrcOk(f) THEN "FAIL" ELSE "CRC", <<Junk>> \o Tail(rx), None)
  /\ UNCHANGED <<pending, faults>>

RecvException ==
  LET f == Head(rx) IN
  /\ FromOurSlave(f) /\ f.fc = op.fc /\ f.exception
  /\ Received(IF CrcOk(f) THEN "FAIL" ELSE "CRC", Tail(rx), None)
  /\ UNCHANGED <<pending, faults>>

(* A garbled frame may have a garbled byte count too: too few or too many     *)
(* bytes are read, or the receiver waits in vain for more.                    *)
RecvGarbled ==
  LET f == Head(rx) IN
  /\ FromOurSlave(f) /\ f.fc = op.fc /\ ~f.exception /\ ~CrcOk(f)
  /\ \E r \in {"CRC", "IO"}, rest \in {Tail(rx), <<Junk>> \o Tail(rx)} :
       Received(r, rest, None)
  /\ UNCHANGED <<pending, faults>>

CountFits(f) == op.fc \in ReadFcs => f.count = op.count

RecvAnswer ==
  LET f == Head(rx) IN
  /\ FromOurSlave(f) /\ f.fc = op.fc /\ ~f.exception /\ CrcOk(f)
  /\ IF CountFits(f) THEN Received("OK", Tail(rx), f)
                     ELSE Received("BAD_PARAMS", Tail(rx), None)
  /\ UNCHANGED <<pending, faults>>

(* A header read out of junk matches no tcp request; on rtu it may look like  *)
(* anything short of a frame with a right crc.                                *)
RecvJunk ==
  /\ rx # <<>> /\ Head(rx) = Junk
  /\ \E r \in IF IsTcp THEN {"IO"} ELSE {"IO", "FAIL", "CRC", "SKIP"}, rest \in JunkRests(rx) :
       Received(r, rest, None)
  /\ UNCHANGED <<pending, faults>>

Recv ==
  \/ RecvNothing \/ RecvPartial
  \/ RecvOtherTid \/ RecvOtherSlave \/ RecvOtherFunction
  \/ RecvException \/ RecvGarbled \/ RecvAnswer \/ RecvJunk

----------------------------------------------------------------------------
(* After an attempt. *)

(* Slip: a lost connection is worth a retry too. *)
NeedRetryOrIo(r) == r \in {"CRC", "SKIP", "IO"}

NeedRetry(r) == r \in {"CRC", "SKIP"}

(* modbus_client_check_connect_status.  Closing a socket loses what is on its *)
(* way; an answer still on a serial line reaches the port when it is reopened. *)
CheckConnectStatus ==
  IF ret = "IO" /\ connected
  THEN /\ connected' = FALSE
       /\ io' = "closed"
       /\ rx' = <<>>
       /\ pending' = IF Transport = "serial" THEN pending ELSE <<>>
       /\ UNCHANGED <<autoReconnect, faults>>
  ELSE UNCHANGED <<link, line>>

(* Slip: the attempt is not counted. *)
RetryUncounted ==
  /\ pc = "judge" /\ NeedRetry(ret)
  /\ pc' = LoopHead(attempt + 1)
  /\ UNCHANGED <<link, slave, tid, call, ret, answer, line>>

Retry ==
  /\ pc = "judge" /\ NeedRetry(ret)
  /\ attempt' = attempt + 1
  /\ pc' = LoopHead(attempt + 1)
  /\ UNCHANGED <<link, slave, tid, op, ret, answer, line>>

(* Slip: the early return of the loop forgets check_connect_status. *)
ReturnUnchecked ==
  /\ pc = "judge" /\ ~NeedRetry(ret)
  /\ pc' = "idle"
  /\ UNCHANGED <<link, slave, tid, call, ret, answer, line>>

Return ==
  /\ pc = "judge" /\ ~NeedRetry(ret)
  /\ CheckConnectStatus
  /\ pc' = "idle"
  /\ UNCHANGED <<slave, tid, call, ret, answer>>

Exhausted ==
  /\ pc = "exhausted"
  /\ CheckConnectStatus
  /\ pc' = "flush"
  /\ UNCHANGED <<slave, tid, call, ret, answer>>

(* modbus_client_flush_read_buffer: what has arrived, without waiting for the *)
(* rest of a frame that is still arriving.                                    *)
Flush ==
  /\ pc = "flush"
  /\ rx' \in {<<>>} \cup JunkRests(rx)
  /\ pc' = "idle"
  /\ UNCHANGED <<link, slave, tid, call, ret, answer, pending, faults>>

----------------------------------------------------------------------------
(* The far end (external): it takes requests in order. *)

Deliver(f) ==
  /\ pending # <<>>
  /\ Len(rx) < MaxQueue
  /\ pending' = Tail(pending)
  /\ rx' = IF io = "open" THEN Append(rx, f) ELSE rx
  /\ UNCHANGED <<link, slave, tid, pc, call, ret, answer>>

Answer ==
  /\ Deliver(Head(pending))
  /\ UNCHANGED faults

Lose ==
  /\ pending # <<>>
  /\ Spend("lost")
  /\ pending' = Tail(pending)
  /\ UNCHANGED <<link, slave, tid, pc, call, ret, answer, rx>>

AnswerException ==
  /\ Spend("exception")
  /\ Deliver([Head(pending) EXCEPT !.exception = TRUE])

AnswerAsOther ==
  /\ Spend("unit")
  /\ Deliver([Head(pending) EXCEPT !.slave = Alien])

(* Noise on a serial line; tcp has its own checksum. *)
AnswerGarbled ==
  /\ ~IsTcp /\ pending # <<>>
  /\ Spend("garbled")
  /\ \E c \in {Head(pending).fc, Alien} :
       Deliver([Head(pending) EXCEPT !.fc = c, !.intact = FALSE])

----------------------------------------------------------------------------
Call(o) ==
  CallConnected(o) \/ CallWithoutReconnect(o) \/ CallConnectFails(o) \/ CallReconnects(o)

ClientStep ==
  Send \/ CheckTimeout \/ Recv \/ Retry \/ Return \/ Exhausted \/ Flush

FarEnd == Answer \/ Lose \/ AnswerException \/ AnswerAsOther \/ AnswerGarbled

Next ==
  \/ \E o \in Ops : Call(o)
  \/ \E s \in Slaves : SetSlave(s)
  \/ \E b \in BOOLEAN : SetAutoReconnect(b)
  \/ ClientStep
  \/ FarEnd

Spec == Init /\ [][Next]_vars

(* The calling thread runs and every read and write of it has a timeout; the  *)
(* application goes on calling, and the far end answers what it received.     *)
Fairness ==
  /\ WF_vars(ClientStep)
  /\ WF_vars(\E o \in Ops : Call(o))
  /\ WF_vars(Answer)

FairSpec == Spec /\ Fairness

----------------------------------------------------------------------------
(* Properties *)

Steps == {"idle", "send", "check", "recv", "judge", "exhausted", "flush"}

(* The fields of the client and its common part keep their types. *)
TypeOK ==
  /\ connected \in BOOLEAN /\ autoReconnect \in BOOLEAN /\ io \in {"open", "closed"}
  /\ slave \in Slaves /\ tid \in Tids
  /\ pc \in Steps /\ op \in Ops /\ attempt \in Nat
  /\ ret \in Returns \cup {"NONE"}
  /\ answer \in Frame \cup {None}
  /\ rx \in Seq(Frame \cup {Junk}) /\ pending \in Seq(Frame)
  /\ faults \in [left : 0 .. MaxFaults, disturbed : BOOLEAN]

(* What an accepted frame may be: the answer to the last request sent or, on  *)
(* tcp, to one so old that its transaction id has come round again.           *)
AnswersLastRequest(f) == f.age = 0 \/ (IsTcp /\ f.age = TidMod)

(* RET_OK hands out the data of the answer to the last request of this very   *)
(* call, never that of a call that failed or timed out before it              *)
(* (modbus_common_recv_resp's transaction_id check, and the flush that is to  *)
(* "ensure the next req and resp tid sync", modbus_client.c:257).             *)
ReplyIsOurs ==
  pc = "idle" /\ ret = "OK" => answer # None /\ AnswersLastRequest(answer)

(* The same on a serial line or rtu over tcp, whose frames carry no id, as     *)
(* long as no answer was late, none came from another unit and no frame was   *)
(* damaged: a retry, an exception, a failed write, a lost answer or a new     *)
(* connection alone does not get the two sides out of step.                   *)
UndisturbedReplyIsOurs == ~faults.disturbed => ReplyIsOurs

(* No step of a call writes to, reads from or flushes the stream that         *)
(* modbus_client_check_connect_status has released (the flush after the retry *)
(* loop follows that release in the code).                                    *)
OnlyOpenIoUsed ==
  pc \in {"send", "check", "recv", "flush"} => io = "open" /\ connected

(* No frame handed out is older than the last request, not even by a turn of  *)
(* the transaction ids, where there are more of these than requests may be    *)
(* waiting for their answers: the ids need no time stamp and no flush beside  *)
(* them (modbus_common_recv_resp compares nothing else).                      *)
AnsweredInTurn == answer # None => answer.age = 0

(* The return code tells the caller whether there is a connection left:       *)
(* RET_IO of a call, of one refused for want of a connection included, and    *)
(* nothing else, means that there is none.                                    *)
ReturnTellsLink == pc = "idle" => (connected <=> ret # "IO")

(* The steps a call may still take before it returns: four for each attempt   *)
(* left and two after the last.                                               *)
StepsLeft ==
  LET attempts == 4 * (RetryTimes - attempt) IN
  CASE pc = "idle" -> 0
    [] pc = "flush" -> 1
    [] pc = "exhausted" -> 2
    [] pc = "judge" -> attempts - 1
    [] pc = "recv" -> attempts
    [] pc = "check" -> attempts + 1
    [] pc = "send" -> attempts + 2

(* A call sends retry_times requests at most and ends, whatever comes back:   *)
(* each of its own steps brings it nearer to its return, and no other step,   *)
(* of the far end or of the application, puts it back.                        *)
CallsAreBounded ==
  [][IF pc = "idle" THEN StepsLeft' <= 4 * RetryTimes + 2
     ELSE \/ 0 <= StepsLeft' /\ StepsLeft' < StepsLeft
          \/ UNCHANGED <<link, slave, tid, pc, call, ret, answer>>]_vars

(* The client keeps the promise of ClientPromise: ok only with the own        *)
(* answer, the connection given up exactly by reporting RET_IO.               *)
Promise == INSTANCE ClientPromise WITH
  busy    <- pc # "idle",
  link    <- connected,
  outcome <- IF pc = "idle" THEN ret ELSE "NONE",
  genuine <- pc = "idle" /\ ret = "OK" /\ answer # None /\ AnswersLastRequest(answer)

KeepsPromise == Promise!Spec

(* Every call comes back to its caller, whatever is lost. *)
EveryCallReturns == pc # "idle" ~> pc = "idle"

(* A frame that arrived undamaged is never taken for a crc error (RET_CRC is  *)
(* what makes the client send a request again).                               *)
UndamagedIsNoCrcError ==
  [][pc = "recv" /\ rx # <<>> /\ Head(rx) # Junk /\ Head(rx).intact /\ pc' = "judge"
       => ret' # "CRC"]_vars

(* Communication recovers: once nothing goes wrong any more, calls succeed    *)
(* again without help, as long as auto reconnection is not switched off.      *)
CallSucceeds == pc = "idle" /\ ret = "OK"
Recovers == <>[]autoReconnect => []<>CallSucceeds

(* The same where calls other than write_and_read_registers keep being made:  *)
(* their RET_IO is what gives a stream that lost its frame boundaries up.     *)
RecoversByPlainCalls ==
  <>[]autoReconnect /\ []<>(pc = "idle" /\ op.fc # WriteAndReadFc) => []<>CallSucceeds

(* The same on a line that no late answer, foreign or damaged frame has       *)
(* disturbed.                                                                 *)
UndisturbedRecovers == <>[](autoReconnect /\ ~faults.disturbed) => []<>CallSucceeds
=============================================================================
