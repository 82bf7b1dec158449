---------------------------- MODULE ModbusService ----------------------------
(* The slave's end of one line (src/modbus_service.c over the request half of *)
(* src/modbus_common.c): the event loop dispatches whenever bytes have come,  *)
(* and one dispatch receives a request, carries it out on the memory and      *)
(* answers, while application threads use the same memory.                    *)
(*                                                                            *)
(* Junk stands for bytes that begin no frame: noise, a frame cut short, the   *)
(* rest of one that was not read to its end.  It is never taken for a whole   *)
(* request: on rtu its crc is wrong.                                          *)
EXTENDS Integers, Sequences

CONSTANTS
  Modes,       \* ways to run a service: records [proto, shared, multSlaves]
  Own,         \* common->slave
  Requests,    \* what masters ask: records [slave, fc, count, inside, countEx, insideEx, value]
  Tids,        \* transaction ids
  Values,      \* what a cell of the memory may hold
  FaultKinds,  \* what may go wrong (see Spend)
  MaxFaults,   \* how many times something goes wrong
  MaxIn,       \* frames the line holds on their way to the service,
  MaxOut,      \* and to the master
  Junk,        \* model value
  Eof,         \* model value: the far end has closed the connection
  None         \* model value

Alien == 0     \* a unit id or function code that is not served
Both == 23     \* write and read registers
Reads == {1, 2, 3, 4}
Writes == {5, 6, 15, 16}
Served == Reads \cup Writes \cup {Both}

Counts == {"none", "some", "excess"}   \* 0, up to the limit of the function, beyond it

ASSUME ServiceAssumption ==
  /\ Modes # {} /\ Modes \subseteq [proto : {"tcp", "rtu"}, shared : BOOLEAN, multSlaves : BOOLEAN]
  /\ Own \in Nat \ {Alien}
  /\ Requests # {}
  /\ Requests \subseteq [slave : Nat, fc : Nat, count : Counts, inside : BOOLEAN,
                         countEx : Counts, insideEx : BOOLEAN, value : Values]
  /\ \A r \in Requests : r.fc \in {5, 6} => r.count = "some"
  /\ Tids # {} /\ Values # {}
  /\ MaxFaults \in Nat /\ MaxIn \in Nat \ {0} /\ MaxOut \in Nat \ {0}

(* A damaged frame may carry another value, and look like one for another     *)
(* unit, or of another function.                                              *)
Damaged(r) ==
  {[r EXCEPT !.slave = s, !.fc = f, !.value = v] :
     s \in {r.slave, Alien}, f \in {r.fc, Alien}, v \in Values}
Seen == Requests \cup UNION {Damaged(r) : r \in Requests}

Frame == [req : Seen, tid : Tids, intact : BOOLEAN]

ASSUME ServiceModelValues ==
  /\ Junk \notin Frame /\ Eof \notin Frame /\ Junk # Eof
  /\ None \notin Values /\ None \notin Seen /\ None \notin Frame

(* The memory as one value for each kind of cell the requests reach. *)
Table(fc) ==
  CASE fc \in {1, 5, 15} -> "bits"
    [] fc = 2 -> "input_bits"
    [] fc = 4 -> "input_registers"
    [] OTHER -> "registers"

Tables == {Table(r.fc) : r \in Requests}

VARIABLES
  mode,      \* common->proto, common->is_shared_transport, WITH_MULT_SLAVES
  attached,  \* the event loop has the service
  tid,       \* common->transaction_id
  pc,        \* where the dispatch is; "wait" between dispatches
  req,       \* req_data, None if nothing of a frame was understood
  ret,       \* ret of the dispatch
  data,      \* resp_data.data
  mem,       \* the memory: a value for each of its tables
  in,        \* what has arrived and is not read yet
  out,       \* answers under way
  asked,     \* the frame the master waits to have answered, or None
  got,       \* the code of the last answer it took: "NONE" is a normal one
  faults     \* how often something may still go wrong

local == <<req, ret, data>>
master == <<asked, got>>
vars == <<mode, attached, tid, pc, req, ret, data, mem, in, out, asked, got, faults>>

Init ==
  /\ mode \in Modes
  /\ attached = TRUE /\ tid \in Tids
  /\ pc = "wait" /\ req = None /\ ret = "OK" /\ data = None
  /\ \E v \in Values : mem = [d \in Tables |-> v]
  /\ in = <<>> /\ out = <<>> /\ asked = None /\ got = None
  /\ faults = MaxFaults

Spend(kind) == kind \in FaultKinds /\ faults > 0 /\ faults' = faults - 1

----------------------------------------------------------------------------
(* Receiving: modbus_common_recv_req and what dispatch makes of its result.   *)

(* Slip: a failure removes the service from a shared transport too. *)
RemoveAnyway ==
  /\ attached' = FALSE
  /\ in' = <<>>

(* RET_EOS, RET_IO: a shared transport is flushed and kept, any other is      *)
(* given up (RET_REMOVE).                                                     *)
RemoveOrFlush ==
  /\ attached' = mode.shared
  /\ in' = <<>>

HungUp == \E k \in 1 .. Len(in) : in[k] = Eof

AtWait == attached /\ pc = "wait" /\ in # <<>>

SetTid(t) == tid' = IF mode.proto = "tcp" THEN t ELSE tid

RecvEof ==
  /\ AtWait /\ Head(in) = Eof
  /\ RemoveOrFlush
  /\ UNCHANGED <<mode, tid, pc, local, mem, out, master, faults>>

FrameAtHead == AtWait /\ Head(in) \notin {Junk, Eof}

ForUs(f) == f.req.slave = Own

(* Slip: the dispatch fails on a unit id mismatch. *)
SkipRemoves(what) ==
  /\ in' = <<>>
  /\ attached' = FALSE
  /\ UNCHANGED <<pc, local>>

(* A unit id mismatch drops everything that has arrived. *)
Skip(what) ==
  /\ in' = IF HungUp THEN <<Eof>> ELSE <<>>
  /\ UNCHANGED attached
  /\ IF mode.multSlaves THEN UNCHANGED <<pc, local>>
     ELSE pc' = "skip" /\ req' = what /\ ret' = "SKIP" /\ UNCHANGED data

RecvOther ==
  /\ FrameAtHead /\ ~ForUs(Head(in))
  /\ SetTid(Head(in).tid)
  /\ Skip(Head(in).req)
  /\ UNCHANGED <<mode, mem, out, master, faults>>

(* What dispatch does on ret r of a frame addressed to it, other than RET_OK. *)
Reject(r, rest, what) ==
  /\ pc' = "except" /\ ret' = r /\ req' = what /\ data' = None
  /\ in' = rest
  /\ UNCHANGED attached

(* A function code the switch does not know: the rest of the frame, its crc   *)
(* at least, stays unread.                                                    *)
RecvUnknown ==
  /\ FrameAtHead /\ ForUs(Head(in)) /\ Head(in).req.fc \notin Served
  /\ SetTid(Head(in).tid)
  /\ \/ mode.proto = "tcp" /\ Reject("NOT_IMPL", Tail(in), Head(in).req)
     \/ Reject("NOT_IMPL", <<Junk>> \o Tail(in), Head(in).req)
  /\ UNCHANGED <<mode, mem, out, master, faults>>

(* Slip: the crc is not compared. *)
AnyCrc(f) == TRUE

CrcOk(f) == mode.proto = "tcp" \/ f.intact

(* A damaged frame may have a damaged byte count too: too few or too many     *)
(* bytes are read, or more are waited for in vain.                            *)
RecvDamaged ==
  /\ FrameAtHead /\ ForUs(Head(in)) /\ Head(in).req.fc \in Served /\ ~CrcOk(Head(in))
  /\ \/ \E rest \in {Tail(in), <<Junk>> \o Tail(in)} : Reject("CRC", rest, Head(in).req)
     \/ RemoveOrFlush /\ UNCHANGED <<pc, local>>
  /\ UNCHANGED <<mode, tid, mem, out, master, faults>>

RecvRequest ==
  /\ FrameAtHead /\ ForUs(Head(in)) /\ Head(in).req.fc \in Served /\ CrcOk(Head(in))
  /\ SetTid(Head(in).tid)
  /\ req' = Head(in).req /\ ret' = "OK" /\ data' = None
  /\ in' = Tail(in)
  /\ pc' = "memory"
  /\ UNCHANGED <<mode, attached, mem, out, master, faults>>

(* What reading out of junk may leave: it may run into the frames behind it,  *)
(* and end inside one.                                                        *)
JunkRests(q) ==
  {r \in {SubSeq(q, k, Len(q)) : k \in 2 .. Len(q) + 1}
           \cup {<<Junk>> \o SubSeq(q, k, Len(q)) : k \in 3 .. Len(q) + 1} :
     HungUp => r # <<>> /\ r[Len(r)] = Eof}

(* Junk fails the check of the unit id, is too short, or has on tcp a         *)
(* protocol id other than 0 (RET_FAIL, and transaction_id stays); it takes a  *)
(* coincidence to get further.                                                *)
RecvJunkShort ==
  /\ AtWait /\ Head(in) = Junk
  /\ RemoveOrFlush
  /\ UNCHANGED <<mode, tid, pc, local, mem, out, master, faults>>

RecvJunkSkip ==
  /\ AtWait /\ Head(in) = Junk
  /\ \E t \in Tids : SetTid(t)
  /\ Skip(None)
  /\ UNCHANGED <<mode, mem, out, master, faults>>

RecvJunkFail ==
  /\ AtWait /\ Head(in) = Junk /\ mode.proto = "tcp"
  /\ \E rest \in JunkRests(in) : Reject("FAIL", rest, None)
  /\ UNCHANGED <<mode, tid, mem, out, master, faults>>

RecvJunkLookalike ==
  /\ AtWait /\ Head(in) = Junk
  /\ Spend("lookalike")
  /\ \E t \in Tids : SetTid(t)
  /\ \E rest \in JunkRests(in) :
       \E r \in IF mode.proto = "tcp" THEN {"NOT_IMPL"} ELSE {"NOT_IMPL", "CRC"} :
         Reject(r, rest, None)
  /\ UNCHANGED <<mode, mem, out, master>>

Recv ==
  \/ RecvEof \/ RecvOther \/ RecvUnknown \/ RecvDamaged \/ RecvRequest
  \/ RecvJunkShort \/ RecvJunkSkip \/ RecvJunkFail \/ RecvJunkLookalike

----------------------------------------------------------------------------
(* Carrying a request out on the memory. *)

TooMany == req.count = "excess" \/ (req.fc = Both /\ req.countEx = "excess")

(* What a channel makes of a request within the limits (see ServerChannel). *)
Verdict(count, inside) ==
  IF count = "none" THEN "BAD_PARAMS" ELSE IF inside THEN "OK" ELSE "INVALID_ADDR"

Judge(r) == ret' = r /\ pc' = IF r = "OK" THEN "reply" ELSE "except"

(* Slip: the switch is left without setting ret. *)
ExceedUnnoticed ==
  /\ pc = "memory" /\ TooMany
  /\ Judge("OK")
  /\ UNCHANGED <<mode, attached, tid, req, data, mem, in, out, master, faults>>

Exceed ==
  /\ pc = "memory" /\ TooMany
  /\ Judge("INVALID_ADDR")
  /\ UNCHANGED <<mode, attached, tid, req, data, mem, in, out, master, faults>>

ReadMemory ==
  /\ pc = "memory" /\ ~TooMany /\ req.fc \in Reads
  /\ Judge(Verdict(req.count, req.inside))
  /\ data' = IF ret' = "OK" THEN mem[Table(req.fc)] ELSE None
  /\ UNCHANGED <<mode, attached, tid, req, mem, in, out, master, faults>>

Store(ok) == mem' = IF ok THEN [mem EXCEPT ![Table(req.fc)] = req.value] ELSE mem

WriteMemory ==
  /\ pc = "memory" /\ ~TooMany /\ req.fc \in Writes
  /\ Judge(Verdict(req.count, req.inside))
  /\ Store(ret' = "OK")
  /\ UNCHANGED <<mode, attached, tid, req, data, in, out, master, faults>>

(* Write and read: what the write returns is not looked at, and between the   *)
(* two the channel's lock is free.                                            *)
WriteFirst ==
  /\ pc = "memory" /\ ~TooMany /\ req.fc = Both
  /\ Store(Verdict(req.countEx, req.insideEx) = "OK")
  /\ pc' = "second"
  /\ UNCHANGED <<mode, attached, tid, local, in, out, master, faults>>

ReadSecond ==
  /\ pc = "second"
  /\ Judge(Verdict(req.count, req.inside))
  /\ data' = IF ret' = "OK" THEN mem[Table(req.fc)] ELSE None
  /\ UNCHANGED <<mode, attached, tid, req, mem, in, out, master, faults>>

Carry == Exceed \/ ReadMemory \/ WriteMemory \/ WriteFirst \/ ReadSecond

----------------------------------------------------------------------------
(* Answering. *)

Code ==
  CASE ret \in {"INVALID_ADDR", "SKIP"} -> "ILLEGAL_DATA_ADDRESS"
    [] ret = "CRC" -> "ILLEGAL_DATA_VALUE"
    [] OTHER -> "ILLEGAL_FUNCTION"

(* The function code that was read out of junk comes back in the answer. *)
AnyFc == {r.fc : r \in Requests} \cup {Alien}
ReplyFcs ==
  IF req # None THEN {req.fc}
  ELSE CASE ret = "NOT_IMPL" -> AnyFc \ Served
         [] ret = "CRC" -> AnyFc \cap Served
         [] ret = "FAIL" -> {Alien}
         [] OTHER -> AnyFc

Reply(fc) ==
  [tid |-> tid, fc |-> fc,
   code |-> IF pc = "reply" THEN "NONE" ELSE Code,
   value |-> IF pc = "reply" THEN data ELSE None]

Answering == pc \in {"reply", "except", "skip"}

Done == pc' = "wait" /\ req' = None /\ ret' = "OK" /\ data' = None

Send ==
  /\ Answering /\ Len(out) < MaxOut
  /\ \E fc \in ReplyFcs : out' = Append(out, Reply(fc))
  /\ Done
  /\ UNCHANGED <<mode, attached, tid, mem, in, master, faults>>

(* A failed write is treated as a failed read is, but for the exception sent  *)
(* for a skipped frame, whose result is not looked at.                        *)
SendFails ==
  /\ Answering /\ Spend("write")
  /\ IF pc = "skip" THEN UNCHANGED <<attached, in>> ELSE RemoveOrFlush
  /\ Done
  /\ UNCHANGED <<mode, tid, mem, out, master>>

----------------------------------------------------------------------------
(* The event loop and the application. *)

(* A new connection of a listener: modbus_service_create. *)
Connect ==
  /\ ~attached /\ pc = "wait"
  /\ attached' = TRUE /\ tid' \in Tids
  /\ in' = <<>> /\ out' = <<>> /\ asked' = None
  /\ UNCHANGED <<mode, pc, local, mem, got, faults>>

OwnWrite(d, v) ==
  /\ mem[d] # v
  /\ mem' = [mem EXCEPT ![d] = v]
  /\ UNCHANGED <<mode, attached, tid, pc, local, in, out, master, faults>>

----------------------------------------------------------------------------
(* The master and the line (external): one request at a time. *)

(* Bytes that nobody reads are lost. *)
Arrive(q) == in' = IF attached THEN in \o q ELSE in

Ask(r, t) ==
  /\ mode.shared \/ attached
  /\ ~HungUp /\ asked = None /\ Len(in) < MaxIn
  /\ mode.proto = "rtu" => t = tid
  /\ asked' = [req |-> r, tid |-> t, intact |-> TRUE] /\ got' = None
  /\ \/ Arrive(<<asked'>>) /\ UNCHANGED faults
     \/ Arrive(<<>>) /\ Spend("lost")
     \/ mode.shared /\ Spend("garbled")
          /\ \E d \in Damaged(r) : Arrive(<<[asked' EXCEPT !.intact = FALSE, !.req = d]>>)
     \/ mode.shared /\ Spend("cut") /\ Arrive(<<Junk>>)
     \/ ~mode.shared /\ Spend("cut") /\ Arrive(<<Junk, Eof>>)
  /\ UNCHANGED <<mode, attached, tid, pc, local, mem, out>>

Fits(a) == a.fc = asked.req.fc /\ (mode.proto = "tcp" => a.tid = asked.tid)

TakeReply ==
  /\ out # <<>>
  /\ out' = Tail(out)
  /\ IF asked # None /\ Fits(Head(out)) THEN asked' = None /\ got' = Head(out).code ELSE UNCHANGED master
  /\ UNCHANGED <<mode, attached, tid, pc, local, mem, in, faults>>

Quiet == in = <<>> /\ out = <<>> /\ pc = "wait"

GiveUp ==
  /\ asked # None
  /\ IF Quiet THEN UNCHANGED faults ELSE Spend("impatient")
  /\ asked' = None /\ got' = None
  /\ UNCHANGED <<mode, attached, tid, pc, local, mem, in, out>>

(* Noise, or the rest of a frame after what came first was flushed. *)
Noise ==
  /\ mode.shared /\ Spend("noise") /\ Len(in) < MaxIn
  /\ Arrive(<<Junk>>)
  /\ UNCHANGED <<mode, attached, tid, pc, local, mem, out, master>>

Hangup ==
  /\ ~mode.shared /\ attached /\ ~HungUp /\ Spend("hangup")
  /\ Arrive(<<Eof>>)
  /\ UNCHANGED <<mode, attached, tid, pc, local, mem, out, master>>

----------------------------------------------------------------------------
ServiceStep == Recv \/ Carry \/ Send

Next ==
  \/ ServiceStep \/ SendFails \/ Connect
  \/ \E d \in Tables, v \in Values : OwnWrite(d, v)
  \/ \E r \in Requests, t \in Tids : Ask(r, t)
  \/ TakeReply \/ GiveUp \/ Noise \/ Hangup

Spec == Init /\ [][Next]_vars

(* The event loop runs, a removed connection is made anew, and the master     *)
(* takes its answers and gives a request up once nothing moves any more.      *)
Fairness ==
  /\ WF_vars(ServiceStep) /\ WF_vars(Connect)
  /\ WF_vars(TakeReply) /\ WF_vars(GiveUp /\ Quiet)

FairSpec == Spec /\ Fairness

----------------------------------------------------------------------------
(* Properties *)

Rets == {"OK", "SKIP", "NOT_IMPL", "CRC", "FAIL", "BAD_PARAMS", "INVALID_ADDR"}
AnswerCodes == {"NONE", "ILLEGAL_FUNCTION", "ILLEGAL_DATA_ADDRESS", "ILLEGAL_DATA_VALUE"}
Answers == [tid : Tids, fc : Nat,
            code : AnswerCodes,
            value : Values \cup {None}]

(* The fields of the service and the locals of a dispatch keep their types; a *)
(* request is carried out only when there is one, and what it reads is there  *)
(* when it is answered.                                                       *)
TypeOK ==
  /\ mode \in Modes /\ attached \in BOOLEAN /\ tid \in Tids
  /\ pc \in {"wait", "memory", "second", "reply", "except", "skip"}
  /\ req \in Seen \cup {None}
  /\ pc \in {"memory", "second", "reply"} => req \in Requests
  /\ pc = "reply" => (data = None <=> req.fc \in Writes)
  /\ ret \in Rets /\ data \in Values \cup {None}
  /\ mem \in [Tables -> Values]
  /\ in \in Seq(Frame \cup {Junk, Eof}) /\ out \in Seq(Answers)
  /\ asked \in Frame \cup {None} /\ got \in AnswerCodes \cup {None}
  /\ faults \in 0 .. MaxFaults

(* A service on a serial line is never taken out of the event loop, whatever  *)
(* it receives: a wrong unit id must not leave the slave disconnected for     *)
(* good (docs/changes.md:15).                                                 *)
SharedStaysAttached == mode.shared => attached

Servable(r) ==
  /\ r.slave = Own /\ r.fc \in Served /\ r.count = "some" /\ r.inside
  /\ r.fc = Both => r.countEx = "some" /\ r.insideEx

(* The service keeps the promise of SlavePromise: one answer at most for a    *)
(* request, a normal one only if all of it was carried out, and no change of  *)
(* the memory by a damaged frame, a frame for another unit, or noise.         *)
Stage ==
  CASE pc = "memory" -> "taken"
    [] pc = "second" -> IF Servable(req) THEN "written" ELSE "taken"
    [] pc = "reply" -> "done"
    [] pc = "except" /\ req \in Requests /\ ret # "CRC" -> "taken"
    [] OTHER -> "idle"

Promise == INSTANCE SlavePromise WITH
  stage <- Stage,
  job   <- IF Stage = "idle" THEN None ELSE [req |-> req, tid |-> tid],
  shown <- IF Stage = "idle" THEN None ELSE data

KeepsPromise == Promise!Spec

(* The service goes on serving: whatever noise, damage, wrong unit ids or     *)
(* lost connections there were, a master that keeps asking what can be        *)
(* answered, and asks no unknown functions any more, keeps being answered     *)
(* ("rtu drops invalid data by itself", docs/changes.md:67).                  *)
ServesAgain ==
  /\ []<>(asked # None /\ Servable(asked.req))
  /\ <>[](asked # None => asked.req.fc \in Served)
  => []<>(got = "NONE")

(* A normal answer to a write, or to write and read, means that it was        *)
(* written: RET_OK of the memory is success and anything else is failure      *)
(* (src/modbus_memory.h:152).                                             *)
AnsweredIsWritten ==
  pc = "reply" /\ req.fc = Both => req.countEx = "some" /\ req.insideEx
=============================================================================
