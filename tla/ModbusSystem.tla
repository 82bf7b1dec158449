----------------------------- MODULE ModbusSystem -----------------------------
(* A client of ModbusClient and the slave it calls: every request sent is one *)
(* of a numbered call, and the slave carries out (src/modbus_service.c) what  *)
(* reaches it, in order on one connection, and perhaps late on one that the   *)
(* client has closed: the requests in the socket's buffer outlive it.         *)
EXTENDS ModbusClient

CONSTANT MaxCalls   \* bound: how many calls the application makes

ASSUME SystemAssumption == MaxCalls \in Nat

VARIABLES
  number,    \* calls made so far, the present one included
  cargo,     \* whose requests pending are: the number of the call, in order
  stray,     \* calls with a request on a connection the client has closed
  carried    \* calls whose request was carried out

far == <<cargo, stray, carried>>
sysvars == <<number, cargo, stray, carried>>
allvars == <<vars, sysvars>>

SystemInit ==
  /\ Init
  /\ number = 0 /\ cargo = <<>> /\ stray = {} /\ carried = {}

----------------------------------------------------------------------------
(* The client's side. *)

SysCall(o) ==
  /\ number < MaxCalls
  /\ Call(o)
  /\ number' = number + 1
  /\ UNCHANGED far

SysSet ==
  /\ \/ \E s \in Slaves : SetSlave(s)
     \/ \E b \in BOOLEAN : SetAutoReconnect(b)
  /\ UNCHANGED sysvars

(* A frame of which not everything was written is none for the slave. *)
SysSend ==
  /\ Send
  /\ cargo' = IF Len(pending') > Len(pending) THEN Append(cargo, number) ELSE cargo
  /\ UNCHANGED <<number, stray, carried>>

(* Steps that neither take nor give the stream anything but what it holds. *)
SysLocal ==
  /\ \/ CheckTimeout \/ Retry \/ Flush
     \/ RecvNothing \/ RecvOtherTid \/ RecvOtherSlave \/ RecvOtherFunction
     \/ RecvException \/ RecvGarbled \/ RecvAnswer \/ RecvJunk
  /\ UNCHANGED sysvars

(* The last step of a call.  What a closed tcp connection still carries is    *)
(* not lost for that: the slave may read it.                                  *)
SysEnd ==
  /\ Return \/ Exhausted
  /\ IF pending' = pending THEN UNCHANGED <<cargo, stray>>
     ELSE /\ cargo' = <<>>
          /\ stray' = stray \cup {cargo[k] : k \in 1 .. Len(cargo)}
  /\ UNCHANGED <<number, carried>>

----------------------------------------------------------------------------
(* The slave's side. *)

(* The slave is done with the first request: done, or refused or lost. *)
Served(done) ==
  /\ cargo' = Tail(cargo)
  /\ carried' = IF done THEN carried \cup {Head(cargo)} ELSE carried
  /\ UNCHANGED <<number, stray>>

(* Slip: what became of the request is not looked at before it is answered. *)
SysAnswerUndone ==
  /\ Answer
  /\ \E done \in BOOLEAN : Served(done)

SysAnswer ==
  /\ Answer
  /\ Served(TRUE)

(* Of these answers some come after the request was carried out: its own is   *)
(* cut short, lost or garbled, or the write of a function 23 was done before  *)
(* its read was refused.                                                      *)
SysAnswerBadly ==
  /\ RecvPartial \/ Lose \/ AnswerException \/ AnswerAsOther \/ AnswerGarbled
  /\ \E done \in BOOLEAN : Served(done)

(* A request of a closed connection is carried out, or thrown away with it. *)
StrayServed ==
  /\ \E n \in stray :
       /\ carried' \in {carried, carried \cup {n}}
       /\ stray' \in {stray, stray \ {n}}
  /\ UNCHANGED <<vars, number, cargo>>

----------------------------------------------------------------------------
SystemNext ==
  \/ \E o \in Ops : SysCall(o)
  \/ SysSet \/ SysSend \/ SysLocal \/ SysEnd
  \/ SysAnswer \/ SysAnswerBadly \/ StrayServed

SystemSpec == SystemInit /\ [][SystemNext]_allvars

----------------------------------------------------------------------------
(* Properties *)

CallNumbers == 1 .. number

(* Every pending request is one of a call that was made, the calls in the     *)
(* order they were, and only calls that were made are carried out.            *)
SystemTypeOK ==
  /\ TypeOK
  /\ number \in 0 .. MaxCalls
  /\ cargo \in Seq(CallNumbers) /\ Len(cargo) = Len(pending)
  /\ \A j, k \in 1 .. Len(cargo) : j < k => cargo[j] <= cargo[k]
  /\ stray \subseteq CallNumbers /\ carried \subseteq CallNumbers

(* A call that returns RET_OK has been carried out, and no request of it or   *)
(* of a call before it is left on the connection (modbus_common_recv_resp     *)
(* accepts the answer to the last request only, and the slave answers in      *)
(* order): nothing done later undoes it but a request that a closed           *)
(* connection still carried.  An answer as old as the transaction ids take    *)
(* to come round is left out.                                                 *)
OkIsSettled ==
  pc = "idle" /\ ret = "OK" /\ (answer # None => answer.age = 0)
     => number \in carried /\ cargo = <<>>

(* Success is final: once a call has returned RET_OK no request of it is left *)
(* anywhere, on this connection or on one given up, now or ever after, so     *)
(* that the slave cannot carry it out again behind the application's back.    *)
SuccessIsFinal ==
  \A n \in 1 .. MaxCalls :
    [](pc = "idle" /\ ret = "OK" /\ number = n
         => [](n \notin stray /\ \A k \in 1 .. Len(cargo) : cargo[k] # n))

(* Client and slave together keep the promise of RemoteCall.                  *)
Remote == INSTANCE RemoteCall WITH
  busy    <- pc # "idle",
  outcome <- IF pc = "idle" THEN ret ELSE "NONE",
  waiting <- {cargo[k] : k \in 1 .. Len(cargo)} \ (IF pc = "idle" THEN {} ELSE {number}),
  adrift  <- stray \ (IF pc = "idle" THEN {} ELSE {number})

KeepsRemotePromise == Remote!Spec
=============================================================================
