---------------------------- MODULE ServerChannel ----------------------------
(* A channel of the slave's memory (src/modbus_server_channel.c): registers   *)
(* or bits that the service and the application's threads read and write,     *)
(* one element at a time, under a lock that its owner may take again.         *)
(*                                                                            *)
(* A value is two bytes in the order of the wire; a register keeps them in    *)
(* the order of the host, and a bit is set by a first byte that is not 0.     *)
EXTENDS Integers, Sequences

CONSTANTS
  Threads,     \* the service's thread and the application's
  Names,       \* the names the channel may have
  Requests,    \* what the threads may call: records [what, addr, count, values]
  Start,       \* channel->start
  Length,      \* channel->length
  MaxRead,     \* MODBUS_MAX_READ_BITS, MODBUS_MAX_READ_REGISTERS
  MaxWrite,    \* MODBUS_MAX_WRITE_BITS, MODBUS_MAX_WRITE_REGISTERS
  AddrMod,     \* number of addresses, 2^16 in the code
  Bytes,       \* the values of a byte
  MaxDepth,    \* how often an application takes the lock again
  Nobody       \* model value: no thread

Wire == Bytes \X Bytes
Kinds == {"read", "write", "one"}   \* "one": write_bit or write_register

(* A loop of one element is write_bit or write_register itself. *)
ASSUME ChannelAssumption ==
  /\ Names \subseteq {"bits", "input_bits", "registers", "input_registers"}
  /\ Start \in Nat /\ Length \in Nat \ {0}
  /\ MaxRead \in Nat \ {0} /\ MaxWrite \in Nat \ {0}
  /\ AddrMod \in Nat \ {0}
  /\ {0, 1} \subseteq Bytes
  /\ Requests \subseteq [what : Kinds, addr : 0 .. AddrMod - 1, count : Nat, values : Seq(Wire)]
  /\ Requests # {}
  /\ \A o \in Requests : /\ o.what # "read" => Len(o.values) = o.count
                         /\ o.what = "one" => o.count = 1
  /\ MaxDepth \in Nat

ASSUME ChannelModelValue == Nobody \notin Threads

VARIABLES
  name,       \* channel->name
  writable,   \* channel->writable
  data,       \* channel->data
  owner,      \* the thread that has channel->lock, or Nobody
  depth,      \* how often it has taken it
  pc,         \* where each thread is: "idle", "enter", "loop"
  op,         \* its arguments
  next,       \* i of its loop
  out,        \* the values it has read
  ret         \* what its last call returned

fields == <<name, writable>>
lock == <<owner, depth>>
vars == <<name, writable, data, owner, depth, pc, op, next, out, ret>>

Offsets == 0 .. Length - 1
IsBits == name \in {"bits", "input_bits"}
IsInput == name \in {"input_bits", "input_registers"}

Init ==
  /\ name \in Names /\ writable \in BOOLEAN
  /\ data = [c \in Offsets |-> <<0, 0>>]
  /\ owner = Nobody /\ depth = 0
  /\ pc = [t \in Threads |-> "idle"]
  /\ op \in [Threads -> Requests]
  /\ next = [t \in Threads |-> 0]
  /\ out = [t \in Threads |-> <<>>]
  /\ ret = [t \in Threads |-> "NONE"]

----------------------------------------------------------------------------
(* The arguments. *)

TooMany(o) == o.count > IF o.what = "read" THEN MaxRead ELSE MaxWrite

Protected(o) == o.what # "read" /\ IsInput /\ ~writable

Outside(o) == o.addr < Start \/ o.addr + o.count > Start + Length

Verdict(o) ==
  IF o.count = 0 THEN "BAD_PARAMS"
  ELSE IF TooMany(o) THEN "INVALID_ADDR"
  ELSE IF Protected(o) THEN "BAD_PARAMS"
  ELSE IF Outside(o) THEN "INVALID_ADDR"
  ELSE "OK"

----------------------------------------------------------------------------
(* tk_mutex_nest (external): its owner may take it again. *)

(* Slip: a plain mutex, that its owner waits for. *)
CanLockOnce(t) == owner = Nobody

CanLock(t) == owner \in {t, Nobody}

(* Slip: the lock is not waited for. *)
AcquireAnyway(t) ==
  /\ owner' = t
  /\ depth' = depth + 1

Acquire(t) ==
  /\ CanLock(t)
  /\ owner' = t
  /\ depth' = depth + 1

(* Slip: one unlock gives all of the owner's locks back. *)
YieldAll(t) ==
  /\ depth' = 0
  /\ owner' = Nobody

Yield(t) ==
  /\ depth' = depth - 1
  /\ owner' = IF depth = 1 THEN Nobody ELSE t

(* modbus_server_channel_lock and _unlock, called by an application around    *)
(* what belongs together.                                                     *)
Lock(t) ==
  /\ pc[t] = "idle" /\ depth < MaxDepth
  /\ Acquire(t)
  /\ UNCHANGED <<fields, data, pc, op, next, out, ret>>

Unlock(t) ==
  /\ pc[t] = "idle" /\ owner = t
  /\ Yield(t)
  /\ UNCHANGED <<fields, data, pc, op, next, out, ret>>

----------------------------------------------------------------------------
(* One call. *)

Call(t, o) ==
  /\ pc[t] = "idle"
  /\ op' = [op EXCEPT ![t] = o]
  /\ out' = [out EXCEPT ![t] = <<>>]
  /\ next' = [next EXCEPT ![t] = 0]
  /\ pc' = [pc EXCEPT ![t] = IF Verdict(o) = "OK" THEN "enter" ELSE "idle"]
  /\ ret' = [ret EXCEPT ![t] = IF Verdict(o) = "OK" THEN "NONE" ELSE Verdict(o)]
  /\ UNCHANGED <<fields, data, lock>>

Enter(t) ==
  /\ pc[t] = "enter"
  /\ Acquire(t)
  /\ pc' = [pc EXCEPT ![t] = "loop"]
  /\ UNCHANGED <<fields, data, op, next, out, ret>>

(* addr + i, as the uint16_t parameter of the functions for one element. *)
Addr(t) == (op[t].addr + next[t]) % AddrMod

(* int16_to_big_endian; a bit has no byte order. *)
ToWire(v) == IF IsBits THEN v ELSE <<v[2], v[1]>>

FromWire(w) ==
  IF ~IsBits THEN <<w[2], w[1]>> ELSE IF w[1] = 0 THEN <<0, 0>> ELSE <<1, 0>>

(* modbus_server_channel_read_bit, without the lock; _read_register, with it. *)
ReadElement(t) ==
  /\ pc[t] = "loop" /\ op[t].what = "read" /\ next[t] < op[t].count
  /\ IsBits \/ CanLock(t)
  /\ out' = [out EXCEPT ![t] = Append(@, ToWire(data[(Addr(t) - Start) % AddrMod]))]
  /\ next' = [next EXCEPT ![t] = @ + 1]
  /\ UNCHANGED <<fields, data, lock, pc, op, ret>>

(* modbus_server_channel_write_bit or _write_register checks the address once *)
(* more; the loop around it does not look at what it returns.                 *)
WriteElement(t) ==
  /\ pc[t] = "loop" /\ op[t].what # "read" /\ next[t] < op[t].count
  /\ CanLock(t)
  /\ data' = IF Addr(t) - Start \in Offsets
             THEN [data EXCEPT ![Addr(t) - Start] = FromWire(op[t].values[next[t] + 1])]
             ELSE data
  /\ next' = [next EXCEPT ![t] = @ + 1]
  /\ UNCHANGED <<fields, lock, pc, op, out, ret>>

(* Slip: it returns without the unlock. *)
LeaveLocked(t) ==
  /\ pc[t] = "loop" /\ next[t] = op[t].count
  /\ pc' = [pc EXCEPT ![t] = "idle"]
  /\ ret' = [ret EXCEPT ![t] = "OK"]
  /\ UNCHANGED <<fields, data, lock, op, next, out>>

Leave(t) ==
  /\ pc[t] = "loop" /\ next[t] = op[t].count
  /\ Yield(t)
  /\ pc' = [pc EXCEPT ![t] = "idle"]
  /\ ret' = [ret EXCEPT ![t] = "OK"]
  /\ UNCHANGED <<fields, data, op, next, out>>

----------------------------------------------------------------------------
Progress(t) == Enter(t) \/ ReadElement(t) \/ WriteElement(t) \/ Leave(t)

Next ==
  \E t \in Threads :
    \/ Lock(t) \/ Unlock(t) \/ Progress(t)
    \/ \E o \in Requests : Call(t, o)

Spec == Init /\ [][Next]_vars

(* Every thread runs, an application gives the lock back in the end, and a    *)
(* thread that waits for the lock is not passed over for ever.                *)
Fairness ==
  \A t \in Threads :
    /\ SF_vars(Enter(t))
    /\ WF_vars(Progress(t))
    /\ SF_vars(Unlock(t) /\ depth = 1)
    /\ SF_vars(Unlock(t))

FairSpec == Spec /\ Fairness

----------------------------------------------------------------------------
(* Properties *)

(* The fields of the channel and the locals of its callers keep their types,  *)
(* and every lock is given back.                                              *)
TypeOK ==
  /\ name \in Names /\ writable \in BOOLEAN
  /\ data \in [Offsets -> Wire]
  /\ owner \in Threads \cup {Nobody} /\ depth \in 0 .. MaxDepth + 1
  /\ pc \in [Threads -> {"idle", "enter", "loop"}]
  /\ op \in [Threads -> Requests]
  /\ next \in [Threads -> Nat]
  /\ out \in [Threads -> Seq(Wire)]
  /\ ret \in [Threads -> {"NONE", "OK", "BAD_PARAMS", "INVALID_ADDR"}]

(* Whoever goes over the elements has the lock, so nobody else does: the      *)
(* functions for one bit take no lock of their own to read it.                *)
LoopUnderLock == \A t \in Threads : pc[t] = "loop" => owner = t

Writing(t) == pc[t] = "loop" /\ op[t].what # "read"

(* The elements the owner has still to write. *)
Due(t) == {op[t].addr - Start + k : k \in next[t] .. op[t].count - 1}

SeenAs(c) ==
  IF owner # Nobody /\ Writing(owner) /\ c \in Due(owner)
  THEN ToWire(FromWire(op[owner].values[c - (op[owner].addr - Start) + 1]))
  ELSE ToWire(data[c])

OwnLocks(t) == depth - (IF pc[t] = "loop" THEN 1 ELSE 0)

(* The channel as a bank whose requests are atomic: a write takes effect when *)
(* it gets the lock, a read when it gives it back.                            *)
BankMem == [c \in Offsets |-> SeenAs(c)]
BankHolder == IF owner # Nobody /\ OwnLocks(owner) > 0 THEN owner ELSE Nobody
BankPhase == [t \in Threads |-> IF pc[t] = "idle" THEN "idle"
                                ELSE IF Writing(t) THEN "done" ELSE "called"]
BankResult == [t \in Threads |-> IF pc[t] = "idle"
                                 THEN [code |-> ret[t], values |-> out[t]]
                                 ELSE [code |-> "NONE", values |-> <<>>]]

Bank == INSTANCE RegisterBank WITH
  bits <- IsBits, mayWrite <- ~IsInput \/ writable,
  mem <- BankMem, holder <- BankHolder, phase <- BankPhase, job <- op, result <- BankResult

(* Every request takes effect at one instant, whole, and not within what      *)
(* another thread does under the lock; a refused one changes nothing (the     *)
(* lock was added to "protect the data", docs/changes.md:74).                 *)
TakesEffectAtOnce == Bank!Spec

(* No caller waits for the lock for ever, its owner least of all (the nested  *)
(* mutex is there "to avoid deadlock", docs/changes.md:75).                   *)
EveryCallReturns == \A t \in Threads : pc[t] # "idle" ~> pc[t] = "idle"
=============================================================================
