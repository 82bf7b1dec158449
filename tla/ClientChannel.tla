---------------------------- MODULE ClientChannel ----------------------------
(* Client channels (src/modbus_client_channel.c) and init requests            *)
(* (src/modbus_init_req.c): tables of devices copied to and from buffers, in  *)
(* as many requests as it takes, over one client that they all share.  Each   *)
(* channel may name the unit it talks to.                                     *)
(*                                                                            *)
(* One call of the client is one step here: it is ok and done, or it failed   *)
(* and what it was to write may be written or not (see ClientPromise).  The   *)
(* thread that polls the channels holds a channel's lock during a transfer,   *)
(* and the application holds it while it touches the buffers: the functions   *)
(* of the channel do not take it themselves.                                  *)
EXTENDS Integers, FiniteSets

CONSTANTS
  Channels,    \* the channels of the client
  Confs,       \* ways to configure them: functions from Channels to Entry
  InitReqs,    \* init requests: records [unit, from, size, value]
  Units,       \* the devices on the line
  Default,     \* the unit the application sets on the client
  MaxRead,     \* MODBUS_MAX_READ_BITS or MODBUS_MAX_READ_REGISTERS
  MaxWrite,    \* MODBUS_MAX_WRITE_BITS or MODBUS_MAX_WRITE_REGISTERS
  MaxBothRead, MaxBothWrite, \* MODBUS_MAX_WR_READ_REGISTERS, MODBUS_MAX_WR_WRITE_REGISTERS
  AddrMod,     \* number of addresses, 2^16 in the code
  Values,      \* what a cell of a device may hold, besides Cleared
  Interval,    \* update_interval, in ticks of the clock
  MaxLag,      \* how old the current_time given to an update may be
  MaxChanges   \* how often a device or the application changes a value by itself

NoUnit == 0    \* unit_id of a channel that has none
Cleared == 0   \* what a failed read leaves in a cell it clears

Accesses == {"read", "write", "both", "other"}

(* What a channel is loaded with: what it reads, what it writes, and whether  *)
(* its last value is to be kept when a read fails.                            *)
Entry == [access : Accesses, unit : Units \cup {NoUnit}, from : Nat, size : Nat,
          wfrom : Nat, wsize : Nat, keep : BOOLEAN]

ASSUME ChannelAssumption ==
  /\ Confs \subseteq [Channels -> Entry]
  /\ Units # {} /\ Units \subseteq Nat \ {NoUnit} /\ Default \in Units
  /\ InitReqs \subseteq [unit : Units \cup {NoUnit}, from : Nat, size : Nat, value : Values]
  /\ MaxRead \in Nat \ {0} /\ MaxWrite \in Nat \ {0}
  /\ MaxBothRead \in Nat /\ MaxBothWrite \in Nat
  /\ AddrMod \in Nat \ {0}
  /\ Values # {} /\ Values \subseteq Nat \ {Cleared}
  /\ Interval \in Nat /\ MaxLag \in Nat /\ MaxChanges \in Nat

(* Every channel ends within the address space.                               *)
ASSUME WithinAddressSpace ==
  \A f \in Confs, c \in Channels : /\ f[c].from + f[c].size <= AddrMod
                                   /\ f[c].wfrom + f[c].wsize <= AddrMod

Cells == Units \X (0 .. AddrMod - 1)
Cell == Values \cup {Cleared}

VARIABLES
  conf,      \* access type, range and error handling of each channel
  bound,     \* channel->client is set
  unit,      \* channel->unit_id
  buf,       \* channel->read_buffer, by element
  wbuf,      \* channel->write_buffer, by element
  due,       \* channel->next_update_time, less the present time
  slave,     \* the slave of the shared client
  pc,        \* where the polling thread is; "idle" between calls
  chan,      \* the channel of the call,
  kind,      \* "read" or "write",
  updating,  \* and whether update made it
  done,      \* offset of the loop
  ret,       \* what the last call returned, or is about to
  dev,       \* the cells of the devices
  seen,      \* values a cell held since the call began (history)
  before,    \* the read buffer as the call found it (history)
  rest,      \* ticks since the last update of a channel ended (history)
  changes    \* how often something may still change by itself

config == <<conf, bound, unit>>
buffers == <<buf, wbuf>>
time == <<due, rest>>
call == <<chan, kind, updating>>
history == <<seen, before>>
vars == <<conf, bound, unit, buf, wbuf, due, slave, pc, chan, kind, updating, done, ret,
          dev, seen, before, rest, changes>>

ReadCells(c) == 0 .. conf[c].size - 1
WriteCells(c) == 0 .. conf[c].wsize - 1
Zeroed(c) == [k \in ReadCells(c) |-> Cleared]
NothingSeen == [x \in Cells |-> {}]

(* modbus_client_channel_create: the buffers are cleared, and                 *)
(* next_update_time is long over.                                             *)
Init ==
  /\ conf \in Confs
  /\ bound = [c \in Channels |-> FALSE]
  /\ unit = [c \in Channels |-> conf[c].unit]
  /\ buf = [c \in Channels |-> Zeroed(c)]
  /\ wbuf = [c \in Channels |-> [k \in WriteCells(c) |-> Cleared]]
  /\ due = [c \in Channels |-> -MaxLag] /\ rest = [c \in Channels |-> Interval]
  /\ slave = Default
  /\ pc = "idle" /\ chan \in Channels /\ kind = "read" /\ updating = FALSE
  /\ done = 0 /\ ret = "OK"
  /\ \E v \in [Units -> Values] : dev = [x \in Cells |-> v[x[1]]]
  /\ seen = NothingSeen /\ before = Zeroed(chan)
  /\ changes = MaxChanges

----------------------------------------------------------------------------
(* Settings and buffers, in the application's hands. *)

SetClient(c) ==
  /\ pc = "idle"
  /\ bound' = [bound EXCEPT ![c] = TRUE]
  /\ UNCHANGED <<conf, unit, buffers, time, slave, pc, call, done, ret, dev, history, changes>>

MayChange == changes > 0 /\ changes' = changes - 1

SetUnitId(c, u) ==
  /\ pc = "idle" /\ MayChange
  /\ unit' = [unit EXCEPT ![c] = u]
  /\ UNCHANGED <<conf, bound, buffers, time, slave, pc, call, done, ret, dev, history>>

(* Under the channel's lock, so not while the polling thread is in a call.    *)
FillWriteBuffer(c, v) ==
  /\ pc = "idle" \/ chan # c
  /\ MayChange
  /\ \E k \in WriteCells(c) : wbuf' = [wbuf EXCEPT ![c][k] = v]
  /\ UNCHANGED <<config, buf, time, slave, pc, call, done, ret, dev, history>>

----------------------------------------------------------------------------
(* A call of a channel: read, write or update. *)

(* Slip: a failed read clears what it was told to keep. *)
ClearAlways(c) == buf' = [buf EXCEPT ![c] = Zeroed(c)]

ClearIfFail(c) == buf' = IF conf[c].keep THEN buf ELSE [buf EXCEPT ![c] = Zeroed(c)]

(* The locals of a call, gone when it returns. *)
NoCall(c) == kind' = "read" /\ updating' = FALSE /\ done' = 0 /\ before' = Zeroed(c)

(* Read and update clear the buffer when there is no client, write does not.  *)
WithoutClient(c, what, u) ==
  /\ pc = "idle" /\ ~bound[c]
  /\ chan' = c /\ ret' = "BAD_PARAMS" /\ NoCall(c)
  /\ IF what = "read" \/ u THEN ClearIfFail(c) ELSE UNCHANGED buf
  /\ UNCHANGED <<config, wbuf, time, slave, pc, dev, seen, changes>>

(* Slip: the unit id of the channel is not set on the client. *)
KeepSlave(u) == slave' = slave

(* Slip: a channel without a unit id sets it too. *)
UseAnyUnit(u) == slave' = u

UseUnit(u) == slave' = IF u # NoUnit THEN u ELSE slave

(* The branch of the switch in read or write; other access types end at once. *)
Branch(c, what) ==
  CASE what = "read" /\ conf[c].access = "read" -> "reading"
    [] what = "write" /\ conf[c].access = "write" -> "writing"
    [] what = "write" /\ conf[c].access = "both" -> "both"
    [] OTHER -> "failed"

Begin(c, what, u) ==
  /\ pc = "idle" /\ bound[c]
  /\ UseUnit(unit[c])
  /\ chan' = c /\ kind' = what /\ updating' = u
  /\ pc' = Branch(c, what) /\ done' = 0
  /\ ret' = IF pc' = "failed" THEN "NOT_IMPL" ELSE "FAIL"
  /\ seen' = [x \in Cells |-> {dev[x]}] /\ before' = buf[c]
  /\ UNCHANGED <<config, buffers, time, dev, changes>>

Transfer(c, what) == WithoutClient(c, what, FALSE) \/ Begin(c, what, FALSE)

WhatItDoes(c) == IF conf[c].access = "read" THEN "read" ELSE "write"

(* The caller gives the time, which may be old already. *)
NotDue(c, lag) == due[c] + lag > 0

UpdateTooEarly(c, lag) ==
  /\ pc = "idle" /\ bound[c] /\ NotDue(c, lag)
  /\ chan' = c /\ ret' = "NOT_MODIFIED" /\ NoCall(c)
  /\ UNCHANGED <<config, buffers, time, slave, pc, dev, seen, changes>>

NextUpdate(c) == due' = [due EXCEPT ![c] = Interval] /\ rest' = [rest EXCEPT ![c] = 0]

(* Of an unknown access type nothing is transferred. *)
UpdateNothing(c, lag) ==
  /\ pc = "idle" /\ bound[c] /\ ~NotDue(c, lag) /\ conf[c].access = "other"
  /\ chan' = c /\ ret' = "OK" /\ NoCall(c)
  /\ NextUpdate(c)
  /\ UNCHANGED <<config, buffers, slave, pc, dev, seen, changes>>

Update(c, lag) ==
  \/ WithoutClient(c, WhatItDoes(c), TRUE)
  \/ UpdateTooEarly(c, lag)
  \/ UpdateNothing(c, lag)
  \/ ~NotDue(c, lag) /\ conf[c].access # "other" /\ Begin(c, WhatItDoes(c), TRUE)

----------------------------------------------------------------------------
(* The requests of a call. *)

Size == conf[chan].size
WSize == conf[chan].wsize

ThisRequest(limit, left) == IF left > limit THEN limit ELSE left

(* Slip: every request reads from the start of the table. *)
ReadFromStart(k) == <<slave, (conf[chan].from + k - done) % AddrMod>>

ReadAt(k) == <<slave, (conf[chan].from + k) % AddrMod>>

(* Slip: the offset of the reads is used for the writes. *)
WriteAtReadOffset(k) == <<slave, (conf[chan].from + k) % AddrMod>>

WriteAt(k) == <<slave, (conf[chan].wfrom + k) % AddrMod>>

Witness == seen' = [x \in Cells |-> seen[x] \cup {dev'[x]}]

(* Elements es of the read buffer are stored, as devices d hold them. *)
StoreRead(es, d) ==
  buf' = [buf EXCEPT ![chan] =
            [k \in ReadCells(chan) |-> IF k \in es THEN d[ReadAt(k)] ELSE buf[chan][k]]]

(* The devices after elements es of the write buffer have been written. *)
Written(es) ==
  [x \in Cells |->
     IF \E k \in es : WriteAt(k) = x
     THEN wbuf[chan][CHOOSE k \in es : WriteAt(k) = x] ELSE dev[x]]

ReadRequest ==
  /\ pc = "reading" /\ done < Size
  /\ LET n == ThisRequest(MaxRead, Size - done) IN
     /\ StoreRead(done .. done + n - 1, dev)
     /\ done' = done + n
  /\ ret' = "OK"
  /\ UNCHANGED <<config, wbuf, time, slave, pc, call, dev, history, changes>>

WriteRequest ==
  /\ pc = "writing" /\ done < WSize
  /\ LET n == ThisRequest(MaxWrite, WSize - done) IN
     /\ dev' = Written(done .. done + n - 1)
     /\ done' = done + n
  /\ Witness
  /\ ret' = "OK"
  /\ UNCHANGED <<config, buffers, time, slave, pc, call, before, changes>>

(* With nothing to transfer ret is still RET_FAIL here. *)
LoopEnds ==
  /\ \/ pc = "reading" /\ done = Size
     \/ pc = "writing" /\ done = WSize
  /\ pc' = IF ret = "OK" THEN "ended" ELSE "failed"
  /\ UNCHANGED <<config, buffers, time, slave, call, done, ret, dev, history, changes>>

TooLong == WSize > MaxBothWrite \/ Size > MaxBothRead

(* modbus_client_write_and_read_registers: the device writes first. *)
BothRequest ==
  /\ pc = "both" /\ ~TooLong
  /\ dev' = Written(WriteCells(chan))
  /\ Witness
  /\ StoreRead(ReadCells(chan), dev')
  /\ ret' = "OK" /\ pc' = "ended"
  /\ UNCHANGED <<config, wbuf, time, slave, call, done, before, changes>>

(* Every attempt of modbus_client_write_and_read_registers first clears as    *)
(* many bytes of the read buffer as there are registers to read: half of it.  *)
(* Where that ends inside a register, one byte may make all of its value.     *)
ClearHalf ==
  \E lost \in BOOLEAN :
    buf' = [buf EXCEPT ![chan] =
              [k \in ReadCells(chan) |->
                 IF 2 * k + 1 < Size \/ (lost /\ 2 * k + 1 = Size)
                 THEN Cleared ELSE buf[chan][k]]]

Fail ==
  /\ ret' = "FAIL" /\ pc' = "failed"
  /\ UNCHANGED <<config, wbuf, time, slave, call, done, before, changes>>

BothTooLong ==
  /\ pc = "both" /\ TooLong
  /\ Fail /\ UNCHANGED <<buf, dev, seen>>

ReadFails ==
  /\ pc = "reading" /\ done < Size
  /\ Fail /\ UNCHANGED <<buf, dev, seen>>

(* The device may have carried out what it was asked nevertheless; without a  *)
(* connection it was not even asked.                                          *)
WriteFails ==
  /\ \/ /\ pc = "writing" /\ done < WSize
        /\ dev' \in {dev, Written(done .. done + ThisRequest(MaxWrite, WSize - done) - 1)}
        /\ UNCHANGED buf
     \/ /\ pc = "both" /\ ~TooLong
        /\ dev' \in {dev, Written(WriteCells(chan))}
        /\ ClearHalf \/ UNCHANGED <<dev, buf>>
  /\ Witness
  /\ Fail

(* Slip: the next update is reckoned from the time the caller gave. *)
ReckonFromCaller ==
  /\ due' = IF updating THEN [due EXCEPT ![chan] = Interval - MaxLag] ELSE due
  /\ rest' = IF updating THEN [rest EXCEPT ![chan] = 0] ELSE rest

Reschedule == IF updating THEN NextUpdate(chan) ELSE UNCHANGED time

(* The end of read, write and update, whether it failed or not. *)
Finish ==
  /\ pc \in {"ended", "failed"}
  /\ IF pc = "failed" /\ kind = "read" THEN ClearIfFail(chan) ELSE UNCHANGED buf
  /\ Reschedule
  /\ pc' = "idle" /\ NoCall(chan) /\ seen' = NothingSeen
  /\ UNCHANGED <<config, wbuf, slave, chan, ret, dev, changes>>

CallStep ==
  \/ ReadRequest \/ WriteRequest \/ BothRequest
  \/ ReadFails \/ WriteFails \/ BothTooLong
  \/ LoopEnds \/ Finish

----------------------------------------------------------------------------
(* modbus_init_req_request, when a device has been (re)started. *)

InitCells(i) == {<<slave', (i.from + k) % AddrMod>> : k \in 0 .. i.size - 1}

InitRequest(i) ==
  /\ pc = "idle"
  /\ UseUnit(i.unit)
  /\ dev' \in {dev, [x \in Cells |-> IF x \in InitCells(i) THEN i.value ELSE dev[x]]}
  /\ UNCHANGED <<config, buffers, time, pc, call, done, ret, history, changes>>

----------------------------------------------------------------------------
(* The clock and the devices (external). *)

Tick ==
  /\ due' = [c \in Channels |-> IF due[c] > -MaxLag THEN due[c] - 1 ELSE due[c]]
  /\ rest' = [c \in Channels |-> IF rest[c] < Interval THEN rest[c] + 1 ELSE rest[c]]
  /\ due' # due
  /\ UNCHANGED <<config, buffers, slave, pc, call, done, ret, dev, history, changes>>

DeviceChanges(x, v) ==
  /\ MayChange
  /\ dev' = [dev EXCEPT ![x] = v]
  /\ IF pc = "idle" THEN UNCHANGED seen ELSE Witness
  /\ UNCHANGED <<config, buffers, time, slave, pc, call, done, ret, before>>

----------------------------------------------------------------------------
Next ==
  \/ \E c \in Channels :
       \/ SetClient(c)
       \/ \E u \in Units \cup {NoUnit} : SetUnitId(c, u)
       \/ \E v \in Values : FillWriteBuffer(c, v)
       \/ Transfer(c, "read") \/ Transfer(c, "write")
       \/ \E lag \in 0 .. MaxLag : Update(c, lag)
  \/ CallStep
  \/ \E i \in InitReqs : InitRequest(i)
  \/ Tick
  \/ \E x \in Cells, v \in Values : DeviceChanges(x, v)

Spec == Init /\ [][Next]_vars

----------------------------------------------------------------------------
(* Properties *)

(* The fields of the channels keep their types, and a loop stays within its   *)
(* buffer.                                                                    *)
TypeOK ==
  /\ conf \in Confs
  /\ bound \in [Channels -> BOOLEAN] /\ unit \in [Channels -> Units \cup {NoUnit}]
  /\ \A c \in Channels : /\ buf[c] \in [ReadCells(c) -> Cell]
                         /\ wbuf[c] \in [WriteCells(c) -> Cell]
                         /\ due[c] \in -MaxLag .. Interval /\ rest[c] \in 0 .. Interval
  /\ slave \in Units
  /\ pc \in {"idle", "reading", "writing", "both", "ended", "failed"}
  /\ chan \in Channels /\ kind \in {"read", "write"} /\ updating \in BOOLEAN
  /\ done \in Nat /\ (pc = "reading" => done <= Size) /\ (pc = "writing" => done <= WSize)
  /\ ret \in {"OK", "FAIL", "NOT_IMPL", "BAD_PARAMS", "NOT_MODIFIED"}
  /\ dev \in [Cells -> Cell] /\ seen \in [Cells -> SUBSET Cell]
  /\ before \in [ReadCells(chan) -> Cell]
  /\ changes \in 0 .. MaxChanges

(* The cell element k of a channel stands for, on the unit meant: its own, or *)
(* the application's default.                                                 *)
MeantUnit(c) == IF unit[c] # NoUnit THEN unit[c] ELSE Default
ReadMeant(c, k) == <<MeantUnit(c), conf[c].from + k>>
WriteMeant(c, k) == <<MeantUnit(c), conf[c].wfrom + k>>

WriteRange(c) == {WriteMeant(c, k) : k \in WriteCells(c)}

HasRead(c, ks) == \A k \in ks : buf[c][k] \in seen[ReadMeant(c, k)]
HasWritten(c, ks) == \A k \in ks : wbuf[c][k] \in seen[WriteMeant(c, k)]

(* A read that succeeds, in however many requests, has in every element a     *)
(* value that its own cell of its own unit held during this very read         *)
(* (docs/changes.md:98, several reads for long data), for a channel with a    *)
(* unit id of its own.                                                        *)
OkReadIsRecent ==
  pc = "ended" /\ chan \in {c \in Channels : unit[c] # NoUnit /\ conf[c].access \in {"read", "both"}}
    => HasRead(chan, ReadCells(chan))

(* A write that succeeds has brought every element of the buffer to its own   *)
(* cell of its own unit meanwhile.                                            *)
OkWriteHasArrived ==
  pc = "ended" /\ unit[chan] # NoUnit /\ kind = "write" => HasWritten(chan, WriteCells(chan))

(* No call writes a cell that is not the channel's: neither beyond its range  *)
(* by a last request too long, nor on another unit.                           *)
OnlyOwnCellsWritten ==
  [][(pc \in {"writing", "both"} /\ changes' = changes /\ unit[chan] # NoUnit)
       => (\A x \in Cells : dev'[x] = dev[x] \/ x \in WriteRange(chan))]_vars

(* A read that fails leaves a buffer whose last value is to be kept with the  *)
(* elements of the requests before the one that failed, as they were during   *)
(* the read, and all others as they were before it                            *)
(* (keep_last_value_if_read_failed); any other buffer is cleared.             *)
FailedReadKeepsOrClears ==
  [][pc = "failed" /\ pc' = "idle" /\ kind = "read" /\ unit[chan] # NoUnit =>
       IF conf[chan].keep
       THEN /\ HasRead(chan, ReadCells(chan) \cap (0 .. done - 1))
            /\ \A k \in ReadCells(chan) : k >= done => buf'[chan][k] = before[k]
            /\ buf' = buf
       ELSE buf'[chan] = Zeroed(chan)]_vars

(* Whatever time the caller of update gives, and however long the transfer    *)
(* takes, a channel rests for its update_interval between two updates, failed *)
(* ones included.                                                             *)
UpdatesAreSpaced ==
  [][(pc = "idle" /\ pc' # "idle" /\ updating') => rest[chan'] >= Interval]_vars

(* A channel without a unit id of its own uses the default one                *)
(* (docs/changes.md:91).                                                      *)
DefaultUnitIsUsed ==
  pc \in {"reading", "writing", "both"} /\ unit[chan] = NoUnit => slave = Default
=============================================================================
