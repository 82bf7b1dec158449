------------------------- MODULE ClientChannelProofs -------------------------
(* Theorems about ClientChannel, for every value of its constants. *)
EXTENDS ClientChannel, TLAPS

(* ------------------------------- addresses -------------------------------- *)

LEMMA SmallMod ==
  ASSUME NEW a \in Nat, NEW n \in Nat, a < n
  PROVE  a % n = a
OBVIOUS

(* What a channel was loaded with lies within the address space.              *)
LEMMA Loaded ==
  ASSUME conf \in Confs, NEW c \in Channels
  PROVE  /\ conf[c].from \in Nat /\ conf[c].size \in Nat
         /\ conf[c].wfrom \in Nat /\ conf[c].wsize \in Nat
         /\ conf[c].from + conf[c].size <= AddrMod
         /\ conf[c].wfrom + conf[c].wsize <= AddrMod
         /\ conf[c].access \in Accesses /\ conf[c].unit \in Units \cup {NoUnit}
         /\ AddrMod \in Nat \ {0}
<1>1. conf \in [Channels -> Entry]
  BY ChannelAssumption
<1>2. conf[c] \in Entry
  BY <1>1
<1> QED
  BY <1>2, ChannelAssumption, WithinAddressSpace DEF Entry

(* No element of a channel wraps round to another cell.                       *)
LEMMA ReadCell ==
  ASSUME conf \in Confs, chan \in Channels, slave \in Units, NEW k \in ReadCells(chan)
  PROVE  ReadAt(k) = <<slave, conf[chan].from + k>> /\ ReadAt(k) \in Cells
<1>1. /\ conf[chan].from + k \in Nat /\ AddrMod \in Nat
      /\ conf[chan].from + k < AddrMod
  BY Loaded DEF ReadCells
<1> QED
  BY <1>1, SmallMod DEF ReadAt, Cells

LEMMA WriteCell ==
  ASSUME conf \in Confs, chan \in Channels, slave \in Units, NEW k \in WriteCells(chan)
  PROVE  WriteAt(k) = <<slave, conf[chan].wfrom + k>> /\ WriteAt(k) \in Cells
<1>1. /\ conf[chan].wfrom + k \in Nat /\ AddrMod \in Nat
      /\ conf[chan].wfrom + k < AddrMod
  BY Loaded DEF WriteCells
<1> QED
  BY <1>1, SmallMod DEF WriteAt, Cells

(* ---------------------------------- types --------------------------------- *)

(* The parts of TypeOK that most steps leave alone together, each with what   *)
(* the tables of the channels are functions of.                               *)
BufferType ==
  /\ buf = [c \in Channels |-> buf[c]]
  /\ \A c \in Channels : buf[c] \in [ReadCells(c) -> Cell]

WriteType ==
  /\ wbuf = [c \in Channels |-> wbuf[c]]
  /\ \A c \in Channels : wbuf[c] \in [WriteCells(c) -> Cell]

TimeType ==
  /\ due = [c \in Channels |-> due[c]] /\ rest = [c \in Channels |-> rest[c]]
  /\ \A c \in Channels : due[c] \in -MaxLag .. Interval /\ rest[c] \in 0 .. Interval

CallType ==
  /\ slave \in Units
  /\ pc \in {"idle", "reading", "writing", "both", "ended", "failed"}
  /\ chan \in Channels /\ kind \in {"read", "write"} /\ updating \in BOOLEAN
  /\ done \in Nat /\ (pc = "reading" => done <= Size) /\ (pc = "writing" => done <= WSize)
  /\ ret \in {"OK", "FAIL", "NOT_IMPL", "BAD_PARAMS", "NOT_MODIFIED"}
  /\ before \in [ReadCells(chan) -> Cell]

ConfigType ==
  conf \in Confs /\ bound \in [Channels -> BOOLEAN] /\ unit \in [Channels -> Units \cup {NoUnit}]

DeviceType ==
  dev \in [Cells -> Cell] /\ seen \in [Cells -> SUBSET Cell] /\ changes \in 0 .. MaxChanges

BaseInv == BufferType /\ WriteType /\ TimeType /\ CallType /\ ConfigType /\ DeviceType

LEMMA BaseIsTyped == BaseInv => TypeOK
BY DEF BaseInv, TypeOK, BufferType, WriteType, TimeType, CallType, ConfigType, DeviceType

LEMMA Constants ==
  /\ MaxLag \in Nat /\ Interval \in Nat /\ MaxChanges \in Nat
  /\ MaxRead \in Nat \ {0} /\ MaxWrite \in Nat \ {0} /\ AddrMod \in Nat \ {0}
  /\ Cleared \in Cell /\ Values \subseteq Cell
  /\ Default \in Units /\ NoUnit \notin Units
  /\ \A i \in InitReqs : i.unit \in Units \cup {NoUnit} /\ i.value \in Cell
BY ChannelAssumption DEF Cell

LEMMA BaseInit == Init => BaseInv
<1> SUFFICES ASSUME Init PROVE BaseInv
  OBVIOUS
<1>1. conf \in Confs /\ chan \in Channels
  BY DEF Init
<1>4. BufferType /\ WriteType
  BY <1>1, Constants DEF Init, BufferType, WriteType, Zeroed
<1>5. TimeType
  BY Constants DEF Init, TimeType
<1>6. CallType
  BY <1>1, Constants DEF Init, CallType, Zeroed
<1>7. ConfigType
  BY <1>1, Loaded DEF Init, ConfigType
<1>8. DeviceType
  <2>1. PICK v \in [Units -> Values] : dev = [x \in Cells |-> v[x[1]]]
    BY DEF Init
  <2>2. \A x \in Cells : x[1] \in Units
    BY DEF Cells
  <2>3. dev \in [Cells -> Cell]
    BY Constants, <2>1, <2>2
  <2> QED
    BY Constants, <2>3 DEF Init, DeviceType, NothingSeen
<1> QED
  BY <1>4, <1>5, <1>6, <1>7, <1>8 DEF BaseInv

(* ------------------------- what the operators return ---------------------- *)

LEMMA BufferKept ==
  ASSUME BufferType, UNCHANGED <<conf, buf>>
  PROVE  BufferType'
BY DEF BufferType, ReadCells

LEMMA WriteKept ==
  ASSUME WriteType, UNCHANGED <<conf, wbuf>>
  PROVE  WriteType'
BY DEF WriteType, WriteCells

LEMMA TimeKept == TimeType /\ UNCHANGED time => TimeType'
BY DEF TimeType, time

LEMMA ConfigKept == ConfigType /\ UNCHANGED config => ConfigType'
BY DEF ConfigType, config

LEMMA BufferSet ==
  ASSUME BufferType, conf' = conf, NEW c \in Channels, NEW f \in [ReadCells(c) -> Cell],
         buf' = [buf EXCEPT ![c] = f]
  PROVE  BufferType' /\ buf'[c] = f /\ \A d \in Channels \ {c} : buf'[d] = buf[d]
<1>1. /\ buf' = [d \in Channels |-> IF d = c THEN f ELSE buf[d]]
      /\ \A d \in Channels : buf[d] \in [ReadCells(d) -> Cell]
  BY DEF BufferType
<1>2. \A d \in Channels : buf'[d] \in [ReadCells(d) -> Cell]
  BY <1>1
<1> QED
  BY <1>1, <1>2 DEF BufferType, ReadCells

LEMMA ZeroedType == ASSUME NEW c \in Channels PROVE Zeroed(c) \in [ReadCells(c) -> Cell]
BY Constants DEF Zeroed

LEMMA ClearedType ==
  ASSUME BufferType, conf' = conf, NEW c \in Channels, ClearIfFail(c)
  PROVE  BufferType'
BY BufferKept, BufferSet, ZeroedType DEF ClearIfFail

LEMMA NextUpdateType ==
  ASSUME TimeType, NEW c \in Channels, NextUpdate(c)
  PROVE  TimeType'
<1>1. /\ due' = [d \in Channels |-> IF d = c THEN Interval ELSE due[d]]
      /\ rest' = [d \in Channels |-> IF d = c THEN 0 ELSE rest[d]]
  BY DEF TimeType, NextUpdate
<1> QED
  BY <1>1, Constants DEF TimeType

LEMMA UseUnitType ==
  ASSUME slave \in Units, NEW u \in Units \cup {NoUnit}, UseUnit(u)
  PROVE  slave' \in Units
BY DEF UseUnit

LEMMA NoCallType ==
  ASSUME NEW c \in Channels, conf' = conf, slave' \in Units, pc' = "idle",
         chan' = c, NoCall(c),
         ret' \in {"OK", "FAIL", "NOT_IMPL", "BAD_PARAMS", "NOT_MODIFIED"}
  PROVE  CallType'
<1>1. before' \in [ReadCells(chan)' -> Cell]
  BY ZeroedType DEF NoCall, ReadCells
<1> QED
  BY <1>1 DEF CallType, NoCall

(* The elements of a request are elements of the table.                       *)
LEMMA RequestWithin ==
  ASSUME NEW limit \in Nat \ {0}, NEW size \in Nat, NEW d \in Nat, d < size
  PROVE  LET n == ThisRequest(limit, size - d) IN
         /\ n \in Nat \ {0} /\ d + n \in Nat /\ d + n <= size /\ d < d + n
         /\ \A k \in d .. d + n - 1 : k \in 0 .. size - 1
         /\ \A k \in 0 .. d + n - 1 : k \in 0 .. d - 1 \/ k \in d .. d + n - 1
BY DEF ThisRequest

LEMMA WrittenType ==
  ASSUME WriteType, DeviceType, chan \in Channels, NEW es \in SUBSET WriteCells(chan)
  PROVE  Written(es) \in [Cells -> Cell]
<1> SUFFICES ASSUME NEW x \in Cells
             PROVE  (IF \E k \in es : WriteAt(k) = x
                     THEN wbuf[chan][CHOOSE k \in es : WriteAt(k) = x] ELSE dev[x]) \in Cell
  BY DEF Written
<1>1. dev[x] \in Cell
  BY DEF DeviceType
<1>2. ASSUME \E k \in es : WriteAt(k) = x
      PROVE  wbuf[chan][CHOOSE k \in es : WriteAt(k) = x] \in Cell
  <2>1. (CHOOSE k \in es : WriteAt(k) = x) \in es
    BY <1>2
  <2> QED
    BY <2>1 DEF WriteType
<1> QED
  BY <1>1, <1>2

LEMMA StoredType ==
  ASSUME BufferType, conf' = conf, conf \in Confs, chan \in Channels, slave \in Units,
         NEW es, NEW d \in [Cells -> Cell], StoreRead(es, d)
  PROVE  /\ BufferType'
         /\ \A k \in ReadCells(chan) :
              buf'[chan][k] = IF k \in es THEN d[ReadAt(k)] ELSE buf[chan][k]
<1> DEFINE f == [k \in ReadCells(chan) |-> IF k \in es THEN d[ReadAt(k)] ELSE buf[chan][k]]
<1>1. \A k \in ReadCells(chan) : buf[chan][k] \in Cell /\ ReadAt(k) \in Cells
  BY ReadCell DEF BufferType
<1>2. f \in [ReadCells(chan) -> Cell]
  BY <1>1
<1>3. buf' = [buf EXCEPT ![chan] = f]
  BY DEF StoreRead
<1>4. \A k \in ReadCells(chan) : f[k] = IF k \in es THEN d[ReadAt(k)] ELSE buf[chan][k]
  OBVIOUS
<1> HIDE DEF f
<1>5. BufferType' /\ buf'[chan] = f
  BY <1>2, <1>3, BufferSet
<1> QED
  BY <1>4, <1>5

LEMMA WitnessType ==
  ASSUME DeviceType, dev' \in [Cells -> Cell], changes' \in 0 .. MaxChanges, Witness
  PROVE  /\ DeviceType'
         /\ \A x \in Cells : seen'[x] = seen[x] \cup {dev'[x]}
BY DEF DeviceType, Witness

LEMMA CallKept ==
  ASSUME CallType, UNCHANGED <<conf, slave, pc, call, done, ret, before>>
  PROVE  CallType'
BY DEF CallType, call, Size, WSize, ReadCells

LEMMA DeviceKept == DeviceType /\ UNCHANGED <<dev, seen, changes>> => DeviceType'
BY DEF DeviceType

LEMMA Spent == DeviceType /\ MayChange => changes' \in 0 .. MaxChanges /\ changes' # changes
BY Constants DEF DeviceType, MayChange

(* ------------------------- every step keeps the types --------------------- *)

LEMMA SettingsType ==
  ASSUME BaseInv, NEW c \in Channels,
         \/ SetClient(c)
         \/ \E u \in Units \cup {NoUnit} : SetUnitId(c, u)
         \/ \E v \in Values : FillWriteBuffer(c, v)
  PROVE  BaseInv'
<1> USE DEF BaseInv
<1>1. CASE SetClient(c)
  <2>1. ConfigType'
    BY <1>1 DEF SetClient, ConfigType
  <2> QED
    BY <1>1, <2>1, BufferKept, WriteKept, TimeKept, CallKept, DeviceKept
    DEF SetClient, buffers, history
<1>2. CASE \E u \in Units \cup {NoUnit} : SetUnitId(c, u)
  <2>1. ConfigType'
    BY <1>2 DEF SetUnitId, ConfigType
  <2>2. DeviceType'
    BY <1>2, Spent DEF SetUnitId, DeviceType, history
  <2> QED
    BY <1>2, <2>1, <2>2, BufferKept, WriteKept, TimeKept, CallKept DEF SetUnitId, buffers, history
<1>3. ASSUME NEW v \in Values, FillWriteBuffer(c, v)
      PROVE  BaseInv'
  <2>1. PICK k \in WriteCells(c) : wbuf' = [wbuf EXCEPT ![c][k] = v]
    BY <1>3 DEF FillWriteBuffer
  <2>2. wbuf' = [d \in Channels |-> IF d = c THEN [wbuf[c] EXCEPT ![k] = v] ELSE wbuf[d]]
    BY <2>1 DEF WriteType
  <2>3. [wbuf[c] EXCEPT ![k] = v] \in [WriteCells(c) -> Cell]
    BY Constants DEF WriteType
  <2>4. conf' = conf
    BY <1>3 DEF FillWriteBuffer, config
  <2>5. WriteType'
    BY <2>2, <2>3, <2>4 DEF WriteType, WriteCells
  <2>6. DeviceType'
    BY <1>3, Spent DEF FillWriteBuffer, DeviceType, history
  <2> QED
    BY <1>3, <2>4, <2>5, <2>6, BufferKept, TimeKept, CallKept, ConfigKept
    DEF FillWriteBuffer, history
<1> QED
  BY <1>1, <1>2, <1>3

LEMMA WithoutClientType ==
  ASSUME BaseInv, NEW c \in Channels, NEW what, NEW u, WithoutClient(c, what, u)
  PROVE  BaseInv' /\ pc' = "idle"
<1> USE DEF BaseInv
<1>1. conf' = conf /\ chan' = c /\ pc' = "idle" /\ slave' \in Units
  BY DEF WithoutClient, config, CallType
<1>2. CallType'
  BY <1>1, NoCallType DEF WithoutClient
<1>3. BufferType'
  BY <1>1, BufferKept, ClearedType DEF WithoutClient
<1> QED
  BY <1>1, <1>2, <1>3, WriteKept, TimeKept, ConfigKept, DeviceKept DEF WithoutClient

LEMMA UpdateTooEarlyType ==
  ASSUME BaseInv, NEW c \in Channels, NEW lag, UpdateTooEarly(c, lag)
  PROVE  BaseInv' /\ pc' = "idle"
<1> USE DEF BaseInv
<1>1. conf' = conf /\ chan' = c /\ pc' = "idle" /\ slave' \in Units
  BY DEF UpdateTooEarly, config, CallType
<1>2. CallType'
  BY <1>1, NoCallType DEF UpdateTooEarly
<1> QED
  BY <1>1, <1>2, BufferKept, WriteKept, TimeKept, ConfigKept, DeviceKept
  DEF UpdateTooEarly, buffers

LEMMA UpdateNothingType ==
  ASSUME BaseInv, NEW c \in Channels, NEW lag, UpdateNothing(c, lag)
  PROVE  BaseInv' /\ pc' = "idle"
<1> USE DEF BaseInv
<1>1. conf' = conf /\ chan' = c /\ pc' = "idle" /\ slave' \in Units
  BY DEF UpdateNothing, config, CallType
<1>2. CallType'
  BY <1>1, NoCallType DEF UpdateNothing
<1>3. TimeType'
  BY NextUpdateType DEF UpdateNothing
<1> QED
  BY <1>1, <1>2, <1>3, BufferKept, WriteKept, ConfigKept, DeviceKept
  DEF UpdateNothing, buffers

LEMMA BeginType ==
  ASSUME BaseInv, NEW c \in Channels, NEW what \in {"read", "write"}, NEW u \in BOOLEAN,
         Begin(c, what, u)
  PROVE  BaseInv'
<1> USE DEF BaseInv
<1>1. conf' = conf /\ chan' = c /\ done' = 0 /\ kind' = what /\ updating' = u
  BY DEF Begin, config
<1>2. slave' \in Units
  <2>1. unit[c] \in Units \cup {NoUnit}
    BY DEF ConfigType
  <2> QED
    BY <2>1, UseUnitType DEF Begin, CallType
<1>3. before' \in [ReadCells(chan)' -> Cell]
  BY <1>1 DEF Begin, BufferType, ReadCells
<1>4. pc' \in {"reading", "writing", "both", "failed"} /\ ret' \in {"FAIL", "NOT_IMPL"}
  BY DEF Begin, Branch
<1>5. done' <= Size' /\ done' <= WSize'
  BY <1>1, Loaded DEF Size, WSize, ConfigType
<1>6. CallType'
  BY <1>1, <1>2, <1>3, <1>4, <1>5 DEF CallType
<1>7. DeviceType'
  BY DEF DeviceType, Begin
<1> QED
  BY <1>1, <1>6, <1>7, BufferKept, WriteKept, TimeKept, ConfigKept DEF Begin, buffers

LEMMA ReadRequestType ==
  ASSUME BaseInv, ReadRequest
  PROVE  BaseInv'
<1> USE DEF BaseInv
<1> DEFINE n == ThisRequest(MaxRead, Size - done)
<1>1. Size \in Nat /\ done \in Nat /\ done < Size /\ chan \in Channels /\ conf \in Confs
  BY Loaded DEF Size, ReadRequest, CallType, ConfigType
<1>2. done + n \in Nat /\ done + n <= Size
  BY <1>1, Constants, RequestWithin
<1>3. StoreRead(done .. done + n - 1, dev) /\ done' = done + n
  BY DEF ReadRequest
<1>4. conf' = conf
  BY DEF ReadRequest, config
<1>5. BufferType'
  BY <1>1, <1>3, <1>4, StoredType DEF CallType, DeviceType
<1> HIDE DEF n
<1>6. CallType'
  BY <1>2, <1>3, <1>4 DEF CallType, ReadRequest, call, history, Size, WSize, ReadCells
<1> QED
  BY <1>4, <1>5, <1>6, WriteKept, TimeKept, ConfigKept, DeviceKept DEF ReadRequest, history

LEMMA WriteRequestType ==
  ASSUME BaseInv, WriteRequest
  PROVE  BaseInv'
<1> USE DEF BaseInv
<1> DEFINE n == ThisRequest(MaxWrite, WSize - done)
<1>1. WSize \in Nat /\ done \in Nat /\ done < WSize /\ chan \in Channels
  BY Loaded DEF WSize, WriteRequest, CallType, ConfigType
<1>2. /\ done + n \in Nat /\ done + n <= WSize
      /\ done .. done + n - 1 \subseteq WriteCells(chan)
  <2>1. WriteCells(chan) = 0 .. WSize - 1
    BY DEF WSize, WriteCells
  <2>2. /\ done + n \in Nat /\ done + n <= WSize
        /\ \A k \in done .. done + n - 1 : k \in 0 .. WSize - 1
    BY <1>1, Constants, RequestWithin
  <2> QED
    BY <2>1, <2>2
<1>3. dev' = Written(done .. done + n - 1) /\ done' = done + n
  BY DEF WriteRequest
<1>4. conf' = conf
  BY DEF WriteRequest, config
<1> HIDE DEF n
<1>5. dev' \in [Cells -> Cell]
  BY <1>1, <1>2, <1>3, WrittenType
<1>6. DeviceType'
  BY <1>5, WitnessType DEF WriteRequest, DeviceType
<1>7. CallType'
  BY <1>2, <1>3, <1>4 DEF CallType, WriteRequest, call, Size, WSize, ReadCells
<1> QED
  BY <1>4, <1>6, <1>7, BufferKept, WriteKept, TimeKept, ConfigKept DEF WriteRequest, buffers

LEMMA BothRequestType ==
  ASSUME BaseInv, BothRequest
  PROVE  BaseInv'
<1> USE DEF BaseInv
<1>1. conf' = conf /\ conf \in Confs /\ chan \in Channels /\ slave \in Units
  BY DEF BothRequest, config, CallType, ConfigType
<1>2. dev' \in [Cells -> Cell]
  BY <1>1, WrittenType DEF BothRequest
<1>3. BufferType'
  BY <1>1, <1>2, StoredType DEF BothRequest
<1>4. DeviceType'
  BY <1>2, WitnessType DEF BothRequest, DeviceType
<1>5. CallType'
  BY <1>1 DEF CallType, BothRequest, call, Size, WSize, ReadCells
<1> QED
  BY <1>1, <1>3, <1>4, <1>5, WriteKept, TimeKept, ConfigKept DEF BothRequest

LEMMA ClearHalfType ==
  ASSUME BufferType, conf' = conf, chan \in Channels, ClearHalf
  PROVE  BufferType'
<1> DEFINE h(lost) == [k \in ReadCells(chan) |->
                         IF 2 * k + 1 < Size \/ (lost /\ 2 * k + 1 = Size)
                         THEN Cleared ELSE buf[chan][k]]
<1>1. PICK lost \in BOOLEAN : buf' = [buf EXCEPT ![chan] = h(lost)]
  BY DEF ClearHalf
<1>2. buf[chan] \in [ReadCells(chan) -> Cell] /\ Cleared \in Cell
  BY DEF BufferType, Cell
<1>3. h(lost) \in [ReadCells(chan) -> Cell]
  BY <1>2
<1> HIDE DEF h
<1> QED
  BY <1>1, <1>3, BufferSet

LEMMA FailType ==
  ASSUME BaseInv, Fail, DeviceType', UNCHANGED buf \/ ClearHalf
  PROVE  BaseInv'
<1> USE DEF BaseInv
<1>1. conf' = conf
  BY DEF Fail, config
<1>2. CallType'
  BY <1>1 DEF CallType, Fail, call, Size, WSize, ReadCells
<1>3. BufferType'
  BY <1>1, BufferKept, ClearHalfType DEF CallType
<1> QED
  BY <1>1, <1>2, <1>3, WriteKept, TimeKept, ConfigKept DEF Fail

(* What a failed write may have done. *)
LEMMA PartWritten ==
  ASSUME BaseInv, WriteFails
  PROVE  \E es \in SUBSET WriteCells(chan) : dev' = dev \/ dev' = Written(es)
<1>1. CASE pc = "both"
  BY <1>1 DEF WriteFails
<1>2. CASE pc = "writing" /\ done < WSize
  <2>1. WSize \in Nat /\ done \in Nat
    BY Loaded DEF BaseInv, WSize, CallType, ConfigType
  <2>2. WriteCells(chan) = 0 .. WSize - 1
    BY DEF WSize, WriteCells
  <2>3. \A k \in done .. done + ThisRequest(MaxWrite, WSize - done) - 1 : k \in 0 .. WSize - 1
    BY <1>2, <2>1, Constants, RequestWithin
  <2> QED
    BY <1>2, <2>2, <2>3 DEF WriteFails
<1> QED
  BY <1>1, <1>2 DEF WriteFails

LEMMA FailuresType ==
  ASSUME BaseInv, ReadFails \/ WriteFails \/ BothTooLong
  PROVE  BaseInv'
<1> USE DEF BaseInv
<1>1. CASE WriteFails
  <2>1. PICK es \in SUBSET WriteCells(chan) : dev' = dev \/ dev' = Written(es)
    BY <1>1, PartWritten
  <2>2. dev' \in [Cells -> Cell]
    BY <2>1, WrittenType DEF DeviceType, CallType
  <2>3. DeviceType'
    BY <1>1, <2>2, WitnessType DEF WriteFails, Fail, DeviceType
  <2> QED
    BY <1>1, <2>3, FailType DEF WriteFails
<1>2. CASE ReadFails \/ BothTooLong
  <2>1. DeviceType'
    BY <1>2, DeviceKept DEF ReadFails, BothTooLong, Fail
  <2> QED
    BY <1>2, <2>1, FailType DEF ReadFails, BothTooLong
<1> QED
  BY <1>1, <1>2

LEMMA LoopEndsType ==
  ASSUME BaseInv, LoopEnds
  PROVE  BaseInv'
<1> USE DEF BaseInv
<1>1. conf' = conf
  BY DEF LoopEnds, config
<1>2. CallType'
  BY <1>1 DEF CallType, LoopEnds, call, history, Size, WSize, ReadCells
<1> QED
  BY <1>1, <1>2, BufferKept, WriteKept, TimeKept, ConfigKept, DeviceKept
  DEF LoopEnds, buffers, history

LEMMA FinishType ==
  ASSUME BaseInv, Finish
  PROVE  BaseInv' /\ pc' = "idle"
<1> USE DEF BaseInv
<1>1. conf' = conf /\ chan' = chan /\ pc' = "idle" /\ slave' \in Units /\ chan \in Channels
  BY DEF Finish, config, CallType
<1>2. CallType'
  BY <1>1, NoCallType DEF Finish, CallType
<1>3. BufferType'
  BY <1>1, BufferKept, ClearedType DEF Finish
<1>4. TimeType'
  BY <1>1, TimeKept, NextUpdateType DEF Finish, Reschedule
<1>5. DeviceType'
  BY DEF DeviceType, Finish, NothingSeen
<1> QED
  BY <1>1, <1>2, <1>3, <1>4, <1>5, WriteKept, ConfigKept DEF Finish

LEMMA InitRequestType ==
  ASSUME BaseInv, NEW i \in InitReqs, InitRequest(i)
  PROVE  BaseInv' /\ pc' = "idle"
<1> USE DEF BaseInv
<1>1. conf' = conf /\ pc' = "idle" /\ pc = "idle"
  BY DEF InitRequest, config
<1>2. slave' \in Units
  BY Constants, UseUnitType DEF InitRequest, CallType
<1>3. CallType'
  BY <1>1, <1>2 DEF CallType, InitRequest, call, history, ReadCells
<1>4. dev' \in [Cells -> Cell]
  BY Constants DEF InitRequest, DeviceType
<1>5. DeviceType'
  BY <1>4 DEF InitRequest, DeviceType, history
<1> QED
  BY <1>1, <1>3, <1>5, BufferKept, WriteKept, TimeKept, ConfigKept DEF InitRequest, buffers

LEMMA TickType ==
  ASSUME BaseInv, Tick
  PROVE  BaseInv'
<1> USE DEF BaseInv
<1>1. TimeType'
  BY Constants DEF Tick, TimeType
<1> QED
  BY <1>1, BufferKept, WriteKept, CallKept, ConfigKept, DeviceKept
  DEF Tick, config, buffers, history

LEMMA DeviceChangesType ==
  ASSUME BaseInv, NEW x \in Cells, NEW v \in Values, DeviceChanges(x, v)
  PROVE  BaseInv'
<1> USE DEF BaseInv
<1>1. dev' \in [Cells -> Cell]
  BY Constants DEF DeviceChanges, DeviceType
<1>2. changes' \in 0 .. MaxChanges
  BY Spent DEF DeviceChanges
<1>3. DeviceType'
  BY <1>1, <1>2, WitnessType DEF DeviceChanges, DeviceType
<1> QED
  BY <1>3, BufferKept, WriteKept, TimeKept, CallKept, ConfigKept
  DEF DeviceChanges, config, buffers

LEMMA StuttersType == BaseInv /\ UNCHANGED vars => BaseInv'
BY BufferKept, WriteKept, TimeKept, CallKept, ConfigKept, DeviceKept
DEF BaseInv, vars, time, config, call

(* What a call of a channel may start with. *)
Opens(c) ==
  \/ \E what \in {"read", "write"}, u \in BOOLEAN : WithoutClient(c, what, u)
  \/ \E lag \in 0 .. MaxLag : UpdateTooEarly(c, lag) \/ UpdateNothing(c, lag)
  \/ \E what \in {"read", "write"} : Begin(c, what, FALSE)
  \/ \E what \in {"read", "write"}, lag \in 0 .. MaxLag : ~NotDue(c, lag) /\ Begin(c, what, TRUE)

LEMMA CallOpens ==
  ASSUME NEW c \in Channels,
         \/ Transfer(c, "read") \/ Transfer(c, "write")
         \/ \E lag \in 0 .. MaxLag : Update(c, lag)
  PROVE  Opens(c)
BY Zenon DEF Opens, Transfer, Update, WhatItDoes

LEMMA BaseStep == BaseInv /\ [Next]_vars => BaseInv'
<1> SUFFICES ASSUME BaseInv, [Next]_vars PROVE BaseInv'
  OBVIOUS
<1>1. ASSUME NEW c \in Channels, Opens(c) PROVE BaseInv'
  BY <1>1, WithoutClientType, UpdateTooEarlyType, UpdateNothingType, BeginType DEF Opens
<1>2. ASSUME CallStep PROVE BaseInv'
  BY <1>2, ReadRequestType, WriteRequestType, BothRequestType, FailuresType, LoopEndsType,
     FinishType DEF CallStep
<1> QED
  BY <1>1, <1>2, CallOpens, SettingsType, InitRequestType, TickType, DeviceChangesType,
     StuttersType DEF Next

(* The channels, the call and the devices keep their types, and a loop stays  *)
(* within its buffer.                                                         *)
THEOREM TypeCorrect == Spec => []TypeOK
<1>1. BaseInv => TypeOK
  BY BaseIsTyped
<1> QED
  BY <1>1, BaseInit, BaseStep, PTL DEF Spec

(* ----------------------------- spaced updates ----------------------------- *)

(* next_update_time is no earlier than a whole interval after the last update *)
(* ended.                                                                     *)
RestInv == \A c \in Channels : rest[c] = Interval \/ rest[c] + due[c] >= Interval

LEMMA TimeSteps ==
  ASSUME chan \in Channels, [Next]_vars
  PROVE  UNCHANGED time \/ Tick \/ \E c \in Channels : NextUpdate(c)
<1>1. ASSUME NEW c \in Channels, Opens(c) PROVE UNCHANGED time \/ NextUpdate(c)
  BY <1>1, Zenon DEF Opens, WithoutClient, UpdateTooEarly, UpdateNothing, Begin
<1>2. CASE CallStep
  <2>1. CASE Finish
    BY <2>1 DEF Finish, Reschedule
  <2> QED
    BY <1>2, <2>1
    DEF CallStep, ReadRequest, WriteRequest, BothRequest, ReadFails, WriteFails, BothTooLong,
        Fail, LoopEnds
<1>3. ASSUME NEW c \in Channels,
             \/ SetClient(c)
             \/ \E u \in Units \cup {NoUnit} : SetUnitId(c, u)
             \/ \E v \in Values : FillWriteBuffer(c, v)
      PROVE  UNCHANGED time
  BY <1>3 DEF SetClient, SetUnitId, FillWriteBuffer
<1>4. ASSUME NEW i, InitRequest(i) PROVE UNCHANGED time
  BY <1>4 DEF InitRequest
<1>5. ASSUME NEW x, NEW v, DeviceChanges(x, v) PROVE UNCHANGED time
  BY <1>5 DEF DeviceChanges
<1>6. CASE UNCHANGED vars
  BY <1>6 DEF vars, time
<1> QED
  BY <1>1, <1>2, <1>3, <1>4, <1>5, <1>6, CallOpens DEF Next

LEMMA RestStep == BaseInv /\ RestInv /\ [Next]_vars => RestInv'
<1> SUFFICES ASSUME BaseInv, RestInv, [Next]_vars PROVE RestInv'
  OBVIOUS
<1> USE DEF RestInv
<1>1. TimeType /\ chan \in Channels
  BY DEF BaseInv, CallType
<1>2. CASE UNCHANGED time
  BY <1>2 DEF time
<1>3. CASE Tick
  <2> TAKE c \in Channels
  <2>1. /\ due[c] \in -MaxLag .. Interval /\ rest[c] \in 0 .. Interval
        /\ due'[c] = IF due[c] > -MaxLag THEN due[c] - 1 ELSE due[c]
        /\ rest'[c] = IF rest[c] < Interval THEN rest[c] + 1 ELSE rest[c]
    BY <1>1, <1>3 DEF TimeType, Tick
  <2> QED
    BY <2>1, Constants
<1>4. ASSUME NEW c \in Channels, NextUpdate(c) PROVE RestInv'
  <2>1. /\ due' = [d \in Channels |-> IF d = c THEN Interval ELSE due[d]]
        /\ rest' = [d \in Channels |-> IF d = c THEN 0 ELSE rest[d]]
    BY <1>1, <1>4 DEF TimeType, NextUpdate
  <2> QED
    BY <2>1, Constants
<1> QED
  BY <1>1, <1>2, <1>3, <1>4, TimeSteps

(* The only step by which an update begins. *)
LEMMA UpdateOpens ==
  ASSUME [Next]_vars, pc = "idle", pc' # "idle", updating'
  PROVE  \E c \in Channels, lag \in 0 .. MaxLag : ~NotDue(c, lag) /\ chan' = c
<1>1. ASSUME NEW c \in Channels, Opens(c)
      PROVE  \E lag \in 0 .. MaxLag : ~NotDue(c, lag) /\ chan' = c
  <2>1. \E what \in {"read", "write"}, lag \in 0 .. MaxLag : ~NotDue(c, lag) /\ Begin(c, what, TRUE)
    BY <1>1 DEF Opens, WithoutClient, UpdateTooEarly, UpdateNothing, Begin
  <2> QED
    BY <2>1 DEF Begin
<1>2. ~CallStep
  BY DEF CallStep, ReadRequest, WriteRequest, BothRequest, ReadFails, WriteFails, BothTooLong,
         LoopEnds, Finish
<1>3. ASSUME NEW c, \/ SetClient(c)
                    \/ \E u \in Units \cup {NoUnit} : SetUnitId(c, u)
                    \/ \E v \in Values : FillWriteBuffer(c, v)
      PROVE  FALSE
  BY <1>3 DEF SetClient, SetUnitId, FillWriteBuffer
<1>4. ~Tick /\ ~UNCHANGED vars /\ \A i : ~InitRequest(i)
  BY DEF Tick, vars, InitRequest
<1>5. \A x, v : ~DeviceChanges(x, v)
  BY DEF DeviceChanges
<1> QED
  BY <1>1, <1>2, <1>3, <1>4, <1>5, CallOpens DEF Next

(* A channel rests for its update_interval between two updates, however long  *)
(* a transfer takes and whatever stale time the caller of update gives.       *)
THEOREM UpdatesSpaced == Spec => UpdatesAreSpaced
<1>1. Init => RestInv
  BY DEF Init, RestInv
<1>2. BaseInv /\ RestInv /\ [Next]_vars
        => (pc = "idle" /\ pc' # "idle" /\ updating' => rest[chan'] >= Interval)
  <2> SUFFICES ASSUME BaseInv, RestInv, [Next]_vars, pc = "idle", pc' # "idle", updating'
               PROVE  rest[chan'] >= Interval
    OBVIOUS
  <2>1. PICK c \in Channels, lag \in 0 .. MaxLag : ~NotDue(c, lag) /\ chan' = c
    BY UpdateOpens
  <2>2. due[c] \in Int /\ rest[c] \in Int /\ (rest[c] = Interval \/ rest[c] + due[c] >= Interval)
    BY Constants DEF BaseInv, TimeType, RestInv
  <2>3. due[c] + lag <= 0
    BY <2>1, <2>2, Constants DEF NotDue
  <2> QED
    BY <2>1, <2>2, <2>3, Constants
<1>3. BaseInv /\ RestInv /\ [Next]_vars
        => [(pc = "idle" /\ pc' # "idle" /\ updating') => rest[chan'] >= Interval]_vars
  BY <1>2
<1> QED
  BY <1>1, <1>3, BaseInit, BaseStep, RestStep, PTL DEF Spec, UpdatesAreSpaced

(* ------------------------------ calls of channels ------------------------- *)

(* Which loop or request a call is in, and what it is of.                     *)
Shape ==
  /\ pc = "reading" => kind = "read" /\ conf[chan].access = "read"
  /\ pc = "writing" => kind = "write" /\ conf[chan].access = "write"
  /\ pc = "both" => kind = "write" /\ conf[chan].access = "both"
  /\ pc = "ended" => \/ kind = "read" /\ conf[chan].access = "read" /\ done = Size
                     \/ kind = "write" /\ conf[chan].access = "write" /\ done = WSize
                     \/ kind = "write" /\ conf[chan].access = "both"

(* The elements below done are read or written, the others are as before.     *)
ReadSoFar == \A k \in ReadCells(chan) : k < done => buf[chan][k] \in seen[ReadMeant(chan, k)]
WrittenSoFar == \A k \in WriteCells(chan) : k < done => wbuf[chan][k] \in seen[WriteMeant(chan, k)]
OthersKept == \A k \in ReadCells(chan) : k >= done => buf[chan][k] = before[k]

Progress ==
  /\ kind = "read" => ReadSoFar
  /\ kind = "write" /\ conf[chan].access = "write" => WrittenSoFar
  /\ pc = "ended" /\ conf[chan].access = "both" =>
       HasRead(chan, ReadCells(chan)) /\ HasWritten(chan, WriteCells(chan))

CallInv ==
  pc # "idle" => /\ \A x \in Cells : dev[x] \in seen[x]
                 /\ unit[chan] # NoUnit => slave = unit[chan]
                 /\ Shape
                 /\ kind = "read" => OthersKept
                 /\ unit[chan] # NoUnit => Progress

LEMMA Meant ==
  ASSUME conf \in Confs, chan \in Channels, slave \in Units,
         unit[chan] # NoUnit, slave = unit[chan]
  PROVE  /\ \A k \in ReadCells(chan) : ReadMeant(chan, k) = ReadAt(k) /\ ReadAt(k) \in Cells
         /\ \A k \in WriteCells(chan) : WriteMeant(chan, k) = WriteAt(k) /\ WriteAt(k) \in Cells
BY ReadCell, WriteCell DEF ReadMeant, WriteMeant, MeantUnit

(* What a call has done stays done while devices change by themselves.        *)
LEMMA CallGrows ==
  ASSUME BaseInv, CallInv, pc # "idle",
         UNCHANGED <<config, slave, call, done, before, buf>>,
         wbuf'[chan] = wbuf[chan], pc' = pc \/ pc' = "failed",
         \A x \in Cells : seen[x] \subseteq seen'[x] /\ dev'[x] \in seen'[x]
  PROVE  CallInv'
<1>1. /\ conf' = conf /\ unit' = unit /\ slave' = slave /\ chan' = chan /\ kind' = kind
      /\ done' = done /\ before' = before /\ buf' = buf
  BY DEF config, call
<1>2. Shape /\ (kind = "read" => OthersKept) /\ (unit[chan] # NoUnit => slave = unit[chan])
  BY DEF CallInv
<1>3. Shape'
  BY <1>1, <1>2 DEF Shape, Size, WSize
<1>4. kind = "read" => OthersKept'
  BY <1>1, <1>2 DEF OthersKept, ReadCells
<1>5. ASSUME unit[chan] # NoUnit
      PROVE  Progress'
  <2>1. Progress /\ slave = unit[chan]
    BY <1>5 DEF CallInv
  <2>2. /\ \A k \in ReadCells(chan) : seen[ReadMeant(chan, k)] \subseteq seen'[ReadMeant(chan, k)]
        /\ \A k \in WriteCells(chan) : seen[WriteMeant(chan, k)] \subseteq seen'[WriteMeant(chan, k)]
    BY <1>5, <2>1, Meant DEF BaseInv, ConfigType, CallType
  <2>3. /\ ReadCells(chan)' = ReadCells(chan) /\ WriteCells(chan)' = WriteCells(chan)
        /\ \A k : ReadMeant(chan, k)' = ReadMeant(chan, k) /\ WriteMeant(chan, k)' = WriteMeant(chan, k)
    BY <1>1 DEF ReadCells, WriteCells, ReadMeant, WriteMeant, MeantUnit
  <2>4. ReadSoFar => ReadSoFar'
    BY <1>1, <2>2, <2>3 DEF ReadSoFar
  <2>5. WrittenSoFar => WrittenSoFar'
    BY <1>1, <2>2, <2>3 DEF WrittenSoFar
  <2>6. HasRead(chan, ReadCells(chan)) => HasRead(chan, ReadCells(chan))'
    BY <1>1, <2>2, <2>3 DEF HasRead
  <2>7. HasWritten(chan, WriteCells(chan)) => HasWritten(chan, WriteCells(chan))'
    BY <1>1, <2>2, <2>3 DEF HasWritten
  <2> QED
    BY <1>1, <2>1, <2>4, <2>5, <2>6, <2>7 DEF Progress
<1> QED
  BY <1>1, <1>2, <1>3, <1>4, <1>5 DEF CallInv

LEMMA WitnessGrows ==
  ASSUME BaseInv, dev' \in [Cells -> Cell], Witness
  PROVE  \A x \in Cells : seen[x] \subseteq seen'[x] /\ dev'[x] \in seen'[x]
BY DEF BaseInv, DeviceType, Witness

LEMMA BeginCall ==
  ASSUME BaseInv, NEW c \in Channels, NEW what \in {"read", "write"}, NEW u, Begin(c, what, u)
  PROVE  CallInv'
<1>1. /\ conf' = conf /\ unit' = unit /\ chan' = c /\ kind' = what /\ done' = 0
      /\ buf' = buf /\ before' = buf[c] /\ dev' = dev
      /\ seen' = [x \in Cells |-> {dev[x]}] /\ pc' = Branch(c, what)
  BY DEF Begin, config, buffers
<1>2. \A x \in Cells : dev'[x] \in seen'[x]
  BY <1>1
<1>3. unit'[chan'] # NoUnit => slave' = unit'[chan']
  BY <1>1 DEF Begin, UseUnit
<1>4. Shape' /\ pc' # "ended"
  BY <1>1 DEF Shape, Branch
<1>5. OthersKept'
  BY <1>1 DEF OthersKept
<1>6. \A k \in ReadCells(chan)' \cup WriteCells(chan)' : ~(k < 0)
  BY DEF ReadCells, WriteCells
<1>7. ReadSoFar' /\ WrittenSoFar'
  BY <1>1, <1>6 DEF ReadSoFar, WrittenSoFar
<1> QED
  BY <1>2, <1>3, <1>4, <1>5, <1>7 DEF CallInv, Progress

LEMMA ReadRequestCall ==
  ASSUME BaseInv, CallInv, ReadRequest
  PROVE  CallInv'
<1> DEFINE n == ThisRequest(MaxRead, Size - done)
<1>1. /\ Size \in Nat /\ done \in Nat /\ done < Size /\ chan \in Channels /\ conf \in Confs
      /\ slave \in Units /\ pc = "reading" /\ MaxRead \in Nat \ {0}
  BY Loaded, Constants DEF BaseInv, Size, ReadRequest, CallType, ConfigType
<1>2. n \in Nat /\ \A k \in 0 .. done + n - 1 : k \in 0 .. done - 1 \/ k \in done .. done + n - 1
  BY <1>1, RequestWithin
<1>3. StoreRead(done .. done + n - 1, dev) /\ done' = done + n
  BY DEF ReadRequest
<1> HIDE DEF n
<1>4. /\ conf' = conf /\ unit' = unit /\ slave' = slave /\ chan' = chan /\ kind' = kind
      /\ before' = before /\ seen' = seen /\ dev' = dev /\ pc' = pc
  BY DEF ReadRequest, config, call, history
<1>5. \A k \in ReadCells(chan) :
        buf'[chan][k] = IF k \in done .. done + n - 1 THEN dev[ReadAt(k)] ELSE buf[chan][k]
  BY <1>1, <1>3, <1>4, StoredType DEF BaseInv, DeviceType
<1>6. /\ \A x \in Cells : dev[x] \in seen[x]
      /\ kind = "read" /\ conf[chan].access = "read" /\ Shape /\ OthersKept
  BY <1>1 DEF CallInv, Shape
<1>7. Shape'
  BY <1>1, <1>4, <1>6 DEF Shape
<1>8. OthersKept'
  <2>1. ReadCells(chan)' = ReadCells(chan) /\ \A k \in ReadCells(chan) : k \in Nat
    BY <1>4 DEF ReadCells
  <2>2. \A k \in ReadCells(chan) : k >= done + n => k >= done /\ k \notin done .. done + n - 1
    BY <1>1, <1>2, <2>1
  <2> QED
    BY <1>3, <1>4, <1>5, <1>6, <2>1, <2>2 DEF OthersKept
<1>9. ASSUME unit[chan] # NoUnit
      PROVE  slave = unit[chan] /\ Progress'
  <2>1. slave = unit[chan] /\ ReadSoFar
    BY <1>1, <1>6, <1>9 DEF CallInv, Progress
  <2>2. /\ ReadCells(chan)' = ReadCells(chan)
        /\ \A k \in ReadCells(chan) : k \in Nat /\ ReadMeant(chan, k)' = ReadMeant(chan, k)
    BY <1>4 DEF ReadCells, ReadMeant, MeantUnit
  <2>3. ASSUME NEW k \in ReadCells(chan), k < done'
        PROVE  buf'[chan][k] \in seen[ReadMeant(chan, k)]
    <3>1. ReadMeant(chan, k) = ReadAt(k) /\ ReadAt(k) \in Cells
      BY <1>1, <1>9, <2>1, Meant
    <3>2. k \in Nat /\ k \in 0 .. done + n - 1
      BY <1>1, <1>2, <1>3, <2>2, <2>3
    <3>3. CASE k \in done .. done + n - 1
      BY <1>5, <1>6, <3>1, <3>3
    <3>4. CASE k \notin done .. done + n - 1
      <4>1. k < done
        BY <1>1, <1>2, <3>2, <3>4
      <4> QED
        BY <1>5, <2>1, <3>4, <4>1 DEF ReadSoFar
    <3> QED
      BY <3>3, <3>4
  <2>4. ReadSoFar'
    BY <1>4, <2>2, <2>3 DEF ReadSoFar
  <2> QED
    BY <1>1, <1>4, <1>6, <2>1, <2>4 DEF Progress
<1> QED
  BY <1>4, <1>6, <1>7, <1>8, <1>9 DEF CallInv

(* No two elements of a table are written to the same cell.                   *)
LEMMA WrittenAt ==
  ASSUME BaseInv, NEW es \in SUBSET WriteCells(chan)
  PROVE  /\ \A k \in es : Written(es)[WriteAt(k)] = wbuf[chan][k]
         /\ \A x \in Cells : Written(es)[x] = dev[x] \/ \E k \in es : WriteAt(k) = x
<1>1. \A k \in WriteCells(chan) : /\ WriteAt(k) = <<slave, conf[chan].wfrom + k>>
                                  /\ WriteAt(k) \in Cells /\ k \in Nat
  BY WriteCell DEF BaseInv, ConfigType, CallType, WriteCells
<1>2. conf[chan].wfrom \in Nat
  BY Loaded DEF BaseInv, ConfigType, CallType
<1>3. ASSUME NEW k \in es, NEW j \in es, WriteAt(j) = WriteAt(k)
      PROVE  j = k
  <2>1. conf[chan].wfrom + j = conf[chan].wfrom + k /\ j \in Nat /\ k \in Nat
    BY <1>1, <1>3
  <2> QED
    BY <1>2, <2>1
<1>4. ASSUME NEW k \in es
      PROVE  Written(es)[WriteAt(k)] = wbuf[chan][k]
  <2>1. WriteAt(k) \in Cells
    BY <1>1
  <2>2. (CHOOSE j \in es : WriteAt(j) = WriteAt(k)) = k
    BY <1>3
  <2> QED
    BY <2>1, <2>2 DEF Written
<1>5. \A x \in Cells : Written(es)[x] = dev[x] \/ \E k \in es : WriteAt(k) = x
  BY DEF Written
<1> QED
  BY <1>4, <1>5

LEMMA WriteRequestCall ==
  ASSUME BaseInv, CallInv, WriteRequest
  PROVE  CallInv'
<1> DEFINE n == ThisRequest(MaxWrite, WSize - done)
<1> DEFINE es == done .. done + n - 1
<1>1. /\ WSize \in Nat /\ done \in Nat /\ done < WSize /\ chan \in Channels /\ conf \in Confs
      /\ slave \in Units /\ pc = "writing" /\ MaxWrite \in Nat \ {0}
  BY Loaded, Constants DEF BaseInv, WSize, WriteRequest, CallType, ConfigType
<1>2. /\ n \in Nat /\ \A k \in 0 .. done + n - 1 : k \in 0 .. done - 1 \/ k \in es
      /\ \A k \in es : k \in 0 .. WSize - 1
  BY <1>1, RequestWithin
<1>3. dev' = Written(es) /\ done' = done + n
  BY DEF WriteRequest
<1> HIDE DEF n
<1>4. /\ conf' = conf /\ unit' = unit /\ slave' = slave /\ chan' = chan /\ kind' = kind
      /\ before' = before /\ buf' = buf /\ wbuf' = wbuf /\ pc' = pc
  BY DEF WriteRequest, config, call, buffers
<1>5. es \in SUBSET WriteCells(chan)
  BY <1>2 DEF WriteCells, WSize
<1> HIDE DEF es
<1>6. dev' \in [Cells -> Cell] /\ Witness
  BY <1>1, <1>3, <1>5, WrittenType DEF WriteRequest, BaseInv
<1>7. \A x \in Cells : seen[x] \subseteq seen'[x] /\ dev'[x] \in seen'[x]
  BY <1>6, WitnessGrows
<1>8. kind = "write" /\ conf[chan].access = "write" /\ Shape
  BY <1>1 DEF CallInv, Shape
<1>9. Shape'
  BY <1>1, <1>4, <1>8 DEF Shape
<1>10. ASSUME unit[chan] # NoUnit
       PROVE  slave = unit[chan] /\ Progress'
  <2>1. slave = unit[chan] /\ WrittenSoFar
    BY <1>1, <1>8, <1>10 DEF CallInv, Progress
  <2>2. /\ WriteCells(chan)' = WriteCells(chan)
        /\ \A k \in WriteCells(chan) : k \in Nat /\ WriteMeant(chan, k)' = WriteMeant(chan, k)
    BY <1>4 DEF WriteCells, WriteMeant, MeantUnit
  <2>3. ASSUME NEW k \in WriteCells(chan), k < done'
        PROVE  wbuf[chan][k] \in seen'[WriteMeant(chan, k)]
    <3>1. WriteMeant(chan, k) = WriteAt(k) /\ WriteAt(k) \in Cells
      BY <1>1, <1>10, <2>1, Meant
    <3>2. k \in Nat /\ k \in 0 .. done + n - 1
      BY <1>1, <1>2, <1>3, <2>2, <2>3
    <3>3. CASE k \in es
      BY <1>3, <1>5, <1>7, <3>1, <3>3, WrittenAt
    <3>4. CASE k \notin es
      <4>1. k < done
        BY <1>1, <1>2, <3>2, <3>4
      <4> QED
        BY <1>7, <2>1, <3>1, <4>1 DEF WrittenSoFar
    <3> QED
      BY <3>3, <3>4
  <2>4. WrittenSoFar'
    BY <1>4, <2>2, <2>3 DEF WrittenSoFar
  <2> QED
    BY <1>1, <1>4, <1>8, <2>1, <2>4 DEF Progress
<1> QED
  BY <1>4, <1>7, <1>8, <1>9, <1>10 DEF CallInv

LEMMA BothRequestCall ==
  ASSUME BaseInv, CallInv, BothRequest
  PROVE  CallInv'
<1>1. chan \in Channels /\ conf \in Confs /\ slave \in Units /\ pc = "both"
  BY DEF BaseInv, BothRequest, CallType, ConfigType
<1>2. /\ conf' = conf /\ unit' = unit /\ slave' = slave /\ chan' = chan /\ kind' = kind
      /\ wbuf' = wbuf /\ pc' = "ended"
  BY DEF BothRequest, config, call
<1>3. dev' = Written(WriteCells(chan)) /\ Witness /\ StoreRead(ReadCells(chan), dev')
  BY DEF BothRequest
<1>4. dev' \in [Cells -> Cell]
  BY <1>1, <1>3, WrittenType DEF BaseInv
<1>5. \A x \in Cells : seen[x] \subseteq seen'[x] /\ dev'[x] \in seen'[x]
  BY <1>3, <1>4, WitnessGrows
<1>6. \A k \in ReadCells(chan) : buf'[chan][k] = dev'[ReadAt(k)]
  BY <1>1, <1>2, <1>3, <1>4, StoredType DEF BaseInv
<1>7. kind = "write" /\ conf[chan].access = "both"
  BY <1>1 DEF CallInv, Shape
<1>8. Shape'
  BY <1>2, <1>7 DEF Shape
<1>9. ASSUME unit[chan] # NoUnit
      PROVE  slave = unit[chan] /\ Progress'
  <2>1. slave = unit[chan]
    BY <1>1, <1>9 DEF CallInv
  <2>2. /\ ReadCells(chan)' = ReadCells(chan) /\ WriteCells(chan)' = WriteCells(chan)
        /\ \A k : ReadMeant(chan, k)' = ReadMeant(chan, k) /\ WriteMeant(chan, k)' = WriteMeant(chan, k)
    BY <1>2 DEF ReadCells, WriteCells, ReadMeant, WriteMeant, MeantUnit
  <2>3. \A k \in ReadCells(chan) : buf'[chan][k] \in seen'[ReadMeant(chan, k)]
    BY <1>1, <1>5, <1>6, <1>9, <2>1, Meant
  <2>4. \A k \in WriteCells(chan) : wbuf[chan][k] \in seen'[WriteMeant(chan, k)]
    BY <1>1, <1>3, <1>5, <1>9, <2>1, Meant, WrittenAt
  <2>5. HasRead(chan, ReadCells(chan))' /\ HasWritten(chan, WriteCells(chan))'
    BY <1>2, <2>2, <2>3, <2>4 DEF HasRead, HasWritten
  <2> QED
    BY <1>2, <1>7, <2>1, <2>5 DEF Progress
<1> QED
  BY <1>2, <1>5, <1>7, <1>8, <1>9 DEF CallInv

LEMMA FailuresCall ==
  ASSUME BaseInv, CallInv, ReadFails \/ WriteFails \/ BothTooLong
  PROVE  CallInv'
<1>1. pc # "idle" /\ Fail
  BY DEF ReadFails, WriteFails, BothTooLong
<1>2. \A x \in Cells : seen[x] \subseteq seen'[x] /\ dev'[x] \in seen'[x]
  <2>1. CASE WriteFails
    <3>1. PICK es \in SUBSET WriteCells(chan) : dev' = dev \/ dev' = Written(es)
      BY <2>1, PartWritten
    <3>2. dev' \in [Cells -> Cell]
      BY <3>1, WrittenType DEF BaseInv, DeviceType, CallType
    <3> QED
      BY <2>1, <3>2, WitnessGrows DEF WriteFails
  <2>2. CASE ReadFails \/ BothTooLong
    <3>1. dev' = dev /\ seen' = seen
      BY <2>2 DEF ReadFails, BothTooLong
    <3> QED
      BY <1>1, <3>1 DEF CallInv
  <2> QED
    BY <2>1, <2>2
<1>3. CASE UNCHANGED buf
  BY <1>1, <1>2, <1>3, CallGrows DEF Fail
<1>4. CASE pc = "both"
  <2>1. /\ conf' = conf /\ unit' = unit /\ slave' = slave /\ chan' = chan /\ kind' = kind
        /\ pc' = "failed"
    BY <1>1 DEF Fail, config, call
  <2>2. kind = "write" /\ conf[chan].access = "both" /\ (unit[chan] # NoUnit => slave = unit[chan])
    BY <1>4 DEF CallInv, Shape
  <2>3. Shape' /\ Progress'
    BY <2>1, <2>2 DEF Shape, Progress
  <2> QED
    BY <1>2, <2>1, <2>2, <2>3 DEF CallInv
<1> QED
  BY <1>3, <1>4 DEF ReadFails, WriteFails, BothTooLong

LEMMA LoopEndsCall ==
  ASSUME BaseInv, CallInv, LoopEnds
  PROVE  CallInv'
<1>1. /\ UNCHANGED <<config, slave, call, done, before, buf, wbuf, dev, seen>>
      /\ pc \in {"reading", "writing"} /\ pc' \in {"ended", "failed"}
      /\ pc = "reading" => done = Size
      /\ pc = "writing" => done = WSize
  BY DEF LoopEnds, buffers, history
<1>2. \A x \in Cells : dev[x] \in seen[x]
  BY <1>1 DEF CallInv
<1>3. CASE pc' = "failed"
  BY <1>1, <1>2, <1>3, CallGrows
<1>4. CASE pc' = "ended"
  <2>1. /\ conf' = conf /\ unit' = unit /\ slave' = slave /\ chan' = chan /\ kind' = kind
        /\ done' = done /\ before' = before /\ buf' = buf /\ wbuf' = wbuf /\ seen' = seen
        /\ dev' = dev
    BY <1>1 DEF config, call
  <2>2. /\ Shape /\ (kind = "read" => OthersKept)
        /\ (unit[chan] # NoUnit => slave = unit[chan] /\ Progress)
    BY <1>1 DEF CallInv
  <2>3. Shape' /\ conf[chan].access \in {"read", "write"}
    BY <1>1, <1>4, <2>1, <2>2 DEF Shape, Size, WSize
  <2>4. kind = "read" => OthersKept'
    BY <2>1, <2>2 DEF OthersKept, ReadCells
  <2>5. /\ ReadCells(chan)' = ReadCells(chan) /\ WriteCells(chan)' = WriteCells(chan)
        /\ \A k : ReadMeant(chan, k)' = ReadMeant(chan, k) /\ WriteMeant(chan, k)' = WriteMeant(chan, k)
    BY <2>1 DEF ReadCells, WriteCells, ReadMeant, WriteMeant, MeantUnit
  <2>6. ReadSoFar => ReadSoFar'
    BY <2>1, <2>5 DEF ReadSoFar
  <2>7. WrittenSoFar => WrittenSoFar'
    BY <2>1, <2>5 DEF WrittenSoFar
  <2>8. unit[chan] # NoUnit => Progress'
    BY <2>1, <2>2, <2>3, <2>6, <2>7 DEF Progress
  <2> QED
    BY <1>2, <2>1, <2>2, <2>3, <2>4, <2>8 DEF CallInv
<1> QED
  BY <1>1, <1>3, <1>4

LEMMA SettingsCall ==
  ASSUME BaseInv, CallInv, NEW c \in Channels,
         \/ SetClient(c)
         \/ \E u \in Units \cup {NoUnit} : SetUnitId(c, u)
         \/ \E v \in Values : FillWriteBuffer(c, v)
  PROVE  CallInv'
<1>1. CASE pc = "idle"
  <2>1. pc' = "idle"
    BY <1>1 DEF SetClient, SetUnitId, FillWriteBuffer
  <2> QED
    BY <2>1 DEF CallInv
<1>2. CASE pc # "idle"
  <2>1. PICK v \in Values : FillWriteBuffer(c, v)
    BY <1>2 DEF SetClient, SetUnitId
  <2>2. PICK k \in WriteCells(c) : wbuf' = [wbuf EXCEPT ![c][k] = v]
    BY <2>1 DEF FillWriteBuffer
  <2>3. wbuf'[chan] = wbuf[chan]
    BY <1>2, <2>1, <2>2 DEF FillWriteBuffer, BaseInv, WriteType, CallType
  <2>4. \A x \in Cells : dev'[x] \in seen'[x] /\ seen'[x] = seen[x]
    BY <1>2, <2>1 DEF FillWriteBuffer, history, CallInv
  <2> QED
    BY <1>2, <2>1, <2>3, <2>4, CallGrows DEF FillWriteBuffer, history
<1> QED
  BY <1>1, <1>2

LEMMA OutsideCall ==
  ASSUME BaseInv, CallInv,
         Tick \/ UNCHANGED vars \/ \E x \in Cells, v \in Values : DeviceChanges(x, v)
  PROVE  CallInv'
<1>1. UNCHANGED <<config, slave, call, done, before, buf, wbuf, pc>>
  BY DEF Tick, vars, DeviceChanges, config, call, buffers, history
<1>2. CASE pc = "idle"
  BY <1>1, <1>2 DEF CallInv
<1>3. CASE pc # "idle"
  <2>1. ASSUME NEW x \in Cells, NEW v \in Values, DeviceChanges(x, v)
        PROVE  \A y \in Cells : seen[y] \subseteq seen'[y] /\ dev'[y] \in seen'[y]
    <3>1. dev' \in [Cells -> Cell]
      BY <2>1, Constants DEF DeviceChanges, BaseInv, DeviceType
    <3> QED
      BY <1>3, <2>1, <3>1, WitnessGrows DEF DeviceChanges
  <2>2. ASSUME Tick \/ UNCHANGED vars
        PROVE  \A y \in Cells : seen[y] \subseteq seen'[y] /\ dev'[y] \in seen'[y]
    <3>1. dev' = dev /\ seen' = seen
      BY <2>2 DEF Tick, vars, history
    <3> QED
      BY <1>3, <3>1 DEF CallInv
  <2> QED
    BY <1>1, <1>3, <2>1, <2>2, CallGrows
<1> QED
  BY <1>2, <1>3

LEMMA CallInvStep == BaseInv /\ CallInv /\ [Next]_vars => CallInv'
<1> SUFFICES ASSUME BaseInv, CallInv, [Next]_vars PROVE CallInv'
  OBVIOUS
<1>1. ASSUME NEW c \in Channels, Opens(c) PROVE CallInv'
  <2>1. ASSUME pc' = "idle" PROVE CallInv'
    BY <2>1 DEF CallInv
  <2> QED
    BY <1>1, <2>1, WithoutClientType, UpdateTooEarlyType, UpdateNothingType, BeginCall DEF Opens
<1>2. ASSUME CallStep PROVE CallInv'
  <2>1. CASE Finish
    BY <2>1 DEF Finish, CallInv
  <2> QED
    BY <1>2, <2>1, ReadRequestCall, WriteRequestCall, BothRequestCall, FailuresCall, LoopEndsCall
    DEF CallStep
<1>3. ASSUME NEW i \in InitReqs, InitRequest(i) PROVE CallInv'
  BY <1>3 DEF InitRequest, CallInv
<1> QED
  BY <1>1, <1>2, <1>3, CallOpens, SettingsCall, OutsideCall DEF Next

LEMMA CallInvInit == Init => CallInv
BY DEF Init, CallInv

(* A read that succeeds has every element from its own cell of the channel's  *)
(* own unit, as it was during the read, in however many requests.             *)
THEOREM ReadsAreRecent == Spec => []OkReadIsRecent
<1>1. BaseInv /\ CallInv => OkReadIsRecent
  <2> SUFFICES ASSUME BaseInv, CallInv, pc = "ended", unit[chan] # NoUnit,
                      conf[chan].access \in {"read", "both"}
               PROVE  HasRead(chan, ReadCells(chan))
    BY DEF OkReadIsRecent
  <2>1. Shape /\ Progress
    BY DEF CallInv
  <2>2. CASE conf[chan].access = "both"
    BY <2>1, <2>2 DEF Progress
  <2>3. CASE conf[chan].access = "read"
    <3>1. ReadSoFar /\ done = Size
      BY <2>1, <2>3 DEF Shape, Progress
    <3>2. Size \in Nat
      BY Loaded DEF Size, BaseInv, CallType, ConfigType
    <3>3. \A k \in ReadCells(chan) : k < Size
      BY <3>2 DEF ReadCells, Size
    <3> QED
      BY <3>1, <3>3 DEF ReadSoFar, HasRead
  <2> QED
    BY <2>2, <2>3
<1> QED
  BY <1>1, BaseInit, BaseStep, CallInvInit, CallInvStep, PTL DEF Spec

(* A write that succeeds has brought every element of the buffer to its own   *)
(* cell of the channel's own unit.                                            *)
THEOREM WritesHaveArrived == Spec => []OkWriteHasArrived
<1>1. BaseInv /\ CallInv => OkWriteHasArrived
  <2> SUFFICES ASSUME BaseInv, CallInv, pc = "ended", unit[chan] # NoUnit, kind = "write"
               PROVE  HasWritten(chan, WriteCells(chan))
    BY DEF OkWriteHasArrived
  <2>1. Shape /\ Progress
    BY DEF CallInv
  <2>2. CASE conf[chan].access = "both"
    BY <2>1, <2>2 DEF Progress
  <2>3. CASE conf[chan].access = "write"
    <3>1. WrittenSoFar /\ done = WSize
      BY <2>1, <2>3 DEF Shape, Progress
    <3>2. WSize \in Nat
      BY Loaded DEF WSize, BaseInv, CallType, ConfigType
    <3>3. \A k \in WriteCells(chan) : k < WSize
      BY <3>2 DEF WriteCells, WSize
    <3> QED
      BY <3>1, <3>3 DEF WrittenSoFar, HasWritten
  <2> QED
    BY <2>1, <2>2, <2>3 DEF Shape
<1> QED
  BY <1>1, BaseInit, BaseStep, CallInvInit, CallInvStep, PTL DEF Spec

(* What a failed read leaves is the requests that succeeded before it, and    *)
(* the old values for the rest, or it is cleared.                             *)
THEOREM FailedReadsKeepOrClear == Spec => FailedReadKeepsOrClears
<1> DEFINE Ends == pc = "failed" /\ pc' = "idle" /\ kind = "read" /\ unit[chan] # NoUnit
<1> DEFINE Leaves ==
             IF conf[chan].keep
             THEN /\ HasRead(chan, ReadCells(chan) \cap (0 .. done - 1))
                  /\ \A k \in ReadCells(chan) : k >= done => buf'[chan][k] = before[k]
                  /\ buf' = buf
             ELSE buf'[chan] = Zeroed(chan)
<1>1. BaseInv /\ CallInv /\ [Next]_vars => (Ends => Leaves)
  <2> SUFFICES ASSUME BaseInv, CallInv, [Next]_vars, Ends PROVE Leaves
    OBVIOUS
  <2>1. Finish
    <3>1. \A c \in Channels : ~Opens(c)
      BY DEF Opens, WithoutClient, UpdateTooEarly, UpdateNothing, Begin
    <3>2. \A c : /\ ~SetClient(c) /\ \A u : ~SetUnitId(c, u)
                 /\ \A v : FillWriteBuffer(c, v) => pc' = pc
      BY DEF SetClient, SetUnitId, FillWriteBuffer
    <3>3. /\ ~Tick /\ ~UNCHANGED vars /\ \A i : ~InitRequest(i)
          /\ \A x, v : ~DeviceChanges(x, v)
      BY DEF Tick, vars, InitRequest, DeviceChanges
    <3>4. CallStep
      BY <3>1, <3>2, <3>3, CallOpens DEF Next
    <3> QED
      BY <3>4 DEF CallStep, ReadRequest, WriteRequest, BothRequest, ReadFails, WriteFails,
         BothTooLong, Fail, LoopEnds
  <2>2. /\ OthersKept /\ ReadSoFar
        /\ chan \in Channels /\ conf' = conf /\ done \in Nat /\ ClearIfFail(chan) /\ BufferType
    BY <2>1 DEF CallInv, Progress, BaseInv, CallType, Finish, config
  <2>3. CASE conf[chan].keep
    <3>1. buf' = buf
      BY <2>2, <2>3 DEF ClearIfFail
    <3>2. \A k \in ReadCells(chan) \cap (0 .. done - 1) : k < done
      BY <2>2
    <3>3. HasRead(chan, ReadCells(chan) \cap (0 .. done - 1))
      BY <2>2, <3>2 DEF ReadSoFar, HasRead
    <3> QED
      BY <2>2, <2>3, <3>1, <3>3 DEF OthersKept
  <2>4. CASE ~conf[chan].keep
    <3>1. buf' = [buf EXCEPT ![chan] = Zeroed(chan)]
      BY <2>2, <2>4 DEF ClearIfFail
    <3>2. buf'[chan] = Zeroed(chan)
      BY <2>2, <3>1, BufferSet, ZeroedType
    <3> QED
      BY <2>4, <3>2
  <2> QED
    BY <2>3, <2>4
<1>2. BaseInv /\ CallInv /\ [Next]_vars => [Ends => Leaves]_vars
  BY <1>1
<1> QED
  BY <1>2, BaseInit, BaseStep, CallInvInit, CallInvStep, PTL DEF Spec, FailedReadKeepsOrClears

(* No call writes a cell that is not the channel's own.                       *)
THEOREM WritesStayWithin == Spec => OnlyOwnCellsWritten
<1> DEFINE Writes == pc \in {"writing", "both"} /\ changes' = changes /\ unit[chan] # NoUnit
<1> DEFINE Within == \A x \in Cells : dev'[x] = dev[x] \/ x \in WriteRange(chan)
<1>1. BaseInv /\ CallInv /\ [Next]_vars => (Writes => Within)
  <2> SUFFICES ASSUME BaseInv, CallInv, [Next]_vars, Writes PROVE Within
    OBVIOUS
  <2>1. slave = unit[chan]
    BY DEF CallInv
  <2>2. ASSUME NEW es \in SUBSET WriteCells(chan), dev' = Written(es)
        PROVE  Within
    <3> SUFFICES ASSUME NEW x \in Cells, NEW k \in es, WriteAt(k) = x
                 PROVE  x \in WriteRange(chan)
      BY <2>2, WrittenAt
    <3>1. WriteMeant(chan, k) = WriteAt(k)
      BY <2>1, Meant DEF BaseInv, ConfigType, CallType
    <3> QED
      BY <3>1 DEF WriteRange
  <2>3. ASSUME dev' = dev PROVE Within
    BY <2>3
  <2>4. ASSUME CallStep PROVE Within
    <3>1. CASE WriteRequest
      <4> DEFINE es == done .. done + ThisRequest(MaxWrite, WSize - done) - 1
      <4>1. WSize \in Nat /\ done \in Nat /\ done < WSize
        BY <3>1, Loaded DEF WriteRequest, BaseInv, WSize, CallType, ConfigType
      <4>2. \A k \in es : k \in 0 .. WSize - 1
        BY <4>1, Constants, RequestWithin
      <4>3. dev' = Written(es)
        BY <3>1 DEF WriteRequest
      <4> HIDE DEF es
      <4>4. es \in SUBSET WriteCells(chan)
        BY <4>2 DEF WriteCells, WSize
      <4> QED
        BY <2>2, <4>3, <4>4
    <3>2. CASE WriteFails
      BY <2>2, <2>3, <3>2, PartWritten
    <3>3. CASE BothRequest
      BY <2>2, <3>3 DEF BothRequest
    <3> QED
      BY <2>3, <2>4, <3>1, <3>2, <3>3
      DEF CallStep, ReadRequest, ReadFails, BothTooLong, LoopEnds, Finish
  <2>5. ASSUME NEW c \in Channels, Opens(c) PROVE FALSE
    BY <2>5 DEF Opens, WithoutClient, UpdateTooEarly, UpdateNothing, Begin
  <2>6. ASSUME NEW c, \/ SetClient(c)
                      \/ \E u \in Units \cup {NoUnit} : SetUnitId(c, u)
                      \/ \E v \in Values : FillWriteBuffer(c, v)
        PROVE  dev' = dev
    BY <2>6 DEF SetClient, SetUnitId, FillWriteBuffer
  <2>7. (Tick \/ UNCHANGED vars => dev' = dev) /\ \A i : ~InitRequest(i)
    BY DEF Tick, vars, InitRequest
  <2>8. \A x, v : ~DeviceChanges(x, v)
    BY Spent DEF BaseInv, DeviceChanges
  <2> QED
    BY <2>3, <2>4, <2>5, <2>6, <2>7, <2>8, CallOpens DEF Next
<1>2. BaseInv /\ CallInv /\ [Next]_vars => [Writes => Within]_vars
  BY <1>1
<1> QED
  BY <1>2, BaseInit, BaseStep, CallInvInit, CallInvStep, PTL DEF Spec, OnlyOwnCellsWritten
(* ------------------------- the unit of the client ------------------------- *)

OnlyDefault(u) == u \in {NoUnit, Default}

(* The shared client keeps the unit of the last call that set one: as long as *)
(* no call names another unit, a channel without a unit id of its own uses    *)
(* the default one, so that a second unit on the line is what takes it away.  *)
THEOREM AloneDefaultUnitIsUsed ==
  ASSUME \A i \in InitReqs : OnlyDefault(i.unit)
  PROVE  Spec /\ [](\A c \in Channels : OnlyDefault(unit[c])) => []DefaultUnitIsUsed
<1> DEFINE Alone == \A c \in Channels : OnlyDefault(unit[c])
<1> DEFINE Keeps == slave = Default
<1>1. Init => Keeps
  BY DEF Init
<1>2. Alone /\ Keeps /\ [Next]_vars => Keeps'
  <2> SUFFICES ASSUME Alone, Keeps, [Next]_vars PROVE Keeps'
    OBVIOUS
  <2>1. \A u : OnlyDefault(u) /\ UseUnit(u) => Keeps'
    BY DEF OnlyDefault, UseUnit
  <2>2. ASSUME NEW c \in Channels, Opens(c) PROVE Keeps'
    BY <2>1, <2>2 DEF Opens, WithoutClient, UpdateTooEarly, UpdateNothing, Begin
  <2>3. ASSUME CallStep PROVE Keeps'
    BY <2>3 DEF CallStep, ReadRequest, WriteRequest, BothRequest, ReadFails, WriteFails,
       BothTooLong, Fail, LoopEnds, Finish
  <2>4. ASSUME NEW i \in InitReqs, InitRequest(i) PROVE Keeps'
    BY <2>1, <2>4 DEF InitRequest
  <2>5. ASSUME NEW c, \/ SetClient(c)
                     \/ \E u \in Units \cup {NoUnit} : SetUnitId(c, u)
                     \/ \E v \in Values : FillWriteBuffer(c, v)
        PROVE  Keeps'
    BY <2>5 DEF SetClient, SetUnitId, FillWriteBuffer
  <2>6. ASSUME Tick \/ UNCHANGED vars \/ \E x \in Cells, v \in Values : DeviceChanges(x, v)
        PROVE  Keeps'
    BY <2>6 DEF Tick, vars, DeviceChanges
  <2> QED
    BY <2>2, <2>3, <2>4, <2>5, <2>6, CallOpens DEF Next
<1>3. Keeps => DefaultUnitIsUsed
  BY DEF DefaultUnitIsUsed
<1> QED
  BY <1>1, <1>2, <1>3, PTL DEF Spec
=============================================================================
