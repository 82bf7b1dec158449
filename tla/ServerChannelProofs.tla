------------------------- MODULE ServerChannelProofs -------------------------
(* Proofs about ServerChannel for any threads, requests and bounds: types,    *)
(* mutual exclusion, and, where no write goes past the last address, that its *)
(* requests are atomic.                                                       *)
EXTENDS ServerChannel, SequenceTheorems, TLAPS

(* The depth of the lock is that of its owner's calls. *)
LockInv ==
  /\ LoopUnderLock
  /\ owner = Nobody <=> depth = 0
  /\ owner # Nobody => OwnLocks(owner) \in 0 .. MaxDepth

BaseInv == TypeOK /\ LockInv

(* What a call under way knows of its request, and has read so far. *)
CallInv(t) ==
  pc[t] # "idle" =>
    /\ Verdict(op[t]) = "OK"
    /\ ret[t] = "NONE"
    /\ op[t].what # "read" => out[t] = <<>>
    /\ pc[t] = "enter" => next[t] = 0 /\ out[t] = <<>>
    /\ next[t] <= op[t].count
    /\ pc[t] = "loop" /\ op[t].what = "read" =>
         /\ Len(out[t]) = next[t]
         /\ Length <= AddrMod =>
              \A k \in 1 .. next[t] : out[t][k] = ToWire(data[op[t].addr - Start + k - 1])

CallsInv == \A t \in Threads : CallInv(t)

----------------------------------------------------------------------------
(* The functions that change the order of bytes. *)

LEMMA ConversionsType ==
  ASSUME NEW v \in Wire
  PROVE  ToWire(v) \in Wire /\ FromWire(v) \in Wire
<1>1. PICK a \in Bytes, b \in Bytes : v = <<a, b>>
  BY DEF Wire
<1>2. <<v[2], v[1]>> \in Wire /\ <<0, 0>> \in Wire /\ <<1, 0>> \in Wire
  BY <1>1, ChannelAssumption DEF Wire
<1> QED
  BY <1>2 DEF ToWire, FromWire

(* What the assumptions say of one request. *)
LEMMA RequestType ==
  ASSUME NEW o \in Requests
  PROVE  /\ o.what \in Kinds /\ o.addr \in 0 .. AddrMod - 1 /\ o.count \in Nat
         /\ o.values \in Seq(Wire)
         /\ o.what # "read" => Len(o.values) = o.count
BY ChannelAssumption

----------------------------------------------------------------------------
(* The address of an element. *)

(* What write_register and its like are told: no accepted write goes past the *)
(* last address there is.                                                     *)
WritesFit ==
  \A o \in Requests : o.what # "read" /\ ~Outside(o) => o.addr + o.count <= AddrMod

LEMMA SmallModulus ==
  ASSUME NEW m \in Nat \ {0}, NEW x \in 0 .. m - 1
  PROVE  x % m = x
OBVIOUS

LEMMA OneTurn ==
  ASSUME NEW m \in Nat \ {0}, NEW x \in m .. 2 * m - 1
  PROVE  x % m = x - m
OBVIOUS

LEMMA OneTurnBack ==
  ASSUME NEW m \in Nat \ {0}, NEW x \in Int, 0 <= x + m, x < 0
  PROVE  x % m = x + m
OBVIOUS

LEMMA Remainder ==
  ASSUME NEW m \in Nat \ {0}, NEW x \in Int
  PROVE  x % m \in 0 .. m - 1
OBVIOUS

(* An address that wraps and the start of the channel are taken from each     *)
(* other with the same modulus: the two wraps cancel out.                     *)
LEMMA WrapsCancel ==
  ASSUME NEW m \in Nat \ {0}, NEW s \in 0 .. m - 1, NEW l \in Nat, NEW x \in Nat,
         s <= x, x - s < l
  PROVE  /\ ((x % m) - s) % m \in 0 .. l - 1
         /\ l <= m => ((x % m) - s) % m = x - s
<1>1. x % m \in 0 .. m - 1
  BY Remainder
<1>2. ((x % m) - s) % m \in 0 .. m - 1
  BY <1>1, Remainder
<1>3. ASSUME l <= m
      PROVE  ((x % m) - s) % m = x - s
  <2>1. CASE x < m
    <3>1. x % m = x
      BY <2>1, SmallModulus
    <3>2. x - s \in 0 .. m - 1
      BY <2>1
    <3> QED
      BY <3>1, <3>2, SmallModulus
  <2>2. CASE x >= m
    <3>1. x % m = x - m
      <4>1. x \in m .. 2 * m - 1
        BY <1>3, <2>2
      <4> QED
        BY <4>1, OneTurn
    <3> DEFINE d == x - m - s
    <3>2. d \in Int /\ 0 <= d + m /\ d < 0 /\ d + m = x - s
      BY <1>3, <2>2
    <3> HIDE DEF d
    <3>3. d % m = d + m
      BY <3>2, OneTurnBack
    <3> QED
      BY <3>1, <3>2, <3>3 DEF d
  <2> QED
    BY <2>1, <2>2
<1>4. ((x % m) - s) % m \in 0 .. l - 1
  <2>1. CASE l <= m
    BY <1>3, <2>1
  <2>2. CASE l > m
    BY <1>2, <2>2
  <2> QED
    BY <2>1, <2>2
<1> QED
  BY <1>3, <1>4

LEMMA OkIsInside ==
  ASSUME NEW o \in Requests, Verdict(o) = "OK"
  PROVE  o.addr >= Start /\ o.addr + o.count <= Start + Length
<1> DEFINE a == o.addr
           e == o.addr + o.count
           l == Start + Length
<1>1. ~(a < Start) /\ ~(e > l)
  BY DEF Verdict, Outside
<1>2. a \in Nat /\ e \in Nat /\ l \in Nat /\ Start \in Nat
  BY RequestType, ChannelAssumption
<1> HIDE DEF a, e, l
<1>3. a >= Start /\ e <= l
  BY <1>1, <1>2
<1> QED
  BY <1>3 DEF a, e, l

LEMMA ElementNumber ==
  ASSUME TypeOK, NEW t \in Threads, Verdict(op[t]) = "OK", next[t] < op[t].count
  PROVE  /\ op[t] \in Requests /\ next[t] \in Nat /\ op[t].count \in Nat
         /\ op[t].addr \in 0 .. AddrMod - 1 /\ Start <= op[t].addr
         /\ Start \in Nat /\ Length \in Nat /\ AddrMod \in Nat \ {0}
         /\ (op[t].addr + next[t]) - Start \in 0 .. Length - 1
<1>1. op[t] \in Requests /\ next[t] \in Nat
  BY DEF TypeOK
<1>2. op[t].addr \in 0 .. AddrMod - 1 /\ op[t].count \in Nat
  BY <1>1, RequestType
<1>3. op[t].addr >= Start /\ op[t].addr + op[t].count <= Start + Length
  BY <1>1, OkIsInside
<1>4. Start \in Nat /\ Length \in Nat /\ AddrMod \in Nat \ {0}
  BY ChannelAssumption
<1> QED
  BY <1>1, <1>2, <1>3, <1>4

(* Every element that is read is one of the channel's, and unless the channel *)
(* is longer than the address space it is the one that was asked for.         *)
LEMMA ReadAddress ==
  ASSUME TypeOK, NEW t \in Threads, Verdict(op[t]) = "OK", next[t] < op[t].count
  PROVE  /\ (Addr(t) - Start) % AddrMod \in Offsets
         /\ Length <= AddrMod =>
              (Addr(t) - Start) % AddrMod = (op[t].addr + next[t]) - Start
<1> DEFINE sum == op[t].addr + next[t]
<1>1. /\ sum \in Nat /\ Start <= sum /\ sum - Start < Length
      /\ Start \in 0 .. AddrMod - 1 /\ Length \in Nat /\ AddrMod \in Nat \ {0}
  BY ElementNumber
<1>2. Addr(t) = sum % AddrMod
  BY DEF Addr
<1> HIDE DEF sum
<1>3. /\ ((sum % AddrMod) - Start) % AddrMod \in 0 .. Length - 1
      /\ Length <= AddrMod => ((sum % AddrMod) - Start) % AddrMod = sum - Start
  BY <1>1, WrapsCancel
<1> QED
  BY <1>2, <1>3 DEF Offsets, sum

(* An element that is written, which is checked a second time, is there       *)
(* unless its address wraps.                                                  *)
LEMMA WriteAddress ==
  ASSUME WritesFit, TypeOK, NEW t \in Threads,
         Verdict(op[t]) = "OK", next[t] < op[t].count, op[t].what # "read"
  PROVE  Addr(t) = op[t].addr + next[t] /\ Addr(t) - Start \in Offsets
<1> DEFINE sum == op[t].addr + next[t]
<1>1. op[t].addr + op[t].count <= AddrMod
  BY ElementNumber DEF WritesFit, Verdict
<1>2. sum \in 0 .. AddrMod - 1 /\ sum - Start \in 0 .. Length - 1 /\ AddrMod \in Nat \ {0}
  BY <1>1, ElementNumber
<1>3. Addr(t) = sum % AddrMod
  BY DEF Addr
<1> HIDE DEF sum
<1>4. sum % AddrMod = sum
  BY <1>2, SmallModulus
<1> QED
  BY <1>2, <1>3, <1>4 DEF Offsets, sum

----------------------------------------------------------------------------
(* Types and the lock. *)

LEMMA BaseInit == Init => BaseInv
<1> SUFFICES ASSUME Init PROVE BaseInv
  OBVIOUS
<1>1. TypeOK
  BY ChannelAssumption DEF Init, TypeOK, Wire
<1>2. LockInv
  BY DEF Init, LockInv, LoopUnderLock
<1> QED
  BY <1>1, <1>2 DEF BaseInv

LEMMA SettingsKeepTypes ==
  ASSUME BaseInv, NEW t \in Threads, Lock(t) \/ Unlock(t)
  PROVE  BaseInv'
<1> USE ChannelAssumption, ChannelModelValue
<1>1. CASE Lock(t)
  BY <1>1 DEF BaseInv, TypeOK, LockInv, LoopUnderLock, OwnLocks, Lock, Acquire, CanLock, fields
<1>2. CASE Unlock(t)
  BY <1>2 DEF BaseInv, TypeOK, LockInv, LoopUnderLock, OwnLocks, Unlock, Yield, fields
<1> QED
  BY <1>1, <1>2

LEMMA CallKeepsTypes ==
  ASSUME BaseInv, NEW t \in Threads, NEW o \in Requests, Call(t, o)
  PROVE  BaseInv'
<1>1. Verdict(o) \in {"OK", "BAD_PARAMS", "INVALID_ADDR"}
  BY DEF Verdict
<1>2. pc' \in [Threads -> {"idle", "enter", "loop"}]
  BY DEF BaseInv, TypeOK, Call
<1>3. ret' \in [Threads -> {"NONE", "OK", "BAD_PARAMS", "INVALID_ADDR"}]
  BY <1>1 DEF BaseInv, TypeOK, Call
<1>4. op' \in [Threads -> Requests] /\ next' \in [Threads -> Nat]
  BY DEF BaseInv, TypeOK, Call
<1>5. <<>> \in Seq(Wire)
  OBVIOUS
<1>6. out' \in [Threads -> Seq(Wire)]
  BY <1>5 DEF BaseInv, TypeOK, Call
<1>7. TypeOK'
  BY <1>2, <1>3, <1>4, <1>6 DEF BaseInv, TypeOK, Call, fields, lock, Offsets
<1>8. LockInv'
  BY DEF BaseInv, TypeOK, LockInv, LoopUnderLock, OwnLocks, Call, lock
<1> QED
  BY <1>7, <1>8 DEF BaseInv

LEMMA EnterAndLeaveKeepTypes ==
  ASSUME BaseInv, NEW t \in Threads, Enter(t) \/ Leave(t)
  PROVE  BaseInv'
<1> USE ChannelAssumption, ChannelModelValue
<1>1. CASE Enter(t)
  BY <1>1 DEF BaseInv, TypeOK, LockInv, LoopUnderLock, OwnLocks, Enter, Acquire, CanLock, fields
<1>2. CASE Leave(t)
  BY <1>2 DEF BaseInv, TypeOK, LockInv, LoopUnderLock, OwnLocks, Leave, Yield, fields
<1> QED
  BY <1>1, <1>2

LEMMA ReadElementKeepsTypes ==
  ASSUME BaseInv, NEW t \in Threads, Verdict(op[t]) = "OK", ReadElement(t)
  PROVE  BaseInv'
<1> DEFINE a == (Addr(t) - Start) % AddrMod
<1>1. a \in Offsets
  BY ReadAddress DEF BaseInv, ReadElement
<1>2. data[a] \in Wire
  BY <1>1 DEF BaseInv, TypeOK
<1>3. ToWire(data[a]) \in Wire
  BY <1>2, ConversionsType
<1>4. out[t] \in Seq(Wire)
  BY DEF BaseInv, TypeOK
<1>5. Append(out[t], ToWire(data[a])) \in Seq(Wire)
  BY <1>3, <1>4, AppendProperties
<1>6. out' \in [Threads -> Seq(Wire)]
  BY <1>5 DEF BaseInv, TypeOK, ReadElement
<1>7. next' \in [Threads -> Nat]
  BY DEF BaseInv, TypeOK, ReadElement
<1>8. TypeOK'
  BY <1>6, <1>7 DEF BaseInv, TypeOK, ReadElement, fields, lock, Offsets
<1>9. LockInv'
  BY DEF BaseInv, LockInv, LoopUnderLock, OwnLocks, ReadElement, lock
<1> QED
  BY <1>8, <1>9 DEF BaseInv

LEMMA WriteElementKeepsTypes ==
  ASSUME BaseInv, NEW t \in Threads, WriteElement(t)
  PROVE  BaseInv'
<1> DEFINE v == op[t].values[next[t] + 1]
<1>1. op[t] \in Requests /\ next[t] \in Nat /\ next[t] < op[t].count /\ op[t].what # "read"
  BY DEF BaseInv, TypeOK, WriteElement
<1>2. op[t].values \in Seq(Wire) /\ Len(op[t].values) = op[t].count /\ op[t].count \in Nat
  BY <1>1, RequestType
<1>3. v \in Wire
  BY <1>1, <1>2
<1>4. FromWire(v) \in Wire
  BY <1>3, ConversionsType
<1>5. data' \in [Offsets -> Wire]
  BY <1>4 DEF BaseInv, TypeOK, WriteElement
<1>6. next' \in [Threads -> Nat]
  BY DEF BaseInv, TypeOK, WriteElement
<1>7. TypeOK'
  BY <1>5, <1>6 DEF BaseInv, TypeOK, WriteElement, fields, lock, Offsets
<1>8. LockInv'
  BY DEF BaseInv, LockInv, LoopUnderLock, OwnLocks, WriteElement, lock
<1> QED
  BY <1>7, <1>8 DEF BaseInv

----------------------------------------------------------------------------
(* What calls know of their requests. *)

LEMMA CallsInit == Init => CallsInv
BY DEF Init, CallsInv, CallInv

LEMMA OthersKeep ==
  ASSUME NEW u, CallInv(u), UNCHANGED fields,
         pc'[u] = pc[u], op'[u] = op[u], next'[u] = next[u],
         out'[u] = out[u], ret'[u] = ret[u],
         data' = data \/ pc[u] # "loop"
  PROVE  CallInv(u)'
<1>1. Verdict(op[u])' = Verdict(op[u])
  BY DEF Verdict, TooMany, Protected, Outside, IsInput, fields
<1>2. ASSUME NEW v PROVE ToWire(v)' = ToWire(v)
  BY DEF ToWire, IsBits, fields
<1>3. CASE data' = data
  <2>1. \A k \in 1 .. next[u] :
          ToWire(data[op[u].addr - Start + k - 1])' = ToWire(data[op[u].addr - Start + k - 1])
    BY <1>3 DEF ToWire, IsBits, fields
  <2> QED
    BY <1>1, <1>3, <2>1 DEF CallInv
<1>4. CASE pc[u] # "loop"
  BY <1>1, <1>4 DEF CallInv
<1> QED
  BY <1>3, <1>4

LEMMA SettingsKeepCalls ==
  ASSUME CallsInv, NEW t \in Threads, Lock(t) \/ Unlock(t)
  PROVE  CallsInv'
BY OthersKeep DEF CallsInv, Lock, Unlock

LEMMA CallKeepsCalls ==
  ASSUME BaseInv, CallsInv, NEW t \in Threads, NEW o \in Requests, Call(t, o)
  PROVE  CallsInv'
<1>1. ASSUME NEW u \in Threads, u # t PROVE CallInv(u)'
  BY <1>1, OthersKeep DEF BaseInv, TypeOK, CallsInv, Call
<1>2. CallInv(t)'
  <2>1. Verdict(o)' = Verdict(o)
    BY DEF Call, Verdict, TooMany, Protected, Outside, IsInput, fields
  <2>2. op'[t] = o /\ next'[t] = 0 /\ out'[t] = <<>>
    BY DEF BaseInv, TypeOK, Call
  <2>3. o.count \in Nat
    BY RequestType
  <2>4. pc'[t] # "idle" => Verdict(o) = "OK" /\ pc'[t] = "enter" /\ ret'[t] = "NONE"
    BY DEF BaseInv, TypeOK, Call
  <2>5. Verdict(op[t])' = Verdict(o)
    BY <2>1, <2>2 DEF Call, Verdict, TooMany, Protected, Outside, IsInput, fields
  <2> QED
    BY <2>2, <2>3, <2>4, <2>5 DEF CallInv
<1> QED
  BY <1>1, <1>2 DEF CallsInv

LEMMA EnterKeepsCalls ==
  ASSUME BaseInv, CallsInv, NEW t \in Threads, Enter(t)
  PROVE  CallsInv'
<1>1. ASSUME NEW u \in Threads, u # t PROVE CallInv(u)'
  BY <1>1, OthersKeep DEF BaseInv, TypeOK, CallsInv, Enter
<1>2. CallInv(t)'
  <2>1. Verdict(op[t])' = Verdict(op[t])
    BY DEF Enter, Verdict, TooMany, Protected, Outside, IsInput, fields
  <2>2. CallInv(t)
    BY DEF CallsInv
  <2>3. next[t] = 0 /\ out[t] = <<>>
    BY <2>2 DEF CallInv, Enter
  <2> QED
    BY <2>1, <2>2, <2>3 DEF CallInv, Enter
<1> QED
  BY <1>1, <1>2 DEF CallsInv

LEMMA ReadElementKeepsCalls ==
  ASSUME BaseInv, CallsInv, NEW t \in Threads, ReadElement(t)
  PROVE  CallsInv'
<1>1. ASSUME NEW u \in Threads, u # t PROVE CallInv(u)'
  BY <1>1, OthersKeep DEF BaseInv, TypeOK, CallsInv, ReadElement
<1>2. CallInv(t)'
  <2> DEFINE v == ToWire(data[(Addr(t) - Start) % AddrMod])
  <2>1. Verdict(op[t])' = Verdict(op[t])
    BY DEF ReadElement, Verdict, TooMany, Protected, Outside, IsInput, fields
  <2>2. CallInv(t)
    BY DEF CallsInv
  <2>3. /\ op[t] \in Requests /\ next[t] \in Nat /\ out[t] \in Seq(Wire)
        /\ Len(out[t]) = next[t] /\ Verdict(op[t]) = "OK" /\ next[t] < op[t].count
        /\ ret[t] = "NONE"
    BY <2>2 DEF CallInv, BaseInv, TypeOK, ReadElement
  <2>4. op[t].addr \in Nat /\ op[t].count \in Nat /\ Start \in Nat
    BY <2>3, RequestType, ChannelAssumption
  <2>5. Length <= AddrMod => v = ToWire(data[op[t].addr - Start + next[t]])
    <3>1. Length <= AddrMod => (Addr(t) - Start) % AddrMod = (op[t].addr + next[t]) - Start
      BY <2>3, ReadAddress DEF BaseInv
    <3>2. (op[t].addr + next[t]) - Start = op[t].addr - Start + next[t]
      BY <2>3, <2>4
    <3> QED
      BY <3>1, <3>2
  <2>6. out'[t] = Append(out[t], v)
    BY DEF BaseInv, TypeOK, ReadElement
  <2> HIDE DEF v
  <2>7. next'[t] = next[t] + 1
    BY DEF BaseInv, TypeOK, ReadElement
  <2>8. Len(out'[t]) = next'[t]
    BY <2>3, <2>6, <2>7
  <2>9. ASSUME Length <= AddrMod, NEW k \in 1 .. next'[t]
        PROVE  out'[t][k] = ToWire(data[op[t].addr - Start + k - 1])
    <3>1. CASE k = next[t] + 1
      BY <2>3, <2>4, <2>5, <2>6, <2>9, <3>1
    <3>2. CASE k # next[t] + 1
      <4>1. k \in 1 .. next[t]
        BY <2>3, <2>7, <3>2
      <4>2. out'[t][k] = out[t][k]
        BY <2>3, <2>6, <4>1
      <4>3. out[t][k] = ToWire(data[op[t].addr - Start + k - 1])
        BY <2>2, <2>9, <4>1 DEF CallInv, ReadElement
      <4> QED
        BY <4>2, <4>3
    <3> QED
      BY <3>1, <3>2
  <2>10. \A k \in 1 .. next'[t] :
           ToWire(data[op[t].addr - Start + k - 1])' = ToWire(data[op[t].addr - Start + k - 1])
    BY DEF ReadElement, ToWire, IsBits, fields
  <2>11. Length <= AddrMod => \A k \in 1 .. next'[t] : out'[t][k] = ToWire(data[op[t].addr - Start + k - 1])'
    BY <2>9, <2>10
  <2>12. next'[t] <= op[t].count
    BY <2>3, <2>4, <2>7
  <2>13. op' = op /\ pc'[t] = "loop" /\ op[t].what = "read" /\ ret'[t] = "NONE"
    BY <2>3 DEF ReadElement
  <2> QED
    BY <2>1, <2>3, <2>8, <2>11, <2>12, <2>13 DEF CallInv
<1> QED
  BY <1>1, <1>2 DEF CallsInv

LEMMA WriteElementKeepsCalls ==
  ASSUME BaseInv, CallsInv, NEW t \in Threads, WriteElement(t)
  PROVE  CallsInv'
<1>1. ASSUME NEW u \in Threads, u # t PROVE CallInv(u)'
  <2>1. owner = t
    BY DEF BaseInv, LockInv, LoopUnderLock, WriteElement
  <2>2. pc[u] # "loop"
    BY <1>1, <2>1 DEF BaseInv, LockInv, LoopUnderLock
  <2> QED
    BY <1>1, <2>2, OthersKeep DEF BaseInv, TypeOK, CallsInv, WriteElement
<1>2. CallInv(t)'
  <2>1. Verdict(op[t])' = Verdict(op[t])
    BY DEF WriteElement, Verdict, TooMany, Protected, Outside, IsInput, fields
  <2>2. CallInv(t)
    BY DEF CallsInv
  <2>3. op[t] \in Requests /\ next[t] \in Nat
    BY DEF BaseInv, TypeOK
  <2>4. op[t].count \in Nat
    BY <2>3, RequestType
  <2>5. next'[t] = next[t] + 1 /\ next'[t] <= op[t].count
    BY <2>3, <2>4 DEF BaseInv, TypeOK, WriteElement
  <2> QED
    BY <2>1, <2>2, <2>5 DEF CallInv, WriteElement
<1> QED
  BY <1>1, <1>2 DEF CallsInv

LEMMA LeaveKeepsCalls ==
  ASSUME BaseInv, CallsInv, NEW t \in Threads, Leave(t)
  PROVE  CallsInv'
<1>1. ASSUME NEW u \in Threads, u # t PROVE CallInv(u)'
  BY <1>1, OthersKeep DEF BaseInv, TypeOK, CallsInv, Leave
<1>2. CallInv(t)'
  BY DEF BaseInv, TypeOK, CallInv, Leave
<1> QED
  BY <1>1, <1>2 DEF CallsInv

----------------------------------------------------------------------------
Inv == BaseInv /\ CallsInv

LEMMA InvStep ==
  ASSUME Inv, [Next]_vars
  PROVE  Inv'
<1>1. ASSUME NEW t \in Threads, Lock(t) \/ Unlock(t) PROVE Inv'
  BY <1>1, SettingsKeepTypes, SettingsKeepCalls DEF Inv
<1>2. ASSUME NEW t \in Threads, NEW o \in Requests, Call(t, o) PROVE Inv'
  BY <1>2, CallKeepsTypes, CallKeepsCalls DEF Inv
<1>3. ASSUME NEW t \in Threads, Enter(t) PROVE Inv'
  BY <1>3, EnterAndLeaveKeepTypes, EnterKeepsCalls DEF Inv
<1>4. ASSUME NEW t \in Threads, ReadElement(t) PROVE Inv'
  <2>1. Verdict(op[t]) = "OK"
    BY <1>4 DEF Inv, CallsInv, CallInv, ReadElement
  <2> QED
    BY <1>4, <2>1, ReadElementKeepsTypes, ReadElementKeepsCalls DEF Inv
<1>5. ASSUME NEW t \in Threads, WriteElement(t) PROVE Inv'
  BY <1>5, WriteElementKeepsTypes, WriteElementKeepsCalls DEF Inv
<1>6. ASSUME NEW t \in Threads, Leave(t) PROVE Inv'
  BY <1>6, EnterAndLeaveKeepTypes, LeaveKeepsCalls DEF Inv
<1>7. CASE UNCHANGED vars
  <2>1. BaseInv'
    BY <1>7 DEF Inv, BaseInv, TypeOK, LockInv, LoopUnderLock, OwnLocks, Offsets, vars
  <2>2. CallsInv'
    BY <1>7, OthersKeep DEF Inv, CallsInv, vars, fields
  <2> QED
    BY <2>1, <2>2 DEF Inv
<1> QED
  BY <1>1, <1>2, <1>3, <1>4, <1>5, <1>6, <1>7 DEF Next, Progress

LEMMA InvHolds == Spec => []Inv
<1>1. Init => Inv
  BY BaseInit, CallsInit DEF Inv
<1>2. Inv /\ [Next]_vars => Inv'
  BY InvStep
<1> QED
  BY <1>1, <1>2, PTL DEF Spec

(* The channel and its callers keep their types, and no lock is kept: the     *)
(* depth is never more than the application's own plus one.  Wherever the     *)
(* channel lies, no element outside it is read or written.                    *)
THEOREM TypeCorrect == Spec => []TypeOK
<1>1. Inv => TypeOK
  BY DEF Inv, BaseInv
<1> QED
  BY <1>1, InvHolds, PTL

(* Only the owner of the lock goes over the elements of a channel.            *)
THEOREM MutualExclusion == Spec => []LoopUnderLock
<1>1. Inv => LoopUnderLock
  BY DEF Inv, BaseInv, LockInv
<1> QED
  BY <1>1, InvHolds, PTL

----------------------------------------------------------------------------
(* The channel implements the bank. *)

LEMMA LegalIsOk ==
  ASSUME NEW o \in Requests
  PROVE  /\ Bank!Legal(o) <=> Verdict(o) = "OK"
         /\ Verdict(o) # "OK" => Verdict(o) \in {"BAD_PARAMS", "INVALID_ADDR"}
<1>1. o.count \in Nat /\ o.addr \in Nat /\ Start \in Nat /\ Length \in Nat
      /\ MaxRead \in Nat /\ MaxWrite \in Nat
  BY RequestType, ChannelAssumption
<1> QED
  BY <1>1 DEF Bank!Legal, Verdict, TooMany, Protected, Outside

(* Nothing is due to a channel nobody writes to. *)
LEMMA Settled ==
  ASSUME NEW c, owner # Nobody => ~Writing(owner)
  PROVE  SeenAs(c) = ToWire(data[c])
BY DEF SeenAs

LEMMA BankInit == Init => Bank!Init
<1> SUFFICES ASSUME Init PROVE Bank!Init
  OBVIOUS
<1>1. \A c \in Offsets : SeenAs(c) = <<0, 0>>
  BY DEF Init, SeenAs, ToWire, Offsets
<1> QED
  BY <1>1 DEF Init, Bank!Init, BankMem, BankHolder, BankPhase, BankResult, Bank!Offsets, Offsets,
              Bank!NoResult, IsBits, IsInput, Writing

LEMMA LockImplements ==
  ASSUME Inv, NEW t \in Threads, Lock(t)
  PROVE  Bank!Keep(t)
<1>1. owner \in {t, Nobody} /\ owner' = t /\ depth' = depth + 1 /\ pc[t] = "idle"
  BY DEF Lock, Acquire, CanLock
<1>2. UNCHANGED <<IsBits, ~IsInput \/ writable, BankPhase, op, BankResult>>
  BY DEF Lock, fields, IsBits, IsInput, BankPhase, BankResult, Writing
<1>3. (owner # Nobody => ~Writing(owner)) /\ (owner # Nobody => ~Writing(owner))'
  BY <1>1 DEF Writing, Lock
<1>4. \A c \in Offsets : SeenAs(c)' = SeenAs(c)
  BY <1>3 DEF SeenAs, ToWire, IsBits, Lock, fields
<1>5. BankMem' = BankMem
  BY <1>4 DEF BankMem, Offsets
<1>6. BankHolder \in {t, Nobody} /\ BankHolder' = t
  BY <1>1, ChannelModelValue DEF BankHolder, OwnLocks, Lock, Inv, BaseInv, TypeOK
<1>7. BankPhase[t] = "idle"
  BY <1>1 DEF BankPhase
<1> QED
  BY <1>2, <1>5, <1>6, <1>7 DEF Bank!Keep, Bank!Free

LEMMA UnlockImplements ==
  ASSUME Inv, NEW t \in Threads, Unlock(t)
  PROVE  Bank!Release(t) \/ UNCHANGED Bank!bankVars
<1>1. owner = t /\ depth' = depth - 1 /\ pc[t] = "idle" /\ pc' = pc
      /\ owner' = IF depth = 1 THEN Nobody ELSE t
  BY DEF Unlock, Yield
<1>2. UNCHANGED <<IsBits, ~IsInput \/ writable, BankPhase, op, BankResult>>
  BY DEF Unlock, fields, IsBits, IsInput, BankPhase, BankResult, Writing
<1>3. (owner # Nobody => ~Writing(owner)) /\ (owner # Nobody => ~Writing(owner))'
  BY <1>1 DEF Writing, Unlock
<1>4. \A c \in Offsets : SeenAs(c)' = SeenAs(c)
  BY <1>3 DEF SeenAs, ToWire, IsBits, Unlock, fields
<1>5. BankMem' = BankMem
  BY <1>4 DEF BankMem, Offsets
<1>6. depth \in Nat \ {0} /\ owner # Nobody
  BY <1>1, ChannelModelValue, ChannelAssumption DEF Inv, BaseInv, LockInv, TypeOK
<1>7. BankHolder = t /\ BankPhase[t] = "idle"
  BY <1>1, <1>6 DEF BankHolder, OwnLocks, BankPhase
<1>8. CASE depth = 1
  <2>1. BankHolder' = Nobody
    BY <1>1, <1>8 DEF BankHolder
  <2> QED
    BY <1>2, <1>5, <1>7, <2>1 DEF Bank!Release
<1>9. CASE depth # 1
  <2>1. BankHolder' = t
    BY <1>1, <1>6, <1>9 DEF BankHolder, OwnLocks
  <2> QED
    BY <1>2, <1>5, <1>7, <2>1 DEF Bank!bankVars
<1> QED
  BY <1>8, <1>9

LEMMA CallImplements ==
  ASSUME Inv, NEW t \in Threads, NEW o \in Requests, Call(t, o)
  PROVE  Bank!Request(t, o) \/ Bank!Refuse(t, o)
<1> USE DEF Inv, BaseInv, TypeOK
<1>1. pc[t] = "idle" /\ op' = [op EXCEPT ![t] = o] /\ UNCHANGED <<fields, data, owner, depth>>
  BY DEF Call, lock
<1>2. UNCHANGED <<IsBits, ~IsInput \/ writable>>
  BY <1>1 DEF fields, IsBits, IsInput
<1>3. \A u \in Threads : u # t => pc'[u] = pc[u] /\ op'[u] = op[u] /\ next'[u] = next[u]
                                 /\ out'[u] = out[u] /\ ret'[u] = ret[u]
  BY DEF Call
<1>4. pc'[t] \in {"idle", "enter"}
  BY DEF Call
<1>5. \A c \in Offsets : SeenAs(c)' = SeenAs(c)
  <2>1. CASE owner = t \/ owner = Nobody
    BY <1>1, <1>2, <1>4, <2>1 DEF SeenAs, Writing, ToWire
  <2>2. CASE owner \in Threads /\ owner # t
    <3>1. pc'[owner] = pc[owner] /\ op'[owner] = op[owner] /\ next'[owner] = next[owner]
      BY <1>3, <2>2
    <3>2. Writing(owner)' = Writing(owner) /\ Due(owner)' = Due(owner)
      BY <1>1, <3>1 DEF Writing, Due
    <3> QED
      BY <1>1, <1>2, <3>1, <3>2 DEF SeenAs, ToWire, FromWire
  <2> QED
    BY <2>1, <2>2
<1>6. BankMem' = BankMem
  BY <1>5 DEF BankMem, Offsets
<1>7. BankHolder' = BankHolder
  <2>1. CASE owner = t \/ owner = Nobody
    BY <1>1, <1>4, <2>1 DEF BankHolder, OwnLocks
  <2>2. CASE owner \in Threads /\ owner # t
    BY <1>1, <1>3, <2>2 DEF BankHolder, OwnLocks
  <2> QED
    BY <2>1, <2>2
<1>8. BankPhase[t] = "idle"
  BY <1>1 DEF BankPhase
<1>9. CASE Verdict(o) = "OK"
  <2>1. pc'[t] = "enter" /\ ret'[t] = "NONE"
    BY <1>9 DEF Call
  <2>2. BankPhase' = [BankPhase EXCEPT ![t] = "called"]
    BY <1>3, <2>1 DEF BankPhase, Writing
  <2>3. BankResult' = [BankResult EXCEPT ![t] = Bank!NoResult]
    BY <1>3, <2>1 DEF BankResult, Bank!NoResult
  <2>4. Bank!Legal(o)
    BY <1>9, LegalIsOk
  <2> QED
    BY <1>1, <1>2, <1>6, <1>7, <1>8, <2>2, <2>3, <2>4 DEF Bank!Request
<1>10. CASE Verdict(o) # "OK"
  <2>1. pc'[t] = "idle" /\ ret'[t] = Verdict(o) /\ out'[t] = <<>>
    BY <1>10 DEF Call
  <2>2. BankPhase' = BankPhase
    BY <1>1, <1>3, <2>1 DEF BankPhase, Writing
  <2>3. BankResult' = [BankResult EXCEPT ![t] = [code |-> Verdict(o), values |-> <<>>]]
    BY <1>3, <2>1 DEF BankResult
  <2>4. [code |-> Verdict(o), values |-> <<>>] \in Bank!Refusals
    BY <1>10, LegalIsOk DEF Bank!Refusals
  <2>5. ~Bank!Legal(o)
    BY <1>10, LegalIsOk
  <2> QED
    BY <1>1, <1>2, <1>6, <1>7, <1>8, <2>2, <2>3, <2>4, <2>5 DEF Bank!Refuse
<1> QED
  BY <1>9, <1>10

(* Arithmetic of offsets and of positions in a request. *)
LEMMA Position ==
  ASSUME NEW b \in Int, NEW n \in Nat, NEW k \in 0 .. n - 1
  PROVE  (b + k) - b + 1 \in 1 .. n
OBVIOUS

LEMMA OffsetInRange ==
  ASSUME NEW a \in Nat, NEW s \in Nat, NEW n \in Nat, NEW l \in Nat, NEW k \in 1 .. n,
         a >= s, a + n <= s + l
  PROVE  a - s + k - 1 \in 0 .. l - 1
OBVIOUS

LEMMA OneLessDue ==
  ASSUME NEW b \in Int, NEW m \in Nat, NEW n \in Nat, m < n
  PROVE  /\ b + m \in {b + k : k \in m .. n - 1}
         /\ b + m \notin {b + k : k \in m + 1 .. n - 1}
         /\ \A c : c # b + m => (c \in {b + k : k \in m .. n - 1}
                                 <=> c \in {b + k : k \in m + 1 .. n - 1})
<1>1. b + m \in {b + k : k \in m .. n - 1}
  OBVIOUS
<1>2. b + m \notin {b + k : k \in m + 1 .. n - 1}
  OBVIOUS
<1>3. ASSUME NEW c, c # b + m, c \in {b + k : k \in m .. n - 1}
      PROVE  c \in {b + k : k \in m + 1 .. n - 1}
  <2>1. PICK k \in m .. n - 1 : c = b + k
    BY <1>3
  <2>2. k # m
    BY <1>3, <2>1
  <2>3. k \in m + 1 .. n - 1
    BY <2>2
  <2> QED
    BY <2>1, <2>3
<1>4. ASSUME NEW c, c \in {b + k : k \in m + 1 .. n - 1}
      PROVE  c \in {b + k : k \in m .. n - 1}
  <2>1. PICK k \in m + 1 .. n - 1 : c = b + k
    BY <1>4
  <2>2. k \in m .. n - 1
    OBVIOUS
  <2> QED
    BY <2>1, <2>2
<1> QED
  BY <1>1, <1>2, <1>3, <1>4

LEMMA ShownIsReadBack ==
  ASSUME NEW w \in Wire
  PROVE  ToWire(FromWire(w)) = Bank!Shown(w)
<1>1. PICK a \in Bytes, b \in Bytes : w = <<a, b>>
  BY DEF Wire
<1> QED
  BY <1>1 DEF ToWire, FromWire, Bank!Shown

(* What the lock's owner is doing is what its caller sees of the bank. *)
LEMMA EnterImplements ==
  ASSUME Inv, NEW t \in Threads, Enter(t)
  PROVE  Bank!Write(t) \/ UNCHANGED Bank!bankVars
<1> USE DEF Inv, BaseInv, TypeOK
<1>1. /\ pc[t] = "enter" /\ pc' = [pc EXCEPT ![t] = "loop"]
      /\ owner \in {t, Nobody} /\ owner' = t /\ depth' = depth + 1
      /\ UNCHANGED <<fields, data, op, next, out, ret>>
  BY DEF Enter, Acquire, CanLock
<1>2. UNCHANGED <<IsBits, ~IsInput \/ writable>>
  BY <1>1 DEF fields, IsBits, IsInput
<1>3. op[t] \in Requests /\ next[t] = 0 /\ Verdict(op[t]) = "OK"
  BY <1>1 DEF CallsInv, CallInv
<1>4. \A c \in Offsets : SeenAs(c) = ToWire(data[c])
  BY <1>1, Settled DEF Writing
<1>5. BankHolder' = BankHolder /\ BankHolder \in {t, Nobody}
  BY <1>1, ChannelModelValue, ChannelAssumption DEF BankHolder, OwnLocks, LockInv
<1>6. BankResult' = BankResult
  BY <1>1 DEF BankResult
<1>7. BankPhase[t] = "called"
  BY <1>1 DEF BankPhase, Writing
<1>8. CASE op[t].what = "read"
  <2>1. BankPhase' = BankPhase
    BY <1>1, <1>8 DEF BankPhase, Writing
  <2>2. \A c \in Offsets : SeenAs(c)' = ToWire(data[c])
    BY <1>1, <1>2, <1>8 DEF SeenAs, Writing, ToWire
  <2>3. BankMem' = BankMem
    BY <1>4, <2>2 DEF BankMem, Offsets
  <2> QED
    BY <1>1, <1>2, <1>5, <1>6, <2>1, <2>3 DEF Bank!bankVars
<1>9. CASE op[t].what # "read"
  <2>1. BankPhase' = [BankPhase EXCEPT ![t] = "done"]
    BY <1>1, <1>9 DEF BankPhase, Writing
  <2> DEFINE w(c) == op[t].values[c - (op[t].addr - Start) + 1]
  <2>2. Writing(t)' /\ owner' # Nobody
    BY <1>1, <1>9, ChannelModelValue DEF Writing
  <2>3. Due(t)' = Bank!Touched(op[t])
    BY <1>1, <1>3 DEF Due, Bank!Touched
  <2>4. ASSUME NEW c \in Bank!Touched(op[t]) PROVE w(c) \in Wire
    <3>1. op[t].values \in Seq(Wire) /\ Len(op[t].values) = op[t].count
          /\ op[t].count \in Nat /\ op[t].addr \in Nat /\ Start \in Nat
      BY <1>3, <1>9, RequestType, ChannelAssumption
    <3>2. PICK k \in 0 .. op[t].count - 1 : c = op[t].addr - Start + k
      BY DEF Bank!Touched
    <3>3. c - (op[t].addr - Start) + 1 \in 1 .. Len(op[t].values)
      <4>1. op[t].addr - Start \in Int
        BY <3>1
      <4> QED
        BY <3>1, <3>2, <4>1, Position
    <3> QED
      BY <3>1, <3>3
  <2>5. ASSUME NEW c \in Offsets, c \in Bank!Touched(op[t])
        PROVE  SeenAs(c)' = Bank!Shown(w(c))
    <3>1. SeenAs(c)' = ToWire(FromWire(w(c)))'
      BY <1>1, <2>2, <2>3, <2>5 DEF SeenAs
    <3>2. ToWire(FromWire(w(c)))' = ToWire(FromWire(w(c)))
      BY <1>1, <1>2 DEF ToWire, FromWire
    <3> QED
      BY <2>4, <2>5, <3>1, <3>2, ShownIsReadBack
  <2>6. ASSUME NEW c \in Offsets, c \notin Bank!Touched(op[t])
        PROVE  SeenAs(c)' = SeenAs(c)
    BY <1>1, <1>2, <1>4, <2>3, <2>6 DEF SeenAs, ToWire
  <2>7. BankMem' = [c \in Bank!Offsets |->
                     IF c \in Bank!Touched(op[t]) THEN Bank!Shown(w(c)) ELSE BankMem[c]]
    BY <2>5, <2>6 DEF BankMem, Offsets, Bank!Offsets
  <2> QED
    BY <1>1, <1>2, <1>5, <1>6, <1>7, <1>9, <2>1, <2>7 DEF Bank!Write, Bank!Free
<1> QED
  BY <1>8, <1>9

LEMMA ReadElementImplements ==
  ASSUME Inv, NEW t \in Threads, ReadElement(t)
  PROVE  UNCHANGED Bank!bankVars
<1>1. pc[t] = "loop" /\ ~Writing(t) /\ owner = t
      /\ UNCHANGED <<fields, data, owner, depth, pc, op, ret>>
  BY DEF ReadElement, lock, Writing, Inv, BaseInv, LockInv, LoopUnderLock
<1>2. UNCHANGED <<IsBits, ~IsInput \/ writable>>
  BY <1>1 DEF fields, IsBits, IsInput
<1>3. \A c \in Offsets : SeenAs(c)' = SeenAs(c)
  BY <1>1, <1>2 DEF SeenAs, Writing, ToWire
<1>4. BankMem' = BankMem
  BY <1>3 DEF BankMem, Offsets
<1>5. \A u \in Threads : u # t => out'[u] = out[u]
  BY DEF ReadElement, Inv, BaseInv, TypeOK
<1>6. BankResult' = BankResult
  BY <1>1, <1>5 DEF BankResult
<1>7. BankHolder' = BankHolder /\ BankPhase' = BankPhase
  BY <1>1 DEF BankHolder, OwnLocks, BankPhase, Writing
<1> QED
  BY <1>1, <1>2, <1>4, <1>6, <1>7 DEF Bank!bankVars

LEMMA WriteElementImplements ==
  ASSUME WritesFit, Inv, NEW t \in Threads, WriteElement(t)
  PROVE  UNCHANGED Bank!bankVars
<1> USE DEF Inv, BaseInv, TypeOK
<1>1. pc[t] = "loop" /\ Writing(t) /\ owner = t /\ owner # Nobody
      /\ UNCHANGED <<fields, owner, depth, pc, op, out, ret>>
      /\ next'[t] = next[t] + 1 /\ next[t] < op[t].count /\ next[t] \in Nat
  BY ChannelModelValue DEF WriteElement, lock, Writing, LockInv, LoopUnderLock
<1>2. UNCHANGED <<IsBits, ~IsInput \/ writable>>
  BY <1>1 DEF fields, IsBits, IsInput
<1>3. op[t] \in Requests /\ Verdict(op[t]) = "OK"
  BY <1>1 DEF CallsInv, CallInv
<1>4. op[t].count \in Nat /\ op[t].addr \in Nat /\ Start \in Nat
  BY <1>3, RequestType, ChannelAssumption
<1> DEFINE b == op[t].addr - Start
           a == b + next[t]
           w(c) == op[t].values[c - b + 1]
<1>5. Addr(t) - Start = a /\ a \in Offsets
  <2>1. Addr(t) = op[t].addr + next[t] /\ Addr(t) - Start \in Offsets
    BY <1>1, <1>3, WriteAddress DEF Writing
  <2> QED
    BY <1>1, <1>4, <2>1
<1>6. data' = [data EXCEPT ![a] = FromWire(op[t].values[next[t] + 1])]
  BY <1>5 DEF WriteElement
<1>7. b \in Int /\ w(a) = op[t].values[next[t] + 1]
  <2>1. b \in Int /\ a - b + 1 = next[t] + 1
    BY <1>1, <1>4
  <2> QED
    BY <2>1
<1>8. Due(t) = {b + k : k \in next[t] .. op[t].count - 1}
  BY DEF Due
<1>9. Due(t)' = {b + k : k \in next[t] + 1 .. op[t].count - 1}
  BY <1>1 DEF Due
<1> HIDE DEF b
<1>10. a \in Due(t) /\ a \notin Due(t)' /\ \A c : c # a => (c \in Due(t) <=> c \in Due(t)')
  BY <1>1, <1>4, <1>7, <1>8, <1>9, OneLessDue
<1>11. ASSUME NEW c \in Offsets PROVE SeenAs(c)' = SeenAs(c)
  <2>1. SeenAs(c) = IF c \in Due(t) THEN ToWire(FromWire(w(c))) ELSE ToWire(data[c])
    BY <1>1 DEF SeenAs, b
  <2>2. SeenAs(c)' = IF c \in Due(t)' THEN ToWire(FromWire(w(c))) ELSE ToWire(data'[c])
    <3>1. Writing(t)' /\ owner' = t /\ owner' # Nobody
      BY <1>1 DEF Writing
    <3>2. SeenAs(c)' = (IF c \in Due(t) THEN ToWire(FromWire(w(c))) ELSE ToWire(data[c]))'
      BY <1>1, <3>1 DEF SeenAs, b
    <3> QED
      BY <1>1, <1>2, <3>2 DEF ToWire, FromWire, b
  <2>3. CASE c = a
    <3>1. data'[c] = FromWire(w(c))
      BY <1>6, <1>7, <2>3
    <3> QED
      BY <1>10, <2>1, <2>2, <2>3, <3>1
  <2>4. CASE c # a
    <3>1. data'[c] = data[c]
      BY <1>6, <2>4
    <3> QED
      BY <1>10, <2>1, <2>2, <2>4, <3>1
  <2> QED
    BY <2>3, <2>4
<1>12. BankMem' = BankMem
  BY <1>11 DEF BankMem, Offsets
<1>13. BankResult' = BankResult /\ BankHolder' = BankHolder /\ BankPhase' = BankPhase
  BY <1>1 DEF BankResult, BankHolder, OwnLocks, BankPhase, Writing
<1> QED
  BY <1>1, <1>2, <1>12, <1>13 DEF Bank!bankVars

LEMMA LeaveImplements ==
  ASSUME Length <= AddrMod, Inv, NEW t \in Threads, Leave(t)
  PROVE  Bank!Return(t) \/ Bank!Read(t)
<1> USE DEF Inv, BaseInv, TypeOK
<1>1. /\ pc[t] = "loop" /\ pc' = [pc EXCEPT ![t] = "idle"]
      /\ next[t] = op[t].count
      /\ owner = t /\ owner # Nobody
      /\ depth' = depth - 1 /\ owner' = IF depth = 1 THEN Nobody ELSE t
      /\ ret' = [ret EXCEPT ![t] = "OK"]
      /\ UNCHANGED <<fields, data, op, next, out>>
  BY ChannelModelValue DEF Leave, Yield, LockInv, LoopUnderLock
<1>2. UNCHANGED <<IsBits, ~IsInput \/ writable>>
  BY <1>1 DEF fields, IsBits, IsInput
<1>3. op[t] \in Requests /\ Verdict(op[t]) = "OK"
  BY <1>1 DEF CallsInv, CallInv
<1>4. op[t].count \in Nat /\ op[t].addr \in Nat /\ Start \in Nat
  BY <1>3, RequestType, ChannelAssumption
<1>5. Due(t) = {}
  BY <1>1, <1>4 DEF Due
<1>6. \A c \in Offsets : SeenAs(c) = ToWire(data[c]) /\ SeenAs(c)' = ToWire(data[c])
  <2>1. \A c \in Offsets : SeenAs(c) = ToWire(data[c])
    BY <1>1, <1>5 DEF SeenAs
  <2>2. owner' # Nobody => ~Writing(owner)'
    BY <1>1 DEF Writing
  <2> QED
    BY <1>1, <1>2, <2>1, <2>2 DEF SeenAs, ToWire
<1>7. BankMem' = BankMem
  BY <1>6 DEF BankMem, Offsets
<1>8. BankHolder' = BankHolder /\ BankHolder \in {t, Nobody}
  BY <1>1, ChannelAssumption DEF BankHolder, OwnLocks, LockInv
<1>9. BankPhase' = [BankPhase EXCEPT ![t] = "idle"]
  BY <1>1 DEF BankPhase, Writing
<1>10. BankResult' = [BankResult EXCEPT ![t] = [code |-> "OK", values |-> out[t]]]
  BY <1>1 DEF BankResult
<1>11. CASE op[t].what # "read"
  <2>1. BankPhase[t] = "done"
    BY <1>1, <1>11 DEF BankPhase, Writing
  <2>2. out[t] = <<>>
    BY <1>1, <1>11 DEF CallsInv, CallInv
  <2> QED
    BY <1>1, <1>2, <1>7, <1>8, <1>9, <1>10, <2>1, <2>2 DEF Bank!Return
<1>12. CASE op[t].what = "read"
  <2>1. BankPhase[t] = "called"
    BY <1>1, <1>12 DEF BankPhase, Writing
  <2> DEFINE read == [k \in 1 .. op[t].count |-> BankMem[op[t].addr - Start + k - 1]]
  <2>2. /\ out[t] \in Seq(Wire) /\ Len(out[t]) = op[t].count
        /\ \A k \in 1 .. op[t].count : out[t][k] = ToWire(data[op[t].addr - Start + k - 1])
    BY <1>1, <1>12 DEF CallsInv, CallInv
  <2>3. ASSUME NEW k \in 1 .. op[t].count
        PROVE  BankMem[op[t].addr - Start + k - 1] = ToWire(data[op[t].addr - Start + k - 1])
    <3>1. op[t].addr - Start + k - 1 \in Offsets
      <4>1. op[t].addr >= Start /\ op[t].addr + op[t].count <= Start + Length
        BY <1>3, OkIsInside
      <4>2. Length \in Nat
        BY ChannelAssumption
      <4> QED
        BY <1>4, <4>1, <4>2, OffsetInRange DEF Offsets
    <3> QED
      BY <1>6, <3>1 DEF BankMem
  <2>4. out[t] = read
    BY <2>2, <2>3
  <2> QED
    BY <1>1, <1>2, <1>7, <1>8, <1>9, <1>10, <1>12, <2>1, <2>4 DEF Bank!Read, Bank!Free
<1> QED
  BY <1>11, <1>12

(* A channel that ends within the address space meets both conditions of the  *)
(* theorem.                                                                   *)
LEMMA InnerChannelFits ==
  ASSUME Start + Length <= AddrMod
  PROVE  Length <= AddrMod /\ WritesFit
<1>1. Start \in Nat /\ Length \in Nat /\ AddrMod \in Nat
  BY ChannelAssumption
<1>2. ASSUME NEW o \in Requests, ~Outside(o)
      PROVE  o.addr + o.count <= AddrMod
  <2>1. o.addr \in Nat /\ o.count \in Nat /\ ~(o.addr + o.count > Start + Length)
    BY <1>2, RequestType DEF Outside
  <2> QED
    BY <1>1, <2>1
<1> QED
  BY <1>1, <1>2 DEF WritesFit

(* Every multi-register request is atomic (TakesEffectAtOnce): the channel    *)
(* implements the bank whose requests take effect at once, for any threads    *)
(* and requests, whether or not it ends within the address space, unless a    *)
(* write is made that goes past the last address: reads may.                  *)
THEOREM RequestsAreAtomic ==
  ASSUME Length <= AddrMod, WritesFit
  PROVE  Spec => TakesEffectAtOnce
<1>1. ASSUME Inv, [Next]_vars PROVE [Bank!Next]_(Bank!bankVars)
  <2>1. ASSUME NEW t \in Threads, Progress(t)
        PROVE  \/ Bank!Write(t) \/ Bank!Return(t) \/ Bank!Read(t)
               \/ UNCHANGED Bank!bankVars
    BY <1>1, <2>1, EnterImplements, ReadElementImplements, WriteElementImplements,
       LeaveImplements DEF Progress
  <2>2. CASE UNCHANGED vars
    BY <2>2 DEF vars, Bank!bankVars, IsBits, IsInput, BankMem, BankHolder, BankPhase, BankResult,
                Offsets, SeenAs, Writing, Due, OwnLocks, ToWire, FromWire
  <2> QED
    BY <1>1, <2>1, <2>2, LockImplements, UnlockImplements, CallImplements
       DEF Next, Bank!Next
<1> QED
  BY <1>1, BankInit, InvHolds, PTL DEF Spec, Bank!Spec, TakesEffectAtOnce
=============================================================================
