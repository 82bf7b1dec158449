---------------------------- MODULE RegisterBank ----------------------------
(* What the registers or bits of a modbus slave promise the threads that use  *)
(* them: a request outside the channel is refused without a trace, any other  *)
(* takes effect at one instant between its call and its return, and none does *)
(* while another thread holds the bank for a sequence of requests of its own. *)
EXTENDS Integers, Sequences

CONSTANTS
  Threads,    \* who calls
  Requests,   \* records [what, addr, count, values]
  Start,      \* first address
  Length,     \* number of registers or bits
  MaxRead,    \* how many of them one request may read,
  MaxWrite,   \* and how many it may write
  Nobody      \* model value

VARIABLES
  bits,       \* the cells are bits, not registers
  mayWrite,   \* the bank takes writes
  mem,        \* what a reader sees in each cell
  holder,     \* the thread that keeps the bank for itself
  phase,      \* of each thread: "idle", "called", "done"
  job,        \* its request
  result      \* what its last request returned

bankVars == <<bits, mayWrite, mem, holder, phase, job, result>>

Offsets == 0 .. Length - 1
NoResult == [code |-> "NONE", values |-> <<>>]
Refusals == {[code |-> c, values |-> <<>>] : c \in {"BAD_PARAMS", "INVALID_ADDR"}}

Legal(o) ==
  /\ o.count > 0
  /\ o.count <= IF o.what = "read" THEN MaxRead ELSE MaxWrite
  /\ o.what = "read" \/ mayWrite
  /\ o.addr >= Start /\ o.addr + o.count <= Start + Length

(* A bit is 0 or 1 whatever was written. *)
Shown(w) == IF ~bits THEN w ELSE IF w[1] = 0 THEN <<0, 0>> ELSE <<1, 0>>

Touched(o) == {o.addr - Start + k : k \in 0 .. o.count - 1}

Free(t) == holder \in {t, Nobody}

Init ==
  /\ bits \in BOOLEAN /\ mayWrite \in BOOLEAN
  /\ mem = [c \in Offsets |-> <<0, 0>>]
  /\ holder = Nobody
  /\ phase = [t \in Threads |-> "idle"]
  /\ job \in [Threads -> Requests]
  /\ result = [t \in Threads |-> NoResult]

Keep(t) ==
  /\ phase[t] = "idle" /\ Free(t)
  /\ holder' = t
  /\ UNCHANGED <<bits, mayWrite, mem, phase, job, result>>

Release(t) ==
  /\ phase[t] = "idle" /\ holder = t
  /\ holder' = Nobody
  /\ UNCHANGED <<bits, mayWrite, mem, phase, job, result>>

Request(t, o) ==
  /\ phase[t] = "idle" /\ Legal(o)
  /\ phase' = [phase EXCEPT ![t] = "called"]
  /\ job' = [job EXCEPT ![t] = o]
  /\ result' = [result EXCEPT ![t] = NoResult]
  /\ UNCHANGED <<bits, mayWrite, mem, holder>>

Refuse(t, o) ==
  /\ phase[t] = "idle" /\ ~Legal(o)
  /\ job' = [job EXCEPT ![t] = o]
  /\ \E r \in Refusals : result' = [result EXCEPT ![t] = r]
  /\ UNCHANGED <<bits, mayWrite, mem, holder, phase>>

Write(t) ==
  /\ phase[t] = "called" /\ job[t].what # "read" /\ Free(t)
  /\ mem' = [c \in Offsets |->
               IF c \in Touched(job[t])
               THEN Shown(job[t].values[c - (job[t].addr - Start) + 1])
               ELSE mem[c]]
  /\ phase' = [phase EXCEPT ![t] = "done"]
  /\ UNCHANGED <<bits, mayWrite, holder, job, result>>

Return(t) ==
  /\ phase[t] = "done"
  /\ phase' = [phase EXCEPT ![t] = "idle"]
  /\ result' = [result EXCEPT ![t] = [code |-> "OK", values |-> <<>>]]
  /\ UNCHANGED <<bits, mayWrite, mem, holder, job>>

Read(t) ==
  /\ phase[t] = "called" /\ job[t].what = "read" /\ Free(t)
  /\ phase' = [phase EXCEPT ![t] = "idle"]
  /\ result' = [result EXCEPT ![t] =
       [code |-> "OK",
        values |-> [k \in 1 .. job[t].count |-> mem[job[t].addr - Start + k - 1]]]]
  /\ UNCHANGED <<bits, mayWrite, mem, holder, job>>

Next ==
  \E t \in Threads :
    \/ Keep(t) \/ Release(t) \/ Write(t) \/ Return(t) \/ Read(t)
    \/ \E o \in Requests : Request(t, o) \/ Refuse(t, o)

Spec == Init /\ [][Next]_bankVars
=============================================================================
