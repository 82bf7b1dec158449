---------------------------- MODULE SlavePromise ----------------------------
(* What a slave promises the master at the other end of a line: it takes one  *)
(* request at a time, and answers it at most once; a normal answer means that *)
(* all of the request was carried out, in order, and tells what was read; an  *)
(* exception means that nothing of it was.  Whatever else arrives may cost an *)
(* exception or the connection, never a change of the memory.                 *)
EXTENDS Naturals, Sequences

CONSTANTS
  Requests,   \* records [slave, fc, count, inside, countEx, insideEx, value]
  Own,        \* the slave's unit id
  Tids,       \* transaction ids
  Values,     \* what a cell of the memory may hold
  None        \* model value

VARIABLES
  mem,        \* the value of each table
  stage,      \* "idle", "taken", "written", "done"
  job,        \* [req, tid] of the request taken
  shown,      \* what it has read
  out         \* answers under way to the master

promiseVars == <<mem, stage, job, shown, out>>

Table(fc) ==
  CASE fc \in {1, 5, 15} -> "bits"
    [] fc = 2 -> "input_bits"
    [] fc = 4 -> "input_registers"
    [] OTHER -> "registers"

Reads == {1, 2, 3, 4}
Writes == {5, 6, 15, 16}
Both == 23

Possible(r) ==
  /\ r.fc \in Reads \cup Writes \cup {Both}
  /\ r.count = "some" /\ r.inside
  /\ r.fc = Both => r.countEx = "some" /\ r.insideEx

Codes == {"ILLEGAL_FUNCTION", "ILLEGAL_DATA_ADDRESS", "ILLEGAL_DATA_VALUE"}
IsException(a) == a.code \in Codes /\ a.value = None

Init ==
  /\ mem \in [{Table(r.fc) : r \in Requests} -> Values]
  /\ stage = "idle" /\ job = None /\ shown = None /\ out = <<>>

Take(r, t) ==
  /\ stage = "idle" /\ r.slave = Own
  /\ stage' = "taken" /\ job' = [req |-> r, tid |-> t]
  /\ UNCHANGED <<mem, shown, out>>

Write ==
  /\ stage = "taken" /\ Possible(job.req) /\ job.req.fc \in Writes \cup {Both}
  /\ mem' = [mem EXCEPT ![Table(job.req.fc)] = job.req.value]
  /\ stage' = IF job.req.fc = Both THEN "written" ELSE "done"
  /\ UNCHANGED <<job, shown, out>>

Read ==
  /\ \/ stage = "taken" /\ Possible(job.req) /\ job.req.fc \in Reads
     \/ stage = "written"
  /\ shown' = mem[Table(job.req.fc)]
  /\ stage' = "done"
  /\ UNCHANGED <<mem, job, out>>

Close ==
  /\ stage' = "idle" /\ job' = None /\ shown' = None

Answer ==
  /\ \/ /\ stage = "done"
        /\ out' = Append(out, [tid |-> job.tid, fc |-> job.req.fc, code |-> "NONE", value |-> shown])
     \/ /\ stage = "taken" /\ ~Possible(job.req)
        /\ \E e \in Codes :
             out' = Append(out, [tid |-> job.tid, fc |-> job.req.fc, code |-> e, value |-> None])
  /\ Close
  /\ UNCHANGED mem

(* What is no request for this slave may be met with an exception. *)
Complain ==
  /\ stage = "idle"
  /\ Len(out') = Len(out) + 1 /\ SubSeq(out', 1, Len(out)) = out
  /\ IsException(out'[Len(out) + 1])
  /\ UNCHANGED <<mem, stage, job, shown>>

(* The answer cannot be sent, or the connection is lost. *)
Drop ==
  /\ Close
  /\ out' \in {out, <<>>}
  /\ UNCHANGED mem

(* The application writes its own memory whenever it likes. *)
OwnWrite ==
  /\ \E d \in DOMAIN mem, v \in Values : mem' = [mem EXCEPT ![d] = v]
  /\ UNCHANGED <<stage, job, shown, out>>

Deliver ==
  /\ out # <<>>
  /\ out' = Tail(out)
  /\ UNCHANGED <<mem, stage, job, shown>>

Next ==
  \/ \E r \in Requests, t \in Tids : Take(r, t)
  \/ Write \/ Read \/ Answer \/ Complain \/ Drop \/ OwnWrite \/ Deliver

Spec == Init /\ [][Next]_promiseVars
=============================================================================
