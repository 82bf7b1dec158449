------------------------------ MODULE RemoteCall ------------------------------
(* What a client and a slave together promise the application about what is   *)
(* carried out.  A call that succeeds was carried out before it returned and  *)
(* never is after it did, and with it everything the connection carried       *)
(* before it is settled.  A call that failed may have been carried out; it    *)
(* may still be, and if its connection was given up, even after later calls   *)
(* have succeeded.                                                            *)
EXTENDS Integers

VARIABLES
  busy,      \* a call is under way
  number,    \* how many calls there were, the present one included
  outcome,   \* how the last one ended, "NONE" while it has not
  carried,   \* calls that were carried out
  waiting,   \* failed calls the present connection still carries
  adrift     \* failed calls on connections that were given up

vars == <<busy, number, outcome, carried, waiting, adrift>>

Init ==
  /\ busy = FALSE /\ number = 0 /\ outcome = "NONE"
  /\ carried = {} /\ waiting = {} /\ adrift = {}

Start ==
  /\ ~busy
  /\ busy' = TRUE /\ outcome' = "NONE"
  /\ number' = number + 1
  /\ UNCHANGED <<carried, waiting, adrift>>

(* Without a connection, or with one that cannot be made again. *)
FailAtOnce ==
  /\ ~busy
  /\ number' = number + 1
  /\ outcome' \notin {"NONE", "OK"}
  /\ UNCHANGED <<busy, carried, waiting, adrift>>

CarryOut(n) ==
  /\ n \in waiting \cup adrift \/ (busy /\ n = number)
  /\ carried' = carried \cup {n}
  /\ waiting' \subseteq waiting
  /\ adrift' \subseteq adrift
  /\ UNCHANGED <<busy, number, outcome>>

Lose ==
  /\ waiting' \subseteq waiting
  /\ adrift' \subseteq adrift \cup waiting
  /\ UNCHANGED <<busy, number, outcome, carried>>

Succeed ==
  /\ busy /\ number \in carried /\ waiting = {}
  /\ busy' = FALSE /\ outcome' = "OK"
  /\ UNCHANGED <<number, carried, waiting, adrift>>

Fail ==
  /\ busy
  /\ busy' = FALSE /\ outcome' \notin {"NONE", "OK"}
  /\ waiting' \subseteq waiting \cup {number}
  /\ adrift' \subseteq adrift \cup waiting \cup {number}
  /\ UNCHANGED <<number, carried>>

Next ==
  \/ Start \/ FailAtOnce \/ Succeed \/ Fail \/ Lose
  \/ \E n \in waiting \cup adrift \cup {number} : CarryOut(n)

Spec == Init /\ [][Next]_vars
=============================================================================
