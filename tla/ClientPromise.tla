---------------------------- MODULE ClientPromise ----------------------------
(* What a modbus client promises the code that calls it, whatever the line    *)
(* does: calls run one at a time, RET_OK comes only with the answer to the    *)
(* very request of that call, the connection is given up exactly by reporting *)
(* RET_IO, and a call made without a connection either finds one first or is  *)
(* refused with RET_IO.                                                       *)
EXTENDS Naturals

VARIABLES busy,     \* a call is in progress
          link,     \* the client holds a connection
          outcome,  \* what the last call returned, "NONE" while one runs
          genuine   \* the last call returned the answer to its own request

promiseVars == <<busy, link, outcome, genuine>>

Errors == {"FAIL", "TIMEOUT", "CRC", "SKIP", "BAD_PARAMS"}

Init ==
  /\ busy = FALSE
  /\ link = TRUE
  /\ outcome = "NONE"
  /\ genuine = FALSE

Begin ==
  /\ ~busy
  /\ busy' = TRUE
  /\ link' = TRUE
  /\ outcome' = "NONE"
  /\ genuine' = FALSE

Refuse ==
  /\ ~busy /\ ~link
  /\ outcome' = "IO"
  /\ genuine' = FALSE
  /\ UNCHANGED <<busy, link>>

ReturnOk ==
  /\ busy
  /\ busy' = FALSE
  /\ outcome' = "OK"
  /\ genuine' = TRUE
  /\ UNCHANGED link

ReturnError ==
  /\ busy
  /\ busy' = FALSE
  /\ outcome' \in Errors
  /\ genuine' = FALSE
  /\ UNCHANGED link

ReturnDisconnected ==
  /\ busy
  /\ busy' = FALSE
  /\ outcome' = "IO"
  /\ link' = FALSE
  /\ genuine' = FALSE

Next == Begin \/ Refuse \/ ReturnOk \/ ReturnError \/ ReturnDisconnected

Spec == Init /\ [][Next]_promiseVars
=============================================================================
