---------------------------- MODULE MCModbusClient ----------------------------
(* Small instances of ModbusClient for TLC. *)
EXTENDS ModbusClient

(* A read, a write, and the operation that reports every failed receive as    *)
(* RET_FAIL.                                                                  *)
ReadWriteAndBoth ==
  {[fc |-> 3, count |-> 1], [fc |-> 6, count |-> 1], [fc |-> WriteAndReadFc, count |-> 1]}

(* Two reads of one function code: the answer to one may be met by the other. *)
TwoReads == {[fc |-> 3, count |-> 1], [fc |-> 3, count |-> 2]}

OneRead == {[fc |-> 3, count |-> 1]}

WriteAndReadOnly == {[fc |-> WriteAndReadFc, count |-> 1]}
=============================================================================
