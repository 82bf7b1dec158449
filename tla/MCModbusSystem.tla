---------------------------- MODULE MCModbusSystem ----------------------------
(* Small instances of ModbusSystem for TLC. *)
EXTENDS ModbusSystem

(* A write, and the operation that reports every failed receive as RET_FAIL   *)
(* and so keeps the connection.                                               *)
WriteAndBoth == {[fc |-> 6, count |-> 1], [fc |-> WriteAndReadFc, count |-> 1]}
=============================================================================
