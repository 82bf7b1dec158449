--------------------------- MODULE MCModbusService ---------------------------
(* A slave of unit id 1 for TLC. *)
EXTENDS ModbusService

(* A serial line with several slaves, a tcp connection, and rtu over tcp. *)
AllModes ==
  {[proto |-> "rtu", shared |-> TRUE, multSlaves |-> TRUE],
   [proto |-> "tcp", shared |-> FALSE, multSlaves |-> FALSE],
   [proto |-> "rtu", shared |-> FALSE, multSlaves |-> FALSE]}

TcpOnly == {[proto |-> "tcp", shared |-> FALSE, multSlaves |-> FALSE]}

Simple(slave, fc, count, inside) ==
  [slave |-> slave, fc |-> fc, count |-> count, inside |-> inside,
   countEx |-> "none", insideEx |-> TRUE, value |-> 1]

ReadAndWrite(inside, countEx, insideEx) ==
  [slave |-> 1, fc |-> Both, count |-> "some", inside |-> inside,
   countEx |-> countEx, insideEx |-> insideEx, value |-> 1]

(* Requests that can be carried out, and one for each way to be refused;      *)
(* write and read is carried out in both halves or refused in both.           *)
MixedRequests ==
  {Simple(1, 3, "some", TRUE), Simple(1, 6, "some", TRUE),
   ReadAndWrite(TRUE, "some", TRUE), ReadAndWrite(FALSE, "some", FALSE),
   Simple(1, 3, "excess", TRUE), Simple(1, 6, "some", FALSE),
   Simple(1, 43, "some", TRUE), Simple(Alien, 3, "some", TRUE)}

(* Write and read, the addresses of the write within the channel and not. *)
HalfRefused == {ReadAndWrite(TRUE, "some", TRUE), ReadAndWrite(TRUE, "some", FALSE)}
=============================================================================
