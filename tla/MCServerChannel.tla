--------------------------- MODULE MCServerChannel ---------------------------
(* A channel of two elements at addresses 1 and 2 for TLC. *)
EXTENDS ServerChannel

AllNames == {"bits", "input_bits", "registers", "input_registers"}

Reads(addr, count) == [what |-> "read", addr |-> addr, count |-> count, values |-> <<>>]
Writes(addr, vs) == [what |-> "write", addr |-> addr, count |-> Len(vs), values |-> vs]
WritesOne(addr, v) == [what |-> "one", addr |-> addr, count |-> 1, values |-> <<v>>]

(* Whole and partial requests, and one for each way to be refused. *)
MixedRequests ==
  {Reads(1, 2), Reads(2, 1), Writes(1, <<<<0, 1>>, <<1, 0>>>>),
   WritesOne(2, <<1, 1>>),
   Reads(1, 0), Reads(0, 1), Reads(1, 3), Writes(2, <<<<1, 0>>, <<1, 0>>>>)}
=============================================================================
