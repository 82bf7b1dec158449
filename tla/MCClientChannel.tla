--------------------------- MODULE MCClientChannel ---------------------------
(* Channels of two devices behind one client, for TLC. *)
EXTENDS ClientChannel

TwoChannels == {"a", "b"}

Reads(u, from, size, keep) ==
  [access |-> "read", unit |-> u, from |-> from, size |-> size,
   wfrom |-> 0, wsize |-> 0, keep |-> keep]

Writes(u, from, size) ==
  [access |-> "write", unit |-> u, from |-> 0, size |-> 0,
   wfrom |-> from, wsize |-> size, keep |-> FALSE]

ReadsAndWrites(u, size) ==
  [access |-> "both", unit |-> u, from |-> 0, size |-> size,
   wfrom |-> 1, wsize |-> 1, keep |-> FALSE]

Unknown == [Reads(2, 0, 1, FALSE) EXCEPT !.access = "other"]

(* Tables read in two requests, one with a last value to keep and one         *)
(* without, beside one that is written in two; a write and read that fits and *)
(* one that is too long; an access type nobody knows; an empty table.         *)
Pairs ==
  {[a |-> Reads(2, 0, 3, TRUE), b |-> Writes(1, 0, 3)],
   [a |-> Reads(2, 1, 2, FALSE), b |-> ReadsAndWrites(1, 1)],
   [a |-> ReadsAndWrites(1, 2), b |-> Unknown],
   [a |-> Writes(2, 1, 2), b |-> Reads(NoUnit, 0, 0, FALSE)]}

OneInit == {[unit |-> 1, from |-> 0, size |-> 2, value |-> 2]}

(* One channel with a unit id and one without. *)
OwnAndDefault == {[a |-> Reads(2, 0, 1, TRUE), b |-> Reads(NoUnit, 0, 1, TRUE)]}
=============================================================================
