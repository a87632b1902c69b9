------------------------------ MODULE MCCursor ------------------------------
(***************************************************************************)
(* Cursor for TLC: two consumers, which the run without liveness may       *)
(* exchange.                                                               *)
(***************************************************************************)
EXTENDS Cursor, TLC

CONSTANTS c1, c2

MCConsumers == {c1, c2}
MCSymmetry == Permutations(MCConsumers)

==============================================================================
