---------------------------- MODULE MCLuaToBson ----------------------------
(***************************************************************************)
(* LuaToBson for TLC: three tables, each empty, an array or an object of   *)
(* up to two entries, with every way to lead to one another; some count as *)
(* arrays though a key is a fraction.                                      *)
(***************************************************************************)
EXTENDS LuaToBson, TLC

CONSTANTS t1, t2, t3

MCTables == {t1, t2, t3}
MCSymmetry == Permutations(MCTables)

E(k, v) == [key |-> k, val |-> v]
A == <<"string", "a">>
Yes == <<"boolean", "true">>
OneAndAHalf == <<"number", 3>>
TwoAndAHalf == <<"number", 5>>

MCContents ==
  {<< >>}
  \cup {<<E(A, v)>> : v \in {"unsupported", "invalid"} \cup MCTables}
  \cup {<<E(Yes, v)>> : v \in MCTables}
  \cup {<<E(Num(1), v), E(Num(2), w)>> : v, w \in {"scalar"} \cup MCTables}
  \cup {<<E(Num(2), v), E(A, w)>> : v, w \in {"scalar"} \cup MCTables}
  \cup {<<E(OneAndAHalf, v)>> : v \in MCTables}
  \cup {<<E(Num(1), v), E(TwoAndAHalf, w)>> : v, w \in MCTables}

============================================================================
