----------------------------- MODULE MCPliDelays -----------------------------
(* Three gates, the last of which is a UDP or drives several outputs, two  *)
(* user tasks or functions, and a few nodes and SCBs.                      *)
EXTENDS PliDelays

CONSTANTS g1, g2, g3, k1, k2, k3, k4, k5, i1, i2, b1, b2

SimpleGates == {g1, g2}
LongDelays  == {[timeh |-> 0, timel |-> t] : t \in 0..2}

(* Nothing tells the simple gates apart, nor the two user tasks.           *)
Alike == Permutations(SimpleGates) \cup Permutations({i1, i2})
=============================================================================
