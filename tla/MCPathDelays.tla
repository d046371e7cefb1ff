---------------------------- MODULE MCPathDelays ----------------------------
(***************************************************************************)
(* A gate with two paths, from a and from b, and a gate without; the net   *)
(* m has no driver, and the path of n1 is not reached: k is an assignment. *)
(***************************************************************************)
EXTENDS PathDelays

CONSTANTS a, b, g1, g2, n3, m, k, n1, as

DriversOf == [x \in NET |-> CASE x = n3 -> <<g1>> [] x = m -> <<>> [] x = k -> <<as>> [] x = n1 -> <<g2>>]
PortsOf == [g \in GATE |-> [kind |-> "unidirectional", outputs |-> 1]]
ThePaths == [p \in {1, 2, 3} |->
  CASE p = 1 -> [inputs |-> <<a>>, outputs |-> <<m, n3>>]
    [] p = 2 -> [inputs |-> <<a, b>>, outputs |-> <<n3, k>>]
    [] p = 3 -> [inputs |-> <<b>>, outputs |-> <<n1>>]]
InOrder == <<1, 2, 3>>
TheDelays == {<< <<2, 1>>, <<1>>, <<1>> >>, << <<1, 2, 3>>, <<0, 1, 3, 2, 2, 1>>, <<1>> >>}
=============================================================================
