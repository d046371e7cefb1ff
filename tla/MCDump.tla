------------------------------- MODULE MCDump -------------------------------
(* A few statements and nodes, and a small hierarchy:                      *)
(*   module t: a;  begin: k: c;  instance u: no variables;                 *)
(*                                 instance w: b;  instance y              *)
EXTENDS Dump

CONSTANTS s1, v1, v2, m1, m2, f1, k1, k2, k3

Blocks    == {"t", "k", "u", "w", "y"}
Variables == {"a", "b", "c"}
Instances == Blocks \ {"k"}
Top       == <<"t">>
Within    == [x \in Blocks |-> CASE x = "t" -> <<"k", "u">> [] x = "u" -> <<"y", "w">> [] OTHER -> <<>>]
Declares  == [x \in Blocks |-> CASE x = "t" -> <<"a">> [] x = "k" -> <<"c">> [] x = "w" -> <<"b">>
                                 [] OTHER -> <<>>]

(* $dumpvars;  $dumpvars (2, u);                                           *)
TwoCalls == v1 :> [level |-> 0, blocks |-> <<>>, vars |-> <<>>] @@
            v2 :> [level |-> 2, blocks |-> <<"u">>, vars |-> <<>>]
=============================================================================
