--------------------------- MODULE MCTimingChecks ---------------------------
(***************************************************************************)
(* One check of each kind over a data bus of two bits and a clock; $hold   *)
(* and $width notify one register, $setup has one of its own.              *)
(***************************************************************************)
EXTENDS TimingChecks

CONSTANTS d, ck, su, ho, wi, pe, sk, re, sh, r1, r2

Expr(code, decl, msb, lsb) == [code |-> code, decl |-> decl, msb |-> msb, lsb |-> lsb]
Event(expr, edge, cond) == [expr |-> expr, edge |-> edge, cond |-> cond]
Statement(kind, event1, event2, notifierReg) ==
  [kind |-> kind, event1 |-> event1, event2 |-> event2, notifier |-> notifierReg]

Data(edge)  == Event(Expr("bit", d, 0, 0), edge, NULL)
Bus(edge)   == Event(Expr("vector", d, 0, 1), edge, NULL)
Clock(edge) == Event(Expr("scalar", ck, 0, 0), edge, NULL)
Gated(edge) == Event(Expr("scalar", ck, 0, 0), edge, <<d, 1>>)

Widths == [n \in DECL |-> IF n = d THEN 2 ELSE 1]
Vectors == [n \in DECL |-> IF n = d THEN {<<0, 0>>, <<1, 0>>, <<0, 1>>} ELSE {<<0>>, <<1>>, <<3>>}]

AllKinds == [s \in STATEMENT |->
  CASE s = su -> Statement("setup", Data(AllEdges), Clock(Posedge), r1)
    [] s = ho -> Statement("hold", Clock(Posedge), Bus(AllEdges), r2)
    [] s = wi -> Statement("width", Gated(Posedge), NULL, r2)
    [] s = pe -> Statement("period", Clock({<<ZERO, ONE>>}), NULL, NULL)
    [] s = sk -> Statement("skew", Clock(Posedge), Data(Posedge), NULL)
    [] s = re -> Statement("recovery", Data(Negedge), Gated(Posedge), NULL)
    [] s = sh -> Statement("setuphold", Clock(Posedge), Data(AllEdges), NULL)]

FirstLimits == [s \in STATEMENT |-> <<2, 1>>]
LaterLimits == {[s \in STATEMENT |-> IF s = sk THEN <<-1, 0>> ELSE <<1, 0>>]}
=============================================================================
