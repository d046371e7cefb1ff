------------------------------- MODULE MCUdp -------------------------------
(***************************************************************************)
(* A multiplexer, a flip-flop with a reset, a latch with literal inputs,   *)
(* and all sequential primitives of one input and two rows from a few      *)
(* entries.                                                                *)
(***************************************************************************)
EXTENDS Udp

(* An entry of one character.                                              *)
Same(c) == <<c, c>>
Row(cs) == [i \in DOMAIN cs |-> Same(cs[i])]
Design(n, reg, init, rows, constants) ==
  [inputs |-> n, reg |-> reg, initial |-> init, rows |-> rows, constants |-> constants]

Multiplexer == Design(3, FALSE, X,
  << Row(<<"0", "1", "?", "1">>), Row(<<"0", "0", "?", "0">>), Row(<<"1", "?", "1", "1">>),
     Row(<<"1", "?", "0", "0">>), Row(<<"x", "0", "0", "0">>), Row(<<"x", "1", "1", "1">>) >>, <<X, X, X>>)
Selected == [Multiplexer EXCEPT !.constants = <<ONE, ZERO, X>>]

FlipFlop == Design(3, TRUE, ZERO,
  << Row(<<"r", "0", "0", "?", "0">>), Row(<<"r", "1", "0", "?", "1">>),
     <<<<"0", "x">>, Same("b"), Same("0"), Same("?"), Same("-")>>, Row(<<"n", "?", "0", "?", "-">>),
     Row(<<"?", "*", "0", "?", "-">>), Row(<<"?", "?", "1", "?", "0">>),
     Row(<<"?", "b", "f", "?", "-">>) >>, <<X, X, X>>)

Latch == Design(2, TRUE, X,
  << Row(<<"1", "0", "?", "0">>), Row(<<"1", "1", "?", "1">>), Row(<<"0", "?", "b", "-">>),
     <<Same("p"), Same("b"), Same("x"), Same("0")>> >>, <<X, ONE>>)

FirstEntry == {Same("0"), Same("r"), Same("f"), Same("p"), Same("n"), Same("*"), Same("x"),
               <<"1", "0">>, <<"!", "0">>, <<"%", "x">>, <<"x", "?">>, <<"!", "b">>}
SmallRow == {<<c, Same(q), Same(o)>> : c \in FirstEntry, q \in {"?", "1"}, o \in {"0", "1", "-"}}
Small == {Design(1, TRUE, ZERO, <<r, s>>, <<X>>) : r, s \in SmallRow}

Designs == Small \cup {Multiplexer, Selected, FlipFlop, Latch}
=============================================================================
