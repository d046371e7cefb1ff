------------------------------- MODULE MCGates -------------------------------
(* Small circuits for TLC: a pair of gates that feed each other, a bus with *)
(* two drivers, a transmission gate, and a switch between two nets.        *)
EXTENDS Gates

CONSTANTS r1, r2, r3, a, b, c, g1, g2, g3

Circuit(k1, i1, o1, d1, k2, i2, o2, d2, k3, i3, o3, d3, types) ==
  [ kind  |-> [g \in GATE |-> CASE g = g1 -> k1 [] g = g2 -> k2 [] g = g3 -> k3],
    ins   |-> [g \in GATE |-> CASE g = g1 -> i1 [] g = g2 -> i2 [] g = g3 -> i3],
    outs  |-> [g \in GATE |-> CASE g = g1 -> o1 [] g = g2 -> o2 [] g = g3 -> o3],
    delay |-> [g \in GATE |-> CASE g = g1 -> d1 [] g = g2 -> d2 [] g = g3 -> d3],
    type  |-> types ]

Wires == [n \in NETS |-> "wire"]
Only(n, t) == [Wires EXCEPT ![n] = t]

(* Two gates that read each other; the first reads one register twice.     *)
Latch(k1, k2) == Circuit(k1, <<r1, b, r1>>, <<a>>, <<1>>, k2, <<r2, a>>, <<b>>, <<>>,
                         "pullup", <<>>, <<c>>, <<>>, Wires)
Latches == {Latch("and", "nor"), Latch("nand", "or"), Latch("xor", "xnor")}

(* A bus that two three-state gates drive, once beside a net nothing       *)
(* drives.                                                                 *)
Bus(k1, k2, outs, types) == Circuit(k1, <<r1, r2>>, <<a>>, <<1, 2>>, k2, <<r1, r2>>, <<a>>, <<2, 1, 1>>,
                                    "buf", <<a>>, outs, <<>>, types)
Buses == {Bus("bufif0", "notif1", <<b, c>>, Wires), Bus("bufif1", "notif0", <<b, c>>, Only(a, "wand")),
          Bus("nmos", "rpmos", <<b>>, [Only(a, "wor") EXCEPT ![c] = "tri0"])}

(* A transmission gate whose inverted output controls it.                            *)
Transmission == {Circuit("cmos", <<r1, r2, b>>, <<a>>, <<1, 2, 0>>, "not", <<a>>, <<b>>, <<>>,
                         "pulldown", <<>>, <<c>>, <<>>, Only(a, "tri1"))}

(* A switch between a net that is driven now and then and one with a pull. *)
Switches == {Circuit(k, IF k \in Tranif THEN <<a, b, r3>> ELSE <<a, b>>, <<a, b>>,
                     IF k \in Tranif THEN <<2>> ELSE <<>>,
                     "bufif1", <<r1, r2>>, <<a>>, <<1>>, "pullup", <<>>, <<b>>, <<>>, Wires) :
                k \in {"tran", "tranif0"}}

AllDesigns == Latches \cup Buses \cup Transmission \cup Switches
=============================================================================
