------------------------------- MODULE Groups -------------------------------
(***************************************************************************)
(* Values of four states per bit, packed into groups of two words: a bit   *)
(* is 0 (0, 0), 1 (1, 0), z (0, 1) or x (1, 1) in aval and bval.  A word   *)
(* is the set of its bits that are one, so that &, | and ~ of C are set    *)
(* operations; the operators here work on one group, as the bodies of the  *)
(* loops of eval do.                                                       *)
(***************************************************************************)
EXTENDS Integers, FiniteSetsExt

CONSTANT BITS                   \* BITS_IN_GROUP

ASSUME GroupsAssumption == BITS \in Nat \ {0}

ZERO == 0
ONE  == 1
Z    == 2
X    == 3                       \* enum logical_value: aval + 2 * bval
Values == {ZERO, ONE, Z, X}

Pos   == 0 .. BITS - 1
Bit   == SUBSET Pos
Group == [a : Bit, b : Bit]

Zeros == [a |-> {}, b |-> {}]
AllX  == [a |-> Pos, b |-> Pos]

(* The index of the last group of n bits, and the mask of its bits.        *)
bits_to_groups(n) == IF n = 0 THEN 0 ELSE (n - 1) \div BITS
mask_right(n)  == 0 .. n - 1
mask_right1(n) == IF n % BITS = 0 THEN Pos ELSE mask_right(n % BITS)

Not(w)    == Pos \ w
Xor(v, w) == (v \ w) \cup (w \ v)
Shl(w, k) == {i + k : i \in w} \cap Pos
Shr(w, k) == {i - k : i \in w} \cap Pos

ValueAt(g, i) == (IF i \in g.a THEN 1 ELSE 0) + (IF i \in g.b THEN 2 ELSE 0)
GroupOf(w)    == [a |-> w, b |-> {}]

(* Words as numbers.                                                       *)
W    == 2^BITS
Num  == [w \in Bit |-> MapThenSumSet(LAMBDA i : 2^i, w)]
Word == [n \in 0 .. W - 1 |-> {i \in Pos : (n \div 2^i) % 2 = 1}]
Wrap(n) == n % W

-----------------------------------------------------------------------------
(* The bitwise operators.  Without x and z only aval is touched.           *)
Known(g, h) == g.b = {} /\ h.b = {}

NotGroup(g) == [g EXCEPT !.a = Not(@) \cup g.b]

AndGroup(g, h) ==
  IF Known(g, h) THEN [g EXCEPT !.a = @ \cap h.a]
  ELSE LET both == (g.a \cup g.b) \cap (h.a \cup h.b)
       IN [a |-> both, b |-> both \cap (g.b \cup h.b)]
OrGroup(g, h) ==
  IF Known(g, h) THEN [g EXCEPT !.a = @ \cup h.a]
  ELSE [a |-> g.a \cup h.a \cup g.b \cup h.b,
        b |-> (h.b \ g.a) \cup (g.b \ h.a) \cup (g.b \cap h.b)]
XorGroup(g, h) ==
  IF Known(g, h) THEN [g EXCEPT !.a = Xor(@, h.a)]
  ELSE [a |-> Xor(g.a, h.a) \cup g.b \cup h.b, b |-> g.b \cup h.b]
XnorGroup(g, h) ==
  IF Known(g, h) THEN [g EXCEPT !.a = Xor(@, Not(h.a))]
  ELSE [a |-> Not(Xor(g.a, h.a)) \cup g.b \cup h.b, b |-> g.b \cup h.b]

(* Both arms of ?: when the condition is unknown.                          *)
MergeGroup(g, h) ==
  [a |-> g.a \cup h.a \cup g.b \cup h.b, b |-> g.b \cup h.b \cup Xor(g.a, h.a)]

(* Both words of a group at once.                                          *)
ShlGroup(g, k)       == [a |-> Shl(g.a, k), b |-> Shl(g.b, k)]
ShrGroup(g, k)       == [a |-> Shr(g.a, k), b |-> Shr(g.b, k)]
AndMask(g, w)        == [a |-> g.a \cap w, b |-> g.b \cap w]
Either(g, h)         == [a |-> g.a \cup h.a, b |-> g.b \cup h.b]
Keeping(new, old, w) == Either(AndMask(new, Not(w)), AndMask(old, w))

-----------------------------------------------------------------------------
(* What Verilog says of one bit.                                           *)
NotBit(v) == CASE v = ZERO -> ONE [] v = ONE -> ZERO [] OTHER -> X
AndBit(v, w) == IF v = ZERO \/ w = ZERO THEN ZERO ELSE IF v = ONE /\ w = ONE THEN ONE ELSE X
OrBit(v, w)  == IF v = ONE \/ w = ONE THEN ONE ELSE IF v = ZERO /\ w = ZERO THEN ZERO ELSE X
XorBit(v, w) == IF v \in {Z, X} \/ w \in {Z, X} THEN X ELSE IF v = w THEN ZERO ELSE ONE
MergeBit(v, w) == IF v = w /\ v \in {ZERO, ONE} THEN v ELSE X
=============================================================================
