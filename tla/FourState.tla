----------------------------- MODULE FourState -----------------------------
(***************************************************************************)
(* What the operators of Verilog mean, over values that are functions from *)
(* bit numbers to 0, 1, z and x: the reference of Eval.                    *)
(***************************************************************************)
EXTENDS Groups, SequencesExt

Size(v)     == Cardinality(DOMAIN v)
Vague(v)    == \E i \in DOMAIN v : v[i] \in {Z, X}
Unknown(n)  == [i \in 0 .. n - 1 |-> X]
Extend(v, n) == [i \in 0 .. n - 1 |-> IF i \in DOMAIN v THEN v[i] ELSE ZERO]
Extract(v, high, low) == [i \in 0 .. high - low |-> v[low + i]]
Join(low, high) == [i \in 0 .. Size(low) + Size(high) - 1 |-> IF i < Size(low) THEN low[i] ELSE high[i - Size(low)]]

Invert(v)   == [i \in DOMAIN v |-> NotBit(v[i])]
(* Of <<width, value, inverted>>, the lowest first.                        *)
JoinAll(list) ==
  FoldLeft(LAMBDA v, e : Join(v, IF e[3] THEN Invert(e[2]) ELSE e[2]), [i \in {} |-> ZERO], list)

(* The numbers a value stands between, when x and z may be 0 or 1.         *)
Least(v) == MapThenSumSet(LAMBDA i : 2^i, {i \in DOMAIN v : v[i] = ONE})
Most(v)  == MapThenSumSet(LAMBDA i : 2^i, {i \in DOMAIN v : v[i] # ZERO})
Binary(n, k) == [i \in 0 .. k - 1 |-> (n \div 2^i) % 2]
AsSigned(n, k) == IF n >= 2^(k - 1) THEN n - 2^k ELSE n
Quotient(x, y) == LET q == (IF x < 0 THEN -x ELSE x) \div (IF y < 0 THEN -y ELSE y)
                  IN IF (x < 0) = (y < 0) THEN q ELSE -q

Bitwise(op, v, w) ==
  [i \in DOMAIN v |-> CASE op = "BIT_AND_EXPR" -> AndBit(v[i], w[i])
                        [] op = "BIT_OR_EXPR"  -> OrBit(v[i], w[i])
                        [] op = "BIT_XOR_EXPR" -> XorBit(v[i], w[i])
                        [] op = "BIT_XNOR_EXPR" -> NotBit(XorBit(v[i], w[i]))]

Arithmetic(op, v, w, signed) ==
  LET n == Size(v)
      x == IF signed THEN AsSigned(Least(v), n) ELSE Least(v)
      y == IF signed THEN AsSigned(Least(w), n) ELSE Least(w)
  IN IF Vague(v) \/ Vague(w) \/ (op \in {"DIV_EXPR", "MOD_EXPR"} /\ y = 0) THEN Unknown(n)
     ELSE Binary((CASE op = "PLUS_EXPR"  -> x + y
                    [] op = "MINUS_EXPR" -> x - y
                    [] op = "MULT_EXPR"  -> x * y
                    [] op = "DIV_EXPR"   -> Quotient(x, y)
                    [] op = "MOD_EXPR"   -> x - y * Quotient(x, y)) % 2^n, n)

Shifted(op, v, count) ==
  [i \in DOMAIN v |-> LET j == IF op = "LSHIFT_EXPR" THEN i - count ELSE i + count
                      IN IF j \in DOMAIN v THEN v[j] ELSE ZERO]

(* Truth values are bits.                                                  *)
Truth(v) == IF \E i \in DOMAIN v : v[i] = ONE THEN ONE ELSE IF Vague(v) THEN X ELSE ZERO
AllOf(v) == IF \E i \in DOMAIN v : v[i] = ZERO THEN ZERO ELSE IF Vague(v) THEN X ELSE ONE
Parity(v) == IF Vague(v) THEN X ELSE Cardinality({i \in DOMAIN v : v[i] = ONE}) % 2
Surely(yes, no) == IF yes THEN ONE ELSE IF no THEN ZERO ELSE X
Equal(v, w) == Surely(v = w /\ ~Vague(v), \E i \in DOMAIN v : {v[i], w[i]} = {ZERO, ONE})
LessThan(v, w, signed) ==
  IF signed
  THEN IF Vague(v) \/ Vague(w) THEN X
       ELSE Surely(AsSigned(Least(v), Size(v)) < AsSigned(Least(w), Size(w)),
                   AsSigned(Least(v), Size(v)) >= AsSigned(Least(w), Size(w)))
  ELSE Surely(Most(v) < Least(w), Least(v) >= Most(w))
=============================================================================
