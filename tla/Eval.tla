-------------------------------- MODULE Eval --------------------------------
(***************************************************************************)
(* The evaluator of expressions: a machine with a stack of operands in one *)
(* memory, whose program is the postfix code that elaboration makes.  An   *)
(* operand has as many groups as its width needs; the bits of its last     *)
(* group above the width are left as the operators happen to leave them.   *)
(* One step is one node of the code.                                       *)
(***************************************************************************)
EXTENDS Parts, MultDiv, SequencesExt

CONSTANTS
  Samples,      \* width |-> the values a literal of that width is given
  Few,          \* the same, for the literals after the first operator
  Contexts,     \* the widths that the context of a reference or condition may have
  Decls,        \* the values of the declared vector
  DECL,         \* its width; also the number of words of the array, which are its parts
  LSB,          \* the lowest index of the vector and of the array
  Lists,        \* the members of concatenations, each <<width, value, inverted>>
  Repeats,      \* <<members, count>> of repetitions
  MaxTokens     \* bound: the nodes of one expression

VARIABLES
  mem, R,           \* groups, and the stack of pointers to operands
  R_nbits,          \* width of the operand on top
  widths,           \* widths of all operands, as elaboration noted them in the code
  attrs,            \* TREE_INTEGER_ATTR of their nodes, noted there too
  is_integer,       \* what the operators go by instead
  tokens, t
operands == <<mem, R, R_nbits, widths, attrs>>
vars == <<operands, is_integer, tokens, t>>

R_ngroups == bits_to_groups(R_nbits)
R_mask    == mask_right1(R_nbits)

(* Storage at address 0 of the vector and, over it, of an array of WORD    *)
(* bits per word; below the expression lies the operand of another one.    *)
WORD  == BITS
BASE  == bits_to_groups(DECL) + 2
START == BASE + 2
SIZE  == START + 24
Stale == [a |-> {1, 3} \cap Pos, b |-> {0, 1} \cap Pos]

(* Values are functions from bit numbers; literals in groups.              *)
GroupsOf(v, n) ==
  [g \in 0 .. bits_to_groups(n) |->
     LET at(vs) == {i \in Pos : g * BITS + i \in DOMAIN v /\ v[g * BITS + i] \in vs}
     IN [a |-> at({ONE, X}), b |-> at({Z, X})]]
ValueOf(m, a, n) == [i \in 0 .. n - 1 |-> ValueAt(m[a + i \div BITS], i % BITS)]

Put(m, a, gs)     == [i \in {a + k : k \in DOMAIN gs} |-> gs[i - a]] @@ m
Fill(m, a, n, g)  == [i \in a .. a + n |-> g] @@ m
AvalsOf(m, a, n)  == [i \in 0 .. n |-> Num[m[a + i].a]]
AnyB(m, a, n)     == \E i \in a .. a + n : m[i].b # {}

-----------------------------------------------------------------------------
(* The stack of pointers.  The last is free; Arg(1) is the top operand.    *)
Arg(k)  == R[Len(R) - k]
Depth   == Len(widths) - 1
Outer(k) == SubSeq(widths, 1, Len(widths) - k)
Operands == Depth >= 2 /\ R_nbits = widths[Len(widths) - 1]   \* two of the same width
Pop(k)  == SubSeq(R, 1, Len(R) - k)
Push(r, n) == Append(r, Last(r) + bits_to_groups(n) + 1)

Attr(k) == attrs[Len(attrs) + 1 - k]
Rest(k) == SubSeq(attrs, 1, Len(attrs) - k)

(* Every call of eval sets is_integer to the attribute of the first node   *)
(* of its code; so a node that has an operand evaluated by a call of its   *)
(* own (Nested) leaves that one's behind for the rest of the expression.   *)
Counted(op, arg) == tokens < MaxTokens /\ tokens' = tokens + 1 /\ t' = [op |-> op, arg |-> arg]
Node(op, arg) == Counted(op, arg) /\ UNCHANGED is_integer
Leaf(op, arg, integer) == Counted(op, arg) /\ is_integer' = IF tokens = 0 THEN integer ELSE is_integer
Nested(op, arg, integer) == Counted(op, arg) /\ is_integer' = integer

Loaded(m, n, integer) ==
  /\ mem' = m
  /\ R' = Push(R, n)
  /\ R_nbits' = n
  /\ widths' = Append(widths, n) /\ attrs' = Append(attrs, integer)

(* An operator of two operands whose result takes the place of the first.  *)
Replaced(m, integer) ==
  /\ mem' = m
  /\ R' = Pop(1)
  /\ widths' = Outer(1) /\ attrs' = Append(Rest(2), integer)
  /\ UNCHANGED R_nbits

Result(k, m, n, integer) ==
  /\ mem' = m
  /\ R' = Push(Pop(k), n)
  /\ R_nbits' = n
  /\ widths' = Append(Outer(k), n) /\ attrs' = Append(Rest(k), integer)

(* condition_done: a scalar, extended with zeros.                          *)
Scalar(cond) == [i \in {0} |-> cond]
condition_done_Keep(m, k, cond, n, integer) ==
  /\ mem' = Put(m, Arg(k), GroupsOf(Scalar(cond), n))
  /\ R' = IF k = 2 THEN Pop(1) ELSE R
  /\ R_nbits' = n
  /\ widths' = Append(Outer(k), n) /\ attrs' = Append(Rest(k), integer)
condition_done(m, k, cond, n, integer) == Result(k, Put(m, Arg(k), GroupsOf(Scalar(cond), n)), n, integer)

-----------------------------------------------------------------------------
(* Loads.  A literal, a parameter or a scalar is extended with zeros, and  *)
(* so is a vector whose context is wider (SHADOW_REF).                     *)
BIT_CST(v, n, integer) == Leaf("BIT_CST", v, integer) /\ Loaded(Put(mem, Last(R), GroupsOf(v, n)), n, integer)

REG_VECTOR_DECL(n) ==
  /\ Leaf("REG_VECTOR_DECL", n, FALSE)
  /\ Loaded(Put(mem, Last(R), [g \in 0 .. bits_to_groups(n) |->
                                 IF g < bits_to_groups(DECL) THEN mem[g]
                                 ELSE IF g = bits_to_groups(DECL) THEN AndMask(mem[g], mask_right1(DECL))
                                 ELSE Zeros]), n, FALSE)

(* A part of the vector.  In a wider context the loop that fills with      *)
(* zeros clears only aval, and bval of the second group instead.           *)
PART_REF(high, low, n) ==
  LET p == cook_part_ref(high, low)
      m == part_rref(mem, Last(R), low \div BITS, p, bits_to_groups(n))
      above == Last(R) + p.ngroups + 1 .. Last(R) + bits_to_groups(n)
      zeroed == [i \in above |-> [m[i] EXCEPT !.a = {}]] @@ m
  IN /\ Leaf("PART_REF", <<high, low>>, FALSE)
     /\ Loaded(IF above = {} THEN m ELSE [zeroed EXCEPT ![Last(R) + 1].b = {}], n, FALSE)

(* The place of index i, counted from the lowest or from the highest one;  *)
(* -1 outside.                                                             *)
Place(i, n, down) ==
  IF i \notin LSB .. LSB + n - 1 THEN -1 ELSE IF down THEN i - LSB ELSE LSB + n - 1 - i

BIT_REF(down, n) ==
  LET index == mem[Arg(1)]
      place == Place(Num[index.a], DECL, down)
      cond  == IF index.b # {} \/ place < 0 THEN X ELSE ValueAt(mem[place \div BITS], place % BITS)
  IN /\ Depth >= 1 /\ R_ngroups = 0
     /\ Node("BIT_REF", down)
     /\ condition_done(mem, 1, cond, n, FALSE)

ARRAY_REF(n) ==
  LET index == AndMask(mem[Arg(1)], R_mask)
      words == bits_to_groups(DECL)
      place == Place(Num[index.a], words, TRUE)
      word  == IF index.b # {} \/ place < 0 THEN AllX ELSE mem[place]
  IN /\ Depth >= 1 /\ R_ngroups = 0
     /\ Node("ARRAY_REF", n)
     /\ Result(1, Put(mem, Arg(1), [g \in 0 .. bits_to_groups(n) |-> IF g = 0 THEN word ELSE Zeros]), n, FALSE)

(* Each member is evaluated above the result and copied to its place.      *)
Member(m, a, e) ==
  LET gs == GroupsOf(e[2], e[1])
  IN Put(m, a, [g \in DOMAIN gs |-> IF e[3] THEN NotGroup(gs[g]) ELSE gs[g]])
Width(list) == FoldLeft(LAMBDA n, e : n + e[1], 0, list)
Gathered(m, list, g, n) ==
  LET scratch == g + bits_to_groups(n) + 1
      step[i \in 0 .. Len(list)] ==
        IF i = 0 THEN [m |-> Fill(m, g, bits_to_groups(n), Zeros), at |-> g, nbits |-> 0]
        ELSE LET s == step[i - 1]
                 p == cook_part_ref(s.nbits + list[i][1] - 1, s.nbits)
             IN [m     |-> part_lref(Member(s.m, scratch, list[i]), s.at, scratch, p),
                 at    |-> s.at + p.next,
                 nbits |-> s.nbits + list[i][1]]
  IN step[Len(list)].m
CONCAT_REF(list, n) ==
  /\ Leaf("CONCAT_REF", list, FALSE)
  /\ Loaded(Gathered(mem, list, Last(R), n), n, FALSE)

CONCAT_REP_REF(list, count, n) ==
  LET size == Width(list)
      g    == Last(R)
      one  == Gathered(mem, list, g, n)
      bare == [i \in g + bits_to_groups(size) + 1 .. g + bits_to_groups(n) |-> Zeros] @@ one
      copied(kept) == FoldLeft(LAMBDA m, k : copy_left(m, size, count + 1 - k, g, bits_to_groups(n), kept),
                               bare, [k \in 1 .. count - 1 |-> k])
  IN /\ Leaf("CONCAT_REP_REF", <<list, count>>, FALSE)
     /\ \E kept \in BOOLEAN : Loaded(copied(kept), n, FALSE)

-----------------------------------------------------------------------------
(* ~ & | ^ ~^                                                              *)
BIT_NOT_EXPR ==
  /\ Depth >= 1
  /\ Node("BIT_NOT_EXPR", 1)
  /\ mem' = Put(mem, Arg(1), [g \in 0 .. R_ngroups |-> NotGroup(mem[Arg(1) + g])])
  /\ UNCHANGED <<R, R_nbits, widths, attrs>>

BitwiseGroup(op, g, h) ==
  CASE op = "BIT_AND_EXPR" -> AndGroup(g, h)
    [] op = "BIT_OR_EXPR"  -> OrGroup(g, h)
    [] op = "BIT_XOR_EXPR" -> XorGroup(g, h)
    [] op = "BIT_XNOR_EXPR" -> XnorGroup(g, h)
BitwiseExprs == {"BIT_AND_EXPR", "BIT_OR_EXPR", "BIT_XOR_EXPR", "BIT_XNOR_EXPR"}
BitwiseExpr(op) ==
  /\ Operands
  /\ Node(op, 2)
  /\ Replaced(Put(mem, Arg(2), [g \in 0 .. R_ngroups |-> BitwiseGroup(op, mem[Arg(2) + g], mem[Arg(1) + g])]), Attr(1) /\ Attr(2))

(* & ~& | ~| : the first group that decides ends the loop, and the test of *)
(* the last group is made on the group that the loop has reached.          *)
ReduceExprs == {"AND_REDUCE_EXPR", "NAND_REDUCE_EXPR", "OR_REDUCE_EXPR", "NOR_REDUCE_EXPR"}
Inverse1(v, inverted) == IF inverted THEN NotBit(v) ELSE v
ReduceExpr(op) ==
  LET g(i)    == mem[Arg(1) + i]
      conj    == op \in {"AND_REDUCE_EXPR", "NAND_REDUCE_EXPR"}
      hit(h)  == IF conj THEN Not(h.a \cup h.b) ELSE h.a \ h.b
      reached == Min({R_ngroups} \cup {i \in 0 .. R_ngroups - 1 : hit(g(i)) # {}})
      cond    == IF hit(g(reached)) \cap R_mask # {} THEN (IF conj THEN ZERO ELSE ONE)
                 ELSE IF g(reached).b \cap R_mask # {} THEN X
                 ELSE IF reached < R_ngroups THEN (IF conj THEN ZERO ELSE ONE)
                 ELSE IF \E i \in 0 .. R_ngroups - 1 : g(i).b # {} THEN X
                 ELSE IF conj THEN ONE ELSE ZERO
  IN /\ Depth >= 1
     /\ Node(op, 1)
     /\ \E n \in Contexts : condition_done(mem, 1, Inverse1(cond, op \in {"NAND_REDUCE_EXPR", "NOR_REDUCE_EXPR"}), n, Attr(1))

XorReduceExpr(op) ==
  LET g(i) == IF i = R_ngroups THEN AndMask(mem[Arg(1) + i], R_mask) ELSE mem[Arg(1) + i]
      ones == MapThenSumSet(LAMBDA i : Cardinality(g(i).a), 0 .. R_ngroups)
      cond == IF \E i \in 0 .. R_ngroups : g(i).b # {} THEN X ELSE ones % 2
  IN /\ Depth >= 1
     /\ Node(op, 1)
     /\ \E n \in Contexts : condition_done(mem, 1, Inverse1(cond, op = "XNOR_REDUCE_EXPR"), n, Attr(1))

-----------------------------------------------------------------------------
(* ! && || and the conditions of statements (DETERMINE_TRUE_COND): an      *)
(* unknown bit of a lower group hides the known ones of all lower groups.  *)
TruthOf_LowOnly(m, a, n) == IF m[a].b # {} THEN X ELSE IF m[a].a # {} THEN ONE ELSE ZERO
TruthOf(m, a, n) ==
  LET last == AndMask(m[a + bits_to_groups(n)], mask_right1(n))
      low  == {m[i] : i \in a .. a + bits_to_groups(n) - 1}
  IN IF last.b # {} THEN X
     ELSE IF last.a # {} THEN ONE
     ELSE IF \E g \in low : g.b # {} THEN X
     ELSE IF \E g \in low : g.a # {} THEN ONE ELSE ZERO

TRUTH_NOT_EXPR ==
  /\ Depth >= 1
  /\ Node("TRUTH_NOT_EXPR", 1)
  /\ \E n \in Contexts : condition_done(mem, 1, NotBit(TruthOf(mem, Arg(1), R_nbits)), n, Attr(1))

(* The right operand, as wide as the left, is evaluated only if the left   *)
(* one does not decide.                                                    *)
TruthIfExpr(op, v, integer, n) ==
  LET decisive == IF op = "TRUTH_ORIF_EXPR" THEN ONE ELSE ZERO
      left     == TruthOf(mem, Arg(1), R_nbits)
      m        == Put(mem, Arg(1), GroupsOf(v, R_nbits))
      right    == TruthOf(m, Arg(1), R_nbits)
  IN /\ Depth >= 1
     /\ \/ /\ left = decisive
           /\ Node(op, v)
           /\ condition_done(mem, 1, left, n, FALSE)
        \/ /\ left # decisive
           /\ Nested(op, v, integer)
           /\ condition_done(m, 1, IF right = NotBit(decisive) THEN left ELSE right, n, FALSE)

(* == != === !==                                                           *)
EqualityExprs == {"EQ_EXPR", "NE_EXPR", "EQ_CASE_EXPR", "NE_CASE_EXPR"}
CondOfEquality(op) ==
  LET g(k, i)   == mem[Arg(k) + i]
      low       == 0 .. R_ngroups - 1
      last(k)   == AndMask(g(k, R_ngroups), R_mask)
      vague(i)  == g(1, i).b # {} \/ g(2, i).b # {}
      ones(h)   == h.a \ h.b
      lastVague == last(1).b # {} \/ last(2).b # {}
  IN CASE op = "EQ_EXPR" ->
            IF \E i \in low : ~vague(i) /\ g(1, i).a # g(2, i).a THEN ZERO
            ELSE IF (\E i \in low : vague(i)) \/ lastVague THEN X
            ELSE IF last(1).a # last(2).a THEN ZERO ELSE ONE
       [] op = "NE_EXPR" ->
            IF \E i \in low : ones(g(1, i)) # ones(g(2, i)) THEN ONE
            ELSE IF lastVague THEN X
            ELSE IF last(1).a # last(2).a THEN ONE
            ELSE IF \E i \in low : vague(i) THEN X ELSE ZERO
       [] op = "EQ_CASE_EXPR" ->
            IF (\A i \in low : g(1, i) = g(2, i)) /\ last(1) = last(2) THEN ONE ELSE ZERO
       [] op = "NE_CASE_EXPR" ->
            IF (\A i \in low : g(1, i) = g(2, i)) /\ last(1) = last(2) THEN ZERO ELSE ONE
EqualityExpr(op) ==
  /\ Operands
  /\ Node(op, 2)
  /\ \E n \in Contexts : condition_done(mem, 2, CondOfEquality(op), n, FALSE)

(* < <= > >= : the last group first, then down.  Integers are compared as  *)
(* signed words, and their result keeps the width of a word.               *)
RelationalExprs == {"LT_EXPR", "LE_EXPR", "GT_EXPR", "GE_EXPR"}
Signed(w) == IF Num[w] >= W \div 2 THEN Num[w] - W ELSE Num[w]
Compare(op, x, y) ==
  CASE op = "LT_EXPR" -> x < y [] op = "LE_EXPR" -> x <= y [] op = "GT_EXPR" -> x > y [] op = "GE_EXPR" -> x >= y
CondOfRelation(op) ==
  LET g(k, i)   == IF i = R_ngroups THEN AndMask(mem[Arg(k) + i], R_mask) ELSE mem[Arg(k) + i]
      decides   == {i \in 0 .. R_ngroups : g(1, i).b # {} \/ g(2, i).b # {} \/ g(1, i).a # g(2, i).a}
      i         == Max(decides)
  IN IF decides = {} THEN Flag(Compare(op, 0, 0))
     ELSE IF g(1, i).b # {} \/ g(2, i).b # {} THEN X
     ELSE Flag(Compare(op, Num[g(2, i).a], Num[g(1, i).a]))
RelationalExpr(op) ==
  /\ Operands
  /\ Node(op, 2)
  /\ IF ~is_integer THEN \E n \in Contexts : condition_done(mem, 2, CondOfRelation(op), n, FALSE)
     ELSE LET g1 == mem[Arg(2)]
              g2 == mem[Arg(1)]
          IN Replaced([mem EXCEPT ![Arg(2)] =
               IF ~Known(g1, g2) THEN AllX
               ELSE [a |-> IF Compare(op, Signed(g1.a), Signed(g2.a)) THEN {0} ELSE {}, b |-> {}]], FALSE)

-----------------------------------------------------------------------------
(* + - : the carry is found by comparing words.                            *)
AnyX(k)     == AnyB(mem, Arg(k), R_ngroups - 1) \/ mem[Arg(k) + R_ngroups].b \cap R_mask # {}
AvalGroups(m, a, ns) == Put(m, a, [i \in DOMAIN ns |-> [m[a + i] EXCEPT !.a = Word[ns[i]]]])
KnownGroups(m, a, ns) == Put(m, a, [i \in DOMAIN ns |-> GroupOf(Word[ns[i]])])
SumOf_NoRipple(x, y, carry) == [i \in DOMAIN x |-> Wrap(x[i] + y[i] + (IF i = 0 THEN carry ELSE Flag(x[i - 1] > W - 1 - y[i - 1])))]
SumOf(x, y, carry) ==
  LET c[i \in DOMAIN x] ==
        IF i = 0 THEN carry
        ELSE LET sum == Wrap(x[i - 1] + c[i - 1])
             IN Flag((sum = 0 /\ c[i - 1] = 1) \/ sum > W - 1 - y[i - 1])
  IN [i \in DOMAIN x |-> Wrap(x[i] + y[i] + c[i])]
AdditiveExpr(op) ==
  LET x == AvalsOf(mem, Arg(2), R_ngroups)
      y == AvalsOf(mem, Arg(1), R_ngroups)
      ones == [i \in DOMAIN y |-> W - 1 - y[i]]
  IN /\ Operands
     /\ Node(op, 2)
     /\ Replaced(IF AnyX(1) \/ AnyX(2) THEN Fill(mem, Arg(2), R_ngroups, AllX)
                 ELSE AvalGroups(mem, Arg(2), IF op = "PLUS_EXPR" THEN SumOf(x, y, 0) ELSE SumOf(x, ones, 1)), Attr(1) /\ Attr(2))

(* * / % : every bit counts, also those above the width.  Division by zero *)
(* is unknown; C's division of integers traps on overflow, and by a word   *)
(* of zeros of a wider divisor.                                            *)
Vague == AnyB(mem, Arg(1), R_ngroups) \/ AnyB(mem, Arg(2), R_ngroups)
MULT_EXPR ==
  LET x == AvalsOf(mem, Arg(2), R_ngroups)
      y == AvalsOf(mem, Arg(1), R_ngroups)
  IN /\ Operands
     /\ Node("MULT_EXPR", 2)
     /\ Replaced(IF Vague THEN Fill(mem, Arg(2), R_ngroups, AllX)
                 ELSE KnownGroups(mem, Arg(2), IF R_ngroups = 0 THEN [i \in {0} |-> Wrap(x[0] * y[0])]
                                               ELSE GroupMult(x, y, R_ngroups + 1)), Attr(1) /\ Attr(2))

Abs(n)     == IF n < 0 THEN -n ELSE n
Trunc(x, y) == IF (x < 0) = (y < 0) THEN Abs(x) \div Abs(y) ELSE -(Abs(x) \div Abs(y))
DivideExpr(op) ==
  LET x == AvalsOf(mem, Arg(2), R_ngroups)
      y == AvalsOf(mem, Arg(1), R_ngroups)
      words == R_ngroups + 1
      v == Signed(Word[x[0]])
      w == Signed(Word[y[0]])
      divided == IF is_integer THEN [quot |-> [i \in {0} |-> Trunc(v, w) % W], rem |-> [i \in {0} |-> (v - w * Trunc(v, w)) % W]]
                 ELSE IF R_ngroups = 0 THEN [quot |-> [i \in {0} |-> x[0] \div y[0]], rem |-> [i \in {0} |-> x[0] % y[0]]]
                 ELSE GroupDiv(x, y, words)
  IN /\ Operands
     /\ is_integer => /\ ~(w = -1 /\ v = -(W \div 2))
                      /\ w = 0 => \A i \in DOMAIN y : y[i] = 0
     /\ Node(op, 2)
     /\ Replaced(IF Vague \/ \A i \in DOMAIN y : y[i] = 0 THEN Fill(mem, Arg(2), R_ngroups, AllX)
                 ELSE KnownGroups(mem, Arg(2), IF op = "DIV_EXPR" THEN divided.quot ELSE divided.rem), Attr(1) /\ Attr(2))

(* Unary - : the carry into a group is that the group below became zero,   *)
(* and only the lower groups are tested for unknown bits.                  *)
NEGATE_EXPR ==
  LET x == AvalsOf(mem, Arg(1), R_ngroups)
      neg[i \in DOMAIN x] == Wrap(W - 1 - x[i] + (IF i = 0 THEN 1 ELSE Flag(neg[i - 1] = 0)))
      lower == 0 .. (IF R_ngroups = 0 THEN 0 ELSE R_ngroups - 1)
      m     == AvalGroups(mem, Arg(1), neg)
      last  == Arg(1) + R_ngroups
  IN /\ Depth >= 1
     /\ Node("NEGATE_EXPR", 1)
     /\ mem' = IF \E i \in lower : mem[Arg(1) + i].b # {} THEN Fill(mem, Arg(1), R_ngroups, AllX)
               ELSE [m EXCEPT ![last].a = @ \cap R_mask]
     /\ UNCHANGED <<R, R_nbits, widths, attrs>>

-----------------------------------------------------------------------------
(* << >> by the first word of the count, as a signed number: a negative    *)
(* count turns to the other loop, with the pointer g1 of its own.          *)
ShiftLeft(m, g1, bits, nbits) ==
  LET n   == bits_to_groups(nbits)
      up  == bits \div BITS
      k   == bits % BITS
      low == IF up <= n THEN g1 - n + up ELSE g1 + 1
      carry(h)   == IF k = 0 THEN Zeros ELSE ShrGroup(h, BITS - k)
      shifted(i) == IF i = low THEN ShlGroup(m[i - up], k) ELSE Either(ShlGroup(m[i - up], k), carry(m[i - up - 1]))
  IN [i \in low - up .. g1 |-> IF i < low THEN Zeros ELSE shifted(i)] @@ m
ShiftRight(m, g1, bits, nbits) ==
  LET n    == bits_to_groups(nbits)
      down == bits \div BITS
      k    == bits % BITS
      last == g1 + (IF n > down THEN n - down ELSE 0)
      carry(h)   == IF k = 0 THEN Zeros ELSE ShlGroup(h, BITS - k)
      shifted(i) == IF i = last THEN ShrGroup(AndMask(m[i + down], mask_right1(nbits)), k)
                    ELSE Either(ShrGroup(m[i + down], k), carry(m[i + down + 1]))
  IN [i \in g1 .. last + down |-> IF i > last THEN Zeros ELSE shifted(i)] @@ m

ShiftExprs == {"LSHIFT_EXPR", "RSHIFT_EXPR"}
ShiftExpr(op) ==
  LET g     == mem[Arg(1)]
      count == Signed(g.a)
      value == Arg(2)
      n     == widths[Len(widths) - 1]
      g1    == IF op = "LSHIFT_EXPR" THEN Arg(1) - 1 ELSE value
      left  == (op = "LSHIFT_EXPR") = (count >= 0)
      m     == IF g.b # {} THEN Fill(mem, value, bits_to_groups(n), AllX)
               ELSE IF left THEN ShiftLeft(mem, g1, Abs(count), n) ELSE ShiftRight(mem, g1, Abs(count), n)
  IN /\ Depth >= 2 /\ R_ngroups = 0
     /\ count # -(W \div 2)
     /\ Node(op, 2)
     /\ mem' = m /\ R' = Pop(1) /\ R_nbits' = n
     /\ widths' = Outer(1) /\ attrs' = Append(Rest(2), Attr(1) /\ Attr(2))

-----------------------------------------------------------------------------
(* ?: , with a loop of its own over the condition: the first group that is *)
(* not zero decides.  Both arms are evaluated if it is unknown; in_cond    *)
(* keeps is_integer while they are, but the condition has overwritten it.  *)
CondOf(m, a, n) ==
  LET g(i)   == IF i = bits_to_groups(n) THEN AndMask(m[a + i], mask_right1(n)) ELSE m[a + i]
      first  == Min({i \in 0 .. bits_to_groups(n) : i = bits_to_groups(n) \/ g(i) # Zeros})
  IN IF g(first).b # {} THEN X ELSE IF g(first).a # {} THEN ONE ELSE ZERO
COND_EXPR(v, w, n, integer) ==
  LET cond == CondOf(mem, Arg(1), R_nbits)
      gs == GroupsOf(v, n)
      hs == GroupsOf(w, n)
  IN /\ Depth >= 1
     /\ Nested("COND_EXPR", <<v, w>>, Attr(1))
     /\ Result(1, IF cond = ONE THEN Put(mem, Arg(1), gs)
                  ELSE IF cond = ZERO THEN Put(mem, Arg(1), hs)
                  ELSE Put(Put(mem, Arg(1), [i \in DOMAIN gs |-> MergeGroup(gs[i], hs[i])]),
                           Arg(1) + bits_to_groups(n) + 1, hs), n, integer)

-----------------------------------------------------------------------------
Init ==
  /\ \E v \in Decls : mem = Put([i \in 0 .. SIZE |-> Stale], 0, GroupsOf(v, DECL))
  /\ R = <<BASE, START>>
  /\ widths = <<BITS + 1>> /\ R_nbits = BITS + 1 /\ attrs = <<FALSE>>
  /\ is_integer \in BOOLEAN
  /\ tokens = 0
  /\ t = [op |-> "none", arg |-> 0]

(* Bounds on the shape of expressions: at most two operands wait, and one  *)
(* of them is a load or an operator of a load; the left operand of && || ? *)
(* is a literal or its ~ or -.  An integer is a word, extended with zeros. *)
Widths   == DOMAIN Samples
Flags(v, n) == {FALSE} \cup {n >= BITS /\ \A i \in BITS .. n - 1 : v[i] = ZERO}
Fresh    == tokens = 0 \/ (tokens = 1 /\ t.op = "BIT_CST")
Literal  == \E n \in {n \in Widths : Depth = 0 \/ n <= BITS \/ n = R_nbits} :
              \E v \in (IF Fresh THEN Samples[n] ELSE Few[n]) : \E integer \in Flags(v, n) : BIT_CST(v, n, integer)
Loads    == (Depth = 0 \/ (Depth = 1 /\ tokens <= 2)) /\ Literal
Refs     == /\ Depth = 0
            /\ \E n \in Contexts \cup 2 .. 16 :
                 \/ n >= DECL /\ REG_VECTOR_DECL(n)
                 \/ \E high \in 0 .. DECL - 1 : \E low \in 0 .. high : n > high - low /\ PART_REF(high, low, n)
                 \/ \E list \in Lists : n >= Width(list) /\ CONCAT_REF(list, n)
                 \/ \E r \in Repeats : n >= Width(r[1]) * r[2] /\ CONCAT_REP_REF(r[1], r[2], n)
Selects  == /\ Depth = 1 /\ tokens <= 2
            /\ \E n \in Contexts : (n >= WORD /\ ARRAY_REF(n)) \/ \E down \in BOOLEAN : BIT_REF(down, n)
Unary    == /\ tokens <= 2
            /\ \/ BIT_NOT_EXPR \/ NEGATE_EXPR \/ TRUTH_NOT_EXPR
               \/ \E op \in ReduceExprs : ReduceExpr(op)
               \/ \E op \in {"XOR_REDUCE_EXPR", "XNOR_REDUCE_EXPR"} : XorReduceExpr(op)
Lazy     == /\ tokens <= 2 /\ t.op \in {"BIT_CST", "BIT_NOT_EXPR", "NEGATE_EXPR"}
            /\ \/ /\ Depth = 1 /\ R_nbits \in Widths
                  /\ \E op \in {"TRUTH_ORIF_EXPR", "TRUTH_ANDIF_EXPR"} : \E v \in Few[R_nbits] :
                       \E integer \in Flags(v, R_nbits) : \E n \in Contexts : TruthIfExpr(op, v, integer, n)
               \/ \E n \in IF Depth = 1 THEN Widths ELSE {widths[2]} \cap {BITS} : \E v \in Few[n], w \in Few[n] :
                    \E integer \in Flags(v, n) \cap Flags(w, n) : COND_EXPR(v, w, n, integer)
Binary   == \/ \E op \in BitwiseExprs : BitwiseExpr(op)
            \/ \E op \in EqualityExprs : EqualityExpr(op)
            \/ \E op \in RelationalExprs : RelationalExpr(op)
            \/ \E op \in {"PLUS_EXPR", "MINUS_EXPR"} : AdditiveExpr(op)
            \/ \E op \in {"DIV_EXPR", "MOD_EXPR"} : DivideExpr(op)
            \/ MULT_EXPR
            \/ \E op \in ShiftExprs : ShiftExpr(op)
Next == Loads \/ Refs \/ Selects \/ Unary \/ Lazy \/ Binary
Spec == Init /\ [][Next]_vars

-----------------------------------------------------------------------------
(* Each operator against its meaning, from the operands as they lie on the *)
(* stack before it.                                                        *)
V == INSTANCE FourState

AreIntegers == Attr(1) /\ Attr(2)
Value(k)  == ValueOf(mem, Arg(k), widths[Len(widths) + 1 - k])
Outcome   == ValueOf(mem', R'[Len(R') - 1], Last(widths'))
Clean(k)  == LET n == widths[Len(widths) + 1 - k]
             IN AndMask(mem[Arg(k) + bits_to_groups(n)], Not(mask_right1(n))) = Zeros
ArithmeticExprs == {"PLUS_EXPR", "MINUS_EXPR", "MULT_EXPR", "DIV_EXPR", "MOD_EXPR"}
CountClean(limit) == mem[Arg(1)].b = {} => Clean(1) /\ Signed(mem[Arg(1)].a) \in 0 .. limit

Meaning ==
  LET n  == Last(widths')
      op == t'.op
      v  == t'.arg
  IN CASE op = "BIT_CST" -> V!Extend(v, n)
       [] op = "REG_VECTOR_DECL" -> V!Extend(ValueOf(mem, 0, DECL), n)
       [] op = "PART_REF" -> V!Extend(V!Extract(ValueOf(mem, 0, DECL), v[1], v[2]), n)
       [] op = "ARRAY_REF" ->
            LET i == Value(1) IN
            IF V!Vague(i) \/ V!Least(i) \notin LSB .. LSB + bits_to_groups(DECL) - 1 THEN V!Extend(V!Unknown(WORD), n)
            ELSE V!Extend(ValueOf(mem, V!Least(i) - LSB, WORD), n)
       [] op = "CONCAT_REF" -> V!Extend(V!JoinAll(v), n)
       [] op = "CONCAT_REP_REF" -> V!Extend(V!JoinAll([i \in 1 .. Len(v[1]) * v[2] |-> v[1][((i - 1) % Len(v[1])) + 1]]), n)
       [] op = "BIT_NOT_EXPR" -> V!Invert(Value(1))
       [] op \in BitwiseExprs -> V!Bitwise(op, Value(2), Value(1))
       [] op \in ArithmeticExprs -> V!Arithmetic(op, Value(2), Value(1), AreIntegers)
       [] op = "NEGATE_EXPR" -> V!Arithmetic("MINUS_EXPR", V!Binary(0, n), Value(1), FALSE)
       [] op \in ShiftExprs -> IF V!Vague(Value(1)) THEN V!Unknown(n) ELSE V!Shifted(op, Value(2), V!Least(Value(1)))
       [] op = "COND_EXPR" ->
            CASE V!Truth(Value(1)) = ZERO -> V!Extend(v[2], n)
              [] V!Truth(Value(1)) = ONE /\ (~V!Vague(Value(1)) \/ Outcome = V!Extend(v[1], n)) -> V!Extend(v[1], n)
              [] OTHER -> [i \in 0 .. n - 1 |-> MergeBit(V!Extend(v[1], n)[i], V!Extend(v[2], n)[i])]

(* Both operands are integers.  The code goes by is_integer, which is the  *)
(* attribute of the first node, or of the last nested call (the comment in *)
(* eval asks that it be preserved), and uses the lowest word only.         *)
FlagIsRight == is_integer = AreIntegers /\ (is_integer => R_nbits = BITS)

(* Where the code answers for bits that are not part of the operands.      *)
Precise ==
  LET op == t'.op
      n  == Last(widths')
      above(k) == Not(mask_right1(widths[Len(widths) + 1 - k]))
      high(k)  == mem[Arg(k) + bits_to_groups(widths[Len(widths) + 1 - k])]
      groups   == bits_to_groups(n)
      part     == cook_part_ref(t'.arg[1], t'.arg[2])
  IN CASE op = "MULT_EXPR" -> \A k \in 1 .. 2 : high(k).b \cap above(k) = {}
       [] op \in {"DIV_EXPR", "MOD_EXPR"} -> Clean(1) /\ Clean(2) /\ FlagIsRight
       [] op = "NEGATE_EXPR" -> /\ \A i \in 1 .. R_ngroups - 1 : mem[Arg(1) + i].a # Pos
                                /\ V!Vague(Value(1)) <=> AnyB(mem, Arg(1), IF R_ngroups = 0 THEN 0 ELSE R_ngroups - 1)
       [] op = "LSHIFT_EXPR" -> CountClean(W)
       [] op = "RSHIFT_EXPR" -> CountClean((groups + 1) * BITS - 1) /\ Clean(2)
       [] op = "PART_REF" -> \/ n = t'.arg[1] - t'.arg[2] + 1
                               \/ (part.aligned /\ (part.ngroups >= groups \/ (part.ngroups = 0 /\ groups = 1)))
       [] op = "CONCAT_REF" -> n = Width(t'.arg) \/ ~Last(t'.arg)[3]
       [] op = "CONCAT_REP_REF" -> LET size == Width(t'.arg[1])
                                   IN size <= BITS \/ \A k \in 1 .. t'.arg[2] - 1 : (size * k) % BITS # 0
       [] OTHER -> TRUE
VectorExprs == {"BIT_CST", "REG_VECTOR_DECL", "PART_REF", "ARRAY_REF", "CONCAT_REF", "CONCAT_REP_REF",
                "BIT_NOT_EXPR", "NEGATE_EXPR", "COND_EXPR"} \cup BitwiseExprs \cup ArithmeticExprs \cup ShiftExprs

(* A condition is what is certain of its operands, or x when one of them   *)
(* has an x; also when the evaluation stops at the first group.            *)
Certain ==
  LET op == t'.op
  IN CASE op \in {"AND_REDUCE_EXPR"} -> V!AllOf(Value(1))
       [] op = "NAND_REDUCE_EXPR" -> NotBit(V!AllOf(Value(1)))
       [] op = "OR_REDUCE_EXPR" -> V!Truth(Value(1))
       [] op \in {"NOR_REDUCE_EXPR", "TRUTH_NOT_EXPR"} -> NotBit(V!Truth(Value(1)))
       [] op = "XOR_REDUCE_EXPR" -> V!Parity(Value(1))
       [] op = "XNOR_REDUCE_EXPR" -> NotBit(V!Parity(Value(1)))
       [] op = "TRUTH_ORIF_EXPR" -> OrBit(V!Truth(Value(1)), V!Truth(t'.arg))
       [] op = "TRUTH_ANDIF_EXPR" -> AndBit(V!Truth(Value(1)), V!Truth(t'.arg))
       [] op = "EQ_EXPR" -> V!Equal(Value(2), Value(1))
       [] op = "NE_EXPR" -> NotBit(V!Equal(Value(2), Value(1)))
       [] op = "EQ_CASE_EXPR" -> IF Value(2) = Value(1) THEN ONE ELSE ZERO
       [] op = "NE_CASE_EXPR" -> IF Value(2) = Value(1) THEN ZERO ELSE ONE
       [] op = "LT_EXPR" -> V!LessThan(Value(2), Value(1), AreIntegers)
       [] op = "GT_EXPR" -> V!LessThan(Value(1), Value(2), AreIntegers)
       [] op = "LE_EXPR" -> NotBit(V!LessThan(Value(1), Value(2), AreIntegers))
       [] op = "GE_EXPR" -> NotBit(V!LessThan(Value(2), Value(1), AreIntegers))
       [] op = "BIT_REF" ->
            LET i == V!Least(Value(1)) - LSB
                v == ValueOf(mem, 0, DECL)
            IN IF V!Vague(Value(1)) \/ i \notin DOMAIN v THEN X ELSE IF t'.arg THEN v[i] ELSE v[DECL - 1 - i]
Doubtful ==
  LET op == t'.op
      v  == V!Vague(Value(1))
      w  == IF op \in {"TRUTH_ORIF_EXPR", "TRUTH_ANDIF_EXPR"} THEN V!Vague(t'.arg)
            ELSE op \in EqualityExprs \cup RelationalExprs /\ V!Vague(Value(2))
  IN op \notin {"EQ_CASE_EXPR", "NE_CASE_EXPR"} /\ (v \/ w)
ConditionExprs == ReduceExprs \cup EqualityExprs \cup RelationalExprs
                  \cup {"XOR_REDUCE_EXPR", "XNOR_REDUCE_EXPR", "TRUTH_NOT_EXPR", "TRUTH_ORIF_EXPR", "TRUTH_ANDIF_EXPR", "BIT_REF"}
Decided ==
  Outcome[0] \in {Certain} \cup (IF Doubtful THEN {X} ELSE {})

(* Every operator on vectors gives the bits of the result that Verilog     *)
(* asks for, whatever lies above the width of its operands, except where   *)
(* the code is known to read those bits (Precise); a condition is what is  *)
(* certain of its operands, or x when one of them has an x, also when the  *)
(* evaluation stops at the first group.  Numbers are compared and divided  *)
(* as signed words exactly when both are integers, unless is_integer has   *)
(* come to say otherwise (FlagIsRight).                                    *)
Evaluates ==
  [][/\ t'.op \in VectorExprs /\ Precise => Outcome = Meaning
     /\ t'.op \in ConditionExprs /\ (t'.op = "BIT_REF" => Clean(1)) /\ (t'.op = "NE_EXPR" => ~Doubtful)
        /\ (t'.op \in RelationalExprs => FlagIsRight)
          => Decided]_vars

(* An operator leaves the operands below its own, the storage of nets and  *)
(* registers and the pointers to them alone, and the result takes the      *)
(* groups that its width asks for, which R_nbits tells the next operator.  *)
Framed ==
  [][LET base == R'[Len(R') - 1]
     IN Len(widths') > 1 /\ (t'.op \in ShiftExprs => CountClean((bits_to_groups(Last(widths')) + 2) * BITS - 1))
        => /\ \A i \in 0 .. base - 1 : mem'[i] = mem[i]
           /\ \A k \in 1 .. Len(R') - 1 : R'[k] = R[k]
           /\ Last(R') = base + bits_to_groups(Last(widths')) + 1
           /\ R_nbits' = Last(widths')]_vars
=============================================================================
