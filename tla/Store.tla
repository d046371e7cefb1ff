------------------------------- MODULE Store -------------------------------
(***************************************************************************)
(* Assignments: the operand on top of the evaluation stack is stored to a  *)
(* vector, to parts, bits and words of it and to a concatenation of these, *)
(* and the events that wait for the vector are told of a change.           *)
(***************************************************************************)
EXTENDS Eval

CONSTANTS
  Lvals,        \* [op, high, low] parts, [op, index, down] bits, [op, index] words
  LvalLists     \* concatenations, sequences of <<width, lval>>, the lowest first

VARIABLE notified               \* the last assignment called NotifyEvent
storeVars == <<vars, notified>>

WidthOf(lval) ==
  CASE lval.op = "vector" -> DECL
    [] lval.op = "part"   -> lval.high - lval.low + 1
    [] lval.op = "bit"    -> 1
    [] lval.op = "word"   -> WORD

(* The memory after a store from address a, and whether it is a change.    *)
stored(m, changed) == [mem |-> m, changed |-> changed]

store_vector_NoMask(m, a) ==
  LET n == [i \in 0 .. bits_to_groups(DECL) |-> m[a + i]] @@ m IN stored(n, n # m)
store_vector(m, a) ==
  LET last == bits_to_groups(DECL)
      n    == [i \in 0 .. last |-> IF i = last THEN AndMask(m[a + i], mask_right1(DECL)) ELSE m[a + i]] @@ m
  IN stored(n, n # m)

(* Of a part, only the bits of each group that its own word of the operand *)
(* brings are compared, not those that the word before it has left over.   *)
store_part(m, a, high, low) ==
  LET p  == cook_part_ref(high, low)
      g1 == low \div BITS
      n  == part_lref(m, g1, a, p)
      seen(i) == IF i > p.ngroups THEN Pos ELSE IF i = p.ngroups /\ p.aligned THEN Not(p.lmask2) ELSE Not(p.lmask1)
      groups  == 0 .. p.ngroups + (IF p.aligned THEN 0 ELSE 1)
  IN stored(n, \E i \in groups : AndMask(n[g1 + i], seen(i)) # AndMask(m[g1 + i], seen(i)))

(* The index is evaluated above the operand.  A bit with an unknown index  *)
(* becomes x at the place that aval of the index names; a word does not.   *)
Index(m, e) == Member(m, Last(R), e)[Last(R)]
store_bit(m, a, e, down) ==
  LET index == Index(m, e)
      place == Place(Num[index.a], DECL, down)
      g     == place \div BITS
      bit   == {place % BITS}
      v     == IF index.b # {} THEN X ELSE ValueAt(m[a], 0)
      new   == [a |-> IF v \in {ONE, X} THEN bit ELSE {}, b |-> IF v \in {Z, X} THEN bit ELSE {}]
      n     == [m EXCEPT ![g] = Keeping(new, @, Not(bit))]
  IN IF place < 0 THEN stored(m, FALSE) ELSE stored(n, n # m)

store_array(m, a, e) ==
  LET index == Index(m, e)
      place == Place(Num[index.a], bits_to_groups(DECL), TRUE)
  IN IF index.b # {} THEN stored(m, FALSE)
     ELSE stored(IF place < 0 THEN m ELSE [m EXCEPT ![place] = m[a]], TRUE)

store_1(m, a, lval) ==
  CASE lval.op = "vector" -> store_vector(m, a)
    [] lval.op = "part"   -> store_part(m, a, lval.high, lval.low)
    [] lval.op = "bit"    -> store_bit(m, a, lval.index, lval.down)
    [] lval.op = "word"   -> store_array(m, a, lval.index)

(* Each member of a concatenation is moved down to the start of the        *)
(* operand, which saves one group above it, and stored from there; events  *)
(* are told when all have been stored.                                     *)
store_concat(m, a, list) ==
  LET step[i \in 0 .. Len(list)] ==
        IF i = 0 THEN [mem |-> m, changed |-> FALSE, nbits |-> 0, up |-> 0]
        ELSE LET s     == step[i - 1]
                 n     == s.nbits + list[i][1]
                 p     == cook_part_ref(n - 1, s.nbits)
                 next  == a + s.up + p.next
                 moved == part_rref(s.mem, a, a + s.up, p, R_ngroups)
                 one   == store_1(moved, a, list[i][2])
             IN [mem |-> [one.mem EXCEPT ![next] = s.mem[next]],
                 changed |-> s.changed \/ one.changed,
                 nbits |-> n, up |-> s.up + p.next]
      last == step[Len(list)]
  IN stored(last.mem, last.changed)

store(op, arg, r) ==
  /\ Node(op, arg)
  /\ mem' = r.mem
  /\ R' = Pop(1)
  /\ widths' = Outer(1) /\ attrs' = Rest(1)
  /\ UNCHANGED R_nbits
  /\ notified' = r.changed

-----------------------------------------------------------------------------
(* An operand is as wide as the left side, or wider; bound: it is a        *)
(* reference or ~ of one.                                                  *)
ListWidth(list) == FoldLeft(LAMBDA n, e : n + e[1], 0, list)
Assign ==
  /\ Depth = 1 /\ ~is_integer /\ (tokens = 1 \/ (tokens = 2 /\ t.op = "BIT_NOT_EXPR"))
  /\ \/ \E lval \in Lvals : R_nbits >= WidthOf(lval) /\ store("store", lval, store_1(mem, Arg(1), lval))
     \/ \E list \in LvalLists :
          R_nbits >= ListWidth(list) /\ store("store_concat", list, store_concat(mem, Arg(1), list))
Evaluate  == t.op \notin {"store", "store_concat"} /\ Next /\ UNCHANGED notified   \* bound: one assignment
StoreInit == Init /\ notified = FALSE
StoreNext == Evaluate \/ Assign
StoreSpec == StoreInit /\ [][StoreNext]_storeVars

-----------------------------------------------------------------------------
(* The bits of the vector after an assignment, and of the group above it.  *)
Storage(m) == ValueOf(m, 0, (bits_to_groups(DECL) + 2) * BITS)
IndexOf(e) == IF e[3] THEN V!Invert(e[2]) ELSE e[2]
Bits(lval) ==
  LET i == V!Least(IndexOf(lval.index)) - LSB
  IN CASE lval.op = "vector" -> 0 .. DECL - 1
       [] lval.op = "part"   -> lval.low .. lval.high
       [] lval.op = "bit"    -> IF V!Vague(IndexOf(lval.index)) \/ i \notin 0 .. DECL - 1 THEN {}
                                ELSE {IF lval.down THEN i ELSE DECL - 1 - i}
       [] lval.op = "word"   -> IF V!Vague(IndexOf(lval.index)) \/ i \notin 0 .. bits_to_groups(DECL) - 1 THEN {}
                                ELSE i * WORD .. (i + 1) * WORD - 1
Assigned(s, lval, v) ==
  LET bits == Bits(lval) IN [i \in DOMAIN s |-> IF i \in bits THEN v[i - Min(bits)] ELSE s[i]]
AllAssigned(s, list, v) ==
  FoldLeft(LAMBDA r, e : [s |-> Assigned(r.s, e[2], V!Extract(v, V!Size(v) - 1, r.at)), at |-> r.at + e[1]],
           [s |-> s, at |-> 0], list).s

(* Where the code is known to differ: an index with bits above its width,  *)
(* a bit at an unknown index; of a part that does not start at a group and *)
(* fills one, the bits above the part and the events.                      *)
Lost(lval) == lval.op = "part" /\ LET p == cook_part_ref(lval.high, lval.low) IN p.ngroups > 0 /\ p.shift > 0
Named(lval, v) ==
  /\ lval.op \in {"bit", "word"} => ~lval.index[3]
  /\ lval.op = "bit" => ~V!Vague(lval.index[2])
  /\ Lost(lval) => \/ cook_part_ref(lval.high, lval.low).aligned
                   \/ \A i \in DOMAIN v : i >= WidthOf(lval) => v[i] = ZERO
Fits == CASE t'.op = "store"        -> Named(t'.arg, ValueOf(mem, Arg(1), (R_ngroups + 1) * BITS))
          [] t'.op = "store_concat" -> \A i \in DOMAIN t'.arg : Named(t'.arg[i][2], <<>>)
          [] OTHER -> FALSE
Tells == IF t'.op = "store" THEN ~Lost(t'.arg) ELSE \A i \in DOMAIN t'.arg : ~Lost(t'.arg[i][2])

(* An assignment changes the bits that its left side names and no others,  *)
(* also when the operand has more bits or dirt above its width, and if one *)
(* changes the events of the vector are notified.                          *)
Assigns ==
  [][Fits
       => /\ Storage(mem') = (IF t'.op = "store" THEN Assigned(Storage(mem), t'.arg, Value(1))
                              ELSE AllAssigned(Storage(mem), t'.arg, Value(1)))
          /\ Tells /\ Storage(mem') # Storage(mem) => notified'
          /\ R' = Front(R)]_storeVars
=============================================================================
