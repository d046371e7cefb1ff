-------------------------------- MODULE Udp --------------------------------
(***************************************************************************)
(* User-defined primitives (udp.cc).  At the end of a primitive its rows   *)
(* are expanded into one table for each input, indexed by the new levels   *)
(* of all inputs (and, of a sequential primitive, its output) and holding  *)
(* one output for each old value of that input; a gate keeps its index     *)
(* into the tables and moves it by a difference at each change.            *)
(***************************************************************************)
EXTENDS Integers, SequencesExt

CONSTANTS
  DESIGN,           \* the primitives: [inputs, reg, initial, rows, constants];
                    \* reg: it is sequential; constants: the literal inputs
  NULL

ZERO == 0  ONE == 1  Z == 2  X == 3

(* A row: the sequence of its entries, the last of which is the output; an *)
(* entry is a pair of characters, equal but for an edge in parentheses,    *)
(* where ? and b are written ! and % first.                                *)
int_power(b, p) == b ^ p
Entries(d)      == d.inputs + IF d.reg THEN 1 ELSE 0
Cells(d)        == 0 .. int_power(3, Entries(d)) - 1

is_edge(c)      == c[1] # c[2] \/ c[1] \in {"*", "r", "f", "p", "n"}
EdgeAt(d, row)  == {i \in 1 .. Entries(d) : is_edge(row[i])}
Output(row)     == Last(row)[1]

(* validate_udp_string.                                                    *)
validate_udp_string(d, row) ==
  /\ Len(row) = Entries(d) + 1
  /\ Cardinality(EdgeAt(d, row)) <= (IF d.reg THEN 1 ELSE 0)
  /\ \A i \in 1 .. Entries(d) : row[i][1] # "-" /\ (i > d.inputs => ~is_edge(row[i]))
  /\ ~is_edge(Last(row)) /\ (Output(row) = "-" => d.reg)

ASSUME UdpAssumption ==
  \A d \in DESIGN : /\ d.inputs \in Nat \ {0} /\ d.reg \in BOOLEAN
                    /\ d.initial \in {ZERO, ONE, X} /\ (d.initial # X => d.reg)
                    /\ d.constants \in Seq({ZERO, ONE, X}) /\ Len(d.constants) = d.inputs
                    /\ \A k \in DOMAIN d.rows : validate_udp_string(d, d.rows[k])

-----------------------------------------------------------------------------
(* An entry of a table: for each old value one of 0, 1, 2 (x) or 3 (not    *)
(* written yet), and whether a level row has been written into it.         *)
Old == 0 .. 2
Unset == 3
Blank == [out |-> [o \in Old |-> Unset], level |-> FALSE, error |-> FALSE]

(* set_udp_table_entry: the new levels that an entry stands for, and the   *)
(* old ones (the mask of fill_udp_table).                                  *)
Levels(c) == CASE c[2] \in {"0", "f"} -> {0} [] c[2] \in {"1", "r"} -> {1} [] c[2] = "x" -> {2}
               [] c[2] = "b" -> {0, 1} [] c[2] \in {"?", "*"} -> {0, 1, 2}
               [] c[2] = "p" -> {1, 2} [] c[2] = "n" -> {0, 2}
Mask_NoX(c) == CASE c[1] \in {"0", "r"} -> {0} [] c[1] \in {"1", "f"} -> {1} [] c[1] = "x" -> {2}
              [] c[1] \in {"%", "b"} -> {0, 1} [] c[1] \in {"!", "?", "*"} -> {0, 1, 2}
              [] c[1] = "p" -> {0} [] c[1] = "n" -> {1}
Mask(c)   == CASE c[1] \in {"0", "r"} -> {0} [] c[1] \in {"1", "f"} -> {1} [] c[1] = "x" -> {2}
               [] c[1] \in {"%", "b"} -> {0, 1} [] c[1] \in {"!", "?", "*"} -> {0, 1, 2}
               [] c[1] = "p" -> {0, 2} [] c[1] = "n" -> {1, 2}

Digit(cell, i) == (cell \div int_power(3, i - 1)) % 3
Covers(d, row, cell) == \A i \in 1 .. Entries(d) : Digit(cell, i) \in Levels(row[i])
From(d, row, cell) == CASE Output(row) = "0" -> 0 [] Output(row) = "1" -> 1 [] Output(row) = "x" -> 2
                        [] Output(row) = "-" -> Digit(cell, Entries(d))

(* Whether a row that finds some of its old values taken is reported.  The *)
(* comparison is of the two bits of each; those of old values not written  *)
(* are left out by shifting the whole entry, and with them the high bit of *)
(* a value below a value with a low bit, and that low bit, if the high one *)
(* is set.                                                                 *)
Differs(out, mask, v) ==
  LET hi(o) == o \in mask /\ out[o] >= 2
      lo(o) == o \in mask /\ out[o] % 2 = 1
      both(o)    == hi(o) /\ lo(o)
      carried(o) == lo(o) /\ hi(o - 1)
  IN \E o \in mask : \/ ~both(o) /\ ~carried(o + 1) /\ (hi(o) # (v >= 2))
                     \/ ~both(o) /\ ~carried(o) /\ (lo(o) # (v % 2 = 1))

SetLevel(e, v) ==
  IF e.level THEN [e EXCEPT !.error = @ \/ Differs(e.out, Old, v)]
  ELSE [e EXCEPT !.out = [o \in Old |-> v], !.level = TRUE]
SetEdge_Over(e, mask, v) ==
  [e EXCEPT !.out = [o \in Old |-> IF o \in mask THEN v ELSE e.out[o]]]
SetEdge(e, mask, v) ==
  IF \A o \in mask : e.out[o] = Unset
  THEN [e EXCEPT !.out = [o \in Old |-> IF o \in mask THEN v ELSE e.out[o]]]
  ELSE [e EXCEPT !.error = @ \/ (~e.level /\ Differs(e.out, mask, v))]

(* fill_udp_table for one input: all level rows, then its edge rows.       *)
fill_udp_table(d, arg) ==
  LET levels == SelectSeq(d.rows, LAMBDA r : EdgeAt(d, r) = {})
      edges  == SelectSeq(d.rows, LAMBDA r : arg \in EdgeAt(d, r))
      entry(cell) ==
        LET level(e, r) == IF Covers(d, r, cell) THEN SetLevel(e, From(d, r, cell)) ELSE e
            edge(e, r)  == IF Covers(d, r, cell) THEN SetEdge(e, Mask(r[arg]), From(d, r, cell)) ELSE e
        IN FoldLeft(edge, FoldLeft(level, Blank, levels), edges)
  IN [cell \in Cells(d) |-> entry(cell)]

UDP_TABLE == [d \in DESIGN |-> [arg \in 1 .. d.inputs |-> fill_udp_table(d, arg)]]
Reported(d) == \E arg \in 1 .. d.inputs, cell \in Cells(d) : UDP_TABLE[d][arg][cell].error

-----------------------------------------------------------------------------
VARIABLES
  udp,              \* GATE_UDP_DEF
  input,            \* GATE_IN of each input
  output, state,    \* GATE_OUTPUT, GATE_STATE
  last              \* history: the last change: [arg, old, output before]
vars == <<udp, input, output, state, last>>

Digits(v) == IF v \in {X, Z} THEN 2 ELSE v
deltaTable(i, old, new) == Digits(new) * int_power(3, i - 1) - Digits(old) * int_power(3, i - 1)
Looked(d, arg, cell, old) ==
  LET v == UDP_TABLE[d][arg][cell].out[Digits(old)] IN IF v \in {0, 1} THEN v ELSE X

(* pass3_gate: the literal inputs change from x one after the other; the   *)
(* output chooses the column, and only a combinational one takes it.       *)
Initial(d) ==
  LET start == [input |-> [i \in 1 .. d.inputs |-> X], output |-> d.initial, last |-> NULL,
                state |-> FoldFunction(+, 0, [i \in 1 .. Entries(d) |->
                   int_power(3, i - 1) * IF i > d.inputs THEN Digits(d.initial) ELSE 2])]
      change(g, i) ==
        IF d.constants[i] = X THEN g
        ELSE LET cell == g.state + deltaTable(i, X, d.constants[i])
             IN [g EXCEPT !.input[i] = d.constants[i], !.state = cell,
                          !.output = IF d.reg THEN @ ELSE Looked(d, i, cell, g.output),
                          !.last = IF d.reg THEN @ ELSE [arg |-> i, old |-> X, before |-> g.output]]
  IN FoldLeft(change, start, [i \in 1 .. d.inputs |-> i])

Init ==
  /\ udp \in {d \in DESIGN : ~Reported(d)}
  /\ LET g == Initial(udp)
     IN input = g.input /\ output = g.output /\ state = g.state /\ last = g.last

(* An input is notified of a new value; ScheduleGate follows (Gates).  The *)
(* output of a sequential primitive is one of its levels.                  *)
Noted_KeepZ(v) == v
Noted(v) == IF v = Z THEN X ELSE v
Written_Never(cell, out) == cell
Written(cell, out) == cell + IF udp.reg THEN deltaTable(udp.inputs + 1, output, out) ELSE 0
udp_exec(arg, v) ==
  LET new  == Noted(v)
      old  == input[arg]
      cell == state + deltaTable(arg, old, new)
      out  == Looked(udp, arg, cell, old)
  IN /\ udp.constants[arg] = X /\ new # old
     /\ input' = [input EXCEPT ![arg] = new]
     /\ output' = out
     /\ state' = Written(cell, out)
     /\ last' = [arg |-> arg, old |-> old, before |-> output]
     /\ UNCHANGED udp

Next == \E arg \in 1 .. udp.inputs, v \in {ZERO, ONE, Z, X} : udp_exec(arg, v)

Spec == Init /\ [][Next]_vars

-----------------------------------------------------------------------------
(* Types; the index of a gate never leaves its tables.                     *)
TypeOK ==
  /\ udp \in DESIGN /\ state \in Cells(udp)
  /\ input \in [1 .. udp.inputs -> {ZERO, ONE, X}] /\ output \in {ZERO, ONE, X}

(* However long the inputs change, the index that is only ever moved by    *)
(* differences is that of the present levels.                              *)
IndexIsLevels ==
  \A i \in 1 .. Entries(udp) :
    Digit(state, i) = Digits(IF i > udp.inputs THEN output ELSE input[i])

(* The rows as they are written: what a level and an edge stand for.       *)
Level(c, v) == CASE c[2] = "?" -> TRUE [] c[2] = "b" -> v # X
                 [] c[2] = "0" -> v = ZERO [] c[2] = "1" -> v = ONE [] c[2] = "x" -> v = X
Character(c) == IF c = "!" THEN "?" ELSE IF c = "%" THEN "b" ELSE c
Edge(c, v, w) ==
  /\ v # w
  /\ CASE c[1] = "*" -> TRUE
       [] c[1] = "r" -> <<v, w>> = <<ZERO, ONE>>
       [] c[1] = "f" -> <<v, w>> = <<ONE, ZERO>>
       [] c[1] = "p" -> <<v, w>> \in {<<ZERO, ONE>>, <<ZERO, X>>, <<X, ONE>>}
       [] c[1] = "n" -> <<v, w>> \in {<<ONE, ZERO>>, <<ONE, X>>, <<X, ZERO>>}
       [] OTHER -> LET from == Character(c[1]) IN Level(<<from, from>>, v) /\ Level(c, w)

(* Row r speaks of a change of input arg from old that leaves the inputs   *)
(* at in, with the output at q.                                            *)
Speaks(d, r, arg, old, in, q) ==
  /\ EdgeAt(d, r) \subseteq {arg}
  /\ \A i \in 1 .. Entries(d) :
       IF is_edge(r[i]) THEN Edge(r[i], old, in[i])
       ELSE Level(r[i], IF i > d.inputs THEN q ELSE in[i])
Says(r, q) == CASE Output(r) = "0" -> ZERO [] Output(r) = "1" -> ONE [] Output(r) = "x" -> X [] OTHER -> q
Read(d, arg, old, in, q) ==
  LET speaking == {k \in DOMAIN d.rows : Speaks(d, d.rows[k], arg, old, in, q)}
      level    == {k \in speaking : EdgeAt(d, d.rows[k]) = {}}
  IN IF speaking = {} THEN X
     ELSE Says(d.rows[Min(IF level = {} THEN speaking ELSE level)], q)

EdgeRows(d) == {k \in DOMAIN d.rows : EdgeAt(d, d.rows[k]) # {}}

(* No two edge rows share a place in a table.  Rows that speak of one      *)
(* change do; so do p and n, which both take the place of x for x.         *)
Separate == [d \in DESIGN |->
  \A j, k \in EdgeRows(d), cell \in Cells(d) :
    j < k /\ EdgeAt(d, d.rows[j]) = EdgeAt(d, d.rows[k])
          /\ Covers(d, d.rows[j], cell) /\ Covers(d, d.rows[k], cell)
      => \A arg \in EdgeAt(d, d.rows[j]) : Mask(d.rows[j][arg]) \cap Mask(d.rows[k][arg]) = {}]

(* The place of a gate in its tables is that of its levels, and the output *)
(* is what the rows say of the last change: a level row before an edge row,*)
(* x without a row, for tables whose edge rows are separate.               *)
OutputIsRow ==
  /\ TypeOK /\ IndexIsLevels
  /\ last # NULL /\ Separate[udp] => output = Read(udp, last.arg, last.old, input, last.before)
=============================================================================
