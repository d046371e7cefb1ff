---------------------------- MODULE Gates_proofs ----------------------------
(***************************************************************************)
(* The incremental evaluation of the primitives is right for every circuit:*)
(* the counts a logic gate keeps are those of its inputs, and its output   *)
(* is what its truth table says of them.                                   *)
(***************************************************************************)
EXTENDS Gates, FiniteSetTheorems, TLAPS

-----------------------------------------------------------------------------
(* Cardinalities of the inputs with a property, when one input changes.    *)

LEMMA NumberIsNat ==
  ASSUME NEW f, IsFiniteSet(DOMAIN f), NEW P
  PROVE  /\ IsFiniteSet({i \in DOMAIN f : f[i] \in P})
         /\ Number(f, P) \in Nat
<1>1. IsFiniteSet({i \in DOMAIN f : f[i] \in P})
  BY FS_Subset
<1> QED
  BY <1>1, FS_CardinalityType DEF Number

(* When f changes at i, the number of elements in P loses one if i was in  *)
(* P and gains one if it is now.                                           *)
LEMMA NumberAfterChange ==
  ASSUME NEW D, IsFiniteSet(D), NEW V, NEW f \in [D -> V], NEW i \in D, NEW v \in V, NEW P
  PROVE  Number([f EXCEPT ![i] = v], P) = Number(f, P) - Count(f[i] \in P) + Count(v \in P)
<1> DEFINE Before == {j \in D : f[j] \in P}
           After  == {j \in D : [f EXCEPT ![i] = v][j] \in P}
           Others == {j \in D \ {i} : f[j] \in P}
<1>1. IsFiniteSet(Others) /\ i \notin Others
  BY FS_Subset
<1>2. Cardinality(Others) \in Nat /\ Cardinality(Others \cup {i}) = Cardinality(Others) + 1
  BY <1>1, FS_CardinalityType, FS_AddElement
<1>3. Before = (IF f[i] \in P THEN Others \cup {i} ELSE Others)
  OBVIOUS
<1>4. After = (IF v \in P THEN Others \cup {i} ELSE Others)
  OBVIOUS
<1>5. Number([f EXCEPT ![i] = v], P) = Cardinality(After) /\ Number(f, P) = Cardinality(Before)
  BY DEF Number
<1> HIDE DEF Before, After, Others
<1>6. Cardinality(Before) = Cardinality(Others) + Count(f[i] \in P)
  BY <1>2, <1>3 DEF Count
<1>7. Cardinality(After) = Cardinality(Others) + Count(v \in P)
  BY <1>2, <1>4 DEF Count
<1>8. Count(f[i] \in P) \in Int /\ Count(v \in P) \in Int
  BY DEF Count
<1> QED
  BY <1>2, <1>5, <1>6, <1>7, <1>8

-----------------------------------------------------------------------------
(* The types of the operators.                                             *)

LEMMA DesignFacts ==
  ASSUME TypeOK, NEW g \in GATE
  PROVE  /\ Kind(g) \in KIND
         /\ Ins(g) \in Seq(REG \cup NETS) /\ Outs(g) \in Seq(NETS)
         /\ Inputs(g) = 1..Len(Ins(g)) /\ IsFiniteSet(Inputs(g))
         /\ design.delay[g] \in Seq(Nat) /\ Len(design.delay[g]) <= 3
         /\ Terminals(Kind(g), Len(Ins(g)), Len(Outs(g)))
<1>1. IsDesign(design)
  BY GatesAssumption DEF TypeOK
<1>2. Inputs(g) = 1..Len(Ins(g)) /\ Len(Ins(g)) \in Nat
  BY <1>1 DEF IsDesign, Inputs, Ins
<1>3. IsFiniteSet(1..Len(Ins(g)))
  BY <1>2, FS_Interval
<1> QED
  BY <1>1, <1>2, <1>3 DEF IsDesign, Kind, Ins, Outs

LEMMA EvalDelayType ==
  ASSUME NEW ds \in Seq(Nat), Len(ds) <= 3, NEW v
  PROVE  eval_delay(ds, v) \in Nat
<1>1. Len(ds) \in Nat /\ \A i \in 1..Len(ds) : ds[i] \in Nat
  OBVIOUS
<1>2. CASE Len(ds) = 0
  BY <1>2 DEF eval_delay
<1>3. CASE Len(ds) = 1
  BY <1>1, <1>3 DEF eval_delay
<1>4. CASE Len(ds) = 2
  BY <1>1, <1>4 DEF eval_delay, Least
<1>5. CASE Len(ds) = 3
  <2>1. ds[1] \in Nat /\ ds[2] \in Nat /\ ds[3] \in Nat
    BY <1>1, <1>5
  <2>2. Least(ds[1], ds[2]) \in Nat
    BY <2>1 DEF Least
  <2>3. Least(Least(ds[1], ds[2]), ds[3]) \in Nat
    BY <2>1, <2>2 DEF Least
  <2> QED
    BY <1>5, <2>1, <2>2, <2>3 DEF eval_delay
<1>6. Len(ds) = 0 \/ Len(ds) = 1 \/ Len(ds) = 2 \/ Len(ds) = 3
  <2>1. \A n \in Nat : n <= 3 => n = 0 \/ n = 1 \/ n = 2 \/ n = 3
    OBVIOUS
  <2> QED
    BY <1>1, <2>1
<1> QED
  BY <1>2, <1>3, <1>4, <1>5, <1>6

LEMMA CombineType ==
  ASSUME NEW type, NEW vs \in SUBSET VAL
  PROVE  Combine(type, vs) \in VAL
<1> DEFINE driven == vs \ {Z}
           wired  == IF driven = {} THEN Z ELSE IF \E v \in VAL : driven = {v} THEN CHOOSE v \in driven : TRUE ELSE X
<1>1. wired \in VAL
  <2>1. CASE driven = {}
    BY <2>1 DEF VAL
  <2>2. CASE driven # {}
    <3>1. (CHOOSE v \in driven : TRUE) \in driven
      BY <2>2
    <3> QED
      BY <2>2, <3>1 DEF VAL
  <2> QED BY <2>1, <2>2
<1>2. ZERO \in VAL /\ ONE \in VAL
  BY DEF VAL
<1> QED
  BY <1>1, <1>2 DEF Combine

LEMMA NetEvalType ==
  ASSUME TypeOK, NEW n \in NETS, NEW excluded
  PROVE  do_net_eval(n, excluded) \in VAL
<1>1. \A p \in Ports : driver[p[1]][p[2]] \in VAL
  BY DEF Ports, TypeOK
<1>2. {driver[p[1]][p[2]] : p \in {p \in Ports \ excluded : Drives(p) = n}} \subseteq VAL
  BY <1>1
<1> QED
  BY <1>2, CombineType DEF do_net_eval

LEMMA PropagatedType ==
  ASSUME TypeOK, NEW g \in GATE
  PROVE  Propagated(g, output[g]) \in [DOMAIN Outs(g) -> VAL]
<1>1. CASE Kind(g) \in Tran
  <2>1. DOMAIN Outs(g) = 1..2 /\ Outs(g) \in Seq(NETS)
    BY <1>1, DesignFacts DEF Terminals
  <2>2. \A j \in 1..2 : Outs(g)[3 - j] \in NETS
    <3>1. \A i \in DOMAIN Outs(g) : Outs(g)[i] \in NETS
      BY <2>1
    <3>2. \A j \in 1..2 : 3 - j \in 1..2
      OBVIOUS
    <3> QED
      BY <2>1, <3>1, <3>2
  <2>3. \A j \in 1..2 : do_net_eval(Outs(g)[3 - j], {<<g, 3 - j>>}) \in VAL
    BY <2>2, NetEvalType
  <2>4. Z \in VAL
    BY DEF VAL
  <2> QED
    BY <1>1, <2>1, <2>3, <2>4 DEF Propagated, Across
<1>2. CASE Kind(g) \notin Tran
  BY <1>2 DEF Propagated, TypeOK
<1> QED BY <1>1, <1>2

LEMMA OutputType ==
  ASSUME NEW k \in KIND, NEW in, NEW n, NEW x, NEW out \in VAL,
         k \in Bufif \cup Notif \cup Mos \cup Cmos \cup Buf => in[1] \in VAL
  PROVE  ExecOutput(k, in, n, x, out) \in VAL
<1> USE DEF VAL, ZERO, ONE, Z, X
<1>1. AndOutput(k, n, x) \in VAL /\ OrOutput(k, n, x) \in VAL /\ XorOutput(k, n, x) \in VAL
  BY DEF AndOutput, OrOutput, XorOutput, Inverted, Not
<1>2. in[1] \in VAL => BufOutput(k, in[1]) \in VAL
  BY DEF BufOutput, Inverted, Not
<1>3. in[1] \in VAL => BufifOutput(k, in[1], in[2]) \in VAL
  BY DEF BufifOutput
<1>4. NotifOutput(k, in[1], in[2]) \in VAL
  BY DEF NotifOutput, Not
<1>5. in[1] \in VAL => MosOutput(k, in[1], in[2]) \in VAL
  BY DEF MosOutput
<1>6. in[1] \in VAL => CmosOutput(in[1], in[2], in[3]) \in VAL
  BY DEF CmosOutput
<1> QED
  BY <1>1, <1>2, <1>3, <1>4, <1>5, <1>6 DEF ExecOutput

-----------------------------------------------------------------------------
(* The kinds are disjoint, so that one arm of ExecOutput applies.          *)
LEMMA KindsDisjoint ==
  /\ \A k \in And : k \notin Or \cup Xor \cup Buf \cup Bufif \cup Notif \cup Mos \cup Cmos \cup Tran \cup Pull
  /\ \A k \in Or : k \notin And \cup Xor \cup Buf \cup Bufif \cup Notif \cup Mos \cup Cmos \cup Tran \cup Pull
  /\ \A k \in Xor : k \notin And \cup Or \cup Buf \cup Bufif \cup Notif \cup Mos \cup Cmos \cup Tran \cup Pull
  /\ \A k \in Buf : k \notin And \cup Or \cup Xor \cup Bufif \cup Notif \cup Mos \cup Cmos \cup Tran \cup Pull
  /\ \A k \in Bufif : k \notin And \cup Or \cup Xor \cup Buf \cup Notif \cup Mos \cup Cmos \cup Tran \cup Pull
  /\ \A k \in Notif : k \notin And \cup Or \cup Xor \cup Buf \cup Bufif \cup Mos \cup Cmos \cup Tran \cup Pull
  /\ \A k \in Mos : k \notin And \cup Or \cup Xor \cup Buf \cup Bufif \cup Notif \cup Cmos \cup Tran \cup Pull
  /\ \A k \in Cmos : k \notin And \cup Or \cup Xor \cup Buf \cup Bufif \cup Notif \cup Mos \cup Tran \cup Pull
BY DEF And, Or, Xor, Buf, Bufif, Notif, Mos, Cmos, Tran, Tranif, Pull

(* With exact counts the output is the one of the truth table.             *)
LEMMA LogicIsTable ==
  ASSUME NEW k \in Logic, NEW D, IsFiniteSet(D), NEW in \in [D -> VAL], NEW out
  PROVE  ExecOutput(k, in, Number(in, {Counted(k)}), Number(in, Unknown), out) = Table(k, in)
<1> DEFINE Hit   == {i \in D : in[i] \in {Counted(k)}}
           Unkn  == {i \in D : in[i] \in Unknown}
           n     == Number(in, {Counted(k)})
           x     == Number(in, Unknown)
           known == \A i \in D : in[i] \in Known
           odd   == Number(in, {ONE}) % 2 = 1
<1>1. IsFiniteSet(Hit) /\ IsFiniteSet(Unkn)
  BY FS_Subset
<1>2. n \in Nat /\ x \in Nat /\ (n = 0 <=> Hit = {}) /\ (x = 0 <=> Unkn = {})
  <2>1. n = Cardinality(Hit) /\ x = Cardinality(Unkn)
    BY DEF Number
  <2> HIDE DEF n, x, Hit, Unkn
  <2> QED
    BY <1>1, <2>1, FS_CardinalityType, FS_EmptySet
<1>3. Hit = {} <=> ~\E i \in D : in[i] = Counted(k)
  OBVIOUS
<1>4. Unkn = {} <=> known
  BY DEF Known, Unknown, VAL, ZERO, ONE, Z, X
<1>5. k \in Xor => (n % 2 = 1 <=> odd)
  BY DEF Counted, Xor, And
<1>6. Table(k, in) = Inverted(k, IF k \in Xor THEN IF ~known THEN X ELSE IF odd THEN ONE ELSE ZERO
                                 ELSE IF Hit # {} THEN Counted(k)
                                 ELSE IF known THEN Not(Counted(k)) ELSE X)
  BY <1>3 DEF Table, LogicTable
<1> HIDE DEF Hit, Unkn, n, x, known, odd
<1>7. ASSUME k \in And \/ k \in Or
      PROVE  ExecOutput(k, in, n, x, out) = Table(k, in)
  <2>1. k \notin Xor
    BY <1>7 DEF And, Or, Xor
  <2>2. ExecOutput(k, in, n, x, out) =
          Inverted(k, IF n > 0 THEN Counted(k) ELSE IF x = 0 THEN Not(Counted(k)) ELSE X)
    <3>1. CASE k \in And
      <4>1. Counted(k) = ZERO /\ Not(ZERO) = ONE
        BY <3>1 DEF Counted, Not
      <4> QED BY <3>1, <4>1, KindsDisjoint DEF ExecOutput, AndOutput
    <3>2. CASE k \in Or
      <4>1. k \notin And /\ Counted(k) = ONE /\ Not(ONE) = ZERO
        BY <3>2 DEF Counted, Not, And, Or, ZERO, ONE
      <4> QED BY <3>2, <4>1, KindsDisjoint DEF ExecOutput, OrOutput
    <3> QED BY <1>7, <3>1, <3>2
  <2>3. CASE n > 0
    <3>1. Hit # {}
      BY <1>2, <2>3
    <3> QED BY <1>6, <2>1, <2>2, <2>3, <3>1
  <2>4. CASE n = 0 /\ x = 0
    <3>1. ~(n > 0) /\ Hit = {} /\ known
      BY <1>2, <1>4, <2>4
    <3> QED BY <1>6, <2>1, <2>2, <2>4, <3>1
  <2>5. CASE n = 0 /\ x # 0
    <3>1. ~(n > 0) /\ Hit = {} /\ ~known
      BY <1>2, <1>4, <2>5
    <3> QED BY <1>6, <2>1, <2>2, <2>5, <3>1
  <2> QED
    BY <1>2, <2>3, <2>4, <2>5
<1>8. ASSUME k \in Xor
      PROVE  ExecOutput(k, in, n, x, out) = Table(k, in)
  <2>1. ExecOutput(k, in, n, x, out) = Inverted(k, IF x > 0 THEN X ELSE IF n % 2 = 1 THEN ONE ELSE ZERO)
    BY <1>8, KindsDisjoint DEF ExecOutput, XorOutput
  <2>2. Table(k, in) = Inverted(k, IF ~known THEN X ELSE IF odd THEN ONE ELSE ZERO)
    BY <1>6, <1>8
  <2>3. CASE x > 0
    <3>1. ~known
      BY <1>2, <1>4, <2>3
    <3> QED BY <2>1, <2>2, <2>3, <3>1
  <2>4. CASE ~(x > 0)
    <3>1. known
      BY <1>2, <1>4, <2>4
    <3>2. CASE odd
      <4>1. n % 2 = 1
        BY <1>5, <1>8, <3>2
      <4> QED BY <2>1, <2>2, <2>4, <3>1, <3>2, <4>1
    <3>3. CASE ~odd
      <4>1. n % 2 # 1
        BY <1>5, <1>8, <3>3
      <4> QED BY <2>1, <2>2, <2>4, <3>1, <3>3, <4>1
    <3> QED BY <3>2, <3>3
  <2> QED
    BY <2>3, <2>4
<1>9. ExecOutput(k, in, n, x, out) = Table(k, in)
  BY <1>7, <1>8 DEF Logic
<1> QED
  BY <1>9 DEF n, x

-----------------------------------------------------------------------------
(* The inductive invariant: the type, the counts, and the outputs.         *)
IInv == TypeOK /\ CountsExact /\ OutputIsTable

(* The truth tables of the gates that look at their inputs do not use the  *)
(* counts.                                                                 *)
LEMMA OtherIsTable ==
  ASSUME NEW k \in KIND, k \notin Logic \cup Tran \cup Pull, NEW in, NEW n, NEW x, NEW out
  PROVE  ExecOutput(k, in, n, x, out) = Table(k, in)
<1>1. k \in Buf \cup Bufif \cup Notif \cup Mos \cup Cmos /\ k \notin And \cup Or \cup Xor
  BY DEF KIND, Logic
<1>2. CASE k \in Buf
  BY <1>1, <1>2, KindsDisjoint DEF ExecOutput, Table, Logic
<1>3. CASE k \in Bufif
  BY <1>1, <1>3, KindsDisjoint DEF ExecOutput, Table, Logic
<1>4. CASE k \in Notif
  BY <1>1, <1>4, KindsDisjoint DEF ExecOutput, Table, Logic
<1>5. CASE k \in Mos
  BY <1>1, <1>5, KindsDisjoint DEF ExecOutput, Table, Logic
<1>6. CASE k \in Cmos
  BY <1>1, <1>6, KindsDisjoint DEF ExecOutput, Table, Logic
<1> QED
  BY <1>1, <1>2, <1>3, <1>4, <1>5, <1>6

(* Unknown inputs give an unknown output.                                  *)
LEMMA TableOfX ==
  ASSUME NEW k \in KIND, k \notin Tran \cup Pull, NEW len \in Nat, NEW in,
         in = [i \in 1..len |-> X],
         k \in Logic \cup Buf => len >= 1,
         k \in Bufif \cup Notif \cup Mos => len = 2,
         k \in Cmos => len = 3
  PROVE  Table(k, in) = X
<1> USE DEF ZERO, ONE, Z, X
<1>1. CASE k \in Logic
  <2>1. 1 \in DOMAIN in /\ \A i \in DOMAIN in : in[i] = X
    BY <1>1
  <2>2. ~(\A i \in DOMAIN in : in[i] \in Known) /\ ~(\E i \in DOMAIN in : in[i] = Counted(k))
    BY <2>1 DEF Known, Counted
  <2>3. LogicTable(k, in) = Inverted(k, X)
    BY <2>2 DEF LogicTable
  <2> QED
    BY <1>1, <2>3 DEF Table, Inverted, Not
<1>2. CASE k \notin Logic
  <2>1. k \in Buf \cup Bufif \cup Notif \cup Mos \cup Cmos
    BY <1>2 DEF KIND
  <2>2. Table(k, in) = ExecOutput(k, in, 0, 0, X)
    BY <1>2 DEF Table
  <2>3. CASE k \in Buf
    <3>1. in[1] = X
      BY <2>3
    <3> QED BY <2>2, <2>3, <3>1, KindsDisjoint DEF ExecOutput, BufOutput, Inverted, Not
  <2>4. CASE k \in Bufif
    <3>1. in[2] = X
      BY <2>4
    <3> QED BY <2>2, <2>4, <3>1, KindsDisjoint DEF ExecOutput, BufifOutput, Unknown
  <2>5. CASE k \in Notif
    <3>1. in[2] = X
      BY <2>5
    <3> QED BY <2>2, <2>5, <3>1, KindsDisjoint DEF ExecOutput, NotifOutput, Unknown
  <2>6. CASE k \in Mos
    <3>1. in[1] = X /\ in[2] = X
      BY <2>6
    <3> QED BY <2>2, <2>6, <3>1, KindsDisjoint DEF ExecOutput, MosOutput, Unknown
  <2>7. CASE k \in Cmos
    <3>1. in[1] = X /\ in[2] = X /\ in[3] = X
      BY <2>7
    <3> QED BY <2>2, <2>7, <3>1, KindsDisjoint DEF ExecOutput, CmosOutput
  <2> QED
    BY <2>1, <2>3, <2>4, <2>5, <2>6, <2>7
<1> QED
  BY <1>1, <1>2

(* How many inputs a gate has.                                             *)
LEMMA ReadsOf ==
  ASSUME NEW k, NEW reads \in Nat, NEW drives, Terminals(k, reads, drives)
  PROVE  /\ k \in Logic \cup Buf => reads >= 1
         /\ k \in Bufif \cup Notif \cup Mos => reads = 2
         /\ k \in Cmos => reads = 3
<1>1. k \in Logic => reads >= 1
  <2>1. reads \in 1..63 => reads >= 1
    OBVIOUS
  <2> QED BY <2>1 DEF Terminals
<1>2. k \in Buf => reads >= 1
  <2>1. reads = 1 => reads >= 1
    OBVIOUS
  <2> QED BY <2>1 DEF Terminals
<1>3. /\ k \in Bufif \cup Notif \cup Mos => reads = 2
      /\ k \in Cmos => reads = 3
  BY DEF Terminals
<1> QED
  BY <1>1, <1>2, <1>3

LEMMA InitInv == Init => IInv
<1> SUFFICES ASSUME Init PROVE IInv
  OBVIOUS
<1>1. IsDesign(design) /\ design \in Designs
  BY GatesAssumption DEF Init
<1>2. ASSUME NEW g \in GATE
      PROVE  /\ Kind(g) \in KIND /\ Len(Ins(g)) \in Nat /\ Inputs(g) = 1..Len(Ins(g))
             /\ Terminals(Kind(g), Len(Ins(g)), Len(Outs(g)))
             /\ input[g] = [i \in Inputs(g) |-> X]
  BY <1>1 DEF IsDesign, Kind, Ins, Outs, Inputs, Init
<1>3. TypeOK
  <2>1. val \in [REG \cup NETS -> VAL] /\ output \in [GATE -> VAL]
    BY DEF Init, VAL
  <2>2. DOMAIN input = GATE /\ \A g \in GATE : input[g] \in [Inputs(g) -> VAL]
    BY DEF Init, VAL
  <2>3. DOMAIN driver = GATE /\ \A g \in GATE : driver[g] \in [DOMAIN Outs(g) -> VAL]
    BY DEF Init, VAL
  <2>4. fired \in [GATE -> Nat] /\ any_Xs \in [GATE -> Nat]
    BY <1>2 DEF Init, Count
  <2>5. netlist \subseteq NETS
    BY DEF Init, SelfDriven
  <2> QED
    BY <1>1, <2>1, <2>2, <2>3, <2>4, <2>5 DEF TypeOK, Init
<1>4. CountsExact
  <2> SUFFICES ASSUME NEW g \in GATE, Kind(g) \in Logic
               PROVE  fired[g] = Number(input[g], {Counted(Kind(g))}) /\ any_Xs[g] = Number(input[g], Unknown)
    BY DEF CountsExact
  <2>1. {i \in DOMAIN input[g] : input[g][i] \in {Counted(Kind(g))}} = {}
    BY <1>2 DEF Counted, ZERO, ONE, X
  <2>2. {i \in DOMAIN input[g] : input[g][i] \in Unknown} = 1..Len(Ins(g))
    BY <1>2 DEF Unknown
  <2>3. Cardinality({}) = 0
    BY FS_EmptySet
  <2>4. \A n \in Nat : Cardinality(1..n) = n
    <3> TAKE n \in Nat
    <3>1. Cardinality(1..n) = IF 1 > n THEN 0 ELSE n - 1 + 1
      BY FS_Interval
    <3> QED BY <3>1
  <2>5. Kind(g) \notin Tran
    BY KindsDisjoint DEF Logic
  <2>6. fired[g] = 0 /\ any_Xs[g] = Len(Ins(g))
    BY <2>5 DEF Init, Count
  <2> QED
    BY <1>2, <2>1, <2>2, <2>3, <2>4, <2>6 DEF Number
<1>5. OutputIsTable
  <2> SUFFICES ASSUME NEW g \in GATE, Kind(g) \notin Tran \cup Pull
               PROVE  output[g] = Table(Kind(g), input[g])
    BY DEF OutputIsTable
  <2>1. output[g] = X
    BY DEF Init, Pull
  <2>2. Table(Kind(g), input[g]) = X
    <3>1. /\ Kind(g) \in Logic \cup Buf => Len(Ins(g)) >= 1
          /\ Kind(g) \in Bufif \cup Notif \cup Mos => Len(Ins(g)) = 2
          /\ Kind(g) \in Cmos => Len(Ins(g)) = 3
      BY <1>2, ReadsOf
    <3>2. input[g] = [i \in 1..Len(Ins(g)) |-> X] /\ Len(Ins(g)) \in Nat /\ Kind(g) \in KIND
      BY <1>2
    <3>3. Kind(g) \notin Tran \cup Pull
      OBVIOUS
    <3> QED
      BY <3>1, <3>2, <3>3, TableOfX
  <2> QED
    BY <2>1, <2>2
<1> QED
  BY <1>3, <1>4, <1>5 DEF IInv

-----------------------------------------------------------------------------
(* The steps.                                                              *)

(* Only the routines of the gates touch the inputs, the counts and the     *)
(* outputs.                                                                *)
LEMMA SameGates ==
  ASSUME CountsExact, OutputIsTable, UNCHANGED <<design, input, fired, any_Xs, output>>
  PROVE  CountsExact' /\ OutputIsTable'
<1>1. CountsExact'
  BY DEF CountsExact, Kind, Inputs, Ins
<1>2. OutputIsTable'
  BY DEF OutputIsTable, Kind
<1> QED
  BY <1>1, <1>2

(* The circuit does not change.                                            *)
LEMMA SameDesign ==
  ASSUME design' = design
  PROVE  /\ Markers' = Markers
         /\ \A g \in GATE : Kind(g)' = Kind(g) /\ Ins(g)' = Ins(g) /\ Outs(g)' = Outs(g) /\ Inputs(g)' = Inputs(g)
BY DEF Markers, Inputs, Ins, Outs, Kind

(* When a gate or a switch is queued, it is for a time.                    *)
LEMMA QueueType ==
  ASSUME TypeOK, NEW g \in GATE, NEW out
  PROVE  Queue(g, out) \in Nat
<1>1. eval_delay(design.delay[g], out) \in Nat
  BY DesignFacts, EvalDelayType
<1> QED
  BY <1>1 DEF Queue, TypeOK

(* One notification keeps the counts, for the inputs after it.             *)
LEMMA RecountExact ==
  ASSUME IInv, NEW g \in GATE, Kind(g) \in Logic, NEW i \in Inputs(g), NEW new \in VAL
  PROVE  /\ Recount(Kind(g), fired[g], input[g][i], new)
              = Number([input[g] EXCEPT ![i] = new], {Counted(Kind(g))})
         /\ RecountX(any_Xs[g], input[g][i], new)
              = Number([input[g] EXCEPT ![i] = new], Unknown)
<1>1. input[g] \in [Inputs(g) -> VAL] /\ IsFiniteSet(Inputs(g))
  BY DesignFacts DEF IInv, TypeOK
<1>2. fired[g] = Number(input[g], {Counted(Kind(g))}) /\ any_Xs[g] = Number(input[g], Unknown)
  BY DEF IInv, CountsExact
<1> DEFINE c == Counted(Kind(g))
           C == {c}
<1>3. Count(input[g][i] \in C) = Count(input[g][i] = c) /\ Count(new \in C) = Count(new = c)
  BY DEF Count
<1>4. fired[g] = Number(input[g], C)
  BY <1>2
<1>5. Recount(Kind(g), fired[g], input[g][i], new) = Number(input[g], C) - Count(input[g][i] \in C) + Count(new \in C)
  BY <1>3, <1>4 DEF Recount
<1>6. Recount(Kind(g), fired[g], input[g][i], new) = Number([input[g] EXCEPT ![i] = new], C)
  <2> HIDE DEF C
  <2> QED
    BY <1>1, <1>5, NumberAfterChange
<1>7. RecountX(any_Xs[g], input[g][i], new) = Number([input[g] EXCEPT ![i] = new], Unknown)
  BY <1>1, <1>2, NumberAfterChange DEF RecountX
<1> QED
  BY <1>6, <1>7

(* One input of one gate is notified.                                      *)
LEMMA ExecInv ==
  ASSUME IInv, NEW g \in GATE, NEW i \in Inputs(g), Exec(g, i)
  PROVE  IInv'
<1> DEFINE k    == Kind(g)
           old  == input[g][i]
           new  == val[Ins(g)[i]]
           in   == [input[g] EXCEPT ![i] = new]
           n    == IF k \in Logic THEN Recount(k, fired[g], old, new)
                   ELSE IF k \in Tran THEN Conducts(k, i, new, fired[g]) ELSE fired[g]
           x    == IF k \in Logic THEN RecountX(any_Xs[g], old, new) ELSE any_Xs[g]
           out  == ExecOutput(k, in, n, x, output[g])
<1>0. TypeOK /\ CountsExact /\ OutputIsTable
  BY DEF IInv
<1>1. /\ walk' = walk \ {<<g, i>>}
      /\ UNCHANGED <<design, val, driver, netlist, boot, first, CurrentTime>>
  BY DEF Exec
<1>2. CASE old = new
  <2>1. UNCHANGED <<input, fired, any_Xs, output, pending, since>>
    BY <1>2 DEF Exec
  <2>2. CountsExact' /\ OutputIsTable'
    BY <1>0, <1>1, <2>1, SameGates
  <2>3. TypeOK'
    <3>1. Markers' = Markers /\ \A h \in GATE : Inputs(h)' = Inputs(h) /\ Outs(h)' = Outs(h)
      BY <1>1, SameDesign
    <3> QED
      BY <1>0, <1>1, <2>1, <3>1 DEF TypeOK
  <2> QED
    BY <2>2, <2>3 DEF IInv
<1>3. CASE old # new
  <2>1. /\ input' = [input EXCEPT ![g] = in]
        /\ fired' = [fired EXCEPT ![g] = n]
        /\ any_Xs' = [any_Xs EXCEPT ![g] = x]
        /\ output' = [output EXCEPT ![g] = out]
        /\ since' \in {since, [since EXCEPT ![g] = CurrentTime]}
        /\ pending' \in {[pending EXCEPT ![g] = t] : t \in {TranTime(g, i, TRUE), TranTime(g, i, FALSE), Queue(g, out), pending[g]}}
    BY <1>3 DEF Exec
  <2>2. k \in KIND /\ IsFiniteSet(Inputs(g)) /\ input[g] \in [Inputs(g) -> VAL]
    BY <1>0, DesignFacts DEF TypeOK
  <2>3. new \in VAL
    BY <1>0, DesignFacts DEF TypeOK
  <2>4. in \in [Inputs(g) -> VAL]
    BY <2>2, <2>3
  <2>5. ASSUME k \in Logic
        PROVE  n = Number(in, {Counted(k)}) /\ x = Number(in, Unknown)
    <3>1. /\ Recount(k, fired[g], old, new) = Number(in, {Counted(k)})
          /\ RecountX(any_Xs[g], old, new) = Number(in, Unknown)
      <4> HIDE DEF new
      <4> QED
        BY <2>3, <2>5, RecountExact
    <3> HIDE DEF k, old, new, in
    <3> QED
      BY <2>5, <3>1
  <2>6. n \in Nat /\ x \in Nat
    <3>1. CASE k \in Logic
      <4>1. DOMAIN in = Inputs(g)
        BY <2>4
      <4> HIDE DEF k, n, x, in
      <4> QED
        BY <2>2, <2>5, <3>1, <4>1, NumberIsNat
    <3>2. CASE k \notin Logic
      <4>1. fired[g] \in Nat /\ any_Xs[g] \in Nat
        BY <1>0 DEF TypeOK
      <4>2. Conducts(k, i, new, fired[g]) \in Nat
        BY <4>1 DEF Conducts, Count
      <4> HIDE DEF k, new
      <4> QED
        BY <3>2, <4>1, <4>2
    <3> QED
      BY <3>1, <3>2
  <2>7. output[g] \in VAL
    BY <1>0 DEF TypeOK
  <2>8. out \in VAL
    <3>1. k \in Bufif \cup Notif \cup Mos \cup Cmos \cup Buf => in[1] \in VAL
      <4>1. Terminals(k, Len(Ins(g)), Len(Outs(g))) /\ Inputs(g) = 1..Len(Ins(g)) /\ Ins(g) \in Seq(REG \cup NETS)
        BY <1>0, DesignFacts
      <4>2. Len(Ins(g)) \in Nat
        BY <4>1
      <4>3. k \in Bufif \cup Notif \cup Mos \cup Cmos \cup Buf => Len(Ins(g)) >= 1
        <5> HIDE DEF k
        <5> QED BY <4>1, <4>2, ReadsOf
      <4> HIDE DEF k, in
      <4> QED
        BY <2>4, <4>1, <4>2, <4>3
    <3> HIDE DEF k, in, n, x
    <3> QED
      BY <2>2, <2>7, <3>1, OutputType
  <2>9. ASSUME k \notin Tran \cup Pull
        PROVE  out = Table(k, in)
    <3>1. CASE k \in Logic
      <4> HIDE DEF k, in, n, x
      <4> QED
        BY <2>2, <2>4, <2>5, <3>1, LogicIsTable
    <3>2. CASE k \notin Logic
      <4> HIDE DEF k, in, n, x
      <4> QED
        BY <2>2, <2>9, <3>2, OtherIsTable
    <3> QED
      BY <3>1, <3>2
  <2>10. /\ Markers' = Markers
         /\ \A h \in GATE : Kind(h)' = Kind(h) /\ Inputs(h)' = Inputs(h) /\ Outs(h)' = Outs(h)
    BY <1>1, SameDesign
  <2> HIDE DEF k, in, n, x, out
  <2>11. \A h \in GATE : h # g => /\ input'[h] = input[h] /\ fired'[h] = fired[h]
                                   /\ any_Xs'[h] = any_Xs[h] /\ output'[h] = output[h]
    BY <1>0, <2>1 DEF TypeOK
  <2>12. input'[g] = in /\ fired'[g] = n /\ any_Xs'[g] = x /\ output'[g] = out
    BY <1>0, <2>1 DEF TypeOK
  <2>13. TypeOK'
    <3>1. CurrentTime \in Nat /\ pending[g] \in Nat \cup {NONE} /\ pending \in [GATE -> Nat \cup {NONE}] /\ since \in [GATE -> Nat]
      BY <1>0 DEF TypeOK
    <3>2. Queue(g, out) \in Nat /\ Queue(g, output[g]) \in Nat
      BY <1>0, QueueType
    <3>3. \A b \in {TRUE, FALSE} : TranTime(g, i, b) \in Nat \cup {NONE}
      BY <3>1, <3>2 DEF TranTime
    <3>4. pending' \in [GATE -> Nat \cup {NONE}]
      BY <2>1, <3>1, <3>2, <3>3
    <3>5. since' \in [GATE -> Nat]
      BY <2>1, <3>1
    <3>6. fired' \in [GATE -> Nat] /\ any_Xs' \in [GATE -> Nat] /\ output' \in [GATE -> VAL]
      BY <1>0, <2>1, <2>6, <2>8 DEF TypeOK
    <3>7. DOMAIN input' = GATE /\ \A h \in GATE : input'[h] \in [Inputs(h) -> VAL]
      BY <1>0, <2>1, <2>4 DEF TypeOK
    <3>8. walk' \subseteq Markers
      BY <1>0, <1>1 DEF TypeOK
    <3> QED
      BY <1>0, <1>1, <2>10, <3>4, <3>5, <3>6, <3>7, <3>8 DEF TypeOK
  <2>14. CountsExact'
    <3> SUFFICES ASSUME NEW h \in GATE, Kind(h) \in Logic
                 PROVE  fired'[h] = Number(input'[h], {Counted(Kind(h))}) /\ any_Xs'[h] = Number(input'[h], Unknown)
      BY <2>10 DEF CountsExact
    <3>1. CASE h # g
      BY <1>0, <2>11, <3>1 DEF CountsExact
    <3>2. CASE h = g
      BY <2>5, <2>12, <3>2 DEF k
    <3> QED
      BY <3>1, <3>2
  <2>15. OutputIsTable'
    <3> SUFFICES ASSUME NEW h \in GATE, Kind(h) \notin Tran \cup Pull
                 PROVE  output'[h] = Table(Kind(h), input'[h])
      BY <2>10 DEF OutputIsTable
    <3>1. CASE h # g
      BY <1>0, <2>11, <3>1 DEF OutputIsTable
    <3>2. CASE h = g
      BY <2>9, <2>12, <3>2 DEF k
    <3> QED
      BY <3>1, <3>2
  <2> QED
    BY <2>13, <2>14, <2>15 DEF IInv
<1> QED
  BY <1>2, <1>3

(* What a gate drives is put on its ports, and nets on the net list.       *)
LEMMA DriveType ==
  ASSUME TypeOK, NEW g \in GATE, Drive(g, Propagated(g, output[g]))
  PROVE  /\ DOMAIN driver' = GATE
         /\ \A h \in GATE : driver'[h] \in [DOMAIN Outs(h) -> VAL]
         /\ netlist' \subseteq NETS
<1> DEFINE vs == Propagated(g, output[g])
<1>1. vs \in [DOMAIN Outs(g) -> VAL] /\ Outs(g) \in Seq(NETS)
  BY PropagatedType, DesignFacts
<1> HIDE DEF vs
<1>2. driver' = [driver EXCEPT ![g] = vs]
  BY DEF Drive, vs
<1>3. netlist' = netlist \cup {Outs(g)[j] : j \in {j \in DOMAIN vs : vs[j] # driver[g][j]}}
  BY DEF Drive, vs
<1>4. netlist' \subseteq NETS
  BY <1>1, <1>3 DEF TypeOK
<1> QED
  BY <1>1, <1>2, <1>4 DEF TypeOK

(* Every other step leaves the gates and their inputs alone.               *)
LEMMA OtherStepsInv ==
  ASSUME IInv,
         \/ \E g \in GATE : InitializeGate(g) \/ FirstExec(g) \/ FireGate(g)
         \/ \E r \in REG, v \in VAL : Assign(r, v)
         \/ \E n \in NETS : NetExec(n)
         \/ AdvanceTime
         \/ UNCHANGED vars
  PROVE  IInv'
<1>0. TypeOK /\ CountsExact /\ OutputIsTable
  BY DEF IInv
<1>1. UNCHANGED <<design, input, fired, any_Xs, output, since>>
  BY DEF InitializeGate, FirstExec, FireGate, Assign, NetExec, AdvanceTime, vars
<1>2. CountsExact' /\ OutputIsTable'
  BY <1>0, <1>1, SameGates
<1>3. Markers' = Markers /\ \A h \in GATE : Inputs(h)' = Inputs(h) /\ Outs(h)' = Outs(h)
  BY <1>1, SameDesign
<1>4. ASSUME NEW g \in GATE, InitializeGate(g)
      PROVE  TypeOK'
  <2>1. DOMAIN driver' = GATE /\ (\A h \in GATE : driver'[h] \in [DOMAIN Outs(h) -> VAL]) /\ netlist' \subseteq NETS
    BY <1>0, <1>4, DriveType DEF InitializeGate
  <2> QED
    BY <1>0, <1>1, <1>3, <1>4, <2>1 DEF InitializeGate, TypeOK
<1>5. ASSUME NEW g \in GATE, FirstExec(g)
      PROVE  TypeOK'
  BY <1>0, <1>1, <1>3, <1>5 DEF FirstExec, TypeOK
<1>6. ASSUME NEW g \in GATE, FireGate(g)
      PROVE  TypeOK'
  <2>1. DOMAIN driver' = GATE /\ (\A h \in GATE : driver'[h] \in [DOMAIN Outs(h) -> VAL]) /\ netlist' \subseteq NETS
    BY <1>0, <1>6, DriveType DEF FireGate
  <2> QED
    BY <1>0, <1>1, <1>3, <1>6, <2>1 DEF FireGate, TypeOK
<1>7. ASSUME NEW r \in REG, NEW v \in VAL, Assign(r, v)
      PROVE  TypeOK'
  BY <1>0, <1>1, <1>3, <1>7 DEF Assign, Readers, TypeOK
<1>8. ASSUME NEW n \in NETS, NetExec(n)
      PROVE  TypeOK'
  <2>1. do_net_eval(n, {}) \in VAL
    BY <1>0, NetEvalType
  <2>2. val' \in [REG \cup NETS -> VAL] /\ walk' \subseteq Markers /\ netlist' \subseteq NETS
    BY <1>0, <1>8, <2>1 DEF NetExec, Readers, TypeOK
  <2> QED
    BY <1>0, <1>1, <1>3, <1>8, <2>2 DEF NetExec, TypeOK
<1>9. ASSUME AdvanceTime
      PROVE  TypeOK'
  BY <1>0, <1>1, <1>3, <1>9 DEF AdvanceTime, TypeOK
<1>10. ASSUME UNCHANGED vars
       PROVE  TypeOK'
  BY <1>0, <1>1, <1>3, <1>10 DEF vars, TypeOK
<1> QED
  BY <1>2, <1>4, <1>5, <1>6, <1>7, <1>8, <1>9, <1>10 DEF IInv

(* The invariant is inductive.                                             *)
LEMMA StepInv == IInv /\ [Next]_vars => IInv'
<1> SUFFICES ASSUME IInv, [Next]_vars PROVE IInv'
  OBVIOUS
<1>1. ASSUME NEW m \in walk, Exec(m[1], m[2])
      PROVE  IInv'
  <2>1. m[1] \in GATE /\ m[2] \in Inputs(m[1])
    BY DEF IInv, TypeOK, Markers
  <2> QED
    BY <1>1, <2>1, ExecInv
<1> QED
  BY <1>1, OtherStepsInv DEF Next

-----------------------------------------------------------------------------
(* In every circuit, with any number of inputs and in any order of the     *)
(* notifications, the counts of a logic gate are those of its inputs, so   *)
(* that and_exec and its like never have to look at them again, and the    *)
(* output of a gate is what its truth table says of the inputs it has been *)
(* notified of, at every moment.                                           *)
THEOREM GatesStaySound == Spec => []GatesSound
<1>1. IInv => GatesSound
  BY DEF IInv, GatesSound
<1> QED
  BY <1>1, InitInv, StepInv, PTL DEF Spec

(* What a notification does to the output, the queue and the history.      *)
LEMMA ExecEffect ==
  ASSUME TypeOK, NEW g \in GATE, NEW i \in Inputs(g), Exec(g, i), NEW h \in GATE
  PROVE  \/ output'[h] = output[h] /\ pending'[h] = pending[h] /\ since'[h] = since[h]
         \/ /\ h = g
            /\ since'[h] = IF output'[h] = output[h] THEN since[h] ELSE CurrentTime
            /\ Kind(h) \notin Tran => \/ pending'[h] = Queue(h, output'[h])
                                      \/ pending'[h] = pending[h] /\ output'[h] = output[h]
<1> DEFINE k    == Kind(g)
           old  == input[g][i]
           new  == val[Ins(g)[i]]
           in   == [input[g] EXCEPT ![i] = new]
           n    == IF k \in Logic THEN Recount(k, fired[g], old, new)
                   ELSE IF k \in Tran THEN Conducts(k, i, new, fired[g]) ELSE fired[g]
           x    == IF k \in Logic THEN RecountX(any_Xs[g], old, new) ELSE any_Xs[g]
           out  == ExecOutput(k, in, n, x, output[g])
           time == IF k \in Tran THEN TranTime(g, i, n = 1)
                   ELSE IF out # output[g] \/ StrengthChange(k, i, in, old, out) THEN Queue(g, out)
                   ELSE pending[g]
<1>1. CASE old = new
  BY <1>1 DEF Exec
<1>2. CASE old # new
  <2>1. /\ output' = [output EXCEPT ![g] = out]
        /\ pending' = [pending EXCEPT ![g] = time]
        /\ since' = IF out = output[g] THEN since ELSE [since EXCEPT ![g] = CurrentTime]
    BY <1>2 DEF Exec
  <2>2. k \notin Tran => time = Queue(g, out) \/ (time = pending[g] /\ out = output[g])
    OBVIOUS
  <2> HIDE DEF time, out, k
  <2>3. CASE h # g
    BY <2>1, <2>3 DEF TypeOK
  <2>4. CASE h = g
    <3>1. output'[g] = out /\ pending'[g] = time /\ since'[g] = IF out = output[g] THEN since[g] ELSE CurrentTime
      BY <2>1 DEF TypeOK
    <3> QED
      BY <2>2, <2>4, <3>1 DEF k
  <2> QED
    BY <2>3, <2>4
<1> QED
  BY <1>1, <1>2

-----------------------------------------------------------------------------
(* Inertial delays.  A gate that is queued is queued for no earlier than   *)
(* its delay after its output last changed.                                *)
DelayKept(g) ==
  /\ since[g] <= CurrentTime
  /\ g \notin boot /\ Kind(g) \notin Tran /\ pending[g] # NONE =>
       pending[g] - since[g] >= eval_delay(design.delay[g], output[g])

DInv == IInv /\ \A g \in GATE : DelayKept(g)

LEMMA InitDelay == Init => DInv
<1> SUFFICES ASSUME Init PROVE DInv
  OBVIOUS
<1>1. \A g \in GATE : DelayKept(g)
  BY DEF Init, DelayKept
<1> QED
  BY <1>1, InitInv DEF DInv

LEMMA StepDelay == DInv /\ [Next]_vars => DInv'
<1> SUFFICES ASSUME DInv, [Next]_vars PROVE DInv'
  OBVIOUS
<1>0. IInv /\ IInv' /\ TypeOK /\ TypeOK' /\ \A g \in GATE : DelayKept(g)
  BY StepInv DEF DInv, IInv
<1> SUFFICES ASSUME NEW h \in GATE PROVE DelayKept(h)'
  BY <1>0 DEF DInv
<1>1. DelayKept(h) /\ since[h] \in Nat /\ CurrentTime \in Nat /\ NONE \notin Nat
  BY <1>0, GatesAssumption DEF TypeOK
<1>2. ASSUME NEW m \in walk, Exec(m[1], m[2])
      PROVE  DelayKept(h)'
  <2> DEFINE g == m[1]
             k == Kind(g)
             out == output'[g]
  <2>1. g \in GATE /\ m[2] \in Inputs(g)
    BY <1>0 DEF TypeOK, Markers
  <2>2. UNCHANGED <<design, boot, CurrentTime>>
    BY <1>2 DEF Exec
  <2>3. Kind(h)' = Kind(h)
    BY <2>2, SameDesign
  <2>4. CASE output'[h] = output[h] /\ pending'[h] = pending[h] /\ since'[h] = since[h]
    BY <1>1, <2>2, <2>3, <2>4 DEF DelayKept
  <2>5. CASE /\ h = g
             /\ since'[h] = IF out = output[h] THEN since[h] ELSE CurrentTime
             /\ k \notin Tran => pending'[h] = Queue(h, out) \/ (pending'[h] = pending[h] /\ out = output[h])
    <3>1. eval_delay(design.delay[g], out) \in Nat
      BY <1>0, <2>1, DesignFacts, EvalDelayType
    <3>2. since'[g] <= CurrentTime /\ since'[g] \in Nat
      BY <1>1, <2>5 DEF DelayKept
    <3>3. CASE pending'[g] = Queue(g, out)
      <4>1. pending'[g] - since'[g] >= eval_delay(design.delay[g], out)
        BY <1>1, <3>1, <3>2, <3>3 DEF Queue
      <4> QED
        BY <2>2, <2>3, <2>5, <3>2, <4>1 DEF DelayKept
    <3>4. CASE pending'[g] = pending[g] /\ out = output[g]
      BY <1>1, <2>2, <2>3, <2>5, <3>4 DEF DelayKept
    <3>5. CASE k \in Tran
      BY <2>2, <2>3, <2>5, <3>2, <3>5 DEF DelayKept
    <3> QED
      BY <2>5, <3>3, <3>4, <3>5
  <2>6. \/ output'[h] = output[h] /\ pending'[h] = pending[h] /\ since'[h] = since[h]
        \/ /\ h = g
           /\ since'[h] = IF output'[h] = output[h] THEN since[h] ELSE CurrentTime
           /\ Kind(h) \notin Tran => \/ pending'[h] = Queue(h, output'[h])
                                     \/ pending'[h] = pending[h] /\ output'[h] = output[h]
    <3> HIDE DEF k, out
    <3> QED
      BY <1>0, <1>2, <2>1, ExecEffect
  <2> QED
    BY <2>4, <2>5, <2>6
<1>3. ASSUME NEW g \in GATE, InitializeGate(g) \/ FireGate(g)
      PROVE  DelayKept(h)'
  <2>1. /\ UNCHANGED <<design, output, since, CurrentTime>> /\ Kind(h)' = Kind(h)
        /\ boot' = boot \/ boot' = boot \ {g}
        /\ pending' = [pending EXCEPT ![g] = NONE]
    BY <1>3, SameDesign DEF InitializeGate, FireGate
  <2>2. pending'[h] = NONE \/ (h # g /\ pending'[h] = pending[h] /\ (h \in boot' <=> h \in boot))
    BY <1>0, <2>1 DEF TypeOK
  <2> QED
    BY <1>1, <2>1, <2>2 DEF DelayKept
<1>4. ASSUME \/ \E g \in GATE : FirstExec(g)
             \/ \E r \in REG, v \in VAL : Assign(r, v)
             \/ \E n \in NETS : NetExec(n)
             \/ UNCHANGED vars
      PROVE  DelayKept(h)'
  <2>1. UNCHANGED <<design, output, pending, boot, CurrentTime, since>>
    BY <1>4 DEF FirstExec, Assign, NetExec, vars
  <2> QED
    BY <1>1, <2>1, SameDesign DEF DelayKept
<1>5. ASSUME AdvanceTime
      PROVE  DelayKept(h)'
  <2>1. UNCHANGED <<design, output, pending, boot, since>> /\ CurrentTime' = CurrentTime + 1
    BY <1>5 DEF AdvanceTime
  <2>2. Kind(h)' = Kind(h)
    BY <2>1, SameDesign
  <2>3. since[h] <= CurrentTime + 1
    BY <1>1 DEF DelayKept
  <2> QED
    BY <1>1, <2>1, <2>2, <2>3 DEF DelayKept
<1> QED
  BY <1>2, <1>3, <1>4, <1>5 DEF Next

(* In every circuit, for all delays: what a gate drives, its output has    *)
(* been for the delay of that value.                                       *)
THEOREM GatesInertial == Spec => Inertial
<1> DEFINE Kept(g) == boot = {} /\ Kind(g) \notin Tran /\ driver'[g] # driver[g] =>
                        CurrentTime - since[g] >= eval_delay(design.delay[g], output[g])
<1>1. ASSUME DInv, [Next]_vars
      PROVE  [\A g \in GATE : Kept(g)]_vars
  <2> SUFFICES ASSUME NEW h \in GATE, boot = {}, Kind(h) \notin Tran, driver'[h] # driver[h]
               PROVE  CurrentTime - since[h] >= eval_delay(design.delay[h], output[h])
    BY DEF vars
  <2>1. TypeOK /\ DelayKept(h) /\ NONE \notin Nat /\ CurrentTime \in Nat
    BY <1>1, GatesAssumption DEF DInv, IInv, TypeOK
  <2>2. PICK g \in GATE : FireGate(g)
    BY <1>1 DEF Next, Exec, InitializeGate, FirstExec, Assign, NetExec, AdvanceTime, vars
  <2>3. h = g
    BY <2>1, <2>2 DEF FireGate, Drive, TypeOK
  <2>4. pending[h] = CurrentTime
    BY <2>2, <2>3 DEF FireGate
  <2> QED
    BY <2>1, <2>4 DEF DelayKept
<1> QED
  BY <1>1, InitDelay, StepDelay, PTL DEF Spec, Inertial

-----------------------------------------------------------------------------
(* Nothing is forgotten.  An input that is not to be notified has seen its *)
(* net, a gate that is not queued has driven its output, and a net that is *)
(* not to be evaluated has the value of its drivers.                       *)
InputsSeen ==
  \A g \in GATE : g \notin boot \cup first =>
    \A i \in Inputs(g) : <<g, i>> \notin walk => input[g][i] = val[Ins(g)[i]]
OutputsDriven ==
  \A g \in GATE : g \notin boot /\ Kind(g) \notin Tran /\ pending[g] = NONE =>
    \A j \in DOMAIN Outs(g) : driver[g][j] = output[g]
NetsEvaluated ==
  \A n \in NETS : n \notin netlist => val[n] = do_net_eval(n, {})

SInv == IInv /\ InputsSeen /\ OutputsDriven /\ NetsEvaluated

LEMMA InitSettled == Init => SInv
<1> SUFFICES ASSUME Init PROVE SInv
  OBVIOUS
<1>1. InputsSeen /\ OutputsDriven
  BY DEF Init, InputsSeen, OutputsDriven
<1>2. NetsEvaluated
  <2> SUFFICES ASSUME NEW n \in NETS, n \notin netlist
               PROVE  val[n] = do_net_eval(n, {})
    BY DEF NetsEvaluated
  <2> DEFINE vs == {driver[p[1]][p[2]] : p \in {p \in Ports \ {} : Drives(p) = n}}
  <2>1. vs \subseteq {Z}
    <3>1. \A p \in Ports : p[1] \in GATE /\ p[2] \in DOMAIN Outs(p[1])
      BY DEF Ports
    <3>2. \A p \in Ports : driver[p[1]][p[2]] = Z
      BY <3>1 DEF Init
    <3> QED
      BY <3>2
  <2>2. design.type[n] \notin {"tri0", "tri1", "supply0", "supply1"}
    BY DEF Init, SelfDriven
  <2>3. do_net_eval(n, {}) = Combine(design.type[n], vs)
    BY DEF do_net_eval
  <2>4. vs \ {Z} = {}
    BY <2>1
  <2> HIDE DEF vs
  <2>5. Combine(design.type[n], vs) = Z
    BY <2>2, <2>4 DEF Combine
  <2>6. val[n] = Z
    BY GatesAssumption DEF Init
  <2> QED
    BY <2>3, <2>5, <2>6
<1> QED
  BY <1>1, <1>2, InitInv DEF SInv

(* A net has the value of its drivers still when they have not changed.    *)
LEMMA SameDrivers ==
  ASSUME NEW n \in NETS, design' = design,
         \A p \in Ports : Drives(p) = n => driver'[p[1]][p[2]] = driver[p[1]][p[2]]
  PROVE  do_net_eval(n, {})' = do_net_eval(n, {})
<1>1. Ports' = Ports /\ \A p : Drives(p)' = Drives(p)
  BY DEF Ports, Drives, Outs
<1>2. {driver'[p[1]][p[2]] : p \in {p \in Ports \ {} : Drives(p) = n}}
        = {driver[p[1]][p[2]] : p \in {p \in Ports \ {} : Drives(p) = n}}
  OBVIOUS
<1>3. do_net_eval(n, {})' = Combine(design.type[n], {driver'[p[1]][p[2]] : p \in {p \in Ports \ {} : Drives(p) = n}})
  BY <1>1 DEF do_net_eval
<1> QED
  BY <1>2, <1>3 DEF do_net_eval

(* A gate drives its outputs: their nets are to be evaluated, and the      *)
(* others have the drivers they had.                                       *)
LEMMA DriveSettled ==
  ASSUME SInv, NEW g \in GATE, UNCHANGED <<design, val, output>>, Drive(g, Propagated(g, output[g]))
  PROVE  /\ NetsEvaluated'
         /\ Kind(g) \notin Tran => \A j \in DOMAIN Outs(g) : driver'[g][j] = output[g]
         /\ \A h \in GATE : h # g => driver'[h] = driver[h]
<1> DEFINE vs == Propagated(g, output[g])
<1>0. TypeOK
  BY DEF SInv, IInv
<1>1. vs \in [DOMAIN Outs(g) -> VAL]
  BY <1>0, PropagatedType
<1>2. Kind(g) \notin Tran => \A j \in DOMAIN Outs(g) : vs[j] = output[g]
  BY DEF Propagated
<1> HIDE DEF vs
<1>3. /\ driver' = [driver EXCEPT ![g] = vs]
      /\ netlist' = netlist \cup {Outs(g)[j] : j \in {j \in DOMAIN vs : vs[j] # driver[g][j]}}
  BY DEF Drive, vs
<1>4. driver'[g] = vs /\ \A h \in GATE : h # g => driver'[h] = driver[h]
  BY <1>0, <1>3 DEF TypeOK
<1>5. NetsEvaluated'
  <2> SUFFICES ASSUME NEW n \in NETS, n \notin netlist'
               PROVE  val[n] = do_net_eval(n, {})'
    BY DEF NetsEvaluated
  <2>1. val[n] = do_net_eval(n, {})
    BY <1>3 DEF SInv, NetsEvaluated
  <2>2. ASSUME NEW p \in Ports, Drives(p) = n
        PROVE  driver'[p[1]][p[2]] = driver[p[1]][p[2]]
    <3>1. p[1] \in GATE /\ p[2] \in DOMAIN Outs(p[1])
      BY DEF Ports
    <3>2. CASE p[1] # g
      BY <1>4, <3>1, <3>2
    <3>3. CASE p[1] = g
      <4>1. Outs(g)[p[2]] = n
        BY <2>2, <3>3 DEF Drives
      <4>2. vs[p[2]] = driver[g][p[2]]
        BY <1>1, <1>3, <3>1, <3>3, <4>1
      <4> QED
        BY <1>4, <3>3, <4>2
    <3> QED
      BY <3>2, <3>3
  <2>3. do_net_eval(n, {})' = do_net_eval(n, {})
    BY <2>2, SameDrivers
  <2> QED
    BY <2>1, <2>3
<1> QED
  BY <1>2, <1>4, <1>5

(* A gate that leaves the queue, at the beginning or in its time.          *)
LEMMA FireSettled ==
  ASSUME SInv, IInv', NEW g \in GATE, InitializeGate(g) \/ FireGate(g)
  PROVE  SInv'
<1>0. TypeOK
  BY DEF SInv, IInv
<1>1. /\ UNCHANGED <<design, val, input, output, walk>>
      /\ pending' = [pending EXCEPT ![g] = NONE]
      /\ Drive(g, Propagated(g, output[g]))
      /\ \/ boot' = boot \ {g} /\ first' = first \cup {g}
         \/ boot' = boot /\ first' = first
  BY DEF InitializeGate, FireGate
<1>2. /\ NetsEvaluated'
      /\ Kind(g) \notin Tran => \A j \in DOMAIN Outs(g) : driver'[g][j] = output[g]
      /\ \A h \in GATE : h # g => driver'[h] = driver[h]
  BY <1>1, DriveSettled
<1>3. /\ Markers' = Markers
      /\ \A h \in GATE : Kind(h)' = Kind(h) /\ Ins(h)' = Ins(h) /\ Outs(h)' = Outs(h) /\ Inputs(h)' = Inputs(h)
  BY <1>1, SameDesign
<1>4. InputsSeen'
  <2>1. \A h \in GATE : h \notin boot' \cup first' => h \notin boot \cup first
    BY <1>1
  <2> QED
    BY <1>1, <1>3, <2>1 DEF SInv, InputsSeen
<1>5. OutputsDriven'
  <2> SUFFICES ASSUME NEW h \in GATE, h \notin boot', Kind(h) \notin Tran, pending'[h] = NONE,
                      NEW j \in DOMAIN Outs(h)
               PROVE  driver'[h][j] = output[h]
    BY <1>1, <1>3 DEF OutputsDriven
  <2>1. CASE h = g
    BY <1>2, <2>1
  <2>2. CASE h # g
    <3>1. h \notin boot /\ pending[h] = NONE /\ driver'[h] = driver[h]
      BY <1>0, <1>1, <1>2, <2>2 DEF TypeOK
    <3> QED
      BY <3>1 DEF SInv, OutputsDriven
  <2> QED
    BY <2>1, <2>2
<1> QED
  BY <1>2, <1>4, <1>5 DEF SInv

(* An input is notified: the gate is queued if its output changes.         *)
LEMMA ExecSettled ==
  ASSUME SInv, IInv', NEW g \in GATE, NEW i \in Inputs(g), Exec(g, i)
  PROVE  SInv'
<1>0. TypeOK /\ NONE \notin Nat
  BY GatesAssumption DEF SInv, IInv
<1>1. UNCHANGED <<design, val, driver, netlist, boot, first>> /\ walk' = walk \ {<<g, i>>}
  BY DEF Exec
<1>2. /\ Markers' = Markers
      /\ \A h \in GATE : Kind(h)' = Kind(h) /\ Ins(h)' = Ins(h) /\ Outs(h)' = Outs(h) /\ Inputs(h)' = Inputs(h)
  BY <1>1, SameDesign
<1>3. NetsEvaluated'
  <2>1. \A n \in NETS : do_net_eval(n, {})' = do_net_eval(n, {})
    BY <1>1, SameDrivers
  <2> QED
    BY <1>1, <2>1 DEF SInv, NetsEvaluated
<1>4. InputsSeen'
  <2>1. \A h \in GATE : \A j \in Inputs(h) :
          input'[h][j] = IF h = g /\ j = i THEN val[Ins(g)[i]] ELSE input[h][j]
    BY <1>0 DEF Exec, TypeOK
  <2> QED
    BY <1>1, <1>2, <2>1 DEF SInv, InputsSeen
<1>5. OutputsDriven'
  <2> SUFFICES ASSUME NEW h \in GATE, h \notin boot, Kind(h) \notin Tran, pending'[h] = NONE,
                      NEW j \in DOMAIN Outs(h)
               PROVE  driver[h][j] = output'[h]
    BY <1>1, <1>2 DEF OutputsDriven
  <2>1. output'[h] = output[h] /\ pending'[h] = pending[h]
    <3>1. Queue(h, output'[h]) # NONE
      BY <1>0, QueueType
    <3>2. \/ output'[h] = output[h] /\ pending'[h] = pending[h]
          \/ pending'[h] = Queue(h, output'[h])
      BY <1>0, ExecEffect
    <3> QED
      BY <3>1, <3>2
  <2> QED
    BY <2>1 DEF SInv, OutputsDriven
<1> QED
  BY <1>3, <1>4, <1>5 DEF SInv

LEMMA StepSettled == SInv /\ [Next]_vars => SInv'
<1> SUFFICES ASSUME SInv, [Next]_vars PROVE SInv'
  OBVIOUS
<1>0. TypeOK /\ IInv' /\ InputsSeen /\ OutputsDriven /\ NetsEvaluated
  BY StepInv DEF SInv, IInv
<1>1. ASSUME NEW m \in walk, Exec(m[1], m[2])
      PROVE  SInv'
  <2>1. m[1] \in GATE /\ m[2] \in Inputs(m[1])
    BY <1>0 DEF TypeOK, Markers
  <2> QED
    BY <1>0, <1>1, <2>1, ExecSettled
<1>2. ASSUME NEW g \in GATE, InitializeGate(g) \/ FireGate(g)
      PROVE  SInv'
  BY <1>0, <1>2, FireSettled
<1>3. ASSUME UNCHANGED <<design, input, output, driver, pending, boot>>
      PROVE  /\ OutputsDriven'
             /\ Markers' = Markers
             /\ \A n \in NETS : do_net_eval(n, {})' = do_net_eval(n, {})
             /\ \A h \in GATE : Ins(h)' = Ins(h) /\ Inputs(h)' = Inputs(h)
  <2>1. \A n \in NETS : do_net_eval(n, {})' = do_net_eval(n, {})
    BY <1>3, SameDrivers
  <2>2. /\ Markers' = Markers
        /\ \A h \in GATE : Kind(h)' = Kind(h) /\ Ins(h)' = Ins(h) /\ Outs(h)' = Outs(h) /\ Inputs(h)' = Inputs(h)
    BY <1>3, SameDesign
  <2> QED
    BY <1>0, <1>3, <2>1, <2>2 DEF OutputsDriven
<1>4. ASSUME NEW n \in REG \cup NETS, walk = {}, UNCHANGED <<design, input, boot, first>>,
             \A o \in REG \cup NETS : val'[o] # val[o] => o = n,
             walk' = Readers(n) \/ (walk' = {} /\ val'[n] = val[n])
      PROVE  InputsSeen'
  <2> SUFFICES ASSUME NEW g \in GATE, g \notin boot \cup first, NEW i \in Inputs(g), <<g, i>> \notin walk'
               PROVE  input[g][i] = val'[Ins(g)[i]]
    BY <1>4, SameDesign DEF InputsSeen
  <2>1. input[g][i] = val[Ins(g)[i]]
    BY <1>0, <1>4 DEF InputsSeen
  <2>2. Ins(g)[i] \in REG \cup NETS /\ <<g, i>> \in Markers
    BY <1>0, DesignFacts DEF Markers
  <2>3. Ins(g)[i] = n => val'[n] = val[n]
    BY <1>4, <2>2 DEF Readers
  <2> QED
    BY <1>4, <2>1, <2>2, <2>3
<1>5. ASSUME NEW g \in GATE, FirstExec(g)
      PROVE  SInv'
  <2>1. /\ UNCHANGED <<design, val, input, output, driver, pending, netlist, boot>>
        /\ walk = {} /\ walk' = {m \in Markers : m[1] = g} /\ first' = first \ {g}
    BY <1>5 DEF FirstExec, Running
  <2>2. OutputsDriven' /\ NetsEvaluated' /\ \A h \in GATE : Ins(h)' = Ins(h) /\ Inputs(h)' = Inputs(h)
    BY <1>0, <1>3, <2>1 DEF NetsEvaluated
  <2>3. \A h \in GATE : \A i \in Inputs(h) : <<h, i>> \in Markers
    BY DEF Markers
  <2>4. InputsSeen'
    BY <1>0, <2>1, <2>2, <2>3 DEF InputsSeen
  <2> QED
    BY <1>0, <2>2, <2>4 DEF SInv
<1>6. ASSUME NEW r \in REG, NEW v \in VAL, Assign(r, v)
      PROVE  SInv'
  <2>1. /\ UNCHANGED <<design, input, output, driver, pending, netlist, boot, first>>
        /\ walk = {} /\ walk' = Readers(r)
        /\ \A o \in REG \cup NETS : val'[o] # val[o] => o = r
    BY <1>0, <1>6 DEF Assign, Running, TypeOK
  <2>2. \A n \in NETS : val'[n] = val[n]
    BY <2>1, GatesAssumption
  <2>3. OutputsDriven' /\ NetsEvaluated'
    BY <1>0, <1>3, <2>1, <2>2 DEF NetsEvaluated
  <2>4. InputsSeen'
    BY <1>4, <2>1
  <2> QED
    BY <1>0, <2>3, <2>4 DEF SInv
<1>7. ASSUME NEW n \in NETS, NetExec(n)
      PROVE  SInv'
  <2>1. /\ UNCHANGED <<design, input, output, driver, pending, boot, first>>
        /\ walk = {} /\ (walk' = Readers(n) \/ (walk' = {} /\ val'[n] = val[n]))
        /\ val'[n] = do_net_eval(n, {}) /\ netlist' = netlist \ {n}
        /\ \A o \in REG \cup NETS : val'[o] # val[o] => o = n
    BY <1>0, <1>7 DEF NetExec, Running, TypeOK
  <2>2. OutputsDriven' /\ \A o \in NETS : do_net_eval(o, {})' = do_net_eval(o, {})
    BY <1>3, <2>1
  <2>3. NetsEvaluated'
    BY <1>0, <2>1, <2>2 DEF NetsEvaluated
  <2>4. InputsSeen'
    BY <1>4, <2>1
  <2> QED
    BY <1>0, <2>2, <2>3, <2>4 DEF SInv
<1>8. ASSUME AdvanceTime \/ UNCHANGED vars
      PROVE  SInv'
  <2>1. UNCHANGED <<design, val, input, output, driver, pending, netlist, walk, boot, first>>
    BY <1>8 DEF AdvanceTime, vars
  <2>2. OutputsDriven' /\ NetsEvaluated' /\ InputsSeen'
    BY <1>0, <1>3, <2>1 DEF NetsEvaluated, InputsSeen
  <2> QED
    BY <1>0, <2>2 DEF SInv
<1> QED
  BY <1>1, <1>2, <1>5, <1>6, <1>7, <1>8 DEF Next

(* In every circuit without switches: whenever nothing is left to do,      *)
(* every net has the value its gates give for the values of the nets.      *)
THEOREM GatesSettle == Spec => []SettledIsConsistent
<1>1. SInv => SettledIsConsistent
  <2> SUFFICES ASSUME SInv, Quiet, \A g \in GATE : Kind(g) \notin Tran, NEW n \in NETS
               PROVE  val[n] = Combine(design.type[n],
                        {IF Kind(p[1]) \in Pull THEN output[p[1]]
                         ELSE Table(Kind(p[1]), [i \in Inputs(p[1]) |-> val[Ins(p[1])[i]]]) :
                           p \in {p \in Ports : Drives(p) = n}})
    BY DEF SettledIsConsistent
  <2>1. ASSUME NEW p \in Ports
        PROVE  driver[p[1]][p[2]] = IF Kind(p[1]) \in Pull THEN output[p[1]]
                                    ELSE Table(Kind(p[1]), [i \in Inputs(p[1]) |-> val[Ins(p[1])[i]]])
    <3>1. p[1] \in GATE /\ p[2] \in DOMAIN Outs(p[1])
      BY DEF Ports
    <3>2. driver[p[1]][p[2]] = output[p[1]]
      BY <3>1 DEF SInv, OutputsDriven, Quiet, Running
    <3>3. input[p[1]] = [i \in Inputs(p[1]) |-> val[Ins(p[1])[i]]]
      BY <3>1 DEF SInv, IInv, TypeOK, InputsSeen, Quiet, Running
    <3>4. Kind(p[1]) \notin Pull => output[p[1]] = Table(Kind(p[1]), input[p[1]])
      BY <3>1 DEF SInv, IInv, OutputIsTable
    <3> QED
      BY <3>2, <3>3, <3>4
  <2>2. {driver[p[1]][p[2]] : p \in {p \in Ports \ {} : Drives(p) = n}} =
          {IF Kind(p[1]) \in Pull THEN output[p[1]]
           ELSE Table(Kind(p[1]), [i \in Inputs(p[1]) |-> val[Ins(p[1])[i]]]) :
             p \in {p \in Ports : Drives(p) = n}}
    BY <2>1
  <2>3. val[n] = do_net_eval(n, {})
    BY DEF SInv, NetsEvaluated, Quiet
  <2> QED
    BY <2>2, <2>3 DEF do_net_eval
<1> QED
  BY <1>1, InitSettled, StepSettled, PTL DEF Spec
=============================================================================
