-------------------------- MODULE PathDelays_proofs --------------------------
EXTENDS PathDelays, Lemmas

LEMMA FlattenIn ==
  ASSUME NEW S, NEW seqs \in Seq(S), seqs # <<>>, \A x, y \in S : x \o y \in S
  PROVE  FlattenSeq(seqs) \in S
<1> DEFINE n == Len(seqs) - 1
           Step(f) == [i \in 1 .. Len(seqs) |-> IF i = 1 THEN seqs[i] ELSE f[i - 1] \o seqs[i]]
           flatten == CHOOSE f : f = Step(f)
<1>1. n \in Nat /\ Len(seqs) \in Nat /\ \A i \in 1 .. Len(seqs) : seqs[i] \in S
  OBVIOUS
<1>2. PICK g \in [0 .. n -> S] : g[0] = seqs[1] /\ \A k \in 1 .. n : g[k] = g[k - 1] \o seqs[k + 1]
  <2> DEFINE h == [k \in 1 .. n |-> [s \in S |-> s \o seqs[k + 1]]]
  <2>1. h \in [1 .. n -> [S -> S]] /\ seqs[1] \in S
    BY <1>1
  <2> DEFINE first == seqs[1]
  <2>2. PICK g : Iterates(g, n, S, first, h)
    <3>1. n \in Nat /\ first \in S /\ h \in [1 .. n -> [S -> S]]
      BY <1>1, <2>1
    <3> HIDE DEF h, n, first
    <3> QED
      BY <3>1, Iteration
  <2>3. ASSUME NEW k \in 1 .. n PROVE g[k] = g[k - 1] \o seqs[k + 1]
    <3>1. k - 1 \in 0 .. n
      BY <1>1
    <3>2. h[k] = [s \in S |-> s \o seqs[k + 1]]
      OBVIOUS
    <3> HIDE DEF h, n, first
    <3>3. g[k - 1] \in S /\ g[k] = h[k][g[k - 1]]
      BY <2>2, <3>1 DEF Iterates
    <3> QED
      BY <3>2, <3>3
  <2> QED
    BY <2>2, <2>3 DEF Iterates
<1>3. flatten = Step(flatten)
  <2> DEFINE G == [i \in 1 .. Len(seqs) |-> g[i - 1]]
  <2>1. ASSUME NEW i \in 1 .. Len(seqs) PROVE G[i] = IF i = 1 THEN seqs[i] ELSE G[i - 1] \o seqs[i]
    <3>1. CASE i = 1
      BY <1>1, <1>2, <3>1
    <3>2. CASE i # 1
      <4>1. i - 1 \in 1 .. n /\ i - 1 \in 1 .. Len(seqs)
        BY <1>1, <3>2
      <4>2. g[i - 1] = g[i - 1 - 1] \o seqs[i - 1 + 1]
        BY <1>2, <4>1
      <4>3. G[i] = g[i - 1] /\ G[i - 1] = g[i - 1 - 1] /\ i - 1 + 1 = i
        BY <4>1
      <4> HIDE DEF G
      <4> QED
        BY <3>2, <4>2, <4>3
    <3> QED
      BY <3>1, <3>2
  <2>2. G = Step(G)
    BY <2>1
  <2>3. \E f : f = Step(f)
    BY <2>2
  <2> HIDE DEF Step
  <2> QED
    BY <2>3
<1>4. 0 .. n \subseteq {k \in 0 .. n : flatten[k + 1] \in S}
  <2> HIDE DEF flatten
  <2>1. flatten[1] \in S
    BY <1>1, <1>3
  <2>2. ASSUME NEW k \in 0 .. n - 1, flatten[k + 1] \in S PROVE flatten[k + 2] \in S
    <3>1. k + 2 \in 1 .. Len(seqs) /\ k + 2 # 1 /\ k + 2 - 1 = k + 1
      BY <1>1
    <3>2. flatten[k + 2] = flatten[k + 2 - 1] \o seqs[k + 2]
      BY <1>3, <3>1
    <3> QED
      BY <1>1, <2>2, <3>1, <3>2
  <2> DEFINE T == {k \in 0 .. n : flatten[k + 1] \in S}
  <2>3. 0 \in T /\ \A k \in 0 .. n - 1 : k \in T => k + 1 \in T
    BY <1>1, <2>1, <2>2
  <2> HIDE DEF T, n
  <2> QED
    BY <1>1, <2>3, Induction DEF T
<1>5. FlattenSeq(seqs) = flatten[Len(seqs)]
  BY <1>1 DEF FlattenSeq
<1> QED
  BY <1>1, <1>4, <1>5

LEMMA FlattenType ==
  ASSUME NEW T, NEW seqs \in Seq(Seq(T))
  PROVE  /\ FlattenSeq(seqs) \in Seq(T)
         /\ seqs # <<>> /\ (\A i \in DOMAIN seqs : seqs[i] # <<>>) => FlattenSeq(seqs) # <<>>
<1>1. CASE seqs = <<>>
  BY <1>1 DEF FlattenSeq
<1>2. CASE seqs # <<>>
  <2> DEFINE S == Seq(T)
             Full == {s \in Seq(T) : s # <<>>}
  <2>1. \A x, y \in S : x \o y \in S
    OBVIOUS
  <2>2. \A x, y \in Full : x \o y \in Full
    OBVIOUS
  <2>3. FlattenSeq(seqs) \in S
    <3> HIDE DEF S
    <3>1. seqs \in Seq(S)
      BY DEF S
    <3> QED
      BY <1>2, <2>1, <3>1, FlattenIn
  <2>4. ASSUME \A i \in DOMAIN seqs : seqs[i] # <<>> PROVE FlattenSeq(seqs) \in Full
    <3>1. seqs \in Seq(Full)
      BY <2>4
    <3> HIDE DEF Full
    <3> QED
      BY <1>2, <2>2, <3>1, FlattenIn
  <2> QED
    BY <2>3, <2>4
<1> QED
  BY <1>1, <1>2

LEMMA OutputsType == Outputs \in Seq((DOMAIN Paths) \X NET)
<1> DEFINE T == (DOMAIN Paths) \X NET
           of(i) == [j \in DOMAIN Paths[PATH[i]].outputs |-> <<PATH[i], Paths[PATH[i]].outputs[j]>>]
           seqs == [i \in DOMAIN PATH |-> of(i)]
<1>1. ASSUME NEW i \in DOMAIN PATH PROVE of(i) \in Seq(T)
  <2>1. PATH[i] \in DOMAIN Paths /\ Paths[PATH[i]].outputs \in Seq(NET)
    BY PathAssumption
  <2> QED
    BY <2>1
<1>2. seqs \in Seq(Seq(T))
  <2> HIDE DEF of, T
  <2> QED
    BY <1>1, PathAssumption
<1>3. Outputs = FlattenSeq(seqs)
  BY DEF Outputs
<1> HIDE DEF T, seqs
<1>4. FlattenSeq(seqs) \in Seq(T)
  BY <1>2, FlattenType
<1> QED
  BY <1>3, <1>4 DEF T

(* insert_specify_paths gives gates lists of paths.                        *)
LEMMA InsertedType == Inserted \in [GATE -> Seq(DOMAIN Paths)]
<1> DEFINE n == Len(Outputs)
           S == [stopped : BOOLEAN, list : [GATE -> Seq(DOMAIN Paths)]]
           base == [stopped |-> FALSE, list |-> [g \in GATE |-> <<>>]]
           visit(st, o) == IF st.stopped \/ Undriven(o[2]) THEN st
                           ELSE IF ~Accepts(o[2]) THEN [st EXCEPT !.stopped = TRUE]
                           ELSE [st EXCEPT !.list = add_spec_to_gate(@, o[2], o[1])]
           Step(f) == [k \in 0 .. n |-> IF k = 0 THEN base ELSE visit(f[k - 1], Outputs[k])]
           visited == CHOOSE f : f = Step(f)
           h == [k \in 1 .. n |-> [s \in S |-> visit(s, Outputs[k])]]
<1>1. n \in Nat /\ \A k \in 1 .. n : Outputs[k] \in (DOMAIN Paths) \X NET
  BY OutputsType
<1>2. ASSUME NEW st \in S, NEW k \in 1 .. n PROVE visit(st, Outputs[k]) \in S
  <2> DEFINE o == Outputs[k]
  <2>1. o[1] \in DOMAIN Paths
    BY <1>1
  <2>2. CASE st.stopped \/ Undriven(o[2])
    BY <2>2
  <2>3. CASE ~(st.stopped \/ Undriven(o[2])) /\ ~Accepts(o[2])
    BY <2>3
  <2>4. CASE ~(st.stopped \/ Undriven(o[2])) /\ Accepts(o[2])
    <3>1. Head(Drivers[o[2]]) \in GATE
      BY <2>4 DEF Accepts
    <3> HIDE DEF o
    <3>2. add_spec_to_gate(st.list, o[2], o[1]) \in [GATE -> Seq(DOMAIN Paths)]
      BY <2>1, <3>1 DEF add_spec_to_gate
    <3>3. [st EXCEPT !.list = add_spec_to_gate(st.list, o[2], o[1])] \in S
      BY <3>2
    <3> QED
      BY <2>4, <3>3 DEF o
  <2> QED
    BY <2>2, <2>3, <2>4
<1>3. PICK f : Iterates(f, n, S, base, h)
  <2>1. base \in S
    BY <1>1
  <2>2. h \in [1 .. n -> [S -> S]]
    <3> HIDE DEF visit, S
    <3> QED
      BY <1>2
  <2> HIDE DEF S, base, h, n
  <2> QED
    BY <1>1, <2>1, <2>2, Iteration
<1>4. f = Step(f)
  <2>1. ASSUME NEW k \in 1 .. n PROVE f[k] = visit(f[k - 1], Outputs[k])
    <3>1. k - 1 \in 0 .. n
      BY <1>1
    <3>2. h[k] = [s \in S |-> visit(s, Outputs[k])]
      OBVIOUS
    <3> HIDE DEF h, n, S, base, visit
    <3>3. f[k - 1] \in S /\ f[k] = h[k][f[k - 1]]
      BY <1>3, <3>1 DEF Iterates
    <3> QED
      BY <3>2, <3>3
  <2> HIDE DEF h, n, S, base, visit
  <2> QED
    BY <1>1, <1>3, <2>1 DEF Iterates
<1>5. visited = Step(visited)
  <2>1. \E v : v = Step(v)
    BY <1>4
  <2> HIDE DEF Step
  <2> QED
    BY <2>1
<1>6. 0 .. n \subseteq {k \in 0 .. n : visited[k] \in S}
  <2> DEFINE T == {k \in 0 .. n : visited[k] \in S}
  <2>1. visited[0] = base /\ base \in S
    <3> HIDE DEF visited
    <3>1. visited[0] = base
      BY <1>1, <1>5
    <3> QED
      BY <3>1
  <2>2. ASSUME NEW k \in 0 .. n - 1, visited[k] \in S PROVE visited[k + 1] \in S
    <3>1. k + 1 \in 1 .. n /\ k + 1 \in 0 .. n /\ k + 1 # 0 /\ k + 1 - 1 = k
      BY <1>1
    <3>2. visited[k + 1] = visit(visited[k], Outputs[k + 1])
      <4> HIDE DEF visited, visit, base
      <4> QED
        BY <1>5, <3>1
    <3> HIDE DEF visited, visit, S, n
    <3> QED
      BY <1>2, <2>2, <3>1, <3>2
  <2> HIDE DEF visited, S, n
  <2>3. 0 \in T /\ \A k \in 0 .. n - 1 : k \in T => k + 1 \in T
    BY <1>1, <2>1, <2>2
  <2> HIDE DEF T
  <2>4. 0 .. n \subseteq T
    BY <1>1, <2>3, Induction
  <2> QED
    BY <2>4 DEF T
<1>7. Inserted = visited[n].list
  BY DEF Inserted
<1>8. visited[n] \in S
  <2> HIDE DEF visited, S
  <2> QED
    BY <1>1, <1>6
<1> HIDE DEF visited
<1> QED
  BY <1>7, <1>8

LEMMA DependenciesType ==
  ASSUME NEW g \in GATE
  PROVE  /\ Dependencies[g] \in Seq([path : DOMAIN Paths, input : INPUT])
         /\ HasPath(g) => Dependencies[g] # <<>>
<1> DEFINE T == [path : DOMAIN Paths, input : INPUT]
           C == Constraints[g]
           of(k) == [j \in DOMAIN Paths[C[k]].inputs |-> [path |-> C[k], input |-> Paths[C[k]].inputs[j]]]
           seqs == [k \in DOMAIN C |-> of(k)]
<1>1. C \in Seq(DOMAIN Paths)
  <2>1. Inserted[g] \in Seq(DOMAIN Paths)
    BY InsertedType
  <2>2. C = Reverse(Inserted[g])
    BY DEF Constraints
  <2>3. Reverse(Inserted[g]) \in Seq(DOMAIN Paths)
    BY <2>1 DEF Reverse
  <2> QED
    BY <2>2, <2>3
<1>2. ASSUME NEW k \in DOMAIN C PROVE of(k) \in Seq(T) /\ of(k) # <<>>
  <2>1. C[k] \in DOMAIN Paths
    BY <1>1
  <2>2. Paths[C[k]].inputs \in Seq(INPUT) /\ Paths[C[k]].inputs # <<>>
    BY <2>1, PathAssumption
  <2>3. ASSUME NEW p \in DOMAIN Paths, NEW I \in Seq(INPUT), I # <<>>
        PROVE  /\ [j \in DOMAIN I |-> [path |-> p, input |-> I[j]]] \in Seq(T)
               /\ [j \in DOMAIN I |-> [path |-> p, input |-> I[j]]] # <<>>
    <3> DEFINE r == [j \in DOMAIN I |-> [path |-> p, input |-> I[j]]]
    <3>1. DOMAIN I = 1 .. Len(I) /\ Len(I) \in Nat \ {0} /\ \A j \in DOMAIN I : I[j] \in INPUT
      BY <2>3
    <3>2. \A j \in DOMAIN I : r[j] \in T
      BY <3>1
    <3>3. r \in [1 .. Len(I) -> T]
      BY <3>1, <3>2
    <3>4. 1 \in DOMAIN r
      BY <3>1
    <3> HIDE DEF r, T
    <3>5. r \in Seq(T) /\ r # <<>>
      BY <3>1, <3>3, <3>4
    <3> QED
      BY <3>5 DEF r
  <2> HIDE DEF T, C
  <2> QED
    BY <2>1, <2>2, <2>3
<1>3. seqs \in Seq(Seq(T)) /\ (\A k \in DOMAIN seqs : seqs[k] # <<>>) /\ (C # <<>> => seqs # <<>>)
  <2> HIDE DEF of, T, C
  <2> QED
    BY <1>1, <1>2
<1>4. Dependencies[g] = FlattenSeq(seqs)
  BY DEF Dependencies
<1>5. HasPath(g) <=> C # <<>>
  BY DEF HasPath
<1> HIDE DEF T, seqs, C
<1>6. FlattenSeq(seqs) \in Seq(T) /\ (C # <<>> => FlattenSeq(seqs) # <<>>)
  BY <1>3, FlattenType
<1> QED
  BY <1>4, <1>5, <1>6 DEF T

-----------------------------------------------------------------------------
(* The delays.                                                             *)

LEMMA MinMaxPair ==
  ASSUME NEW a \in Int, NEW b \in Int, a < b
  PROVE  Min({a, b}) = a /\ Max({a, b}) = b
BY DEF Min, Max

LEMMA DelayOfType ==
  ASSUME NEW ds \in Seq(Nat), Len(ds) \in {1, 2, 3, 6},
         NEW v \in {ZERO, ONE, Z}, NEW w \in {ZERO, ONE, Z}, v # w
  PROVE  DelayOf(ds, v, w) \in Nat
BY DEF DelayOf, ZERO, ONE, Z

(* The two values that a value can come from or change to.                 *)
LEMMA Others ==
  ASSUME NEW w \in {ZERO, ONE, Z}
  PROVE  LET other == {ZERO, ONE, Z} \ {w}
         IN /\ Min(other) \in {ZERO, ONE, Z} \ {w} /\ Max(other) \in {ZERO, ONE, Z} \ {w}
            /\ other = {Min(other), Max(other)}
<1>1. CASE w = 0
  <2>1. {ZERO, ONE, Z} \ {w} = {1, 2}
    BY <1>1 DEF ZERO, ONE, Z
  <2> QED
    BY <2>1, MinMaxPair
<1>2. CASE w = 1
  <2>1. {ZERO, ONE, Z} \ {w} = {0, 2}
    BY <1>2 DEF ZERO, ONE, Z
  <2> QED
    BY <2>1, MinMaxPair
<1>3. CASE w = 2
  <2>1. {ZERO, ONE, Z} \ {w} = {0, 1}
    BY <1>3 DEF ZERO, ONE, Z
  <2> QED
    BY <2>1, MinMaxPair
<1> QED
  BY <1>1, <1>2, <1>3 DEF ZERO, ONE, Z

LEMMA DelayType ==
  ASSUME NEW ds \in Delays, NEW p \in DOMAIN Paths, NEW v \in Values, NEW w \in Values
  PROVE  PATH_CONSTRAINT_DELAY(ds[p], v, w) \in Nat
<1>1. ds[p] \in Seq(Nat) /\ Len(ds[p]) \in {1, 2, 3, 6}
  BY PathAssumption
<1>2. \A x, y \in {ZERO, ONE, Z} : x # y => DelayOf(ds[p], x, y) \in Nat
  BY <1>1, DelayOfType
<1>3. CASE v = w
  BY <1>3 DEF PATH_CONSTRAINT_DELAY
<1>4. CASE v # w /\ v = X
  <2>1. w \in {ZERO, ONE, Z}
    BY <1>4 DEF Values
  <2>2. ASSUME NEW a \in Nat, NEW b \in Nat PROVE Greatest(a, b) \in Nat
    BY DEF Greatest
  <2> QED
    BY <1>2, <1>4, <2>1, <2>2, Others DEF PATH_CONSTRAINT_DELAY
<1>5. CASE v # w /\ v # X /\ w = X
  <2>1. v \in {ZERO, ONE, Z}
    BY <1>5 DEF Values
  <2>2. ASSUME NEW a \in Nat, NEW b \in Nat PROVE Least(a, b) \in Nat
    BY DEF Least
  <2> QED
    BY <1>2, <1>5, <2>1, <2>2, Others DEF PATH_CONSTRAINT_DELAY
<1>6. CASE v # w /\ v # X /\ w # X
  BY <1>2, <1>6 DEF PATH_CONSTRAINT_DELAY, Values
<1> QED
  BY <1>3, <1>4, <1>5, <1>6

(* A change to x takes no longer than one to another value, and one from x *)
(* no less than one from another value (setXPathConstraints), for all      *)
(* delays that paths have.                                                 *)
THEOREM DelaysArePessimistic == ASSUME delays \in Delays PROVE XPessimism
<1> SUFFICES ASSUME NEW p \in DOMAIN Paths, NEW v \in {ZERO, ONE, Z}, NEW w \in {ZERO, ONE, Z}, v # w
             PROVE  /\ PATH_CONSTRAINT_DELAY(delays[p], v, X) <= PATH_CONSTRAINT_DELAY(delays[p], v, w)
                    /\ PATH_CONSTRAINT_DELAY(delays[p], X, w) >= PATH_CONSTRAINT_DELAY(delays[p], v, w)
  BY DEF XPessimism
<1> DEFINE d(x, y) == DelayOf(delays[p], x, y)
<1>1. delays[p] \in Seq(Nat) /\ Len(delays[p]) \in {1, 2, 3, 6}
  BY PathAssumption
<1>2. \A x, y \in {ZERO, ONE, Z} : x # y => d(x, y) \in Nat
  BY <1>1, DelayOfType
<1>3. v # X /\ w # X
  BY DEF ZERO, ONE, Z, X
<1>4. PATH_CONSTRAINT_DELAY(delays[p], v, w) = d(v, w)
  BY <1>3 DEF PATH_CONSTRAINT_DELAY
<1>5. PATH_CONSTRAINT_DELAY(delays[p], v, X) <= d(v, w)
  <2> DEFINE other == {ZERO, ONE, Z} \ {v}
  <2>1. PATH_CONSTRAINT_DELAY(delays[p], v, X) = Least(d(v, Min(other)), d(v, Max(other)))
    BY <1>3 DEF PATH_CONSTRAINT_DELAY
  <2>2. /\ Min(other) \in {ZERO, ONE, Z} \ {v} /\ Max(other) \in {ZERO, ONE, Z} \ {v}
        /\ w \in {Min(other), Max(other)}
    BY Others
  <2> HIDE DEF other, d
  <2> QED
    BY <1>2, <2>1, <2>2 DEF Least
<1>6. PATH_CONSTRAINT_DELAY(delays[p], X, w) >= d(v, w)
  <2> DEFINE other == {ZERO, ONE, Z} \ {w}
  <2>1. PATH_CONSTRAINT_DELAY(delays[p], X, w) = Greatest(d(Min(other), w), d(Max(other), w))
    BY <1>3 DEF PATH_CONSTRAINT_DELAY
  <2>2. /\ Min(other) \in {ZERO, ONE, Z} \ {w} /\ Max(other) \in {ZERO, ONE, Z} \ {w}
        /\ v \in {Min(other), Max(other)}
    BY Others
  <2> HIDE DEF other, d
  <2> QED
    BY <1>2, <2>1, <2>2 DEF Greatest
<1> QED
  BY <1>4, <1>5, <1>6

-----------------------------------------------------------------------------
(* The loop of handle_specify_path finds the time of the latest store of   *)
(* an input and the least delay of the paths from inputs stored then.      *)

Stored(g, k)      == update[Dependencies[g][k].input]
Delay(g, v, k)    == PATH_CONSTRAINT_DELAY(delays[Dependencies[g][k].path], current_value[g], v)
IsLatest(g, v, n, best) ==
  /\ best.time \in Nat /\ best.delay \in Nat
  /\ \A k \in 1 .. n : Stored(g, k) <= best.time /\ (Stored(g, k) = best.time => best.delay <= Delay(g, v, k))
  /\ \E k \in 1 .. n : Stored(g, k) = best.time /\ Delay(g, v, k) = best.delay

LEMMA TimesType ==
  ASSUME TypeOK, NEW g \in GATE, NEW v \in Values, NEW k \in 1 .. Len(Dependencies[g])
  PROVE  Stored(g, k) \in Nat /\ Delay(g, v, k) \in Nat
<1>1. Dependencies[g][k] \in [path : DOMAIN Paths, input : INPUT]
  <2> DEFINE T == [path : DOMAIN Paths, input : INPUT]
             D == Dependencies[g]
  <2>1. D \in Seq(T) /\ k \in 1 .. Len(D)
    BY DependenciesType
  <2> HIDE DEF T, D
  <2>2. D[k] \in T
    BY <2>1
  <2> QED
    BY <2>2 DEF T, D
<1>2. Stored(g, k) \in Nat
  BY <1>1 DEF TypeOK, Stored
<1>3. Delay(g, v, k) \in Nat
  BY <1>1, DelayType DEF TypeOK, Delay
<1> QED
  BY <1>2, <1>3

LEMMA LatestInputIsLatest ==
  ASSUME TypeOK, NEW g \in PathGate, NEW v \in Values
  PROVE  IsLatest(g, v, Len(Dependencies[g]), LatestInput(g, v))
<1> DEFINE n == Len(Dependencies[g])
           S == [time : Nat, delay : Nat \cup {NONE}]
           base == [time |-> 0, delay |-> NONE]
           step(p, k) == Later(p, Stored(g, k), Delay(g, v, k))
           Step(f) == [k \in 0 .. n |-> IF k = 0 THEN base ELSE step(f[k - 1], k)]
           best == CHOOSE f : f = Step(f)
           h == [k \in 1 .. n |-> [p \in S |-> step(p, k)]]
<1>1. g \in GATE /\ n \in Nat /\ n # 0
  <2>1. g \in GATE /\ HasPath(g)
    BY DEF PathGate
  <2> QED
    BY <2>1, DependenciesType
<1>2. ASSUME NEW k \in 1 .. n PROVE Stored(g, k) \in Nat /\ Delay(g, v, k) \in Nat
  BY <1>1, TimesType
<1>3. ASSUME NEW p \in S, NEW k \in 1 .. n PROVE step(p, k) \in S
  BY <1>2 DEF Later
<1>4. best = Step(best)
  <2>1. PICK f : Iterates(f, n, S, base, h)
    <3>1. base \in S
      OBVIOUS
    <3>2. h \in [1 .. n -> [S -> S]]
      <4> HIDE DEF step, S
      <4> QED
        BY <1>3
    <3> HIDE DEF S, base, h, n
    <3> QED
      BY <1>1, <3>1, <3>2, Iteration
  <2>2. ASSUME NEW k \in 1 .. n PROVE f[k] = step(f[k - 1], k)
    <3>1. k - 1 \in 0 .. n
      BY <1>1
    <3>2. h[k] = [p \in S |-> step(p, k)]
      OBVIOUS
    <3> HIDE DEF h, n, S, base, step
    <3>3. f[k - 1] \in S /\ f[k] = h[k][f[k - 1]]
      BY <2>1, <3>1 DEF Iterates
    <3> QED
      BY <3>2, <3>3
  <2>3. f = Step(f)
    <3> HIDE DEF h, n, S, base, step
    <3> QED
      BY <1>1, <2>1, <2>2 DEF Iterates
  <2>4. \E f_1 : f_1 = Step(f_1)
    BY <2>3
  <2> HIDE DEF Step
  <2> QED
    BY <2>4
<1> HIDE DEF best
<1>5. best[0] = base /\ \A k \in 1 .. n : best[k] = Later(best[k - 1], Stored(g, k), Delay(g, v, k))
  <2>1. best[0] = base
    BY <1>1, <1>4
  <2>2. ASSUME NEW k \in 1 .. n PROVE best[k] = step(best[k - 1], k)
    <3>1. k \in 0 .. n /\ k # 0
      BY <1>1
    <3> HIDE DEF step, base
    <3> QED
      BY <1>4, <3>1
  <2> QED
    BY <2>1, <2>2
<1>6. IsLatest(g, v, 1, best[1])
  <2>1. 1 \in 1 .. n
    BY <1>1
  <2>2. best[1] = Later(base, Stored(g, 1), Delay(g, v, 1))
    <3> HIDE DEF base
    <3> QED
      BY <1>5, <2>1
  <2>3. Stored(g, 1) \in Nat /\ Delay(g, v, 1) \in Nat
    BY <1>2, <2>1
  <2>4. best[1].time = Stored(g, 1) /\ best[1].delay = Delay(g, v, 1)
    BY <2>2, <2>3 DEF Later
  <2> QED
    BY <2>3, <2>4 DEF IsLatest
<1>7. ASSUME NEW k \in 1 .. n, k + 1 \in 1 .. n, IsLatest(g, v, k, best[k])
      PROVE  IsLatest(g, v, k + 1, best[k + 1])
  <2>1. best[k + 1] = Later(best[k], Stored(g, k + 1), Delay(g, v, k + 1))
    <3>1. k + 1 - 1 = k
      OBVIOUS
    <3> HIDE DEF base, n
    <3> QED
      BY <1>5, <1>7, <3>1
  <2>2. Stored(g, k + 1) \in Nat /\ Delay(g, v, k + 1) \in Nat
    BY <1>2, <1>7
  <2>3. \A j \in 1 .. k : Stored(g, j) \in Nat /\ Delay(g, v, j) \in Nat
    BY <1>2, <1>7
  <2>4. 1 .. k + 1 = (1 .. k) \cup {k + 1}
    OBVIOUS
  <2>5. best[k].delay # NONE /\ best[k].time \in Nat /\ best[k].delay \in Nat
    BY <1>7, PathAssumption DEF IsLatest
  <2>6. CASE Stored(g, k + 1) > best[k].time
    <3>1. best[k + 1].time = Stored(g, k + 1) /\ best[k + 1].delay = Delay(g, v, k + 1)
      BY <2>1, <2>6 DEF Later
    <3>2. ASSUME NEW j \in 1 .. k + 1 PROVE Stored(g, j) <= best[k + 1].time
      BY <1>7, <2>2, <2>3, <2>4, <2>5, <2>6, <3>1, <3>2, SMTT(30) DEF IsLatest
    <3>3. ASSUME NEW j \in 1 .. k + 1, Stored(g, j) = best[k + 1].time
          PROVE  best[k + 1].delay <= Delay(g, v, j)
      BY <1>7, <2>2, <2>3, <2>4, <2>5, <2>6, <3>1, <3>3, SMTT(30) DEF IsLatest
    <3>4. k + 1 \in 1 .. k + 1
      BY <1>1
    <3> QED
      BY <2>2, <3>1, <3>2, <3>3, <3>4 DEF IsLatest
  <2>7. CASE Stored(g, k + 1) = best[k].time /\ Delay(g, v, k + 1) < best[k].delay
    <3>1. best[k + 1] = [best[k] EXCEPT !.delay = Delay(g, v, k + 1)]
      BY <2>1, <2>2, <2>5, <2>7 DEF Later
    <3>2. best[k + 1].time = Stored(g, k + 1) /\ best[k + 1].delay = Delay(g, v, k + 1)
      BY <2>7, <3>1
    <3> QED
      BY <1>7, <2>2, <2>3, <2>4, <2>5, <2>7, <3>2, SMTT(30) DEF IsLatest
  <2>8. CASE ~(Stored(g, k + 1) > best[k].time)
             /\ ~(Stored(g, k + 1) = best[k].time /\ Delay(g, v, k + 1) < best[k].delay)
    <3>1. best[k + 1] = best[k]
      BY <2>1, <2>5, <2>8 DEF Later
    <3> QED
      BY <1>7, <2>2, <2>3, <2>4, <2>5, <2>8, <3>1 DEF IsLatest
  <2> QED
    BY <2>6, <2>7, <2>8
<1>8. IsLatest(g, v, n, best[n])
  <2> DEFINE T == {k \in 0 .. n - 1 : IsLatest(g, v, k + 1, best[k + 1])}
  <2>1. 0 \in T
    BY <1>1, <1>6
  <2>2. ASSUME NEW k \in 0 .. n - 1 - 1, k \in T PROVE k + 1 \in T
    <3>1. k + 1 \in 1 .. n /\ k + 1 + 1 \in 1 .. n /\ k + 1 \in 0 .. n - 1
      BY <1>1
    <3> HIDE DEF n
    <3> QED
      BY <1>7, <2>2, <3>1
  <2>3. n - 1 \in Nat /\ n - 1 \in 0 .. n - 1 /\ n - 1 + 1 = n
    BY <1>1
  <2> HIDE DEF T, n
  <2>4. 0 .. n - 1 \subseteq T
    BY <2>1, <2>2, <2>3, Induction
  <2> QED
    BY <2>3, <2>4 DEF T
<1>9. LatestInput(g, v) = best[n]
  BY DEF LatestInput, best, Stored, Delay
<1> QED
  BY <1>8, <1>9

LEMMA MaxIs ==
  ASSUME NEW S \in SUBSET Int, NEW m \in S, \A x \in S : m >= x
  PROVE  Max(S) = m
<1>1. Max(S) \in S /\ \A x \in S : Max(S) >= x
  BY DEF Max
<1>2. Max(S) \in Int /\ m \in Int /\ Max(S) >= m /\ m >= Max(S)
  BY <1>1
<1> QED
  BY <1>2

LEMMA MinIs ==
  ASSUME NEW S \in SUBSET Int, NEW m \in S, \A x \in S : m <= x
  PROVE  Min(S) = m
<1>1. Min(S) \in S /\ \A x \in S : Min(S) <= x
  BY DEF Min
<1>2. Min(S) \in Int /\ m \in Int /\ Min(S) <= m /\ m <= Min(S)
  BY <1>1
<1> QED
  BY <1>2

(* The time that the loop fixes is that of DueTime.                        *)
LEMMA DueIsDueTime ==
  ASSUME TypeOK, NEW g \in PathGate, net[g] = current_value[g]
  PROVE  Due(g, output[g]) = DueTime(g) /\ Due(g, output[g]) \in Nat
<1> DEFINE v == output[g]
           n == Len(Dependencies[g])
           best == LatestInput(g, v)
           D == Range(Dependencies[g])
           times == {update[d.input] : d \in D}
           last == Max(times)
           waits == {PATH_CONSTRAINT_DELAY(delays[d.path], net[g], output[g])
                       : d \in {d \in D : update[d.input] = last}}
<1>1. g \in GATE /\ v \in Values /\ n \in Nat
  <2>1. g \in GATE
    BY DEF PathGate
  <2> QED
    BY <2>1, DependenciesType DEF TypeOK
<1>2. IsLatest(g, v, n, best)
  BY <1>1, LatestInputIsLatest
<1>3. D = {Dependencies[g][k] : k \in 1 .. n}
  <2> DEFINE T == [path : DOMAIN Paths, input : INPUT]
  <2>1. Dependencies[g] \in Seq(T)
    BY <1>1, DependenciesType
  <2> HIDE DEF T
  <2>2. DOMAIN Dependencies[g] = 1 .. n
    BY <2>1
  <2> QED
    BY <2>2 DEF Range
<1>4. \A k \in 1 .. n : Stored(g, k) \in Nat /\ Delay(g, v, k) \in Nat
  BY <1>1, TimesType
<1>5. times = {Stored(g, k) : k \in 1 .. n}
  <2> HIDE DEF D, n
  <2> QED
    BY <1>3 DEF Stored
<1>6. last = best.time
  <2>1. best.time \in times /\ times \in SUBSET Int /\ \A x \in times : best.time >= x
    <3> HIDE DEF times, best, n, v
    <3> QED
      BY <1>2, <1>4, <1>5 DEF IsLatest
  <2> HIDE DEF times, best
  <2> QED
    BY <2>1, MaxIs
<1>7. waits = {Delay(g, v, k) : k \in {k \in 1 .. n : Stored(g, k) = last}}
  <2> HIDE DEF D, n, last
  <2> QED
    BY <1>3 DEF Stored, Delay
<1>8. Min(waits) = best.delay
  <2>1. best.delay \in waits /\ waits \in SUBSET Int /\ \A x \in waits : best.delay <= x
    <3> HIDE DEF waits, best, n, v, last
    <3> QED
      BY <1>2, <1>4, <1>6, <1>7 DEF IsLatest
  <2> HIDE DEF waits, best
  <2> QED
    BY <2>1, MinIs
<1>9. DueTime(g) = last + Min(waits)
  BY DEF DueTime
<1>10. Due(g, v) = best.time + best.delay
  BY DEF Due
<1> HIDE DEF best, last, waits, v, n
<1> QED
  BY <1>2, <1>6, <1>8, <1>9, <1>10 DEF IsLatest, v

-----------------------------------------------------------------------------
(* The inductive invariant is PathSound without the part that follows.     *)
IInv == TypeOK /\ PathKnows

LEMMA IInvSettled == IInv => PathSettled
BY DEF IInv, PathKnows, PathSettled

LEMMA InitIInv == Init => IInv
<1> SUFFICES ASSUME Init PROVE IInv
  OBVIOUS
<1>1. TypeOK
  BY PathAssumption DEF Init, TypeOK, Values
<1>2. PathKnows
  BY DEF Init, PathKnows
<1> QED
  BY <1>1, <1>2 DEF IInv

LEMMA StoreIInv ==
  ASSUME IInv, NEW i \in INPUT, NEW g \in GATE, NEW v \in VALUE, NEW t \in GateDelays, Store(i, g, v, t)
  PROVE  IInv'
<1>1. v \in Values /\ t \in Nat /\ CurrentTime \in Nat /\ CurrentTime + t \in Nat /\ CurrentTime + t # NONE
  BY PathAssumption DEF IInv, TypeOK
<1>2. update' \in [INPUT -> 0 .. CurrentTime] /\ output' \in [GATE -> Values]
  BY <1>1 DEF Store, IInv, TypeOK
<1>3. queued' \in [GATE -> Nat \cup {NONE}]
  BY <1>1 DEF Store, IInv, TypeOK
<1>4. TypeOK'
  BY <1>2, <1>3 DEF Store, IInv, TypeOK, specs
<1>5. ASSUME NEW h \in GATE, queued'[h] = NONE PROVE queued[h] = NONE /\ output'[h] = output[h]
  BY <1>1, <1>5 DEF Store, IInv, TypeOK
<1>6. PathKnows'
  BY <1>5 DEF Store, IInv, PathKnows, specs, HasPath, Constraints
<1> QED
  BY <1>4, <1>6 DEF IInv

LEMMA FireGateIInv ==
  ASSUME IInv, NEW g \in GATE, FireGate(g)
  PROVE  IInv'
<1>1. CASE HasPath(g)
  <2>1. g \in PathGate /\ net[g] = current_value[g] /\ output[g] \in Values
    BY <1>1 DEF PathGate, IInv, PathKnows, TypeOK
  <2>2. Due(g, output[g]) \in Nat /\ Due(g, output[g]) # NONE
    BY <2>1, DueIsDueTime, PathAssumption DEF IInv
  <2>3. TypeOK'
    BY <1>1, <2>1, <2>2 DEF FireGate, PathFire, IInv, TypeOK
  <2>4. PathKnows'
    BY <1>1, <2>1, <2>2 DEF FireGate, PathFire, IInv, TypeOK, PathKnows
  <2> QED
    BY <2>3, <2>4 DEF IInv
<1>2. CASE ~HasPath(g)
  <2>1. TypeOK'
    BY <1>2 DEF FireGate, IInv, TypeOK
  <2>2. PathKnows'
    BY <1>2 DEF FireGate, IInv, TypeOK, PathKnows
  <2> QED
    BY <2>1, <2>2 DEF IInv
<1> QED
  BY <1>1, <1>2

LEMMA PropagateIInv ==
  ASSUME IInv, NEW g \in GATE, propagate_specify_path(g)
  PROVE  IInv' /\ HasPath(g)
<1>1. CurrentTime # NONE
  BY PathAssumption DEF IInv, TypeOK
<1>2. HasPath(g)
  BY <1>1 DEF propagate_specify_path, IInv, PathKnows
<1>3. TypeOK'
  BY DEF propagate_specify_path, IInv, TypeOK
<1>4. PathKnows'
  BY <1>2 DEF propagate_specify_path, IInv, TypeOK, PathKnows
<1> QED
  BY <1>2, <1>3, <1>4 DEF IInv

LEMMA NextIInv == IInv /\ [Next]_vars => IInv'
<1> SUFFICES ASSUME IInv, [Next]_vars PROVE IInv'
  OBVIOUS
<1>1. ASSUME NEW i \in INPUT, NEW g \in GATE, NEW v \in VALUE, NEW t \in GateDelays, Store(i, g, v, t)
      PROVE  IInv'
  BY <1>1, StoreIInv
<1>2. CASE UpdateTimings
  BY <1>2 DEF UpdateTimings, specs, IInv, TypeOK, PathKnows
<1>3. ASSUME NEW g \in GATE, FireGate(g) PROVE IInv'
  BY <1>3, FireGateIInv
<1>4. ASSUME NEW g \in GATE, propagate_specify_path(g) PROVE IInv'
  BY <1>4, PropagateIInv
<1>5. CASE Tick
  BY <1>5, PathAssumption DEF Tick, specs, IInv, TypeOK, PathKnows
<1>6. CASE UNCHANGED vars
  BY <1>6 DEF vars, specs, IInv, TypeOK, PathKnows
<1> QED
  BY <1>1, <1>2, <1>3, <1>4, <1>5, <1>6 DEF Next

LEMMA SpecIInv == Spec => []IInv
BY InitIInv, NextIInv, PTL DEF Spec

(* What a gate, its path and the net know of one another stays sound: no   *)
(* change is lost between the gate and the net (handle_specify_path,       *)
(* propagate_specify_path), for all modules, paths and delays.             *)
THEOREM PathsStaySound == Spec => []PathSound
<1>1. IInv => PathSound
  BY IInvSettled DEF IInv, PathSound
<1> QED
  BY <1>1, SpecIInv, PTL

(* The delays that paths are ever given put x between the other values.    *)
THEOREM DelaysStayPessimistic == Spec => []XPessimism
<1>1. IInv => XPessimism
  BY DelaysArePessimistic DEF IInv, TypeOK
<1> QED
  BY <1>1, SpecIInv, PTL

(* A gate that fires shows its value when the least delay from the inputs  *)
(* stored last has passed: handle_specify_path finds that time.            *)
THEOREM LatestInputWins == Spec => LatestWins
<1> DEFINE Fixed(g) == (queued[g] = CurrentTime /\ queued'[g] = NONE) =>
             IF DueTime(g) >= CurrentTime THEN scb'[g] = DueTime(g) ELSE net'[g] = output[g]
<1>1. ASSUME IInv, Next, NEW g \in PathGate, queued[g] = CurrentTime, queued'[g] = NONE
      PROVE  IF DueTime(g) >= CurrentTime THEN scb'[g] = DueTime(g) ELSE net'[g] = output[g]
  <2>1. g \in GATE /\ HasPath(g) /\ CurrentTime \in Nat /\ CurrentTime # NONE /\ queued[g] # NONE
    BY <1>1, PathAssumption DEF PathGate, IInv, TypeOK
  <2>2. ASSUME NEW i \in INPUT, NEW h \in GATE, NEW v \in VALUE, NEW t \in GateDelays, Store(i, h, v, t)
        PROVE  FALSE
    <3>1. CurrentTime + t # NONE
      BY <2>1, PathAssumption
    <3> QED
      BY <1>1, <2>1, <2>2, <3>1 DEF Store, IInv, TypeOK
  <2>3. ASSUME NEW h \in GATE, FireGate(h) PROVE h = g
    BY <1>1, <2>1, <2>3 DEF FireGate, IInv, TypeOK
  <2>4. ASSUME NEW h \in GATE, propagate_specify_path(h) PROVE FALSE
    BY <1>1, <2>1, <2>4 DEF propagate_specify_path
  <2>5. ~UpdateTimings /\ ~Tick
    BY <1>1, <2>1 DEF UpdateTimings, Tick
  <2>6. FireGate(g)
    BY <1>1, <2>2, <2>3, <2>4, <2>5 DEF Next
  <2>7. Due(g, output[g]) = DueTime(g)
    BY <1>1, <2>1, DueIsDueTime DEF IInv, PathKnows
  <2> QED
    BY <1>1, <2>1, <2>6, <2>7 DEF FireGate, PathFire, IInv, TypeOK
<1>2. IInv /\ [Next]_vars => [\A g \in PathGate : Fixed(g)]_vars
  BY <1>1
<1> QED
  BY <1>2, SpecIInv, PTL DEF Spec, LatestWins

-----------------------------------------------------------------------------
(* The refinement.                                                         *)

LEMMA InitLine == Init => Line!Init
BY DEF Init, Line!Init, OnPaths, PathGate, Values

LEMMA FireGateLine ==
  ASSUME IInv, NEW g \in GATE, FireGate(g)
  PROVE  [Line!Next]_(Line!line)
<1>1. CASE ~HasPath(g)
  <2>1. OnPaths(net)' = OnPaths(net)
    BY <1>1 DEF FireGate, OnPaths, PathGate, IInv, TypeOK
  <2> QED
    BY <1>1, <2>1 DEF FireGate, OnPaths, Line!line
<1>2. CASE HasPath(g)
  <2>1. g \in PathGate /\ output[g] \in Values /\ CurrentTime \in Nat
    BY <1>2 DEF PathGate, IInv, TypeOK
  <2>2. OnPaths(path_value)' = [OnPaths(path_value) EXCEPT ![g] = output[g]] /\ CurrentTime' = CurrentTime
    BY <1>2, <2>1 DEF FireGate, PathFire, OnPaths, PathGate, IInv, TypeOK
  <2>3. CASE Due(g, output[g]) >= CurrentTime
    <3>1. OnPaths(scb)' = [OnPaths(scb) EXCEPT ![g] = Due(g, output[g])] /\ OnPaths(net)' = OnPaths(net)
      BY <1>2, <2>1, <2>3 DEF FireGate, PathFire, OnPaths, PathGate, IInv, TypeOK
    <3>2. Due(g, output[g]) \in Nat
      BY <1>2, <2>1, DueIsDueTime DEF IInv, PathKnows
    <3>3. OnPaths(scb)'[g] = Due(g, output[g])
      BY <2>1, <3>1 DEF OnPaths
    <3>4. Line!Take(g, output[g])
      BY <2>2, <2>3, <3>1, <3>2, <3>3 DEF Line!Take
    <3> QED
      BY <2>1, <3>4 DEF Line!Next
  <2>4. CASE ~(Due(g, output[g]) >= CurrentTime)
    <3>1. OnPaths(net)' = [OnPaths(net) EXCEPT ![g] = output[g]] /\ OnPaths(scb)' = OnPaths(scb)
      BY <1>2, <2>1, <2>4 DEF FireGate, PathFire, OnPaths, PathGate, IInv, TypeOK
    <3>2. Line!Pass(g, output[g])
      BY <2>2, <3>1 DEF Line!Pass
    <3> QED
      BY <2>1, <3>2 DEF Line!Next
  <2> QED
    BY <2>3, <2>4
<1> QED
  BY <1>1, <1>2

LEMMA PropagateLine ==
  ASSUME IInv, NEW g \in GATE, propagate_specify_path(g)
  PROVE  [Line!Next]_(Line!line)
<1>1. g \in PathGate
  BY PropagateIInv DEF PathGate
<1>2. OnPaths(net)' = [OnPaths(net) EXCEPT ![g] = OnPaths(path_value)[g]]
  BY <1>1 DEF propagate_specify_path, OnPaths, PathGate, IInv, TypeOK
<1>3. OnPaths(scb)' = [OnPaths(scb) EXCEPT ![g] = NONE] /\ OnPaths(scb)[g] = CurrentTime
  BY <1>1 DEF propagate_specify_path, OnPaths, PathGate, IInv, TypeOK
<1>4. CurrentTime' = CurrentTime /\ OnPaths(path_value)' = OnPaths(path_value)
  BY DEF propagate_specify_path, OnPaths
<1>5. Line!Show(g)
  BY <1>2, <1>3, <1>4 DEF Line!Show
<1> QED
  BY <1>1, <1>5 DEF Line!Next

(* The outputs of gates with paths are lines of PathLine: each step of the *)
(* paths is one of the lines or leaves them as they are.                   *)
THEOREM PathsImplementLines == Spec => ImplementsLine
<1>1. ASSUME IInv, [Next]_vars PROVE [Line!Next]_(Line!line)
  <2>1. ASSUME NEW i \in INPUT, NEW g \in GATE, NEW v \in VALUE, NEW t \in GateDelays, Store(i, g, v, t)
        PROVE  UNCHANGED Line!line
    BY <2>1 DEF Store, specs, Line!line, OnPaths
  <2>2. CASE UpdateTimings
    BY <2>2 DEF UpdateTimings, specs, Line!line, OnPaths
  <2>3. ASSUME NEW g \in GATE, FireGate(g) PROVE [Line!Next]_(Line!line)
    BY <1>1, <2>3, FireGateLine
  <2>4. ASSUME NEW g \in GATE, propagate_specify_path(g) PROVE [Line!Next]_(Line!line)
    BY <1>1, <2>4, PropagateLine
  <2>5. CASE Tick
    <3>1. \A g \in PathGate : OnPaths(scb)[g] # CurrentTime
      BY <2>5 DEF Tick, OnPaths, PathGate
    <3>2. Line!Tick
      BY <2>5, <3>1 DEF Tick, specs, OnPaths, Line!Tick
    <3> QED
      BY <3>2 DEF Line!Next
  <2>6. CASE UNCHANGED vars
    BY <2>6 DEF vars, specs, Line!line, OnPaths
  <2> QED
    BY <1>1, <2>1, <2>2, <2>3, <2>4, <2>5, <2>6 DEF Next
<1> QED
  BY <1>1, InitLine, SpecIInv, PTL DEF Spec, ImplementsLine, Line!Spec
=============================================================================
