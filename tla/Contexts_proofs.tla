--------------------------- MODULE Contexts_proofs ---------------------------
(***************************************************************************)
(* Proofs about the processes of exec.cc, for every program.               *)
(*                                                                         *)
(* The inductive invariant IInv says of every process that its stack fits  *)
(* the tree: each context is the one that a begin, a fork or a call has    *)
(* made for what the next inner statement stands in (Stands), so that it   *)
(* returns to where it was entered from.  With it go that the contexts of  *)
(* the stacks are those on the lists of the blocks (Owned), that the lists *)
(* of SCBs are what list says (Threaded), that a fork at its join has as   *)
(* many arms as it counts (Forking), and that the thread through a marker  *)
(* has exactly those who wait at it (Waiters).                             *)
(*                                                                         *)
(* A pending nonblocking assignment is a process with one frame, ready or  *)
(* on the time list (Pends).                                               *)
(*                                                                         *)
(* Disable breaks the last two when it meets a process at a join or one of *)
(* several at a marker: the hypothesis DisablesSpare keeps it from blocks  *)
(* from which somebody forks or waits for an event.  Then it frees no SCB, *)
(* and readylist_last stays with the ready list.  DisablesCalm is the      *)
(* stronger one under which it does not fail.  The chain of reasoning is:  *)
(* sequences, the tree, frames, contexts, lists, each operation, each      *)
(* action, and then what the properties take from the invariant.           *)
(***************************************************************************)
EXTENDS Contexts, Lemmas

-----------------------------------------------------------------------------
(* Lists without repetition, and what the list macros make of them.        *)

LEMMA RangeIs ==
  ASSUME NEW S, NEW seq \in Seq(S)
  PROVE  /\ Range(seq) = {seq[i] : i \in 1 .. Len(seq)} /\ Range(seq) \subseteq S
         /\ IsInjective(seq) <=> Distinct(seq)
         /\ DOMAIN seq = 1 .. Len(seq) /\ Len(seq) \in Nat
         /\ \A x : x \in Range(seq) <=> \E i \in 1 .. Len(seq) : seq[i] = x
         /\ \A x : Contains(seq, x) <=> x \in Range(seq)
<1>1. DOMAIN seq = 1 .. Len(seq) /\ Len(seq) \in Nat /\ \A i \in 1 .. Len(seq) : seq[i] \in S
  BY LenProperties
<1>2. Range(seq) = {seq[i] : i \in 1 .. Len(seq)}
  BY <1>1 DEF Range
<1>3. IsInjective(seq) <=> Distinct(seq)
  BY <1>1 DEF IsInjective, Distinct
<1> QED
  BY <1>1, <1>2, <1>3 DEF Contains

LEMMA EmptyFacts == Range(<<>>) = {} /\ Len(<<>>) = 0 /\ IsInjective(<<>>)
BY DEF Range, IsInjective

(* seq without x, in the same order.                                       *)
LEMMA RemoveFirstFacts ==
  ASSUME NEW S, NEW seq \in Seq(S), NEW x, IsInjective(seq)
  PROVE  /\ RemoveFirst(seq, x) \in Seq(S) /\ IsInjective(RemoveFirst(seq, x))
         /\ Range(RemoveFirst(seq, x)) = Range(seq) \ {x}
         /\ x \notin Range(seq) => RemoveFirst(seq, x) = seq
         /\ seq # <<>> /\ x # Head(seq) => RemoveFirst(seq, x) # <<>> /\ Head(RemoveFirst(seq, x)) = Head(seq)
         /\ seq # <<>> /\ x = Head(seq) => RemoveFirst(seq, x) = Tail(seq)
<1>0. /\ DOMAIN seq = 1 .. Len(seq) /\ Len(seq) \in Nat /\ \A i \in 1 .. Len(seq) : seq[i] \in S
      /\ \A y : y \in Range(seq) <=> \E i \in 1 .. Len(seq) : seq[i] = y
      /\ Distinct(seq)
      /\ seq # <<>> => 1 \in 1 .. Len(seq) /\ Head(seq) = seq[1]
  BY RangeIs
<1>1. CASE x \notin Range(seq)
  <2>1. RemoveFirst(seq, x) = seq
    BY <1>0, <1>1 DEF RemoveFirst
  <2> QED
    BY <1>0, <1>1, <2>1
<1>2. CASE x \in Range(seq)
  <2>1. PICK k \in 1 .. Len(seq) : seq[k] = x
    BY <1>0, <1>2
  <2>2. {i \in 1 .. Len(seq) : seq[i] = x} = {k}
    BY <1>0, <2>1 DEF Distinct
  <2>3. Min({k}) = k
    <3>1. {k} \in SUBSET Nat /\ {k} # {}
      BY <1>0
    <3> QED
      BY <3>1, MinExists
  <2>4. SelectInSeq(seq, LAMBDA v : v = x) = k
    BY <2>2, <2>3 DEF SelectInSeq
  <2>5. RemoveFirst(seq, x) = RemoveAt(seq, k)
    BY <2>1, <2>4 DEF RemoveFirst
  <2> DEFINE r == RemoveAt(seq, k)
  <2>6. /\ r \in Seq(S) /\ Len(r) = Len(seq) - 1
        /\ \A i \in 1 .. Len(seq) - 1 : r[i] = IF i < k THEN seq[i] ELSE seq[i + 1]
    BY RemoveAtFacts
  <2>7. /\ DOMAIN r = 1 .. Len(r) /\ \A y : y \in Range(r) <=> \E i \in 1 .. Len(r) : r[i] = y
        /\ IsInjective(r) <=> Distinct(r)
        /\ r # <<>> => Head(r) = r[1]
    BY <2>6, RangeIs
  <2> HIDE DEF r
  <2>8. Distinct(r)
    BY <1>0, <2>6 DEF Distinct
  <2>9. ASSUME NEW y PROVE y \in Range(r) <=> y \in Range(seq) /\ y # x
    <3>1. ASSUME y \in Range(r) PROVE y \in Range(seq) /\ y # x
      BY <1>0, <2>1, <2>6, <2>7, <3>1 DEF Distinct
    <3>2. ASSUME y \in Range(seq), y # x PROVE y \in Range(r)
      <4>1. PICK i \in 1 .. Len(seq) : seq[i] = y
        BY <1>0, <3>2
      <4>2. CASE i < k
        BY <1>0, <2>6, <2>7, <4>1, <4>2
      <4>3. CASE i > k
        <5>1. i - 1 \in 1 .. Len(r) /\ r[i - 1] = y
          BY <1>0, <2>6, <4>1, <4>3
        <5> QED
          BY <2>7, <5>1
      <4> QED
        BY <2>1, <3>2, <4>1, <4>2, <4>3
    <3> QED
      BY <3>1, <3>2
  <2>10. ASSUME seq # <<>>, x # Head(seq) PROVE r # <<>> /\ Head(r) = Head(seq)
    <3>1. k # 1 /\ 1 \in 1 .. Len(seq) - 1
      BY <1>0, <2>1, <2>10
    <3>2. r # <<>>
      BY <2>6, <3>1
    <3>3. r[1] = seq[1]
      BY <2>6, <3>1
    <3> QED
      BY <1>0, <2>7, <2>10, <3>2, <3>3
  <2>11. ASSUME seq # <<>>, x = Head(seq) PROVE r = Tail(seq)
    <3>1. k = 1
      BY <1>0, <2>1, <2>11 DEF Distinct
    <3>2. Tail(seq) \in Seq(S) /\ Len(Tail(seq)) = Len(seq) - 1 /\ \A i \in 1 .. Len(seq) - 1 : Tail(seq)[i] = seq[i + 1]
      BY <2>11, HeadTailProperties
    <3>3. \A i \in 1 .. Len(seq) - 1 : r[i] = Tail(seq)[i]
      BY <2>6, <3>1, <3>2
    <3> QED
      BY <2>6, <3>2, <3>3, SeqEqual
  <2> QED
    BY <1>2, <2>5, <2>6, <2>7, <2>8, <2>9, <2>10, <2>11 DEF r
<1> QED
  BY <1>1, <1>2

(* u has what seq has, and x.                                              *)
Gained(u, seq, S, x) == u \in Seq(S) /\ IsInjective(u) /\ Range(u) = Range(seq) \cup {x} /\ u # <<>>

LEMMA WidenedGains ==
  ASSUME NEW S, NEW seq \in Seq(S), IsInjective(seq), NEW x \in S, x \notin Range(seq),
         NEW u \in Seq(S), NEW k \in 1 .. Len(seq) + 1, Widened(seq, u, k, x)
  PROVE  Gained(u, seq, S, x) /\ Head(u) = IF k = 1 THEN x ELSE Head(seq)
<1>1. /\ Len(seq) \in Nat /\ Distinct(seq) /\ \A y : y \in Range(seq) <=> \E i \in 1 .. Len(seq) : seq[i] = y
      /\ seq # <<>> => Head(seq) = seq[1]
  BY RangeIs
<1>2. /\ Len(u) = Len(seq) + 1
      /\ \A i \in 1 .. Len(seq) + 1 : u[i] = IF i < k THEN seq[i] ELSE IF i = k THEN x ELSE seq[i - 1]
  BY DEF Widened
<1>3. /\ IsInjective(u) <=> Distinct(u)
      /\ \A y : y \in Range(u) <=> \E i \in 1 .. Len(u) : u[i] = y
      /\ u # <<>> => Head(u) = u[1]
  BY RangeIs
<1>4. Distinct(u)
  <2> SUFFICES ASSUME NEW i \in 1 .. Len(u), NEW j \in 1 .. Len(u), u[i] = u[j], i # j PROVE FALSE
    BY DEF Distinct
  <2> DEFINE a == IF i < k THEN i ELSE i - 1
             b == IF j < k THEN j ELSE j - 1
  <2>1. i # k => a \in 1 .. Len(seq) /\ u[i] = seq[a]
    BY <1>1, <1>2
  <2>2. j # k => b \in 1 .. Len(seq) /\ u[j] = seq[b]
    BY <1>1, <1>2
  <2>3. (i = k => u[i] = x) /\ (j = k => u[j] = x)
    BY <1>1, <1>2
  <2>4. i # k /\ j # k
    BY <1>1, <2>1, <2>2, <2>3
  <2>5. a = b
    <3> HIDE DEF a, b
    <3> QED
      BY <1>1, <2>1, <2>2, <2>4 DEF Distinct
  <2> QED
    BY <1>1, <2>4, <2>5
<1>5. ASSUME NEW y PROVE y \in Range(u) <=> y \in Range(seq) \cup {x}
  <2>1. ASSUME y \in Range(u) PROVE y \in Range(seq) \cup {x}
    BY <1>1, <1>2, <1>3, <2>1
  <2>2. ASSUME y \in Range(seq) PROVE y \in Range(u)
    <3>1. PICK i \in 1 .. Len(seq) : seq[i] = y
      BY <1>1, <2>2
    <3>2. i \in 1 .. Len(u) /\ i + 1 \in 1 .. Len(u) /\ i < k => u[i] = y
      BY <1>1, <1>2, <3>1
    <3>3. ~(i < k) => u[i + 1] = y
      BY <1>1, <1>2, <3>1
    <3> QED
      BY <1>1, <1>2, <1>3, <3>1, <3>2, <3>3
  <2>3. x \in Range(u)
    BY <1>1, <1>2, <1>3
  <2> QED
    BY <2>1, <2>2, <2>3
<1>6. u # <<>> /\ 1 \in 1 .. Len(u)
  BY <1>1, <1>2
<1>7. Head(u) = IF k = 1 THEN x ELSE Head(seq)
  <2>1. CASE k = 1
    BY <1>1, <1>2, <1>3, <1>6, <2>1
  <2>2. CASE k # 1
    BY <1>1, <1>2, <1>3, <1>6, <2>2
  <2> QED
    BY <2>1, <2>2
<1> QED
  BY <1>3, <1>4, <1>5, <1>6, <1>7 DEF Gained

LEMMA InsertAtGains ==
  ASSUME NEW S, NEW seq \in Seq(S), IsInjective(seq), NEW x \in S, x \notin Range(seq),
         NEW k \in 1 .. Len(seq) + 1
  PROVE  Gained(InsertAt(seq, k, x), seq, S, x) /\ Head(InsertAt(seq, k, x)) = IF k = 1 THEN x ELSE Head(seq)
BY InsertAtFacts, WidenedGains

LEMMA AppendGains ==
  ASSUME NEW S, NEW seq \in Seq(S), IsInjective(seq), NEW x \in S, x \notin Range(seq)
  PROVE  Gained(Append(seq, x), seq, S, x) /\ Head(Append(seq, x)) = IF seq = <<>> THEN x ELSE Head(seq)
<1>1. /\ Len(seq) \in Nat /\ Append(seq, x) \in Seq(S) /\ Len(Append(seq, x)) = Len(seq) + 1
      /\ Append(seq, x)[Len(seq) + 1] = x /\ \A i \in 1 .. Len(seq) : Append(seq, x)[i] = seq[i]
  BY AppendProperties, LenProperties
<1> DEFINE u == Append(seq, x)
<1> HIDE DEF u
<1>2. \A i \in 1 .. Len(seq) + 1 :
        u[i] = IF i < Len(seq) + 1 THEN seq[i] ELSE IF i = Len(seq) + 1 THEN x ELSE seq[i - 1]
  BY <1>1 DEF u
<1>3. Widened(seq, u, Len(seq) + 1, x)
  BY <1>1, <1>2 DEF Widened, u
<1>4. Len(seq) + 1 \in 1 .. Len(seq) + 1 /\ (Len(seq) + 1 = 1 <=> seq = <<>>)
  BY <1>1
<1>5. Gained(u, seq, S, x) /\ Head(u) = IF Len(seq) + 1 = 1 THEN x ELSE Head(seq)
  <2>1. u \in Seq(S)
    BY <1>1 DEF u
  <2> QED
    BY <1>3, <1>4, <2>1, WidenedGains
<1> QED
  BY <1>4, <1>5 DEF u

LEMMA PrependFacts ==
  ASSUME NEW S, NEW seq \in Seq(S), NEW x \in S
  PROVE  /\ <<x>> \o seq \in Seq(S) /\ <<x>> \o seq # <<>> /\ Head(<<x>> \o seq) = x /\ Tail(<<x>> \o seq) = seq
         /\ Len(<<x>> \o seq) = Len(seq) + 1 /\ Len(seq) \in Nat
         /\ \A i \in 1 .. Len(seq) + 1 : (<<x>> \o seq)[i] = IF i = 1 THEN x ELSE seq[i - 1]
<1> DEFINE a == <<x>>
           u == a \o seq
<1>1. a \in Seq(S) /\ Len(a) = 1 /\ a[1] = x /\ Len(seq) \in Nat
  BY LenProperties
<1> HIDE DEF a
<1>0. /\ u \in Seq(S) /\ Len(u) = 1 + Len(seq) /\ \A i \in 1 .. 1 : u[i] = a[i]
      /\ \A i \in 2 .. 1 + Len(seq) : u[i] = seq[i - 1]
  <2>1. /\ a \o seq \in Seq(S) /\ Len(a \o seq) = Len(a) + Len(seq)
        /\ \A i \in 1 .. Len(a) + Len(seq) : (a \o seq)[i] = IF i <= Len(a) THEN a[i] ELSE seq[i - Len(a)]
    BY <1>1, ConcatProperties
  <2> HIDE DEF u
  <2>2. u = a \o seq
    BY DEF u
  <2> QED
    BY <1>1, <2>1, <2>2
<1> HIDE DEF u
<1>2. u \in Seq(S) /\ Len(u) = Len(seq) + 1
  BY <1>0, <1>1
<1>3. \A i \in 1 .. Len(seq) + 1 : u[i] = IF i = 1 THEN x ELSE seq[i - 1]
  BY <1>0, <1>1
<1>4. u # <<>> /\ 1 \in 1 .. Len(u) /\ Head(u) = u[1]
  BY <1>1, <1>2
<1>5. Tail(u) \in Seq(S) /\ Len(Tail(u)) = Len(seq) /\ \A i \in 1 .. Len(seq) : Tail(u)[i] = u[i + 1]
  BY <1>1, <1>2, <1>4, HeadTailProperties
<1>6. \A i \in 1 .. Len(seq) : Tail(u)[i] = seq[i]
  <2> TAKE i \in 1 .. Len(seq)
  <2>1. i + 1 \in 1 .. Len(seq) + 1 /\ i + 1 # 1 /\ (i + 1) - 1 = i
    BY <1>1
  <2> QED
    BY <1>3, <1>5, <2>1
<1>7. Tail(u) = seq
  BY <1>5, <1>6, SeqEqual
<1> QED
  BY <1>1, <1>2, <1>3, <1>4, <1>7 DEF u, a

LEMMA PrependGains ==
  ASSUME NEW S, NEW seq \in Seq(S), IsInjective(seq), NEW x \in S, x \notin Range(seq)
  PROVE  Gained(<<x>> \o seq, seq, S, x) /\ Head(<<x>> \o seq) = x
<1>1. /\ <<x>> \o seq \in Seq(S) /\ Head(<<x>> \o seq) = x
      /\ Len(<<x>> \o seq) = Len(seq) + 1 /\ Len(seq) \in Nat
      /\ \A i \in 1 .. Len(seq) + 1 : (<<x>> \o seq)[i] = IF i = 1 THEN x ELSE seq[i - 1]
  BY PrependFacts
<1> DEFINE u == <<x>> \o seq
<1> HIDE DEF u
<1>2. Widened(seq, u, 1, x)
  BY <1>1 DEF Widened, u
<1>3. 1 \in 1 .. Len(seq) + 1
  BY <1>1
<1>4. Gained(u, seq, S, x)
  BY <1>1, <1>2, <1>3, WidenedGains DEF u
<1> QED
  BY <1>1, <1>4 DEF u

(* The tail of a list without repetition.                                  *)
LEMMA TailFacts ==
  ASSUME NEW S, NEW seq \in Seq(S), seq # <<>>, IsInjective(seq)
  PROVE  /\ Tail(seq) \in Seq(S) /\ IsInjective(Tail(seq)) /\ Range(Tail(seq)) = Range(seq) \ {Head(seq)}
         /\ Head(seq) \in Range(seq) /\ Head(seq) \in S /\ Head(seq) = seq[1] /\ Len(seq) \in Nat /\ 1 \in 1 .. Len(seq)
         /\ Len(Tail(seq)) = Len(seq) - 1 /\ \A i \in 1 .. Len(seq) - 1 : Tail(seq)[i] = seq[i + 1]
<1>1. /\ Tail(seq) \in Seq(S) /\ Head(seq) \in S /\ Head(seq) = seq[1] /\ Len(seq) \in Nat /\ 1 \in 1 .. Len(seq)
      /\ Len(Tail(seq)) = Len(seq) - 1 /\ \A i \in 1 .. Len(seq) - 1 : Tail(seq)[i] = seq[i + 1]
  BY HeadTailProperties, LenProperties
<1>2. RemoveFirst(seq, Head(seq)) = Tail(seq)
  BY RemoveFirstFacts
<1>3. IsInjective(Tail(seq)) /\ Range(Tail(seq)) = Range(seq) \ {Head(seq)}
  BY <1>2, RemoveFirstFacts
<1>4. Head(seq) \in Range(seq)
  BY <1>1, RangeIs
<1> QED
  BY <1>1, <1>3, <1>4

-----------------------------------------------------------------------------
(* The tree: what the assumption about programs says of a statement.       *)

Tree      == DOMAIN program.text
Within(s) == Stmt(s).within

LEMMA TreeIs ==
  ASSUME program \in Programs
  PROVE  /\ NULL \notin Tree /\ IDLE \notin Tree /\ TOP \in Scopes /\ NULL # TOP
         /\ \A b \in Scopes : b \notin Tree
         /\ \A s \in Tree :
              /\ Code(s) \in Codes /\ Code(s) = Stmt(s).code
              /\ Stmt(s).chain \in Statements /\ Stmt(s).body \in Statements
              /\ Stmt(s).block \in Scopes \cup {NULL} /\ Stmt(s).event \in Events \cup {NULL}
              /\ Stmt(s).arms \in Seq(Tree)
              /\ In(s) = IF Within(s) \in Tree THEN Stmt(Within(s)).block ELSE Within(s)
         /\ program.initial \in Seq(Tree)
         /\ \A i \in 1 .. Len(program.initial) : Within(program.initial[i]) = TOP
<1>1. WellFormed(program)
  BY ProgramsAssumption
<1>2. TOP \in Blocks(program)
  BY DEF Blocks
<1>3. \A s \in Tree : program.text[s] \in [code : Codes, chain : Tree \cup {NULL}, body : Tree \cup {NULL},
                          block : Blocks(program) \cup {NULL}, arms : Seq(Tree),
                          event : program.events \cup {NULL}, within : Tree \cup Blocks(program)]
  BY <1>1 DEF WellFormed, Tree
<1>4. program.initial \in Seq(Tree) /\ \A i \in 1 .. Len(program.initial) : Within(program.initial[i]) = TOP
  BY <1>1 DEF WellFormed, Tree, Within, Stmt, Inside
<1>5. ({NULL, IDLE} \cup Blocks(program)) \cap Tree = {}
  BY <1>1 DEF WellFormed, Tree
<1>6. \A s \in Tree : In(s) = IF Within(s) \in Tree THEN Stmt(Within(s)).block ELSE Within(s)
  BY DEF In, BlockOf, Within, Stmt, Tree
<1> QED
  BY <1>2, <1>3, <1>4, <1>5, <1>6, ContextsAssumption DEF Code, Stmt, Statements, Events, Scopes, Tree

LEMMA PlacedIs ==
  ASSUME program \in Programs, NEW s \in Tree
  PROVE  /\ Within(s) \in {TOP} \cup TaskBlocks(program)
              \/ (Within(s) \in Tree /\ Code(Within(s)) \in Forks \cup {"begin"})
         /\ Code(s) \in {"plain", "nonblocking", "arrow", "begin", "task", "disable"} =>
              Stmt(s).chain \in Tree /\ Within(Stmt(s).chain) = Within(s)
         /\ Code(s) \in Waits => Stmt(s).body \in Tree /\ Within(Stmt(s).body) = Within(s)
         /\ Code(s) \in {"event", "wait", "arrow"} => Stmt(s).event \in Events
         /\ Code(s) \in {"begin", "task", "disable"} \cup Forks => Stmt(s).block \in Scopes
         /\ Code(s) \in {"begin", "task", "fork_named", "disable"} => Stmt(s).block # TOP
         /\ Code(s) = "fork" => Stmt(s).block = In(s)
         /\ Code(s) = "begin" => Stmt(s).body \in Tree /\ Within(Stmt(s).body) = s
         /\ Code(s) = "end" => /\ Within(s) \in Tree /\ Code(Within(s)) = "begin"
                               /\ Stmt(s).chain \in Tree /\ Within(Stmt(s).chain) = Within(Within(s))
         /\ Code(s) = "task" => /\ Stmt(s).body \in Tree /\ Within(Stmt(s).body) = Stmt(s).block
                                /\ Stmt(s).block \in TaskBlocks(program) /\ Stmt(s).body # Stmt(s).chain
         /\ Code(s) = "task_block" => Within(s) \in TaskBlocks(program)
         /\ Code(s) = "dump" => Within(s) = TOP
         /\ Code(s) \in Forks =>
              /\ Stmt(s).arms # <<>> /\ \A i \in 1 .. Len(Stmt(s).arms) : Stmt(s).arms[i] \in Tree /\ Within(Stmt(s).arms[i]) = s
              /\ Stmt(s).chain \in Tree /\ Code(Stmt(s).chain) = "join" /\ Within(Stmt(s).chain) = s
              /\ PastJoin(s) \in Tree /\ Within(PastJoin(s)) = Within(s)
         /\ Code(s) = "join" => /\ Within(s) \in Tree /\ Code(Within(s)) \in Forks
                                /\ Stmt(Within(s)).chain = s
<1>1. WellFormed(program)
  BY ProgramsAssumption
<1>2. Placed(program, s)
  BY <1>1 DEF WellFormed, Tree
<1>3. Code(s) = Stmt(s).code /\ Code(s) \in Codes /\ Stmt(s).block \in Scopes \cup {NULL}
      /\ Stmt(s).event \in Events \cup {NULL} /\ Stmt(s).arms \in Seq(Tree)
  BY TreeIs
<1>4. \A t, w : Inside(program, t, w) <=> t \in Tree /\ Within(t) = w
  BY DEF Inside, Tree, Within, Stmt
<1>5. \A t, c : Is(program, t, c) => t \in Tree /\ Code(t) \in c
  BY DEF Is, Tree, Code, Stmt
<1>6. Code(s) = "task" => Stmt(s).block \in TaskBlocks(program)
  BY <1>3 DEF TaskBlocks, Is, Stmt, Tree
<1>7. DOMAIN Stmt(s).arms = 1 .. Len(Stmt(s).arms)
  BY <1>3
<1>8. Placed(program, s) =>
         /\ Stmt(s).within \in {TOP} \cup TaskBlocks(program) \/ Is(program, Stmt(s).within, Forks \cup {"begin"})
         /\ Stmt(s).code \in {"plain", "nonblocking", "arrow", "begin", "task", "disable"} => Inside(program, Stmt(s).chain, Stmt(s).within)
         /\ Stmt(s).code \in Waits => Inside(program, Stmt(s).body, Stmt(s).within)
         /\ Stmt(s).code \in {"event", "wait", "arrow"} => Stmt(s).event # NULL
         /\ Stmt(s).code \in {"begin", "task", "fork_named", "disable"} => Stmt(s).block \notin {TOP, NULL}
         /\ Stmt(s).code = "begin" => Inside(program, Stmt(s).body, s)
         /\ Stmt(s).code = "end" => Is(program, Stmt(s).within, {"begin"}) /\ Inside(program, Stmt(s).chain, Within(Stmt(s).within))
         /\ Stmt(s).code = "task" => Inside(program, Stmt(s).body, Stmt(s).block) /\ Stmt(s).body # Stmt(s).chain
         /\ Stmt(s).code = "task_block" => Stmt(s).within \in TaskBlocks(program)
         /\ Stmt(s).code = "dump" => Stmt(s).within = TOP
         /\ Stmt(s).code \in Forks =>
              /\ Stmt(s).arms # <<>> /\ \A i \in DOMAIN Stmt(s).arms : Inside(program, Stmt(s).arms[i], s)
              /\ Is(program, Stmt(s).chain, {"join"}) /\ Inside(program, Stmt(s).chain, s)
              /\ Inside(program, Stmt(Stmt(s).chain).chain, Stmt(s).within)
         /\ Stmt(s).code = "fork" => Stmt(s).block = In(s) /\ Stmt(s).block # NULL
         /\ Stmt(s).code = "join" => Is(program, Stmt(s).within, Forks) /\ Stmt(Stmt(s).within).chain = s
  BY DEF Placed, Stmt, Within, In
<1> HIDE DEF Tree, Within
<1>9. Stmt(s).within = Within(s)
  BY DEF Within
<1> QED
  BY <1>2, <1>3, <1>4, <1>5, <1>6, <1>7, <1>8, <1>9 DEF Forks, PastJoin

LEMMA TaskBlocksApart ==
  ASSUME program \in Programs, NEW b \in TaskBlocks(program)
  PROVE  b \in Scopes /\ b \notin Tree /\ b # TOP /\ b # NULL
<1>1. PICK c \in Tree : Code(c) = "task" /\ b = Stmt(c).block
  <2>1. PICK c \in DOMAIN program.text : Is(program, c, {"task"}) /\ b = program.text[c].block
    BY DEF TaskBlocks
  <2> QED
    BY <2>1 DEF Tree, Is, Code, Stmt
<1>2. b \in Scopes /\ b # TOP
  BY <1>1, PlacedIs DEF Forks
<1> QED
  BY <1>2, TreeIs DEF Scopes, Blocks

-----------------------------------------------------------------------------
(* Where a process stands.  Its frames, innermost first, are the contexts  *)
(* of its stack with what they hold.  The statement at, and the return     *)
(* statement of every frame but the outermost, stand in something that the *)
(* frame belongs to: a begin, a fork, the block of a task, or the module.  *)

Frame == [scb : SCB \cup {NULL}, scope : Scopes, pc : Statements]

(* m is the frame of a process in w: the one a begin or a call has pushed, *)
(* that of an arm, or, at the join, that of the fork.                      *)
Fits(w, m, joining) ==
  \/ w = TOP /\ m.scope = TOP /\ m.pc = NULL
  \/ w \in Tree /\ Code(w) = "begin" /\ m.scope = Stmt(w).block /\ m.pc = Stmt(w).chain
  \/ w \in Tree /\ Code(w) \in Forks /\ m.scope = Stmt(w).block /\ m.pc = IF joining THEN PastJoin(w) ELSE NULL
  \/ w \in TaskBlocks(program) /\ m.scope = w /\ m.pc \in Tree /\ Code(m.pc) = "task" /\ Stmt(m.pc).block = w

Caller(F, at, i) == IF i = 1 THEN at ELSE F[i - 1].pc
Stands(F, at, joining, fork) ==
  /\ F # <<>>
  /\ \A i \in 1 .. Len(F) :
       /\ Caller(F, at, i) \in Tree
       /\ Fits(Within(Caller(F, at, i)), F[i], i = 1 /\ joining)
       /\ i = Len(F) <=> F[i].pc = NULL
  /\ fork = NULL <=> Within(Caller(F, at, Len(F))) = TOP

(* The block of the innermost frame is the one in which at stands.         *)
LEMMA FitsIn ==
  ASSUME program \in Programs, NEW p \in Tree, NEW m, NEW j \in BOOLEAN, Fits(Within(p), m, j)
  PROVE  m.scope = In(p)
<1>1. In(p) = IF Within(p) \in Tree THEN Stmt(Within(p)).block ELSE Within(p)
  BY TreeIs
<1>2. TOP \notin Tree /\ \A b \in TaskBlocks(program) : b \notin Tree
  BY TreeIs, TaskBlocksApart
<1> HIDE DEF Tree
<1> QED
  BY <1>1, <1>2 DEF Fits

LEMMA StandsMoves ==
  ASSUME program \in Programs, NEW F \in Seq(Frame), NEW p, NEW k, NEW q \in Tree,
         Stands(F, p, FALSE, k), Within(q) = Within(p)
  PROVE  Stands(F, q, FALSE, k)
<1>1. Len(F) \in Nat /\ 1 \in 1 .. Len(F)
  BY DEF Stands
<1>2. ASSUME NEW i \in 1 .. Len(F)
      PROVE  Caller(F, q, i) \in Tree /\ Within(Caller(F, q, i)) = Within(Caller(F, p, i))
  BY DEF Stands, Caller
<1> HIDE DEF Tree, Within
<1> QED
  BY <1>1, <1>2 DEF Stands

(* A frame is pushed, which returns to where the caller stands.            *)
LEMMA StandsEnter ==
  ASSUME program \in Programs, NEW F \in Seq(Frame), NEW p, NEW k, NEW q \in Tree, NEW j \in BOOLEAN,
         NEW m \in Frame, Stands(F, p, FALSE, k),
         m.pc \in Tree, Within(m.pc) = Within(p), Fits(Within(q), m, j)
  PROVE  Stands(<<m>> \o F, q, j, k)
<1> DEFINE u == <<m>> \o F
<1>1. /\ Len(F) \in Nat /\ Len(F) > 0 /\ u # <<>> /\ Len(u) = Len(F) + 1 /\ u[1] = m
      /\ \A i \in 1 .. Len(F) : u[i + 1] = F[i]
  BY PrependFacts DEF Stands
<1>2. NULL \notin Tree
  BY TreeIs
<1> HIDE DEF u, Tree, Within
<1>3. ASSUME NEW i \in 1 .. Len(F)
      PROVE  /\ Caller(u, q, i + 1) \in Tree /\ Within(Caller(u, q, i + 1)) = Within(Caller(F, p, i))
  <2>1. CASE i = 1
    BY <1>1, <2>1 DEF Caller
  <2>2. CASE i # 1
    <3>1. i - 1 \in 1 .. Len(F) /\ (i - 1) + 1 = i /\ i + 1 # 1 /\ (i + 1) - 1 = i
      BY <1>1, <2>2
    <3>2. Caller(u, q, i + 1) = u[i].pc /\ Caller(F, p, i) = F[i - 1].pc /\ u[i] = F[i - 1]
      BY <1>1, <2>2, <3>1 DEF Caller
    <3> QED
      BY <3>2 DEF Stands
  <2> QED
    BY <2>1, <2>2
<1>4. ASSUME NEW i \in 1 .. Len(F)
      PROVE  /\ Caller(u, q, i + 1) \in Tree /\ Fits(Within(Caller(u, q, i + 1)), u[i + 1], FALSE)
             /\ i + 1 = Len(u) <=> u[i + 1].pc = NULL
  <2>1. Fits(Within(Caller(F, p, i)), F[i], FALSE) /\ (i = Len(F) <=> F[i].pc = NULL)
    BY DEF Stands
  <2>2. u[i + 1] = F[i] /\ (i + 1 = Len(u) <=> i = Len(F))
    BY <1>1
  <2> QED
    BY <1>3, <2>1, <2>2
<1>5. ASSUME NEW i \in 1 .. Len(u)
      PROVE  /\ Caller(u, q, i) \in Tree /\ Fits(Within(Caller(u, q, i)), u[i], i = 1 /\ j)
             /\ i = Len(u) <=> u[i].pc = NULL
  <2>1. CASE i = 1
    BY <1>1, <1>2, <2>1 DEF Caller
  <2>2. CASE i # 1
    <3>1. i - 1 \in 1 .. Len(F) /\ (i - 1) + 1 = i
      BY <1>1, <2>2
    <3>2. ~(i = 1 /\ j) /\ ((i = 1 /\ j) = FALSE)
      BY <2>2
    <3> QED
      BY <1>4, <3>1, <3>2
  <2> QED
    BY <2>1, <2>2
<1>6. k = NULL <=> Within(Caller(u, q, Len(u))) = TOP
  BY <1>1, <1>3 DEF Stands
<1>7. Stands(u, q, j, k)
  BY <1>1, <1>5, <1>6 DEF Stands
<1> QED
  BY <1>7 DEF u

(* The innermost frame is popped: the process is where that returns to.    *)
LEMMA StandsExit ==
  ASSUME program \in Programs, NEW F \in Seq(Frame), NEW p, NEW k, NEW j \in BOOLEAN,
         Stands(F, p, j, k), F[1].pc # NULL
  PROVE  Tail(F) \in Seq(Frame) /\ Stands(Tail(F), F[1].pc, FALSE, k) /\ F[1].pc \in Tree
<1> DEFINE u == Tail(F)
<1>0. F # <<>> /\ Len(F) \in Nat
  BY DEF Stands
<1>1. /\ u \in Seq(Frame) /\ Len(u) = Len(F) - 1 /\ \A i \in 1 .. Len(F) - 1 : u[i] = F[i + 1]
  BY <1>0, HeadTailProperties
<1>2. 1 \in 1 .. Len(F) /\ 1 # Len(F)
  BY <1>0 DEF Stands
<1> HIDE DEF u, Tree, Within
<1>3. ASSUME NEW i \in 1 .. Len(u)
      PROVE  Caller(u, F[1].pc, i) = Caller(F, p, i + 1) /\ i + 1 \in 1 .. Len(F) /\ i + 1 # 1 /\ u[i] = F[i + 1]
  <2>1. CASE i = 1
    BY <1>0, <1>1, <1>2, <2>1 DEF Caller
  <2>2. CASE i # 1
    BY <1>0, <1>1, <1>2, <2>2 DEF Caller
  <2> QED
    BY <2>1, <2>2
<1>4. ASSUME NEW i \in 1 .. Len(u)
      PROVE  /\ Caller(u, F[1].pc, i) \in Tree /\ Fits(Within(Caller(u, F[1].pc, i)), u[i], i = 1 /\ FALSE)
             /\ i = Len(u) <=> u[i].pc = NULL
  <2>1. /\ Caller(F, p, i + 1) \in Tree /\ Fits(Within(Caller(F, p, i + 1)), F[i + 1], i + 1 = 1 /\ j)
        /\ i + 1 = Len(F) <=> F[i + 1].pc = NULL
    BY <1>3 DEF Stands
  <2>2. (i + 1 = 1 /\ j) = FALSE /\ (i = 1 /\ FALSE) = FALSE
    BY <1>3
  <2>3. i + 1 = Len(F) <=> i = Len(u)
    BY <1>0, <1>1
  <2> QED
    BY <1>3, <2>1, <2>2, <2>3
<1>5. Len(u) \in 1 .. Len(u) /\ Len(u) + 1 = Len(F) /\ u # <<>>
  BY <1>0, <1>1, <1>2
<1>6. k = NULL <=> Within(Caller(u, F[1].pc, Len(u))) = TOP
  BY <1>3, <1>5 DEF Stands
<1>7. Stands(u, F[1].pc, FALSE, k)
  BY <1>4, <1>5, <1>6 DEF Stands
<1>8. F[1].pc \in Tree
  BY <1>0, <1>3, <1>4, <1>5 DEF Caller
<1> QED
  BY <1>1, <1>7, <1>8 DEF u

(* A process that has just been made has one frame.                        *)
LEMMA StandsNew ==
  ASSUME program \in Programs, NEW m \in Frame, NEW q \in Tree, NEW k, m.pc = NULL,
         Fits(Within(q), m, FALSE), k = NULL <=> Within(q) = TOP
  PROVE  Stands(<<m>>, q, FALSE, k)
<1> DEFINE u == <<m>>
<1>1. Len(u) = 1 /\ u[1] = m /\ u # <<>>
  OBVIOUS
<1> HIDE DEF u, Tree, Within
<1>2. \A i \in 1 .. Len(u) : i = 1 /\ Caller(u, q, i) = q
  BY <1>1 DEF Caller
<1>3. Stands(u, q, FALSE, k)
  <2>1. Caller(u, q, Len(u)) = q
    BY <1>1 DEF Caller
  <2> QED
    BY <1>1, <1>2, <2>1 DEF Stands
<1> QED
  BY <1>3 DEF u

(* What the frame of a process is, by where it stands.                     *)
LEMMA StandsAt ==
  ASSUME program \in Programs, NEW F \in Seq(Frame), NEW p, NEW k, NEW j \in BOOLEAN, Stands(F, p, j, k)
  PROVE  /\ p \in Tree /\ F # <<>> /\ Len(F) \in Nat /\ Len(F) > 0
         /\ Fits(Within(p), F[1], j)
         /\ Code(p) = "end" => F[1].pc = Stmt(Within(p)).chain
         /\ Code(p) = "task_block" => F[1].pc \in Tree /\ Code(F[1].pc) = "task"
         /\ Within(p) = TOP => Len(F) = 1 /\ k = NULL
         /\ Within(p) \in Tree /\ Code(Within(p)) \in Forks /\ ~j => Len(F) = 1 /\ k # NULL
         /\ Within(p) \in Tree /\ Code(Within(p)) \in Forks /\ j => F[1].pc = PastJoin(Within(p))
<1>1. Len(F) \in Nat /\ Len(F) > 0 /\ F # <<>> /\ 1 \in 1 .. Len(F)
  BY DEF Stands
<1>2. p \in Tree /\ Fits(Within(p), F[1], j) /\ (1 = Len(F) <=> F[1].pc = NULL)
  BY <1>1 DEF Stands, Caller
<1>3. TOP \notin Tree /\ NULL \notin Tree /\ \A b \in TaskBlocks(program) : b \notin Tree /\ b # TOP
  BY TreeIs, TaskBlocksApart
<1>4. Len(F) = 1 => (k = NULL <=> Within(p) = TOP)
  BY DEF Stands, Caller
<1>5. Code(p) = "end" => Within(p) \in Tree /\ Code(Within(p)) = "begin"
  BY <1>2, PlacedIs
<1>6. Code(p) = "task_block" => Within(p) \in TaskBlocks(program)
  BY <1>2, PlacedIs
<1> HIDE DEF Tree, Within
<1> QED
  BY <1>1, <1>2, <1>3, <1>4, <1>5, <1>6 DEF Fits, Forks

-----------------------------------------------------------------------------
(* The state of the lists and fields, and the parts of it that an          *)
(* operation leaves alone.                                                 *)

HState == [readylist : Seq(SCB), timelist : Seq(SCB), freelist : Seq(SCB), stray : {NULL},
           list : [SCB -> {"READY", "TIME", "EVENT", "FREE", "NOLIST"}], pc : [SCB -> Statements],
           mode : [SCB -> {"RUN", "WAIT"}], fork : [SCB -> SCB \cup {NULL}], fork_count : [SCB -> Int],
           here : [SCB -> SCB \cup {NULL}], context : [SCB -> Seq(CONTEXT)], member : [CONTEXT -> Frame],
           context_list : [Scopes -> Seq(CONTEXT)], free_context : Seq(CONTEXT),
           waiter : [Tree -> SCB \cup {NULL}], event_chain : [Events -> Seq(Tree)]]

SameLists(g, u) == u.readylist = g.readylist /\ u.timelist = g.timelist /\ u.freelist = g.freelist /\ u.list = g.list
SameRun(g, u)   == u.pc = g.pc /\ u.mode = g.mode /\ u.fork = g.fork /\ u.fork_count = g.fork_count
SameEvents(g, u) == u.here = g.here /\ u.waiter = g.waiter /\ u.event_chain = g.event_chain
SameStacks(g, u) == u.context = g.context /\ u.member = g.member /\ u.context_list = g.context_list
                    /\ u.free_context = g.free_context

Frames(g, s) == [i \in 1 .. Len(g.context[s]) |-> g.member[g.context[s][i]]]

LEMMA FramesIs ==
  ASSUME NEW g \in HState, NEW s \in SCB
  PROVE  /\ Frames(g, s) \in Seq(Frame) /\ Len(Frames(g, s)) = Len(g.context[s]) /\ Len(g.context[s]) \in Nat
         /\ \A i \in 1 .. Len(g.context[s]) : Frames(g, s)[i] = g.member[g.context[s][i]] /\ g.context[s][i] \in CONTEXT
         /\ Frames(g, s) = <<>> <=> g.context[s] = <<>>
<1>1. g.context[s] \in Seq(CONTEXT) /\ g.member \in [CONTEXT -> Frame]
  BY DEF HState
<1>2. \A i \in 1 .. Len(g.context[s]) : g.context[s][i] \in CONTEXT
  BY <1>1
<1>3. Len(g.context[s]) \in Nat
  BY <1>1
<1>4. Frames(g, s) \in Seq(Frame) /\ Len(Frames(g, s)) = Len(g.context[s])
  BY <1>1, <1>2, <1>3 DEF Frames
<1>5. Frames(g, s) = <<>> <=> g.context[s] = <<>>
  BY <1>1, <1>4
<1> QED
  BY <1>2, <1>3, <1>4, <1>5 DEF Frames

(* Frames are the same where the stack is, and what its contexts hold.     *)
LEMMA SameFrames ==
  ASSUME NEW g \in HState, NEW u \in HState, NEW s \in SCB, u.context[s] = g.context[s],
         \A c \in Range(g.context[s]) : u.member[c] = g.member[c]
  PROVE  Frames(u, s) = Frames(g, s)
<1>1. g.context[s] \in Seq(CONTEXT)
  BY DEF HState
<1>2. \A i \in 1 .. Len(g.context[s]) : g.context[s][i] \in Range(g.context[s])
  BY <1>1, RangeIs
<1> QED
  BY <1>2 DEF Frames

-----------------------------------------------------------------------------
(* Contexts: the stacks, the lists of the blocks and the free list.        *)

Used(g, c) == \E s \in SCB : c \in Range(g.context[s])

Owned(g) ==
  /\ \A s \in SCB : IsInjective(g.context[s]) /\ \A c \in Range(g.context[s]) : g.member[c].scb = s
  /\ \A b \in Scopes : IsInjective(g.context_list[b])
  /\ \A b \in Scopes, c \in CONTEXT : c \in Range(g.context_list[b]) <=> g.member[c].scope = b /\ Used(g, c)
  /\ IsInjective(g.free_context) /\ \A c \in Range(g.free_context) : ~Used(g, c)

(* A stack belongs to one process.                                         *)
LEMMA OneOwner ==
  ASSUME NEW g, Owned(g), NEW s \in SCB, NEW t \in SCB, NEW c \in Range(g.context[s]), c \in Range(g.context[t])
  PROVE  s = t
BY DEF Owned

LEMMA LiveIs ==
  ASSUME NEW g \in HState, Owned(g)
  PROVE  Live(g) = {c \in CONTEXT : Used(g, c)}
<1>1. \A b \in Scopes : g.context_list[b] \in Seq(CONTEXT)
  BY DEF HState
<1>2. \A b \in Scopes : Range(g.context_list[b]) \subseteq CONTEXT
  BY <1>1, RangeIs
<1>3. \A c \in CONTEXT : g.member[c].scope \in Scopes
  BY DEF HState, Frame
<1>4. \A c : c \in Live(g) <=> \E b \in Scopes : c \in Range(g.context_list[b])
  BY DEF Live
<1> QED
  BY <1>2, <1>3, <1>4 DEF Owned

LEMMA SameStacksOwned ==
  ASSUME NEW g, NEW u, Owned(g), SameStacks(g, u)
  PROVE  Owned(u) /\ (\A n : CanMake(u, n) <=> CanMake(g, n)) /\ \A s : Frames(u, s) = Frames(g, s)
BY DEF Owned, SameStacks, Used, CanMake, Live, Frames

LEMMA NewContextIs ==
  ASSUME NEW g \in HState, Owned(g), NEW n \in Nat, n > 0, CanMake(g, n)
  PROVE  /\ NewContext(g) \in CONTEXT /\ ~Used(g, NewContext(g))
         /\ IF g.free_context = <<>> THEN NewContext(g) \notin Live(g) ELSE NewContext(g) = Head(g.free_context)
<1>1. Live(g) = {c \in CONTEXT : Used(g, c)}
  BY LiveIs
<1>2. g.free_context \in Seq(CONTEXT)
  BY DEF HState
<1>3. CASE g.free_context = <<>>
  <2>1. Len(g.free_context) = 0 /\ Range(g.free_context) = {}
    BY <1>3, EmptyFacts
  <2>2. Cardinality(CONTEXT \ Live(g)) >= n
    <3>1. CONTEXT \ (Live(g) \cup Range(g.free_context)) = CONTEXT \ Live(g)
      BY <2>1
    <3>2. IsFiniteSet(CONTEXT \ Live(g))
      BY ContextsAssumption, FS_Difference
    <3>3. Cardinality(CONTEXT \ Live(g)) \in Nat
      BY <3>2, FS_CardinalityType
    <3> QED
      BY <2>1, <3>1, <3>3 DEF CanMake
  <2>3. CONTEXT \ Live(g) # {}
    BY <2>2, FS_EmptySet
  <2>4. NewContext(g) = CHOOSE c \in CONTEXT : c \notin Live(g)
    BY <1>3 DEF NewContext
  <2>5. NewContext(g) \in CONTEXT /\ NewContext(g) \notin Live(g)
    BY <2>3, <2>4
  <2> QED
    BY <1>1, <1>3, <2>5
<1>4. CASE g.free_context # <<>>
  <2>1. NewContext(g) = Head(g.free_context)
    BY <1>4 DEF NewContext
  <2>2. NewContext(g) \in Range(g.free_context) /\ NewContext(g) \in CONTEXT
    BY <1>2, <1>4, <2>1, TailFacts DEF Owned
  <2> QED
    BY <1>4, <2>1, <2>2 DEF Owned
<1> QED
  BY <1>3, <1>4

LEMMA EnterIs ==
  ASSUME NEW g \in HState, NEW s \in SCB, NEW b \in Scopes, NEW ret \in Statements, NEW c \in CONTEXT,
         c = NewContext(g), IsInjective(g.free_context)
  PROVE  LET u == enter_context(g, s, b, ret)
         IN /\ u \in HState /\ SameLists(g, u) /\ SameRun(g, u) /\ SameEvents(g, u)
            /\ u.free_context = RemoveFirst(g.free_context, c)
            /\ u.context_list = [g.context_list EXCEPT ![b] = <<c>> \o @]
            /\ u.context = [g.context EXCEPT ![s] = <<c>> \o @]
            /\ u.member = [g.member EXCEPT ![c] = [scb |-> s, scope |-> b, pc |-> ret]]
<1>1. RemoveFirst(g.free_context, c) \in Seq(CONTEXT)
  BY RemoveFirstFacts DEF HState
<1>2. \A q \in Seq(CONTEXT) : <<c>> \o q \in Seq(CONTEXT)
  OBVIOUS
<1>3. [g.context_list EXCEPT ![b] = <<c>> \o @] \in [Scopes -> Seq(CONTEXT)]
  BY <1>2 DEF HState
<1>4. [g.context EXCEPT ![s] = <<c>> \o @] \in [SCB -> Seq(CONTEXT)]
  BY <1>2 DEF HState
<1>5. [g.member EXCEPT ![c] = [scb |-> s, scope |-> b, pc |-> ret]] \in [CONTEXT -> Frame]
  BY DEF HState, Frame
<1>6. enter_context(g, s, b, ret) =
        [g EXCEPT !.free_context = RemoveFirst(g.free_context, c),
                  !.context_list = [g.context_list EXCEPT ![b] = <<c>> \o @],
                  !.context = [g.context EXCEPT ![s] = <<c>> \o @],
                  !.member = [g.member EXCEPT ![c] = [scb |-> s, scope |-> b, pc |-> ret]]]
  BY DEF enter_context, HState
<1> DEFINE f1 == RemoveFirst(g.free_context, c)
           f2 == [g.context_list EXCEPT ![b] = <<c>> \o @]
           f3 == [g.context EXCEPT ![s] = <<c>> \o @]
           f4 == [g.member EXCEPT ![c] = [scb |-> s, scope |-> b, pc |-> ret]]
<1> HIDE DEF f1, f2, f3, f4
<1>7. f1 \in Seq(CONTEXT) /\ f2 \in [Scopes -> Seq(CONTEXT)] /\ f3 \in [SCB -> Seq(CONTEXT)] /\ f4 \in [CONTEXT -> Frame]
  BY <1>1, <1>3, <1>4, <1>5 DEF f1, f2, f3, f4
<1>8. enter_context(g, s, b, ret) = [g EXCEPT !.free_context = f1, !.context_list = f2, !.context = f3, !.member = f4]
  BY <1>6 DEF f1, f2, f3, f4
<1> DEFINE u == [g EXCEPT !.free_context = f1, !.context_list = f2, !.context = f3, !.member = f4]
<1>9. /\ u \in HState /\ SameLists(g, u) /\ SameRun(g, u) /\ SameEvents(g, u)
      /\ u.free_context = f1 /\ u.context_list = f2 /\ u.context = f3 /\ u.member = f4
  BY <1>7 DEF HState, SameLists, SameRun, SameEvents
<1> QED
  BY <1>8, <1>9 DEF f1, f2, f3, f4

(* A context is entered: one more frame for s, and nothing for the others. *)
LEMMA Enters ==
  ASSUME NEW g \in HState, Owned(g), NEW s \in SCB, NEW b \in Scopes, NEW ret \in Statements,
         NEW n \in Nat, n > 0, CanMake(g, n)
  PROVE  LET u == enter_context(g, s, b, ret)
         IN /\ u \in HState /\ SameLists(g, u) /\ SameRun(g, u) /\ SameEvents(g, u)
            /\ Owned(u) /\ CanMake(u, n - 1)
            /\ Frames(u, s) = <<[scb |-> s, scope |-> b, pc |-> ret]>> \o Frames(g, s)
            /\ \A t \in SCB \ {s} : u.context[t] = g.context[t] /\ Frames(u, t) = Frames(g, t)
<1> DEFINE u == enter_context(g, s, b, ret)
           c == NewContext(g)
           m == [scb |-> s, scope |-> b, pc |-> ret]
<1>1. /\ c \in CONTEXT /\ ~Used(g, c)
      /\ IF g.free_context = <<>> THEN c \notin Live(g) ELSE c = Head(g.free_context)
  BY NewContextIs
<1>2. IsInjective(g.free_context) /\ g.free_context \in Seq(CONTEXT)
  BY DEF Owned, HState
<1>3. /\ u \in HState /\ SameLists(g, u) /\ SameRun(g, u) /\ SameEvents(g, u)
      /\ u.free_context = RemoveFirst(g.free_context, c)
      /\ u.context_list = [g.context_list EXCEPT ![b] = <<c>> \o @]
      /\ u.context = [g.context EXCEPT ![s] = <<c>> \o @]
      /\ u.member = [g.member EXCEPT ![c] = m]
  <2> HIDE DEF c
  <2>1. c = NewContext(g)
    BY DEF c
  <2>2. c \in CONTEXT
    BY <1>1
  <2>3. IsInjective(g.free_context)
    BY <1>2
  <2> QED
    BY <2>1, <2>2, <2>3, EnterIs
<1> HIDE DEF u, c
<1>0. u \in HState /\ u.free_context = RemoveFirst(g.free_context, c)
  BY <1>3
<1>4. /\ g.context \in [SCB -> Seq(CONTEXT)] /\ g.context_list \in [Scopes -> Seq(CONTEXT)]
      /\ g.member \in [CONTEXT -> Frame] /\ m \in Frame
  BY DEF HState, Frame
<1> HIDE DEF m
<1>5. Gained(u.context[s], g.context[s], CONTEXT, c)
  <2>1. g.context[s] \in Seq(CONTEXT) /\ IsInjective(g.context[s]) /\ c \notin Range(g.context[s])
    BY <1>1, <1>4 DEF Owned, Used
  <2>2. u.context[s] = <<c>> \o g.context[s]
    BY <1>3, <1>4
  <2> QED
    BY <1>1, <2>1, <2>2, PrependGains
<1>6. \A t \in SCB \ {s} : u.context[t] = g.context[t]
  BY <1>3, <1>4
<1>7. Gained(u.context_list[b], g.context_list[b], CONTEXT, c)
  <2>1. g.context_list[b] \in Seq(CONTEXT) /\ IsInjective(g.context_list[b])
    BY <1>4 DEF Owned
  <2>2. c \notin Range(g.context_list[b])
    BY <1>1 DEF Owned
  <2>3. u.context_list[b] = <<c>> \o g.context_list[b]
    BY <1>3, <1>4
  <2> QED
    BY <1>1, <2>1, <2>2, <2>3, PrependGains
<1>8. \A d \in Scopes \ {b} : u.context_list[d] = g.context_list[d]
  BY <1>3, <1>4
<1>9. u.member[c] = m /\ \A d \in CONTEXT \ {c} : u.member[d] = g.member[d]
  BY <1>1, <1>3, <1>4
<1>10. ASSUME NEW d \in CONTEXT PROVE Used(u, d) <=> Used(g, d) \/ d = c
  BY <1>5, <1>6 DEF Used, Gained
<1>11. /\ u.free_context \in Seq(CONTEXT) /\ IsInjective(u.free_context)
       /\ Range(u.free_context) = Range(g.free_context) \ {c}
       /\ c \notin Range(g.free_context) => u.free_context = g.free_context
       /\ g.free_context # <<>> /\ c = Head(g.free_context) => u.free_context = Tail(g.free_context)
  <2> DEFINE q == g.free_context
  <2>1. q \in Seq(CONTEXT) /\ IsInjective(q) /\ u.free_context = RemoveFirst(q, c)
    BY <1>0, <1>2
  <2> HIDE DEF q
  <2>2. /\ RemoveFirst(q, c) \in Seq(CONTEXT) /\ IsInjective(RemoveFirst(q, c))
        /\ Range(RemoveFirst(q, c)) = Range(q) \ {c}
        /\ c \notin Range(q) => RemoveFirst(q, c) = q
        /\ q # <<>> /\ c = Head(q) => RemoveFirst(q, c) = Tail(q)
    BY <2>1, RemoveFirstFacts
  <2>3. q = g.free_context
    BY DEF q
  <2> QED
    BY <2>1, <2>2, <2>3
<1>12. Owned(u)
  <2>1. ASSUME NEW t \in SCB PROVE IsInjective(u.context[t]) /\ \A d \in Range(u.context[t]) : u.member[d].scb = t
    <3>1. CASE t = s
      <4>1. IsInjective(u.context[s]) /\ Range(u.context[s]) = Range(g.context[s]) \cup {c}
        BY <1>5 DEF Gained
      <4>2. \A d \in Range(g.context[s]) : d \in CONTEXT /\ d # c /\ g.member[d].scb = s
        BY <1>1, <1>4, RangeIs DEF Owned, Used
      <4>3. u.member[c].scb = s
        BY <1>9 DEF m
      <4> QED
        BY <1>9, <3>1, <4>1, <4>2, <4>3
    <3>2. CASE t # s
      <4>1. u.context[t] = g.context[t]
        BY <1>6, <3>2
      <4>2. \A d \in Range(g.context[t]) : d \in CONTEXT /\ d # c /\ g.member[d].scb = t
        BY <1>1, <1>4, RangeIs DEF Owned, Used
      <4>3. IsInjective(g.context[t])
        BY DEF Owned
      <4> QED
        BY <1>9, <4>1, <4>2, <4>3
    <3> QED
      BY <3>1, <3>2
  <2>2. ASSUME NEW d \in Scopes PROVE IsInjective(u.context_list[d])
    BY <1>7, <1>8 DEF Gained, Owned
  <2>3. ASSUME NEW d \in Scopes, NEW e \in CONTEXT
        PROVE  e \in Range(u.context_list[d]) <=> u.member[e].scope = d /\ Used(u, e)
    <3>1. e \in Range(g.context_list[d]) <=> g.member[e].scope = d /\ Used(g, e)
      BY DEF Owned
    <3>2. CASE e = c
      <4>1. u.member[e].scope = b /\ Used(u, e) /\ ~Used(g, e)
        BY <1>1, <1>9, <1>10, <3>2 DEF m
      <4>2. d = b => e \in Range(u.context_list[d])
        BY <1>7, <3>2 DEF Gained
      <4>3. d # b => e \notin Range(u.context_list[d])
        BY <1>8, <3>1, <4>1
      <4> QED
        BY <4>1, <4>2, <4>3
    <3>3. CASE e # c
      <4>1. u.member[e] = g.member[e] /\ (Used(u, e) <=> Used(g, e))
        BY <1>9, <1>10, <3>3
      <4>2. e \in Range(u.context_list[d]) <=> e \in Range(g.context_list[d])
        BY <1>7, <1>8, <3>3 DEF Gained
      <4> QED
        BY <3>1, <4>1, <4>2
    <3> QED
      BY <3>2, <3>3
  <2>4. ASSUME NEW d \in Range(u.free_context) PROVE ~Used(u, d)
    <3>1. d \in CONTEXT
      BY <1>11, RangeIs
    <3> QED
      BY <1>10, <1>11, <3>1 DEF Owned
  <2> QED
    BY <1>11, <2>1, <2>2, <2>3, <2>4 DEF Owned
<1>13. CanMake(u, n - 1)
  <2> DEFINE R(x) == CONTEXT \ (Live(x) \cup Range(x.free_context))
  <2>1. Live(g) = {d \in CONTEXT : Used(g, d)} /\ Live(u) = {d \in CONTEXT : Used(u, d)}
    BY <1>3, <1>12, LiveIs
  <2>2. Live(u) = Live(g) \cup {c}
    BY <1>1, <1>10, <2>1
  <2>3. IsFiniteSet(R(g)) /\ IsFiniteSet(R(u)) /\ Cardinality(R(g)) \in Nat /\ Cardinality(R(u)) \in Nat
    BY ContextsAssumption, FS_Difference, FS_CardinalityType
  <2>4. Len(g.free_context) \in Nat /\ Len(u.free_context) \in Nat
    BY <1>2, <1>11
  <2>5. Len(g.free_context) + Cardinality(R(g)) >= n
    BY DEF CanMake
  <2>6. CASE g.free_context = <<>>
    <3>1. u.free_context = g.free_context /\ Range(g.free_context) = {}
      <4>1. Range(g.free_context) = {}
        BY <2>6, EmptyFacts
      <4> QED
        BY <1>11, <4>1
    <3>2. c \in R(g) /\ R(u) = R(g) \ {c}
      BY <1>1, <2>2, <2>6, <3>1
    <3>3. Cardinality(R(u)) = Cardinality(R(g)) - 1
      <4> HIDE DEF R
      <4> QED
        BY <2>3, <3>2, FS_RemoveElement
    <3> HIDE DEF R
    <3>4. Len(u.free_context) + Cardinality(R(u)) >= n - 1
      BY <2>3, <2>4, <2>5, <3>1, <3>3
    <3> QED
      BY <3>4 DEF CanMake, R
  <2>7. CASE g.free_context # <<>>
    <3>1. c = Head(g.free_context) /\ u.free_context = Tail(g.free_context) /\ c \in Range(g.free_context)
      BY <1>1, <1>2, <1>11, <2>7, TailFacts
    <3>2. R(u) = R(g)
      BY <1>11, <2>2, <3>1
    <3>3. Len(u.free_context) = Len(g.free_context) - 1
      BY <1>2, <2>7, <3>1, TailFacts
    <3> HIDE DEF R
    <3>4. Len(u.free_context) + Cardinality(R(u)) >= n - 1
      BY <2>3, <2>4, <2>5, <3>2, <3>3
    <3> QED
      BY <3>4 DEF CanMake, R
  <2> QED
    BY <2>6, <2>7
<1>14. Frames(u, s) = <<m>> \o Frames(g, s)
  <2>1. u.context[s] = <<c>> \o g.context[s]
    BY <1>3, <1>4
  <2>2. /\ Len(u.context[s]) = Len(g.context[s]) + 1 /\ Len(g.context[s]) \in Nat
        /\ \A i \in 1 .. Len(g.context[s]) + 1 : u.context[s][i] = IF i = 1 THEN c ELSE g.context[s][i - 1]
    BY <1>1, <1>4, <2>1, PrependFacts
  <2>3. /\ Frames(g, s) \in Seq(Frame) /\ Len(Frames(g, s)) = Len(g.context[s])
        /\ \A i \in 1 .. Len(g.context[s]) : Frames(g, s)[i] = g.member[g.context[s][i]] /\ g.context[s][i] \in CONTEXT
    BY FramesIs
  <2>4. /\ Frames(u, s) \in Seq(Frame) /\ Len(Frames(u, s)) = Len(u.context[s])
        /\ \A i \in 1 .. Len(u.context[s]) : Frames(u, s)[i] = u.member[u.context[s][i]]
    BY <1>0, FramesIs
  <2>5. /\ <<m>> \o Frames(g, s) \in Seq(Frame) /\ Len(<<m>> \o Frames(g, s)) = Len(g.context[s]) + 1
        /\ \A i \in 1 .. Len(g.context[s]) + 1 : (<<m>> \o Frames(g, s))[i] = IF i = 1 THEN m ELSE Frames(g, s)[i - 1]
    BY <1>4, <2>3, PrependFacts
  <2>6. ASSUME NEW i \in 1 .. Len(g.context[s]) PROVE g.context[s][i] # c
    <3>1. g.context[s][i] \in Range(g.context[s])
      BY <1>4, RangeIs
    <3> QED
      BY <1>1, <3>1 DEF Used
  <2>7. ASSUME NEW i \in 1 .. Len(g.context[s]) + 1 PROVE Frames(u, s)[i] = (<<m>> \o Frames(g, s))[i]
    <3>1. CASE i = 1
      BY <1>9, <2>2, <2>4, <2>5, <3>1
    <3>2. CASE i # 1
      <4>1. i - 1 \in 1 .. Len(g.context[s])
        BY <2>2, <3>2
      <4>2. u.member[g.context[s][i - 1]] = g.member[g.context[s][i - 1]]
        BY <1>9, <2>3, <2>6, <4>1
      <4>3. Frames(u, s)[i] = u.member[g.context[s][i - 1]]
        BY <2>2, <2>4, <3>2
      <4>4. (<<m>> \o Frames(g, s))[i] = Frames(g, s)[i - 1]
        BY <2>5, <3>2
      <4> QED
        BY <2>3, <4>1, <4>2, <4>3, <4>4
    <3> QED
      BY <3>1, <3>2
  <2> DEFINE a == Frames(u, s)
             d == <<m>> \o Frames(g, s)
  <2> HIDE DEF a, d
  <2>8. a \in Seq(Frame) /\ d \in Seq(Frame) /\ Len(a) = Len(d) /\ \A i \in 1 .. Len(a) : a[i] = d[i]
    BY <2>2, <2>4, <2>5, <2>7 DEF a, d
  <2>9. a = d
    BY <2>8, SeqEqual
  <2> QED
    BY <2>9 DEF a, d
<1>15. ASSUME NEW t \in SCB \ {s} PROVE Frames(u, t) = Frames(g, t)
  <2>1. \A d \in Range(g.context[t]) : d \in CONTEXT /\ d # c
    BY <1>1, <1>4, RangeIs DEF Used
  <2> QED
    <3>1. u.context[t] = g.context[t] /\ \A d \in Range(g.context[t]) : u.member[d] = g.member[d]
      BY <1>6, <1>9, <2>1
    <3> QED
      BY <1>0, <3>1, SameFrames
<1> QED
  BY <1>3, <1>6, <1>12, <1>13, <1>14, <1>15 DEF u, m

LEMMA ExitIs ==
  ASSUME NEW g \in HState, Owned(g), NEW s \in SCB, g.context[s] # <<>>
  PROVE  LET u == exit_context(g, s)
             c == Head(g.context[s])
         IN /\ u \in HState /\ SameLists(g, u) /\ SameRun(g, u) /\ SameEvents(g, u) /\ u.member = g.member
            /\ c \in CONTEXT /\ c \in Range(g.context[s]) /\ c \notin Range(g.free_context)
            /\ u.context = [g.context EXCEPT ![s] = Tail(@)]
            /\ u.context_list = [g.context_list EXCEPT ![g.member[c].scope] = RemoveFirst(@, c)]
            /\ u.free_context = <<c>> \o g.free_context
<1> DEFINE c == Head(g.context[s])
           b == g.member[c].scope
<1>1. /\ g.context \in [SCB -> Seq(CONTEXT)] /\ g.context_list \in [Scopes -> Seq(CONTEXT)]
      /\ g.member \in [CONTEXT -> Frame] /\ g.free_context \in Seq(CONTEXT)
      /\ IsInjective(g.free_context) /\ IsInjective(g.context[s])
  BY DEF HState, Owned
<1>2. c \in CONTEXT /\ c \in Range(g.context[s]) /\ Tail(g.context[s]) \in Seq(CONTEXT)
  BY <1>1, TailFacts
<1>3. c \notin Range(g.free_context)
  BY <1>2 DEF Owned, Used
<1>4. b \in Scopes
  BY <1>1, <1>2 DEF Frame
<1>5. IsInjective(g.context_list[b])
  BY <1>4 DEF Owned
<1>6. exit_context(g, s) =
        [g EXCEPT !.context = [g.context EXCEPT ![s] = Tail(@)],
                  !.context_list = [g.context_list EXCEPT ![b] = RemoveFirst(@, c)],
                  !.free_context = <<c>> \o RemoveFirst(g.free_context, c)]
  BY DEF exit_context, HState
<1> HIDE DEF c, b
<1> DEFINE f1 == [g.context EXCEPT ![s] = Tail(@)]
           f2 == [g.context_list EXCEPT ![b] = RemoveFirst(@, c)]
           f3 == <<c>> \o g.free_context
<1>7. RemoveFirst(g.free_context, c) = g.free_context
  BY <1>1, <1>3, RemoveFirstFacts
<1>8. f1 \in [SCB -> Seq(CONTEXT)] /\ f3 \in Seq(CONTEXT)
  BY <1>1, <1>2
<1>9. f2 \in [Scopes -> Seq(CONTEXT)]
  <2>1. RemoveFirst(g.context_list[b], c) \in Seq(CONTEXT)
    BY <1>1, <1>4, <1>5, RemoveFirstFacts
  <2> QED
    BY <1>1, <1>4, <2>1
<1>10. exit_context(g, s) = [g EXCEPT !.context = f1, !.context_list = f2, !.free_context = f3]
  BY <1>6, <1>7
<1> HIDE DEF f1, f2, f3
<1> DEFINE u == [g EXCEPT !.context = f1, !.context_list = f2, !.free_context = f3]
<1>11. /\ u \in HState /\ SameLists(g, u) /\ SameRun(g, u) /\ SameEvents(g, u) /\ u.member = g.member
       /\ u.context = f1 /\ u.context_list = f2 /\ u.free_context = f3
  BY <1>8, <1>9 DEF HState, SameLists, SameRun, SameEvents
<1> QED
  BY <1>2, <1>3, <1>10, <1>11 DEF f1, f2, f3, c, b

(* A context is left: the innermost frame of s is gone.                    *)
LEMMA Exits ==
  ASSUME NEW g \in HState, Owned(g), NEW s \in SCB, g.context[s] # <<>>
  PROVE  LET u == exit_context(g, s)
         IN /\ u \in HState /\ SameLists(g, u) /\ SameRun(g, u) /\ SameEvents(g, u)
            /\ u.member = g.member /\ u.free_context = <<Head(g.context[s])>> \o g.free_context
            /\ Owned(u) /\ u.context[s] = Tail(g.context[s]) /\ Frames(u, s) = Tail(Frames(g, s))
            /\ \A t \in SCB \ {s} : u.context[t] = g.context[t] /\ Frames(u, t) = Frames(g, t)
<1> DEFINE u == exit_context(g, s)
           c == Head(g.context[s])
           b == g.member[c].scope
<1>1. /\ u \in HState /\ SameLists(g, u) /\ SameRun(g, u) /\ SameEvents(g, u) /\ u.member = g.member
      /\ c \in CONTEXT /\ c \in Range(g.context[s]) /\ c \notin Range(g.free_context)
      /\ u.context = [g.context EXCEPT ![s] = Tail(@)]
      /\ u.context_list = [g.context_list EXCEPT ![b] = RemoveFirst(@, c)]
      /\ u.free_context = <<c>> \o g.free_context
  BY ExitIs
<1>2. /\ g.context \in [SCB -> Seq(CONTEXT)] /\ g.context_list \in [Scopes -> Seq(CONTEXT)]
      /\ g.member \in [CONTEXT -> Frame] /\ g.free_context \in Seq(CONTEXT)
      /\ IsInjective(g.free_context) /\ IsInjective(g.context[s])
  BY DEF HState, Owned
<1>3. b \in Scopes
  BY <1>1, <1>2 DEF Frame
<1>4. /\ Tail(g.context[s]) \in Seq(CONTEXT) /\ IsInjective(Tail(g.context[s]))
      /\ Range(Tail(g.context[s])) = Range(g.context[s]) \ {c}
      /\ Len(Tail(g.context[s])) = Len(g.context[s]) - 1 /\ Len(g.context[s]) \in Nat
      /\ \A i \in 1 .. Len(g.context[s]) - 1 : Tail(g.context[s])[i] = g.context[s][i + 1]
  BY <1>2, TailFacts
<1> HIDE DEF u, c, b
<1>0. u \in HState /\ u.member = g.member
  BY <1>1
<1>5. u.context[s] = Tail(g.context[s]) /\ \A t \in SCB \ {s} : u.context[t] = g.context[t]
  BY <1>1, <1>2
<1>6. /\ IsInjective(u.context_list[b]) /\ Range(u.context_list[b]) = Range(g.context_list[b]) \ {c}
      /\ \A d \in Scopes \ {b} : u.context_list[d] = g.context_list[d]
  <2> DEFINE q == g.context_list[b]
  <2>1. q \in Seq(CONTEXT) /\ IsInjective(q)
    BY <1>2, <1>3 DEF Owned
  <2>2. u.context_list[b] = RemoveFirst(q, c) /\ \A d \in Scopes \ {b} : u.context_list[d] = g.context_list[d]
    BY <1>1, <1>2, <1>3
  <2> HIDE DEF q
  <2>3. IsInjective(RemoveFirst(q, c)) /\ Range(RemoveFirst(q, c)) = Range(q) \ {c}
    BY <2>1, RemoveFirstFacts
  <2> QED
    BY <2>2, <2>3 DEF q
<1>7. \A t \in SCB \ {s} : c \notin Range(g.context[t])
  BY <1>1, OneOwner
<1>8. ASSUME NEW d \in CONTEXT PROVE Used(u, d) <=> Used(g, d) /\ d # c
  BY <1>1, <1>4, <1>5, <1>7 DEF Used
<1>9. Owned(u)
  <2>1. ASSUME NEW t \in SCB PROVE IsInjective(u.context[t]) /\ \A d \in Range(u.context[t]) : u.member[d].scb = t
    <3>1. CASE t = s
      BY <1>0, <1>4, <1>5, <3>1 DEF Owned
    <3>2. CASE t # s
      BY <1>0, <1>5, <3>2 DEF Owned
    <3> QED
      BY <3>1, <3>2
  <2>2. ASSUME NEW d \in Scopes PROVE IsInjective(u.context_list[d])
    BY <1>6 DEF Owned
  <2>3. ASSUME NEW d \in Scopes, NEW e \in CONTEXT
        PROVE  e \in Range(u.context_list[d]) <=> u.member[e].scope = d /\ Used(u, e)
    <3>1. e \in Range(g.context_list[d]) <=> g.member[e].scope = d /\ Used(g, e)
      BY DEF Owned
    <3>2. c \notin Range(g.context_list[d]) \/ d = b
      BY <1>1 DEF Owned, b
    <3>3. e \in Range(u.context_list[d]) <=> e \in Range(g.context_list[d]) /\ e # c
      BY <1>6, <3>2
    <3> QED
      BY <1>0, <1>8, <3>1, <3>3
  <2>4. IsInjective(u.free_context) /\ \A d \in Range(u.free_context) : ~Used(u, d)
    <3>1. Gained(u.free_context, g.free_context, CONTEXT, c)
      BY <1>1, <1>2, PrependGains
    <3>2. \A d \in Range(u.free_context) : d \in CONTEXT /\ (d \in Range(g.free_context) \/ d = c)
      BY <3>1, RangeIs DEF Gained
    <3> QED
      BY <1>8, <3>1, <3>2 DEF Gained, Owned
  <2> QED
    BY <2>1, <2>2, <2>3, <2>4 DEF Owned
<1>10. Frames(u, s) = Tail(Frames(g, s))
  <2> DEFINE F == Frames(g, s)
             G == Frames(u, s)
  <2>1. /\ F \in Seq(Frame) /\ Len(F) = Len(g.context[s]) /\ F # <<>>
        /\ \A i \in 1 .. Len(g.context[s]) : F[i] = g.member[g.context[s][i]]
    BY FramesIs
  <2>2. /\ G \in Seq(Frame) /\ Len(G) = Len(u.context[s])
        /\ \A i \in 1 .. Len(u.context[s]) : G[i] = u.member[u.context[s][i]]
    BY <1>0, FramesIs
  <2> HIDE DEF F, G
  <2>3. /\ Tail(F) \in Seq(Frame) /\ Len(Tail(F)) = Len(F) - 1
        /\ \A i \in 1 .. Len(F) - 1 : Tail(F)[i] = F[i + 1]
    BY <2>1, HeadTailProperties
  <2>4. Len(G) = Len(Tail(F)) /\ Len(Tail(F)) = Len(g.context[s]) - 1
    BY <1>4, <1>5, <2>1, <2>2, <2>3
  <2>5. ASSUME NEW i \in 1 .. Len(G) PROVE G[i] = Tail(F)[i]
    <3>1. i \in 1 .. Len(g.context[s]) - 1 /\ i + 1 \in 1 .. Len(g.context[s])
      BY <1>4, <2>4
    <3>2. G[i] = g.member[g.context[s][i + 1]]
      BY <1>0, <1>4, <1>5, <2>2, <2>4, <3>1
    <3> QED
      BY <2>1, <2>3, <3>1, <3>2
  <2>6. G = Tail(F)
    BY <2>2, <2>3, <2>4, <2>5, SeqEqual
  <2> QED
    BY <2>6 DEF F, G
<1>11. ASSUME NEW t \in SCB \ {s} PROVE Frames(u, t) = Frames(g, t)
  BY <1>0, <1>5, SameFrames
<1> QED
  BY <1>1, <1>5, <1>9, <1>10, <1>11 DEF u, c

(* What a context on the free list holds is nobody's.                      *)
LEMMA Forgets ==
  ASSUME NEW g \in HState, Owned(g), g.free_context # <<>>
  PROVE  LET u == Forget(g)
             c == Head(g.free_context)
         IN /\ u \in HState /\ SameLists(g, u) /\ SameRun(g, u) /\ SameEvents(g, u)
            /\ u.context = g.context /\ u.context_list = g.context_list /\ u.free_context = g.free_context
            /\ Owned(u) /\ (\A t \in SCB : Frames(u, t) = Frames(g, t))
            /\ c \in CONTEXT /\ ~Used(g, c) /\ u.member[c].pc = NULL
            /\ \A d \in CONTEXT \ {c} : u.member[d] = g.member[d]
<1> DEFINE u == Forget(g)
           c == Head(g.free_context)
           m == [g.member[c] EXCEPT !.pc = NULL]
<1>1. g.free_context \in Seq(CONTEXT) /\ IsInjective(g.free_context) /\ g.member \in [CONTEXT -> Frame]
  BY DEF HState, Owned
<1>2. c \in CONTEXT /\ c \in Range(g.free_context)
  BY <1>1, TailFacts
<1>3. ~Used(g, c)
  BY <1>2 DEF Owned
<1> HIDE DEF c
<1>4. m \in Frame /\ m.pc = NULL /\ m.scope = g.member[c].scope /\ m.scb = g.member[c].scb
  BY <1>1, <1>2 DEF Frame, Statements
<1>5. u = [g EXCEPT !.member = [g.member EXCEPT ![c] = m]]
  BY <1>1, <1>2 DEF Forget, c, HState
<1> HIDE DEF u, m
<1>6. [g.member EXCEPT ![c] = m] \in [CONTEXT -> Frame]
  BY <1>1, <1>4
<1>7. /\ u \in HState /\ SameLists(g, u) /\ SameRun(g, u) /\ SameEvents(g, u)
      /\ u.context = g.context /\ u.context_list = g.context_list /\ u.free_context = g.free_context
      /\ u.member = [g.member EXCEPT ![c] = m]
  BY <1>5, <1>6 DEF HState, SameLists, SameRun, SameEvents
<1>8. u.member[c] = m /\ \A d \in CONTEXT \ {c} : u.member[d] = g.member[d]
  BY <1>1, <1>2, <1>7
<1>9. \A d \in CONTEXT : u.member[d].scope = g.member[d].scope /\ u.member[d].scb = g.member[d].scb
  BY <1>4, <1>8
<1>10. \A t \in SCB : Range(g.context[t]) \subseteq CONTEXT
  BY RangeIs DEF HState
<1>11. Owned(u)
  BY <1>7, <1>9, <1>10 DEF Owned, Used
<1>12. ASSUME NEW t \in SCB PROVE Frames(u, t) = Frames(g, t)
  <2>1. u.context[t] = g.context[t] /\ \A d \in Range(g.context[t]) : u.member[d] = g.member[d]
    BY <1>3, <1>7, <1>8, <1>10 DEF Used
  <2>2. u \in HState
    BY <1>7
  <2> QED
    BY <2>1, <2>2, SameFrames
<1> QED
  BY <1>2, <1>3, <1>4, <1>7, <1>8, <1>11, <1>12 DEF u, c

-----------------------------------------------------------------------------
(* The ready, the time and the free list, and what list says of an SCB.    *)

Threaded(g) ==
  /\ IsInjective(g.readylist) /\ IsInjective(g.timelist) /\ IsInjective(g.freelist)
  /\ \A s \in SCB : /\ g.list[s] # "NOLIST"
                    /\ g.list[s] = "READY" <=> s \in Range(g.readylist)
                    /\ g.list[s] = "TIME" <=> s \in Range(g.timelist)
                    /\ g.list[s] = "FREE" <=> s \in Range(g.freelist)

SameRest(g, u) == SameRun(g, u) /\ SameEvents(g, u) /\ SameStacks(g, u)

LEMMA WithoutIs ==
  ASSUME NEW g \in HState, Threaded(g), NEW s \in SCB
  PROVE  LET u == Without(g, s)
         IN /\ u \in HState /\ SameRest(g, u) /\ u.list = g.list
            /\ u.readylist = RemoveFirst(g.readylist, s) /\ u.timelist = RemoveFirst(g.timelist, s)
            /\ u.freelist = RemoveFirst(g.freelist, s)
            /\ IsInjective(u.readylist) /\ Range(u.readylist) = Range(g.readylist) \ {s}
            /\ IsInjective(u.timelist) /\ Range(u.timelist) = Range(g.timelist) \ {s}
            /\ IsInjective(u.freelist) /\ Range(u.freelist) = Range(g.freelist) \ {s}
<1> DEFINE a == RemoveFirst(g.readylist, s)
           b == RemoveFirst(g.timelist, s)
           c == RemoveFirst(g.freelist, s)
<1>1. g.readylist \in Seq(SCB) /\ g.timelist \in Seq(SCB) /\ g.freelist \in Seq(SCB)
  BY DEF HState
<1>2. IsInjective(g.readylist) /\ IsInjective(g.timelist) /\ IsInjective(g.freelist)
  BY DEF Threaded
<1>3. a \in Seq(SCB) /\ IsInjective(a) /\ Range(a) = Range(g.readylist) \ {s}
  BY <1>1, <1>2, RemoveFirstFacts
<1>4. b \in Seq(SCB) /\ IsInjective(b) /\ Range(b) = Range(g.timelist) \ {s}
  BY <1>1, <1>2, RemoveFirstFacts
<1>5. c \in Seq(SCB) /\ IsInjective(c) /\ Range(c) = Range(g.freelist) \ {s}
  BY <1>1, <1>2, RemoveFirstFacts
<1>6. Without(g, s) = [g EXCEPT !.readylist = a, !.timelist = b, !.freelist = c, !.stray = NULL]
  <2>1. g.stray = NULL
    BY DEF HState
  <2> QED
    BY <2>1 DEF Without, StrayWithout, HState
<1> HIDE DEF a, b, c
<1> DEFINE u == [g EXCEPT !.readylist = a, !.timelist = b, !.freelist = c, !.stray = NULL]
<1>7. /\ u \in HState /\ SameRest(g, u) /\ u.list = g.list
      /\ u.readylist = a /\ u.timelist = b /\ u.freelist = c
  BY <1>3, <1>4, <1>5 DEF HState, SameRest, SameRun, SameEvents, SameStacks
<1> QED
  BY <1>3, <1>4, <1>5, <1>6, <1>7 DEF a, b, c

(* s goes to the list of its tag, or to none, and no other SCB moves.      *)
LEMMA Relisted ==
  ASSUME NEW g \in HState, NEW u \in HState, Threaded(g), NEW s \in SCB,
         NEW tag \in {"READY", "TIME", "EVENT", "FREE"},
         u.list[s] = tag, \A t \in SCB \ {s} : u.list[t] = g.list[t],
         IsInjective(u.readylist), IsInjective(u.timelist), IsInjective(u.freelist),
         Range(u.readylist) = (Range(g.readylist) \ {s}) \cup (IF tag = "READY" THEN {s} ELSE {}),
         Range(u.timelist) = (Range(g.timelist) \ {s}) \cup (IF tag = "TIME" THEN {s} ELSE {}),
         Range(u.freelist) = (Range(g.freelist) \ {s}) \cup (IF tag = "FREE" THEN {s} ELSE {})
  PROVE  Threaded(u)
<1>2. ASSUME NEW t \in SCB
      PROVE  /\ u.list[t] # "NOLIST"
             /\ u.list[t] = "READY" <=> t \in Range(u.readylist)
             /\ u.list[t] = "TIME" <=> t \in Range(u.timelist)
             /\ u.list[t] = "FREE" <=> t \in Range(u.freelist)
  <2>1. CASE t = s
    BY <2>1
  <2>2. CASE t # s
    BY <2>2 DEF Threaded
  <2> QED
    BY <2>1, <2>2
<1> QED
  BY <1>2 DEF Threaded

MadeReady(g, s, q) == [Without(g, s) EXCEPT !.readylist = q, !.list[s] = "READY", !.stray = NULL]

LEMMA Readied ==
  ASSUME NEW g \in HState, Threaded(g), NEW s \in SCB, NEW q \in Seq(SCB),
         Gained(q, RemoveFirst(g.readylist, s), SCB, s), NEW v, v = MadeReady(g, s, q)
  PROVE  /\ v \in HState /\ Threaded(v) /\ SameRest(g, v) /\ v.readylist = q /\ q # <<>>
         /\ v.list[s] = "READY" /\ \A t \in SCB \ {s} : v.list[t] = g.list[t]
<1> DEFINE w == Without(g, s)
           f == [g.list EXCEPT ![s] = "READY"]
           u == [w EXCEPT !.readylist = q, !.list = f, !.stray = NULL]
<1>1. /\ w \in HState /\ SameRest(g, w) /\ w.list = g.list
      /\ w.readylist = RemoveFirst(g.readylist, s) /\ w.timelist = RemoveFirst(g.timelist, s)
      /\ w.freelist = RemoveFirst(g.freelist, s)
      /\ IsInjective(w.readylist) /\ Range(w.readylist) = Range(g.readylist) \ {s}
      /\ IsInjective(w.timelist) /\ Range(w.timelist) = Range(g.timelist) \ {s}
      /\ IsInjective(w.freelist) /\ Range(w.freelist) = Range(g.freelist) \ {s}
  BY WithoutIs
<1> HIDE DEF w
<1>2. f \in [SCB -> {"READY", "TIME", "EVENT", "FREE", "NOLIST"}]
  BY DEF HState
<1>3. v = u
  BY <1>1 DEF HState, MadeReady, w
<1> HIDE DEF f
<1>4. /\ u \in HState /\ SameRest(w, u) /\ u.list = f /\ u.readylist = q
      /\ u.timelist = w.timelist /\ u.freelist = w.freelist
  BY <1>1, <1>2 DEF HState, SameRest, SameRun, SameEvents, SameStacks
<1> HIDE DEF u
<1>5. SameRest(g, u)
  BY <1>1, <1>4 DEF SameRest, SameRun, SameEvents, SameStacks
<1>6. Threaded(u) /\ u.list[s] = "READY" /\ \A t \in SCB \ {s} : u.list[t] = g.list[t]
  <2>1. u.list[s] = "READY" /\ \A t \in SCB \ {s} : u.list[t] = g.list[t]
    BY <1>4 DEF f, HState
  <2>2. IsInjective(u.readylist) /\ Range(u.readylist) = (Range(g.readylist) \ {s}) \cup (IF "READY" = "READY" THEN {s} ELSE {})
    BY <1>1, <1>4 DEF Gained
  <2>3. /\ IsInjective(u.timelist) /\ Range(u.timelist) = (Range(g.timelist) \ {s}) \cup (IF "READY" = "TIME" THEN {s} ELSE {})
        /\ IsInjective(u.freelist) /\ Range(u.freelist) = (Range(g.freelist) \ {s}) \cup (IF "READY" = "FREE" THEN {s} ELSE {})
    BY <1>1, <1>4
  <2> QED
    BY <1>4, <2>1, <2>2, <2>3, Relisted
<1>7. q # <<>>
  BY DEF Gained
<1> QED
  BY <1>1, <1>3, <1>4, <1>5, <1>6, <1>7 DEF w, f

LEMMA PutsLast ==
  ASSUME NEW g \in HState, Threaded(g), NEW s \in SCB
  PROVE  LET u == PutLast(g, s)
         IN /\ u \in HState /\ Threaded(u) /\ SameRest(g, u) /\ u.readylist # <<>>
            /\ u.list[s] = "READY" /\ \A t \in SCB \ {s} : u.list[t] = g.list[t]
            /\ s \notin Range(g.readylist) /\ g.readylist # <<>> => Head(u.readylist) = Head(g.readylist)
<1> DEFINE r == RemoveFirst(g.readylist, s)
           q == Append(r, s)
<1>1. g.readylist \in Seq(SCB) /\ IsInjective(g.readylist)
  BY DEF HState, Threaded
<1>2. r \in Seq(SCB) /\ IsInjective(r) /\ Range(r) = Range(g.readylist) \ {s} /\ (s \notin Range(g.readylist) => r = g.readylist)
  BY <1>1, RemoveFirstFacts
<1>3. PutLast(g, s) = MadeReady(g, s, q)
  <2> DEFINE w == Without(g, s)
  <2>1. w \in HState /\ w.readylist = r
    BY WithoutIs
  <2>2. PutLast(g, s) = IF w.stray = NULL THEN [w EXCEPT !.readylist = Append(@, s), !.list[s] = "READY"]
                      ELSE [w EXCEPT !.freelist = Append(@, s), !.list[s] = "READY", !.stray = s]
    BY DEF PutLast
  <2>3. w.stray = NULL
    BY <2>1 DEF HState
  <2>4. PutLast(g, s) = [w EXCEPT !.readylist = Append(@, s), !.list[s] = "READY"]
    BY ONLY <2>2, <2>3
  <2> HIDE DEF w
  <2> QED
    BY <2>1, <2>3, <2>4 DEF HState, MadeReady, w
<1> HIDE DEF r
<1>4. Gained(q, r, SCB, s) /\ Head(q) = IF r = <<>> THEN s ELSE Head(r)
  BY <1>2, AppendGains
<1>5. q \in Seq(SCB)
  BY <1>4 DEF Gained
<1> HIDE DEF q
<1> DEFINE u == PutLast(g, s)
<1> HIDE DEF u
<1>6. /\ u \in HState /\ Threaded(u) /\ SameRest(g, u) /\ u.readylist = q /\ q # <<>>
      /\ u.list[s] = "READY" /\ \A t \in SCB \ {s} : u.list[t] = g.list[t]
  <2>1. u = MadeReady(g, s, q)
    BY <1>3 DEF u
  <2>2. Gained(q, RemoveFirst(g.readylist, s), SCB, s)
    BY <1>4 DEF r
  <2> QED
    BY <1>5, <2>1, <2>2, Readied
<1> QED
  BY <1>2, <1>4, <1>6 DEF u

LEMMA PutsFirst ==
  ASSUME NEW g \in HState, Threaded(g), NEW s \in SCB
  PROVE  LET u == PutFirst(g, s)
         IN /\ u \in HState /\ Threaded(u) /\ SameRest(g, u) /\ u.readylist # <<>>
            /\ u.list[s] = "READY" /\ \A t \in SCB \ {s} : u.list[t] = g.list[t]
<1> DEFINE r == RemoveFirst(g.readylist, s)
           q == <<s>> \o r
<1>1. g.readylist \in Seq(SCB) /\ IsInjective(g.readylist)
  BY DEF HState, Threaded
<1>2. r \in Seq(SCB) /\ IsInjective(r) /\ Range(r) = Range(g.readylist) \ {s}
  BY <1>1, RemoveFirstFacts
<1>3. PutFirst(g, s) = MadeReady(g, s, q)
  <2> DEFINE w == Without(g, s)
  <2>1. w \in HState /\ w.readylist = r
    BY WithoutIs
  <2>2. PutFirst(g, s) = [w EXCEPT !.readylist = <<s>> \o @, !.list[s] = "READY",
                                !.stray = IF w.readylist = <<>> THEN NULL ELSE @]
    BY DEF PutFirst
  <2>3. w.stray = NULL
    BY <2>1 DEF HState
  <2> HIDE DEF w
  <2> QED
    BY <2>1, <2>2, <2>3 DEF HState, MadeReady, w
<1> HIDE DEF r
<1>4. Gained(q, r, SCB, s)
  BY <1>2, PrependGains
<1>5. q \in Seq(SCB)
  BY <1>4 DEF Gained
<1> HIDE DEF q
<1> DEFINE u == PutFirst(g, s)
<1> HIDE DEF u
<1>6. /\ u \in HState /\ Threaded(u) /\ SameRest(g, u) /\ u.readylist = q /\ q # <<>>
      /\ u.list[s] = "READY" /\ \A t \in SCB \ {s} : u.list[t] = g.list[t]
  <2>1. u = MadeReady(g, s, q)
    BY <1>3 DEF u
  <2>2. Gained(q, RemoveFirst(g.readylist, s), SCB, s)
    BY <1>4 DEF r
  <2> QED
    BY <1>5, <2>1, <2>2, Readied
<1> QED
  BY <1>6 DEF u

(* InsertAt behind the first i of the ready list.                          *)
LEMMA InsertsBehind ==
  ASSUME NEW g \in HState, Threaded(g), NEW s \in SCB, s \notin Range(g.readylist), g.readylist # <<>>,
         NEW k \in 2 .. Len(g.readylist) + 1
  PROVE  LET q == InsertAt(g.readylist, k, s)
         IN /\ q \in Seq(SCB) /\ Gained(q, g.readylist, SCB, s) /\ Head(q) = Head(g.readylist)
            /\ Len(q) = Len(g.readylist) + 1 /\ (k = 2 => Head(Tail(q)) = s)
            /\ 2 < k => Head(Tail(q)) = Head(Tail(g.readylist))
<1> DEFINE r == g.readylist
           q == InsertAt(r, k, s)
<1>1. r \in Seq(SCB) /\ IsInjective(r) /\ Len(r) \in Nat /\ r # <<>> /\ s \notin Range(r)
  BY DEF HState, Threaded
<1>2. k \in 1 .. Len(r) + 1 /\ k # 1 /\ k \in 2 .. Len(r) + 1
  BY <1>1
<1> HIDE DEF r
<1>3. q \in Seq(SCB) /\ Widened(r, q, k, s)
  BY <1>1, <1>2, InsertAtFacts
<1>4. Gained(q, r, SCB, s) /\ Head(q) = Head(r)
  BY <1>1, <1>2, InsertAtGains
<1> HIDE DEF q
<1>5. Len(q) = Len(r) + 1 /\ q[2] = IF 2 < k THEN r[2] ELSE s
  BY <1>1, <1>2, <1>3 DEF Widened
<1>6. q # <<>> /\ Head(Tail(q)) = q[2]
  <2>1. q # <<>>
    BY <1>4 DEF Gained
  <2>2. Len(q) >= 2 /\ Len(q) \in Nat
    BY <1>1, <1>2, <1>5
  <2>3. Tail(q) \in Seq(SCB) /\ Len(Tail(q)) = Len(q) - 1 /\ \A j \in 1 .. Len(q) - 1 : Tail(q)[j] = q[j + 1]
    BY <1>3, <2>1, HeadTailProperties
  <2>4. Head(Tail(q)) = Tail(q)[1]
    BY <2>2, <2>3, HeadTailProperties
  <2> QED
    BY <2>1, <2>2, <2>3, <2>4
<1>7. 2 < k => Head(Tail(r)) = r[2]
  <2> SUFFICES ASSUME 2 < k PROVE Head(Tail(r)) = r[2]
    OBVIOUS
  <2>1. Len(r) >= 2
    BY <1>1, <1>2
  <2>2. Tail(r) \in Seq(SCB) /\ Len(Tail(r)) = Len(r) - 1 /\ \A j \in 1 .. Len(r) - 1 : Tail(r)[j] = r[j + 1]
    BY <1>1, HeadTailProperties
  <2>3. Head(Tail(r)) = Tail(r)[1]
    <3> DEFINE t == Tail(r)
    <3>1. t \in Seq(SCB) /\ Len(t) >= 1
      BY <1>1, <2>1, <2>2
    <3> HIDE DEF t
    <3>2. Head(t) = t[1]
      BY <3>1, HeadTailProperties, EmptyFacts
    <3> QED
      BY <3>2 DEF t
  <2> QED
    BY <1>1, <2>1, <2>2, <2>3
<1> QED
  BY <1>1, <1>2, <1>3, <1>4, <1>5, <1>6, <1>7 DEF q, r

LEMMA PutsSecond ==
  ASSUME NEW g \in HState, Threaded(g), NEW s \in SCB, s \notin Range(g.readylist), g.readylist # <<>>
  PROVE  LET u == PutSecond(g, s)
         IN /\ u \in HState /\ Threaded(u) /\ SameRest(g, u) /\ u.readylist # <<>>
            /\ u.list[s] = "READY" /\ \A t \in SCB \ {s} : u.list[t] = g.list[t]
            /\ Head(u.readylist) = Head(g.readylist) /\ Head(Tail(u.readylist)) = s
            /\ Len(u.readylist) = Len(g.readylist) + 1
<1> DEFINE r == g.readylist
           q == InsertAt(r, 2, s)
<1>1. r \in Seq(SCB) /\ IsInjective(r) /\ Len(r) \in Nat /\ 1 \in 1 .. Len(r)
  BY DEF HState, Threaded
<1>2. RemoveFirst(r, s) = r
  BY <1>1, RemoveFirstFacts
<1>3. PutSecond(g, s) = MadeReady(g, s, q)
  <2> DEFINE w == Without(g, s)
  <2>1. w \in HState /\ w.readylist = r
    BY <1>2, WithoutIs
  <2>2. PutSecond(g, s) = [w EXCEPT !.readylist = InsertAt(@, 2, s), !.list[s] = "READY",
                                    !.stray = IF Len(w.readylist) = 1 THEN NULL ELSE @]
    BY DEF PutSecond
  <2>3. w.stray = NULL
    BY <2>1 DEF HState
  <2> HIDE DEF w
  <2> QED
    BY <2>1, <2>2, <2>3 DEF HState, MadeReady, w
<1>4. /\ q \in Seq(SCB) /\ Gained(q, r, SCB, s) /\ Head(q) = Head(r) /\ Len(q) = Len(r) + 1 /\ Head(Tail(q)) = s
  <2>1. 2 \in 2 .. Len(g.readylist) + 1
    BY <1>1
  <2> QED
    BY <2>1, InsertsBehind
<1> HIDE DEF q
<1> DEFINE u == PutSecond(g, s)
<1> HIDE DEF u
<1>5. /\ u \in HState /\ Threaded(u) /\ SameRest(g, u) /\ u.readylist = q /\ q # <<>>
      /\ u.list[s] = "READY" /\ \A t \in SCB \ {s} : u.list[t] = g.list[t]
  <2>1. u = MadeReady(g, s, q)
    BY <1>3 DEF u
  <2>2. Gained(q, RemoveFirst(g.readylist, s), SCB, s)
    BY <1>2, <1>4
  <2> QED
    BY <1>4, <2>1, <2>2, Readied
<1> QED
  BY <1>4, <1>5 DEF u

(* The head of the ready list goes to the time list, or waits.             *)
LEMMA Suspends ==
  ASSUME NEW g \in HState, Threaded(g), g.readylist # <<>>, NEW tag \in {"TIME", "EVENT"}
  PROVE  LET u == Suspended(g, tag)
             s == Head(g.readylist)
         IN /\ u \in HState /\ Threaded(u) /\ SameRest(g, u) /\ u.readylist = Tail(g.readylist)
            /\ s \in SCB /\ u.list[s] = tag /\ \A t \in SCB \ {s} : u.list[t] = g.list[t]
<1> DEFINE s == Head(g.readylist)
           w == Without(g, s)
           f == [g.list EXCEPT ![s] = tag]
           q == IF tag = "TIME" THEN Append(w.timelist, s) ELSE w.timelist
           v == Suspended(g, tag)
           u == [w EXCEPT !.list = f, !.timelist = q]
<1>0. g.readylist \in Seq(SCB) /\ IsInjective(g.readylist)
  BY DEF HState, Threaded
<1>1. s \in SCB /\ s \in Range(g.readylist)
  BY <1>0, TailFacts
<1>2. RemoveFirst(g.readylist, s) = Tail(g.readylist)
  BY <1>0, RemoveFirstFacts
<1> HIDE DEF s
<1>3. /\ w \in HState /\ SameRest(g, w) /\ w.list = g.list
      /\ w.readylist = RemoveFirst(g.readylist, s)
      /\ IsInjective(w.readylist) /\ Range(w.readylist) = Range(g.readylist) \ {s}
      /\ IsInjective(w.timelist) /\ Range(w.timelist) = Range(g.timelist) \ {s}
      /\ IsInjective(w.freelist) /\ Range(w.freelist) = Range(g.freelist) \ {s}
  BY <1>1, WithoutIs
<1> HIDE DEF w
<1>4. f \in [SCB -> {"READY", "TIME", "EVENT", "FREE", "NOLIST"}]
  BY DEF HState
<1>5. q \in Seq(SCB) /\ IsInjective(q) /\ Range(q) = (Range(g.timelist) \ {s}) \cup (IF tag = "TIME" THEN {s} ELSE {})
  <2>1. CASE tag = "TIME"
    <3>1. w.timelist \in Seq(SCB) /\ s \notin Range(w.timelist)
      BY <1>3 DEF HState
    <3> DEFINE x == w.timelist
    <3>2. Gained(Append(x, s), x, SCB, s)
      <4>1. x \in Seq(SCB) /\ IsInjective(x) /\ s \notin Range(x)
        BY <1>3, <3>1
      <4> HIDE DEF x
      <4> QED
        BY <1>1, <4>1, AppendGains
    <3> QED
      BY <1>3, <2>1, <3>2 DEF Gained
  <2>2. CASE tag # "TIME"
    BY <1>3, <2>2 DEF HState
  <2> QED
    BY <2>1, <2>2
<1>6. v = u
  BY <1>3 DEF Suspended, HState, w, s
<1> HIDE DEF f, q, v
<1>7. /\ u \in HState /\ SameRest(w, u) /\ u.list = f /\ u.timelist = q
      /\ u.readylist = w.readylist /\ u.freelist = w.freelist
  BY <1>3, <1>4, <1>5 DEF HState, SameRest, SameRun, SameEvents, SameStacks
<1> HIDE DEF u
<1>8. SameRest(g, u)
  BY <1>3, <1>7 DEF SameRest, SameRun, SameEvents, SameStacks
<1>9. Threaded(u) /\ u.list[s] = tag /\ \A t \in SCB \ {s} : u.list[t] = g.list[t]
  <2>1. u.list[s] = tag /\ \A t \in SCB \ {s} : u.list[t] = g.list[t]
    BY <1>7, <1>1 DEF f, HState
  <2>2. /\ IsInjective(u.readylist) /\ Range(u.readylist) = (Range(g.readylist) \ {s}) \cup (IF tag = "READY" THEN {s} ELSE {})
        /\ IsInjective(u.timelist) /\ Range(u.timelist) = (Range(g.timelist) \ {s}) \cup (IF tag = "TIME" THEN {s} ELSE {})
        /\ IsInjective(u.freelist) /\ Range(u.freelist) = (Range(g.freelist) \ {s}) \cup (IF tag = "FREE" THEN {s} ELSE {})
    BY <1>3, <1>5, <1>7
  <2> QED
    BY <1>1, <1>7, <2>1, <2>2, Relisted
<1>10. u.readylist = Tail(g.readylist)
  BY <1>2, <1>3, <1>7
<1> QED
  BY <1>1, <1>6, <1>7, <1>8, <1>9, <1>10 DEF v, s

(* s goes to the head of the free list.                                    *)
MadeFree(g, s) == LET u == Without(g, s)
                  IN [u EXCEPT !.freelist = <<s>> \o @, !.list[s] = "FREE"]

LEMMA MadesFree ==
  ASSUME NEW g \in HState, Threaded(g), NEW s \in SCB
  PROVE  LET u == MadeFree(g, s)
         IN /\ u \in HState /\ Threaded(u) /\ SameRest(g, u)
            /\ u.readylist = RemoveFirst(g.readylist, s)
            /\ u.list[s] = "FREE" /\ \A t \in SCB \ {s} : u.list[t] = g.list[t]
<1> DEFINE w == Without(g, s)
           f == [g.list EXCEPT ![s] = "FREE"]
           x == w.freelist
           q == <<s>> \o x
           v == MadeFree(g, s)
           u == [w EXCEPT !.freelist = q, !.list = f]
<1>1. /\ w \in HState /\ SameRest(g, w) /\ w.list = g.list
      /\ w.readylist = RemoveFirst(g.readylist, s)
      /\ IsInjective(w.readylist) /\ Range(w.readylist) = Range(g.readylist) \ {s}
      /\ IsInjective(w.timelist) /\ Range(w.timelist) = Range(g.timelist) \ {s}
      /\ IsInjective(x) /\ Range(x) = Range(g.freelist) \ {s}
  BY WithoutIs
<1> HIDE DEF w
<1>2. x \in Seq(SCB)
  BY <1>1 DEF HState
<1>3. v = u
  BY <1>1 DEF MadeFree, HState, w
<1> HIDE DEF x
<1>4. Gained(q, x, SCB, s)
  BY <1>1, <1>2, PrependGains
<1>5. f \in [SCB -> {"READY", "TIME", "EVENT", "FREE", "NOLIST"}]
  BY DEF HState
<1> HIDE DEF f, q, v
<1>6. /\ u \in HState /\ SameRest(w, u) /\ u.list = f /\ u.freelist = q
      /\ u.readylist = w.readylist /\ u.timelist = w.timelist
  BY <1>1, <1>4, <1>5 DEF Gained, HState, SameRest, SameRun, SameEvents, SameStacks
<1> HIDE DEF u
<1>7. SameRest(g, u)
  BY <1>1, <1>6 DEF SameRest, SameRun, SameEvents, SameStacks
<1>8. Threaded(u) /\ u.list[s] = "FREE" /\ \A t \in SCB \ {s} : u.list[t] = g.list[t]
  <2>1. u.list[s] = "FREE" /\ \A t \in SCB \ {s} : u.list[t] = g.list[t]
    BY <1>6 DEF f, HState
  <2>2. /\ IsInjective(u.readylist) /\ Range(u.readylist) = (Range(g.readylist) \ {s}) \cup (IF "FREE" = "READY" THEN {s} ELSE {})
        /\ IsInjective(u.timelist) /\ Range(u.timelist) = (Range(g.timelist) \ {s}) \cup (IF "FREE" = "TIME" THEN {s} ELSE {})
        /\ IsInjective(u.freelist) /\ Range(u.freelist) = (Range(g.freelist) \ {s}) \cup (IF "FREE" = "FREE" THEN {s} ELSE {})
    BY <1>1, <1>4, <1>6 DEF Gained
  <2> QED
    BY <1>6, <2>1, <2>2, Relisted
<1> QED
  BY <1>1, <1>3, <1>6, <1>7, <1>8 DEF v

(* dispatcher(FREE_LIST): the process that executes is over.               *)
LEMMA Dumps ==
  ASSUME NEW g \in HState, Threaded(g), Owned(g), g.readylist # <<>>, NEW s \in SCB, s = Head(g.readylist),
         Len(Frames(g, s)) <= 1
  PROVE  LET u == Dumped(g)
         IN /\ u \in HState /\ Threaded(u) /\ Owned(u) /\ SameRun(g, u) /\ SameEvents(g, u)
            /\ u.readylist = Tail(g.readylist)
            /\ u.list[s] = "FREE" /\ u.context[s] = <<>>
            /\ \A t \in SCB \ {s} : u.list[t] = g.list[t] /\ u.context[t] = g.context[t] /\ Frames(u, t) = Frames(g, t)
            /\ u.member = g.member
            /\ u.free_context = IF g.context[s] = <<>> THEN g.free_context ELSE <<Head(g.context[s])>> \o g.free_context
<1> DEFINE f == MadeFree(g, s)
           u == Dumped(g)
<1>0. g.readylist \in Seq(SCB) /\ IsInjective(g.readylist)
  BY DEF HState, Threaded
<1>1. /\ f \in HState /\ Threaded(f) /\ SameRest(g, f) /\ f.readylist = Tail(g.readylist)
      /\ f.list[s] = "FREE" /\ \A t \in SCB \ {s} : f.list[t] = g.list[t]
  <2>1. RemoveFirst(g.readylist, s) = Tail(g.readylist)
    BY <1>0, RemoveFirstFacts
  <2> QED
    BY <2>1, MadesFree
<1>2. u = IF g.context[s] = <<>> THEN f ELSE exit_context(f, s)
  <2> DEFINE w == Without(g, s)
             v == [w EXCEPT !.freelist = <<s>> \o @, !.list[s] = "FREE",
                            !.stray = IF "FREE" = "READY" /\ w.freelist = <<>> THEN s ELSE @]
  <2>1. w \in HState
    BY WithoutIs
  <2>2. u = IF g.context[s] = <<>> THEN v ELSE exit_context(v, s)
    BY DEF Dumped, Freed
  <2> HIDE DEF w
  <2>3. v = f
    BY <2>1 DEF HState, MadeFree, w
  <2> QED
    BY <2>2, <2>3
<1> HIDE DEF f, u
<1>3. Owned(f) /\ (\A t \in SCB : Frames(f, t) = Frames(g, t)) /\ f.context = g.context /\ f.member = g.member
      /\ f.free_context = g.free_context /\ SameRun(g, f) /\ SameEvents(g, f)
  BY <1>1, SameStacksOwned DEF SameRest, SameStacks
<1>4. CASE g.context[s] = <<>>
  BY <1>1, <1>2, <1>3, <1>4 DEF u
<1>5. CASE g.context[s] # <<>>
  <2>1. /\ u \in HState /\ SameLists(f, u) /\ SameRun(f, u) /\ SameEvents(f, u)
        /\ u.member = f.member /\ u.free_context = <<Head(f.context[s])>> \o f.free_context
        /\ Owned(u) /\ u.context[s] = Tail(f.context[s])
        /\ \A t \in SCB \ {s} : u.context[t] = f.context[t] /\ Frames(u, t) = Frames(f, t)
    <3>1. f \in HState /\ Owned(f) /\ f.context[s] # <<>> /\ u = exit_context(f, s)
      BY <1>1, <1>2, <1>3, <1>5
    <3> QED
      BY <3>1, Exits
  <2>2. u.context[s] = <<>>
    <3>1. g.context[s] \in Seq(CONTEXT) /\ Len(g.context[s]) <= 1
      BY FramesIs DEF HState
    <3> QED
      BY <1>3, <1>5, <2>1, <3>1
  <2>3. Threaded(u) /\ u.list = f.list /\ u.readylist = f.readylist
    BY <1>1, <2>1 DEF Threaded, SameLists
  <2> QED
    BY <1>1, <1>3, <1>5, <2>1, <2>2, <2>3 DEF SameRun, SameEvents, u
<1> QED
  BY <1>4, <1>5

-----------------------------------------------------------------------------
(* What the lists, the frames, the forks and the markers say of every      *)
(* process.  at tells where a process stands.                              *)

Joining(g, s) == g.list[s] = "EVENT" /\ Code(g.pc[s]) = "join"
Awaiting(g, s) == g.list[s] = "EVENT" /\ Code(g.pc[s]) \in {"event", "wait"}

(* s is an assignment that has still to store.                             *)
Pends(g, at, s) == g.mode[s] = "WAIT" /\ Code(at[s]) = "nonblocking"
Alone(p, s)     == <<[scb |-> s, scope |-> In(p), pc |-> NULL]>>

Settled(g, at, s) ==
  IF g.list[s] = "FREE" THEN g.context[s] = <<>>
  ELSE IF Pends(g, at, s)
    THEN /\ g.list[s] \in {"TIME", "READY"} /\ g.fork[s] = NULL
         /\ at[s] \in Tree /\ Frames(g, s) = Alone(at[s], s)
  ELSE /\ Stands(Frames(g, s), at[s], Joining(g, s), g.fork[s])
       /\ g.list[s] = "TIME" => Code(at[s]) = "delay"
       /\ g.list[s] = "EVENT" => at[s] = g.pc[s] /\ Code(at[s]) \in {"event", "wait", "join"}
       /\ g.list[s] = "READY" /\ g.mode[s] = "WAIT" => Code(at[s]) \in Waits

(* The arms of f that are not over.                                        *)
Arms(g, f) == {s \in SCB : g.list[s] # "FREE" /\ g.fork[s] = f}
Forking(g) ==
  /\ \A s \in SCB : g.list[s] # "FREE" /\ g.fork[s] # NULL => Joining(g, g.fork[s])
  /\ \A f \in SCB : Joining(g, f) => g.fork_count[f] > 0 /\ g.fork_count[f] = Cardinality(Arms(g, f))
  /\ \A f \in SCB : g.fork_count[f] \in 0 .. Cardinality(SCB)

(* Those who wait at m, in the order of the thread.                        *)
WaitingAt(g, m) == {s \in SCB : g.list[s] = "EVENT" /\ g.pc[s] = m}
Queue(g, m, Q) ==
  /\ Q \in Seq(SCB) /\ IsInjective(Q) /\ Range(Q) = WaitingAt(g, m)
  /\ Q # <<>> /\ Q[1] = g.waiter[m]
  /\ \A i \in 1 .. Len(Q) : g.here[Q[i]] = IF i = Len(Q) THEN NULL ELSE Q[i + 1]
Marked(g, m) == IF m \in Range(g.event_chain[Stmt(m).event]) THEN \E Q : Queue(g, m, Q)
                ELSE WaitingAt(g, m) = {}
Waiters(g) ==
  /\ \A m \in Tree : Code(m) \in {"event", "wait"} => Marked(g, m)
  /\ \A e \in Events : /\ IsInjective(g.event_chain[e])
                       /\ \A m \in Range(g.event_chain[e]) : Code(m) \in {"event", "wait"} /\ Stmt(m).event = e
  /\ \A s \in SCB : ~Awaiting(g, s) => g.here[s] = NULL

Agree(g, at) ==
  g \in HState /\ Threaded(g) /\ Owned(g) /\ Forking(g) /\ Waiters(g) /\ \A s \in SCB : Settled(g, at, s)

Place(g, next) == [s \in SCB |-> IF g.readylist # <<>> /\ s = Head(g.readylist) THEN next ELSE g.pc[s]]

SameProcess(g, u, t) ==
  /\ u.list[t] = g.list[t] /\ u.pc[t] = g.pc[t] /\ u.mode[t] = g.mode[t] /\ u.fork[t] = g.fork[t]
  /\ u.context[t] = g.context[t] /\ Frames(u, t) = Frames(g, t)

LEMMA SettledStays ==
  ASSUME NEW g, NEW u, NEW at, NEW to, NEW t, Settled(g, at, t), SameProcess(g, u, t), to[t] = at[t]
  PROVE  Settled(u, to, t)
BY DEF Settled, Pends, SameProcess, Joining

(* Where a process stands there is a statement.                            *)
LEMMA SettledAt ==
  ASSUME program \in Programs, NEW g \in HState, NEW at, NEW s \in SCB, Settled(g, at, s), g.list[s] # "FREE"
  PROVE  at[s] \in Tree
<1>1. CASE Pends(g, at, s)
  BY <1>1 DEF Settled
<1>2. CASE ~Pends(g, at, s)
  <2>1. Joining(g, s) \in BOOLEAN /\ Frames(g, s) \in Seq(Frame)
    BY FramesIs DEF Joining
  <2>2. Stands(Frames(g, s), at[s], Joining(g, s), g.fork[s])
    BY <1>2 DEF Settled
  <2> HIDE DEF Tree
  <2> QED
    BY <2>1, <2>2, StandsAt
<1> QED
  BY <1>1, <1>2

LEMMA ForkingStays ==
  ASSUME NEW g, NEW u, Forking(g), u.fork = g.fork, u.fork_count = g.fork_count,
         \A t \in SCB : (u.list[t] = "FREE" <=> g.list[t] = "FREE") /\ (Joining(u, t) <=> Joining(g, t)),
         \A t \in SCB : g.fork[t] \in SCB \cup {NULL}
  PROVE  Forking(u)
<1>1. \A f : Arms(u, f) = Arms(g, f)
  BY DEF Arms
<1> QED
  BY <1>1 DEF Forking

LEMMA WaitersStay ==
  ASSUME program \in Programs, NEW g, NEW u, Waiters(g), SameEvents(g, u),
         \A t \in SCB : IF Awaiting(g, t) THEN u.list[t] = "EVENT" /\ u.pc[t] = g.pc[t] ELSE ~Awaiting(u, t)
  PROVE  Waiters(u)
<1>1. ASSUME NEW m \in Tree, Code(m) \in {"event", "wait"} PROVE WaitingAt(u, m) = WaitingAt(g, m)
  BY <1>1 DEF WaitingAt, Awaiting
<1>2. ASSUME NEW m \in Tree, Code(m) \in {"event", "wait"} PROVE Marked(u, m)
  <2>1. WaitingAt(u, m) = WaitingAt(g, m)
    BY <1>1, <1>2
  <2>2. Marked(g, m)
    BY <1>2 DEF Waiters
  <2>3. \A Q : Queue(g, m, Q) => Queue(u, m, Q)
    BY <2>1 DEF Queue, SameEvents
  <2> QED
    BY <2>1, <2>2, <2>3 DEF Marked, SameEvents
<1>3. \A s \in SCB : Awaiting(g, s) => Awaiting(u, s)
  BY DEF Awaiting
<1> QED
  BY <1>2, <1>3 DEF Waiters, SameEvents

(* Only s has moved, and it neither was nor is at a join or an event.      *)
LEMMA OneMoves ==
  ASSUME program \in Programs, NEW g, NEW u, NEW at, NEW to, NEW s \in SCB,
         Agree(g, at), u \in HState, Threaded(u), Owned(u), SameEvents(g, u),
         u.fork = g.fork, u.fork_count = g.fork_count,
         \A t \in SCB \ {s} : SameProcess(g, u, t) /\ to[t] = at[t],
         g.list[s] \notin {"FREE", "EVENT"}, u.list[s] \notin {"FREE", "EVENT"}, Settled(u, to, s)
  PROVE  Agree(u, to)
<1>1. ASSUME NEW t \in SCB PROVE Settled(u, to, t)
  <2>1. CASE t = s
    BY <2>1
  <2>2. CASE t # s
    <3>1. SameProcess(g, u, t) /\ to[t] = at[t] /\ Settled(g, at, t)
      BY <2>2 DEF Agree
    <3> QED
      BY <3>1, SettledStays
  <2> QED
    BY <2>1, <2>2
<1>2. Forking(u)
  <2>1. \A t \in SCB : (u.list[t] = "FREE" <=> g.list[t] = "FREE") /\ (Joining(u, t) <=> Joining(g, t))
    BY DEF SameProcess, Joining
  <2>2. \A t \in SCB : g.fork[t] \in SCB \cup {NULL}
    BY DEF Agree, HState
  <2> QED
    BY <2>1, <2>2, ForkingStays DEF Agree
<1>3. Waiters(u)
  <2>1. \A t \in SCB : IF Awaiting(g, t) THEN u.list[t] = "EVENT" /\ u.pc[t] = g.pc[t] ELSE ~Awaiting(u, t)
    BY DEF SameProcess, Awaiting
  <2> QED
    BY <2>1, WaitersStay DEF Agree
<1> QED
  BY <1>1, <1>2, <1>3 DEF Agree

-----------------------------------------------------------------------------
(* The inductive invariant.                                                *)

Standing == IF scope = NULL THEN Place(h, pc) ELSE h.pc

(* The program never changes, so what is said of the next state with this  *)
(* program is said of it with its own.                                     *)
LEMMA Carried ==
  ASSUME program' = program, Agree(h', Standing')
  PROVE  Agree(h, Standing)'
<1>1. (h \in HState)'
  <2>1. h' \in HState
    BY DEF Agree
  <2> QED
    BY <2>1 DEF HState, Frame, Statements, Scopes, Tree, Events
<1>2. Threaded(h)'
  BY DEF Agree, Threaded
<1>3. Owned(h)'
  <2>1. Owned(h')
    BY DEF Agree
  <2> QED
    BY <2>1 DEF Owned, Scopes, Used
<1>4. Forking(h)'
  <2>1. Forking(h')
    BY DEF Agree
  <2> QED
    BY <2>1 DEF Forking, Joining, Code, Stmt, Arms
<1>5. Waiters(h)'
  <2>1. Waiters(h')
    BY DEF Agree
  <2>2. ASSUME NEW m PROVE Marked(h', m) => Marked(h, m)'
    <3>1. \A Q : Queue(h', m, Q) => Queue(h, m, Q)'
      BY DEF Queue, WaitingAt
    <3>2. WaitingAt(h', m) = WaitingAt(h, m)'
      BY DEF WaitingAt
    <3> QED
      BY <3>1, <3>2 DEF Marked, Stmt
  <2> QED
    BY <2>1, <2>2 DEF Waiters, Awaiting, Tree, Events, Code, Stmt
<1>6. ASSUME NEW s \in SCB PROVE Settled(h, Standing, s)'
  <2>1. Settled(h', Standing', s)
    BY DEF Agree
  <2>2. Frames(h, s)' = Frames(h', s)
    BY DEF Frames
  <2>3. ASSUME NEW F, NEW at, NEW j, NEW k, Stands(F, at, j, k) PROVE Stands(F, at, j, k)'
    <3>1. \A w, m, b : Fits(w, m, b) <=> Fits(w, m, b)'
      BY DEF Fits, Tree, Code, Stmt, PastJoin
    <3> QED
      BY <2>3, <3>1 DEF Stands, Tree, Within, Stmt, Caller
  <2>4. \A x : Code(x)' = Code(x)
    BY DEF Code, Stmt
  <2>5. Joining(h, s)' = Joining(h', s)
    BY <2>4 DEF Joining
  <2>6. Tree' = Tree /\ \A x : In(x)' = In(x)
    BY DEF Tree, In, BlockOf
  <2>7. \A p : Alone(p, s)' = Alone(p, s)
    BY <2>6 DEF Alone
  <2>8. Pends(h', Standing', s) <=> Pends(h, Standing, s)'
    BY <2>4 DEF Pends
  <2> HIDE DEF Alone, Frames, Standing, Tree
  <2> QED
    BY <2>1, <2>2, <2>3, <2>4, <2>5, <2>6, <2>7, <2>8 DEF Settled
<1> QED
  BY <1>1, <1>2, <1>3, <1>4, <1>5, <1>6 DEF Agree

(* A set of blocks that has with a block all that are entered from it, and *)
(* in which nobody forks, or waits for an event.                           *)
Sealed(p, X) ==
  /\ TOP \notin X
  /\ \A s \in DOMAIN p.text :
       /\ Is(p, s, Forks) => p.text[s].block \notin X
       /\ BlockOf(p, s) \in X => /\ ~Is(p, s, Forks \cup {"event", "wait"})
                                 /\ Is(p, s, {"begin", "task"}) => p.text[s].block \in X
Spared(p, b) == \E X \in SUBSET Blocks(p) : b \in X /\ Sealed(p, X)

IInv ==
  /\ program \in Programs /\ Agree(h, Standing)
  /\ calls = <<>> /\ returning \subseteq SCB /\ fault \in BOOLEAN
  /\ IF scope = NULL THEN pc \in Tree \cup {IDLE} /\ (pc = IDLE <=> h.readylist = <<>>)
     ELSE scope \in Scopes /\ Spared(program, scope) /\ walk = <<>> /\ pc \in Tree
  /\ walk \in Seq(Tree) /\ IsInjective(walk)
  /\ walk # <<>> => pc # IDLE /\ \E e \in Events : Range(walk) \subseteq Range(h.event_chain[e])

(* What is known of the process that executes a statement.                 *)
LEMMA ExecutesAny ==
  ASSUME IInv, NEW code, code # "none", Executing(code)
  PROVE  /\ program \in Programs /\ scope = NULL /\ walk = <<>> /\ ~fault /\ pc \in Tree /\ Code(pc) = code
         /\ Readylist \in SCB /\ h.readylist # <<>> /\ h.list[Readylist] = "READY"
         /\ h \in HState /\ Threaded(h) /\ Owned(h) /\ Agree(h, Place(h, pc))
         /\ Frames(h, Readylist) \in Seq(Frame)
         /\ Settled(h, Place(h, pc), Readylist) /\ Place(h, pc)[Readylist] = pc /\ ~Joining(h, Readylist)
<1>1. program \in Programs /\ scope = NULL /\ walk = <<>> /\ ~fault /\ Code(pc) = code
  BY DEF IInv, Executing
<1>2. pc \in Tree
  BY <1>1 DEF Code, Tree
<1>3. Agree(h, Place(h, pc)) /\ (pc = IDLE <=> h.readylist = <<>>)
  BY <1>1 DEF IInv, Standing
<1>4. h.readylist # <<>> /\ h \in HState /\ Threaded(h) /\ Owned(h)
  BY <1>1, <1>2, <1>3, TreeIs DEF Agree
<1>5. h.readylist \in Seq(SCB) /\ IsInjective(h.readylist)
  BY <1>4 DEF HState, Threaded
<1>6. Readylist \in SCB /\ Readylist \in Range(h.readylist)
  BY <1>4, <1>5, TailFacts DEF Readylist
<1>7. h.list[Readylist] = "READY"
  BY <1>4, <1>6 DEF Threaded
<1>8. Settled(h, Place(h, pc), Readylist)
  BY <1>3, <1>6 DEF Agree
<1>9. Place(h, pc)[Readylist] = pc
  BY <1>4, <1>6 DEF Place, Readylist
<1>10. ~Joining(h, Readylist)
  BY <1>7 DEF Joining
<1>11. Frames(h, Readylist) \in Seq(Frame)
  BY <1>4, <1>6, FramesIs
<1> QED
  BY <1>1, <1>2, <1>3, <1>4, <1>6, <1>7, <1>8, <1>9, <1>10, <1>11

LEMMA Executes ==
  ASSUME IInv, NEW code, code \notin {"none", "nonblocking"}, Executing(code)
  PROVE  /\ program \in Programs /\ scope = NULL /\ walk = <<>> /\ ~fault /\ pc \in Tree /\ Code(pc) = code
         /\ Readylist \in SCB /\ h.readylist # <<>> /\ h.list[Readylist] = "READY"
         /\ h \in HState /\ Threaded(h) /\ Owned(h) /\ Agree(h, Place(h, pc))
         /\ Frames(h, Readylist) \in Seq(Frame) /\ Stands(Frames(h, Readylist), pc, FALSE, h.fork[Readylist])
         /\ h.mode[Readylist] = "WAIT" => code \in Waits
<1>1. /\ program \in Programs /\ scope = NULL /\ walk = <<>> /\ ~fault /\ pc \in Tree /\ Code(pc) = code
      /\ Readylist \in SCB /\ h.readylist # <<>> /\ h.list[Readylist] = "READY"
      /\ h \in HState /\ Threaded(h) /\ Owned(h) /\ Agree(h, Place(h, pc)) /\ Frames(h, Readylist) \in Seq(Frame)
  BY ExecutesAny
<1>2. Settled(h, Place(h, pc), Readylist) /\ Place(h, pc)[Readylist] = pc /\ ~Joining(h, Readylist)
  BY ExecutesAny
<1>3. ~Pends(h, Place(h, pc), Readylist) /\ Joining(h, Readylist) = FALSE
  BY <1>1, <1>2 DEF Pends
<1>4. /\ Stands(Frames(h, Readylist), pc, FALSE, h.fork[Readylist])
      /\ h.mode[Readylist] = "WAIT" => code \in Waits
  BY <1>1, <1>2, <1>3 DEF Settled
<1> QED
  BY <1>1, <1>4

LEMMA Continues ==
  ASSUME IInv, NEW u, NEW n \in Tree \cup {IDLE}, scope = NULL, walk = <<>>,
         h' = u, pc' = n, program' = program, walk' = walk, scope' = scope, calls' = calls,
         returning' \subseteq SCB, fault' = fault,
         Agree(u, Place(u, n)), n = IDLE <=> u.readylist = <<>>
  PROVE  IInv'
<1>1. Agree(h', Standing')
  BY DEF Standing
<1>2. Agree(h, Standing)'
  BY <1>1, Carried
<1> QED
  BY <1>2 DEF IInv, Tree

LEMMA Fails ==
  ASSUME IInv, Fail
  PROVE  IInv'
<1>1. Standing' = Standing
  BY DEF Fail, Standing, Place
<1>2. Agree(h', Standing')
  BY <1>1 DEF Fail, IInv
<1>3. Agree(h, Standing)'
  BY <1>2, Carried DEF Fail
<1> QED
  BY <1>3 DEF IInv, Fail, Tree, Scopes, Events

(* The process goes on itself, at another statement, perhaps in another    *)
(* block.                                                                  *)
LEMMA GoesOn ==
  ASSUME IInv, NEW code, code \notin {"none", "nonblocking"}, Executing(code), NEW u \in HState, NEW n \in Tree,
         SameLists(h, u), u.pc = h.pc, u.fork = h.fork, u.fork_count = h.fork_count, SameEvents(h, u), Owned(u),
         \A t \in SCB \ {Readylist} : u.mode[t] = h.mode[t] /\ u.context[t] = h.context[t] /\ Frames(u, t) = Frames(h, t),
         Stands(Frames(u, Readylist), n, FALSE, h.fork[Readylist]),
         u.mode[Readylist] = "WAIT" => Code(n) \in Waits
  PROVE  Agree(u, Place(u, n)) /\ u.readylist # <<>>
<1> DEFINE s == Readylist
<1>1. /\ program \in Programs /\ s \in SCB /\ h.readylist # <<>> /\ h.list[s] = "READY"
      /\ Threaded(h) /\ Agree(h, Place(h, pc))
  BY Executes
<1>2. u.readylist = h.readylist /\ u.list = h.list /\ Threaded(u)
  BY <1>1 DEF SameLists, Threaded
<1>3. s = Head(h.readylist)
  BY DEF Readylist
<1> HIDE DEF s
<1>4. \A t \in SCB \ {s} : SameProcess(h, u, t) /\ Place(u, n)[t] = Place(h, pc)[t]
  BY <1>2, <1>3 DEF SameProcess, Place, s
<1>5. Place(u, n)[s] = n
  BY <1>1, <1>2, <1>3 DEF Place
<1>6. Settled(u, Place(u, n), s)
  <2>1. u.list[s] = "READY" /\ Joining(u, s) = FALSE
    BY <1>1, <1>2 DEF Joining
  <2>2. ~Pends(u, Place(u, n), s)
    BY <1>5 DEF Pends, Waits, s
  <2> QED
    BY <1>5, <2>1, <2>2 DEF Settled, s
<1>7. Agree(u, Place(u, n))
  BY <1>1, <1>2, <1>4, <1>6, OneMoves DEF s
<1> QED
  BY <1>1, <1>2, <1>7

-----------------------------------------------------------------------------
(* Every action keeps the invariant.                                       *)

LEMMA ContinueKeeps ==
  ASSUME IInv, NEW u, NEW n \in Tree \cup {IDLE}, scope = NULL, walk = <<>>, Continue(u, n),
         Agree(u, Place(u, n)), n = IDLE <=> u.readylist = <<>>
  PROVE  IInv'
<1>1. returning' \subseteq SCB
  BY DEF Continue, IInv
<1> QED
  BY <1>1, Continues DEF Continue

LEMMA PlainKeeps ==
  ASSUME IInv, Plain
  PROVE  IInv'
<1> DEFINE n == Stmt(pc).chain
<1>1. Executing("plain") /\ Continue(h, n)
  BY DEF Plain
<1>2. /\ program \in Programs /\ scope = NULL /\ walk = <<>> /\ pc \in Tree /\ Code(pc) = "plain"
      /\ h \in HState /\ Owned(h) /\ h.mode[Readylist] # "WAIT"
      /\ Frames(h, Readylist) \in Seq(Frame) /\ Stands(Frames(h, Readylist), pc, FALSE, h.fork[Readylist])
  <2>1. "plain" \notin {"none", "nonblocking"} /\ "plain" \notin Waits
    BY DEF Waits
  <2> QED
    BY <1>1, <2>1, Executes
<1>3. n \in Tree /\ Within(n) = Within(pc)
  BY <1>2, PlacedIs
<1> HIDE DEF n
<1>4. Stands(Frames(h, Readylist), n, FALSE, h.fork[Readylist])
  BY <1>2, <1>3, StandsMoves
<1>5. Agree(h, Place(h, n)) /\ h.readylist # <<>>
  BY <1>1, <1>2, <1>3, <1>4, GoesOn DEF SameLists, SameEvents
<1>6. n # IDLE
  BY <1>2, <1>3, TreeIs
<1> QED
  BY <1>1, <1>2, <1>3, <1>5, <1>6, ContinueKeeps

LEMMA ArrowKeeps ==
  ASSUME IInv, Arrow
  PROVE  IInv'
<1> DEFINE n == Stmt(pc).chain
           e == Stmt(pc).event
<1>1. /\ Executing("arrow") /\ walk' = h.event_chain[e] /\ pc' = n
      /\ UNCHANGED <<program, h, scope, calls, returning, fault>>
  BY DEF Arrow
<1>2. /\ program \in Programs /\ scope = NULL /\ walk = <<>> /\ pc \in Tree /\ Code(pc) = "arrow"
      /\ h \in HState /\ Owned(h) /\ h.mode[Readylist] # "WAIT"
      /\ Frames(h, Readylist) \in Seq(Frame) /\ Stands(Frames(h, Readylist), pc, FALSE, h.fork[Readylist])
  <2>1. "arrow" \notin {"none", "nonblocking"} /\ "arrow" \notin Waits
    BY DEF Waits
  <2> QED
    BY <1>1, <2>1, Executes
<1>3. n \in Tree /\ Within(n) = Within(pc) /\ e \in Events
  BY <1>2, PlacedIs
<1> HIDE DEF n, e
<1>4. Stands(Frames(h, Readylist), n, FALSE, h.fork[Readylist])
  BY <1>2, <1>3, StandsMoves
<1>5. Agree(h, Place(h, n)) /\ h.readylist # <<>>
  BY <1>1, <1>2, <1>3, <1>4, GoesOn DEF SameLists, SameEvents
<1>6. n # IDLE
  BY <1>2, <1>3, TreeIs
<1>7. Agree(h', Standing')
  BY <1>1, <1>2, <1>5 DEF Standing
<1>8. Agree(h, Standing)'
  BY <1>1, <1>7, Carried
<1>9. walk' \in Seq(Tree) /\ IsInjective(walk') /\ Range(walk') \subseteq Range(h.event_chain[e])
  <2>1. Waiters(h)
    BY <1>5 DEF Agree
  <2> QED
    BY <1>1, <1>2, <1>3, <2>1 DEF HState, Waiters
<1> QED
  BY <1>1, <1>2, <1>3, <1>5, <1>6, <1>8, <1>9 DEF IInv, Tree, Events

LEMMA BeginKeeps ==
  ASSUME IInv, Begin
  PROVE  IInv'
<1> DEFINE s == Readylist
           n == Stmt(pc).body
           b == Stmt(pc).block
           r == Stmt(pc).chain
           u == enter_context(h, s, b, r)
           m == [scb |-> s, scope |-> b, pc |-> r]
<1>1. Executing("begin") /\ CanMake(h, 1) /\ Continue(u, n)
  BY DEF Begin
<1>2. /\ program \in Programs /\ scope = NULL /\ walk = <<>> /\ pc \in Tree /\ Code(pc) = "begin" /\ s \in SCB
      /\ h \in HState /\ Owned(h) /\ h.mode[s] # "WAIT"
      /\ Frames(h, s) \in Seq(Frame) /\ Stands(Frames(h, s), pc, FALSE, h.fork[s])
  <2>1. "begin" \notin {"none", "nonblocking"} /\ "begin" \notin Waits
    BY DEF Waits
  <2> QED
    BY <1>1, <2>1, Executes
<1>3. n \in Tree /\ Within(n) = pc /\ b \in Scopes /\ r \in Tree /\ Within(r) = Within(pc)
  BY <1>2, PlacedIs
<1>4. m \in Frame /\ m.pc = r /\ Fits(pc, m, FALSE)
  BY <1>2, <1>3 DEF Frame, Fits, Statements, Tree
<1> HIDE DEF s, n, b, r, u
<1>5. /\ u \in HState /\ SameLists(h, u) /\ SameRun(h, u) /\ SameEvents(h, u) /\ Owned(u)
      /\ Frames(u, s) = <<m>> \o Frames(h, s)
      /\ \A t \in SCB \ {s} : u.context[t] = h.context[t] /\ Frames(u, t) = Frames(h, t)
  <2>1. r \in Statements /\ 1 \in Nat /\ 1 > 0
    BY <1>3 DEF Statements, Tree
  <2> QED
    BY <1>1, <1>2, <1>3, <2>1, Enters DEF u
<1> HIDE DEF m
<1>6. Stands(Frames(u, s), n, FALSE, h.fork[s])
  <2>1. Stands(<<m>> \o Frames(h, s), n, FALSE, h.fork[s])
    BY <1>2, <1>3, <1>4, StandsEnter
  <2> QED
    BY <1>5, <2>1
<1>7. Agree(u, Place(u, n)) /\ u.readylist # <<>>
  <2>1. /\ u.pc = h.pc /\ u.fork = h.fork /\ u.fork_count = h.fork_count /\ u.mode = h.mode
    BY <1>5 DEF SameRun
  <2>2. "begin" \notin {"none", "nonblocking"}
    OBVIOUS
  <2> QED
    BY <1>1, <1>2, <1>3, <1>5, <1>6, <2>1, <2>2, GoesOn DEF s
<1>8. n # IDLE
  BY <1>2, <1>3, TreeIs
<1> QED
  BY <1>1, <1>2, <1>3, <1>7, <1>8, ContinueKeeps

LEMMA EndKeeps ==
  ASSUME IInv, End
  PROVE  IInv' /\ fault' = fault
<1> DEFINE s == Readylist
           n == Stmt(pc).chain
           u == exit_context(h, s)
           F == Frames(h, s)
<1>1. Executing("end")
  BY DEF End
<1>2. /\ program \in Programs /\ scope = NULL /\ walk = <<>> /\ pc \in Tree /\ Code(pc) = "end" /\ s \in SCB
      /\ h \in HState /\ Owned(h) /\ h.mode[s] # "WAIT"
      /\ F \in Seq(Frame) /\ Stands(F, pc, FALSE, h.fork[s])
  <2>1. "end" \notin {"none", "nonblocking"} /\ "end" \notin Waits
    BY DEF Waits
  <2> QED
    BY <1>1, <2>1, Executes
<1>3. h.context[s] # <<>>
  BY <1>2, FramesIs DEF Stands
<1>4. Continue(u, n)
  BY <1>3 DEF End
<1>5. /\ n \in Tree /\ Within(pc) \in Tree /\ Code(Within(pc)) = "begin" /\ Within(n) = Within(Within(pc))
  BY <1>2, PlacedIs
<1>6. F[1].pc = Stmt(Within(pc)).chain
  BY <1>2, StandsAt
<1>7. F[1].pc \in Tree /\ Within(F[1].pc) = Within(n) /\ F[1].pc # NULL
  BY <1>2, <1>5, <1>6, PlacedIs, TreeIs
<1> HIDE DEF s, n, F, u
<1>8. /\ u \in HState /\ SameLists(h, u) /\ SameRun(h, u) /\ SameEvents(h, u) /\ Owned(u)
      /\ Frames(u, s) = Tail(F)
      /\ \A t \in SCB \ {s} : u.context[t] = h.context[t] /\ Frames(u, t) = Frames(h, t)
  BY <1>2, <1>3, Exits DEF u, F
<1>9. Stands(Frames(u, s), n, FALSE, h.fork[s])
  <2>1. Tail(F) \in Seq(Frame) /\ Stands(Tail(F), F[1].pc, FALSE, h.fork[s])
    BY <1>2, <1>7, StandsExit
  <2> QED
    BY <1>2, <1>5, <1>7, <1>8, <2>1, StandsMoves
<1>10. Agree(u, Place(u, n)) /\ u.readylist # <<>>
  <2>1. /\ u.pc = h.pc /\ u.fork = h.fork /\ u.fork_count = h.fork_count /\ u.mode = h.mode
    BY <1>8 DEF SameRun
  <2>2. "end" \notin {"none", "nonblocking"}
    OBVIOUS
  <2> QED
    BY <1>1, <1>2, <1>5, <1>8, <1>9, <2>1, <2>2, GoesOn DEF s
<1>11. n # IDLE
  BY <1>2, <1>5, TreeIs
<1>12. IInv'
  BY <1>2, <1>4, <1>5, <1>10, <1>11, ContinueKeeps
<1> QED
  BY <1>4, <1>12 DEF Continue

LEMMA TaskKeeps ==
  ASSUME IInv, Task
  PROVE  IInv'
<1> DEFINE s == Readylist
           n == Stmt(pc).body
           b == Stmt(pc).block
           r == Stmt(pc).chain
           u == enter_context(h, s, b, pc)
           v == Forget(h)
           m == [scb |-> s, scope |-> b, pc |-> pc]
<1>1. /\ Executing("task") /\ CanMake(h, 1)
      /\ IF CameFromDisable THEN h' = v /\ pc' = r ELSE h' = u /\ pc' = n
      /\ returning' = returning \ {s} /\ UNCHANGED <<program, walk, scope, calls, fault>>
  BY DEF Task
<1>2. /\ program \in Programs /\ scope = NULL /\ walk = <<>> /\ pc \in Tree /\ Code(pc) = "task" /\ s \in SCB
      /\ h \in HState /\ Owned(h) /\ h.mode[s] # "WAIT"
      /\ Frames(h, s) \in Seq(Frame) /\ Stands(Frames(h, s), pc, FALSE, h.fork[s])
  <2>1. "task" \notin {"none", "nonblocking"} /\ "task" \notin Waits
    BY DEF Waits
  <2> QED
    BY <1>1, <2>1, Executes
<1>3. /\ n \in Tree /\ Within(n) = b /\ b \in Scopes /\ b \in TaskBlocks(program)
      /\ r \in Tree /\ Within(r) = Within(pc)
  BY <1>2, PlacedIs
<1>4. m \in Frame /\ m.pc = pc /\ Fits(b, m, FALSE)
  BY <1>2, <1>3 DEF Frame, Fits, Statements, Tree
<1> HIDE DEF s, n, b, r, u, v
<1>5. /\ u \in HState /\ SameLists(h, u) /\ SameRun(h, u) /\ SameEvents(h, u) /\ Owned(u)
      /\ Frames(u, s) = <<m>> \o Frames(h, s)
      /\ \A t \in SCB \ {s} : u.context[t] = h.context[t] /\ Frames(u, t) = Frames(h, t)
  <2>1. pc \in Statements /\ 1 \in Nat /\ 1 > 0
    BY <1>2 DEF Statements, Tree
  <2> QED
    BY <1>1, <1>2, <1>3, <2>1, Enters DEF u
<1> HIDE DEF m
<1>6. Stands(Frames(u, s), n, FALSE, h.fork[s])
  <2>1. Stands(<<m>> \o Frames(h, s), n, FALSE, h.fork[s])
    BY <1>2, <1>3, <1>4, StandsEnter
  <2> QED
    BY <1>5, <2>1
<1>7. "task" \notin {"none", "nonblocking"}
  OBVIOUS
<1>8. Agree(u, Place(u, n)) /\ u.readylist # <<>>
  <2>1. /\ u.pc = h.pc /\ u.fork = h.fork /\ u.fork_count = h.fork_count /\ u.mode = h.mode
    BY <1>5 DEF SameRun
  <2> QED
    BY <1>1, <1>2, <1>3, <1>5, <1>6, <1>7, <2>1, GoesOn DEF s
<1>9. n # IDLE /\ r # IDLE
  BY <1>2, <1>3, TreeIs
<1>10. returning' \subseteq SCB
  BY <1>1 DEF IInv
<1>11. CASE ~CameFromDisable
  <2>1. h' = u /\ pc' = n
    BY <1>1, <1>11
  <2> QED
    BY <1>1, <1>2, <1>3, <1>8, <1>9, <1>10, <2>1, Continues
<1>12. CASE CameFromDisable
  <2>1. h.free_context # <<>>
    BY <1>12 DEF CameFromDisable
  <2>2. /\ v \in HState /\ SameLists(h, v) /\ SameRun(h, v) /\ SameEvents(h, v) /\ Owned(v)
        /\ v.context = h.context /\ \A t \in SCB : Frames(v, t) = Frames(h, t)
    BY <1>2, <2>1, Forgets DEF v
  <2>3. Stands(Frames(v, s), r, FALSE, h.fork[s])
    BY <1>2, <1>3, <2>2, StandsMoves
  <2>4. /\ v.pc = h.pc /\ v.fork = h.fork /\ v.fork_count = h.fork_count /\ v.mode = h.mode
    BY <2>2 DEF SameRun
  <2>5. Agree(v, Place(v, r)) /\ v.readylist # <<>>
    BY <1>1, <1>2, <1>3, <1>7, <2>2, <2>3, <2>4, GoesOn DEF s
  <2>6. h' = v /\ pc' = r
    BY <1>1, <1>12
  <2> QED
    BY <1>1, <1>2, <1>3, <1>9, <1>10, <2>5, <2>6, Continues
<1> QED
  BY <1>11, <1>12

LEMMA EndTaskKeeps ==
  ASSUME IInv, EndTask
  PROVE  IInv' /\ fault' = fault
<1> DEFINE s == Readylist
           F == Frames(h, s)
           c == h.member[Head(h.context[s])].pc
           n == Stmt(c).chain
           v == exit_context(h, s)
           u == Forget(v)
<1>1. Executing("task_block")
  BY DEF EndTask
<1>2. /\ program \in Programs /\ scope = NULL /\ walk = <<>> /\ pc \in Tree /\ Code(pc) = "task_block" /\ s \in SCB
      /\ h \in HState /\ Owned(h) /\ h.mode[s] # "WAIT"
      /\ F \in Seq(Frame) /\ Stands(F, pc, FALSE, h.fork[s])
  <2>1. "task_block" \notin {"none", "nonblocking"} /\ "task_block" \notin Waits
    BY DEF Waits
  <2> QED
    BY <1>1, <2>1, Executes
<1>3. h.context[s] # <<>> /\ F[1].pc = c
  <2>1. h.context[s] # <<>>
    BY <1>2, FramesIs DEF Stands
  <2>2. h.context[s] \in Seq(CONTEXT)
    BY <1>2 DEF HState
  <2>3. 1 \in 1 .. Len(h.context[s]) /\ Head(h.context[s]) = h.context[s][1]
    BY <2>1, <2>2, TailFacts DEF Owned
  <2> QED
    BY <1>2, <2>1, <2>3, FramesIs
<1>4. Continue(u, n)
  BY <1>3 DEF EndTask
<1>5. c \in Tree /\ Code(c) = "task"
  BY <1>2, <1>3, StandsAt
<1>6. n \in Tree /\ Within(n) = Within(c) /\ c # NULL
  BY <1>2, <1>5, PlacedIs, TreeIs
<1> HIDE DEF s, n, F, u, v, c
<1>7. /\ v \in HState /\ SameLists(h, v) /\ SameRun(h, v) /\ SameEvents(h, v) /\ Owned(v)
      /\ Frames(v, s) = Tail(F) /\ v.free_context # <<>>
      /\ \A t \in SCB \ {s} : v.context[t] = h.context[t] /\ Frames(v, t) = Frames(h, t)
  <2>1. <<Head(h.context[s])>> \o h.free_context # <<>>
    <3>1. h.free_context \in Seq(CONTEXT) /\ h.context[s] \in Seq(CONTEXT)
      BY <1>2 DEF HState
    <3>2. Head(h.context[s]) \in CONTEXT
      BY <1>3, <3>1
    <3> QED
      BY <3>1, <3>2, PrependFacts
  <2> QED
    BY <1>2, <1>3, <2>1, Exits DEF v, F
<1>8. /\ u \in HState /\ SameLists(v, u) /\ SameRun(v, u) /\ SameEvents(v, u) /\ Owned(u)
      /\ u.context = v.context /\ \A t \in SCB : Frames(u, t) = Frames(v, t)
  BY <1>7, Forgets DEF u
<1>9. Stands(Frames(u, s), n, FALSE, h.fork[s])
  <2>1. Tail(F) \in Seq(Frame) /\ Stands(Tail(F), c, FALSE, h.fork[s])
    BY <1>2, <1>3, <1>6, StandsExit
  <2> QED
    BY <1>2, <1>6, <1>7, <1>8, <2>1, StandsMoves
<1>10. Agree(u, Place(u, n)) /\ u.readylist # <<>>
  <2>1. /\ u.pc = h.pc /\ u.fork = h.fork /\ u.fork_count = h.fork_count /\ u.mode = h.mode
        /\ SameLists(h, u) /\ SameEvents(h, u)
    BY <1>7, <1>8 DEF SameRun, SameLists, SameEvents
  <2>2. "task_block" \notin {"none", "nonblocking"}
    OBVIOUS
  <2>3. \A t \in SCB \ {s} : u.context[t] = h.context[t] /\ Frames(u, t) = Frames(h, t)
    BY <1>7, <1>8
  <2> QED
    BY <1>1, <1>2, <1>6, <1>8, <1>9, <2>1, <2>2, <2>3, GoesOn DEF s
<1>11. n # IDLE
  BY <1>2, <1>6, TreeIs
<1>12. IInv'
  BY <1>2, <1>4, <1>6, <1>10, <1>11, ContinueKeeps
<1> QED
  BY <1>4, <1>12 DEF Continue

(* A process that is at a join or an event is where its pc says.           *)
LEMMA DispatchKeeps ==
  ASSUME IInv, NEW u, scope = NULL, walk = <<>>, Dispatch(u), Agree(u, u.pc)
  PROVE  IInv'
<1> DEFINE n == Resume(u)
<1>1. program \in Programs
  BY DEF IInv
<1>2. u \in HState /\ Threaded(u)
  BY DEF Agree
<1>3. u.readylist \in Seq(SCB) /\ IsInjective(u.readylist) /\ u.pc \in [SCB -> Statements]
  BY <1>2 DEF HState, Threaded
<1>4. CASE u.readylist = <<>>
  <2>1. n = IDLE
    BY <1>4 DEF Resume
  <2>2. Place(u, n) = u.pc
    BY <1>3, <1>4 DEF Place
  <2> QED
    BY <1>4, <2>1, <2>2, ContinueKeeps DEF Dispatch
<1>5. CASE u.readylist # <<>>
  <2> DEFINE s == Head(u.readylist)
  <2>1. s \in SCB /\ s \in Range(u.readylist)
    BY <1>3, <1>5, TailFacts
  <2>2. n = u.pc[s]
    BY <1>5 DEF Resume
  <2>3. Place(u, n) = u.pc
    BY <1>3, <1>5, <2>2 DEF Place
  <2>4. u.list[s] = "READY" /\ Settled(u, u.pc, s)
    BY <1>2, <2>1 DEF Threaded, Agree
  <2>5. n \in Tree
    BY <1>1, <1>2, <2>1, <2>2, <2>4, SettledAt
  <2>6. n # IDLE
    BY <1>1, <2>5, TreeIs
  <2> HIDE DEF n
  <2>7. Continue(u, n)
    BY DEF Dispatch, n
  <2> QED
    BY <1>5, <2>3, <2>5, <2>6, <2>7, ContinueKeeps
<1> QED
  BY <1>4, <1>5

LEMMA RunningIs ==
  ASSUME h \in HState, Readylist \in SCB
  PROVE  LET u == Running(h)
         IN /\ u \in HState /\ SameLists(h, u) /\ SameStacks(h, u) /\ SameEvents(h, u)
            /\ u.pc = h.pc /\ u.fork = h.fork /\ u.fork_count = h.fork_count
            /\ u.mode[Readylist] = "RUN" /\ \A t \in SCB \ {Readylist} : u.mode[t] = h.mode[t]
<1> DEFINE f == [h.mode EXCEPT ![Readylist] = "RUN"]
<1>1. f \in [SCB -> {"RUN", "WAIT"}] /\ f[Readylist] = "RUN" /\ \A t \in SCB \ {Readylist} : f[t] = h.mode[t]
  BY DEF HState
<1>2. Running(h) = [h EXCEPT !.mode = f]
  BY DEF Running, HState
<1> HIDE DEF f
<1> QED
  BY <1>1, <1>2 DEF HState, SameLists, SameStacks, SameEvents

LEMMA WaitingIs ==
  ASSUME h \in HState, Readylist \in SCB, pc \in Statements
  PROVE  LET u == Waiting(h)
         IN /\ u \in HState /\ SameLists(h, u) /\ SameStacks(h, u) /\ SameEvents(h, u)
            /\ u.fork = h.fork /\ u.fork_count = h.fork_count
            /\ u.pc[Readylist] = pc /\ u.mode[Readylist] = "WAIT"
            /\ \A t \in SCB \ {Readylist} : u.mode[t] = h.mode[t] /\ u.pc[t] = h.pc[t]
<1> DEFINE f == [h.mode EXCEPT ![Readylist] = "WAIT"]
           k == [h.pc EXCEPT ![Readylist] = pc]
<1>1. /\ f \in [SCB -> {"RUN", "WAIT"}] /\ f[Readylist] = "WAIT" /\ \A t \in SCB \ {Readylist} : f[t] = h.mode[t]
      /\ k \in [SCB -> Statements] /\ k[Readylist] = pc /\ \A t \in SCB \ {Readylist} : k[t] = h.pc[t]
  BY DEF HState
<1>2. Waiting(h) = [h EXCEPT !.mode = f, !.pc = k]
  BY DEF Waiting, HState
<1> HIDE DEF f, k
<1> QED
  BY <1>1, <1>2, ZenonT(30) DEF HState, SameLists, SameStacks, SameEvents

(* A wait is over.                                                         *)
LEMMA WaitEnds ==
  ASSUME IInv, NEW code \in Waits, Executing(code), Continue(Running(h), Stmt(pc).body)
  PROVE  IInv'
<1> DEFINE s == Readylist
           n == Stmt(pc).body
           u == Running(h)
<1>0. code \notin {"none", "nonblocking"}
  BY DEF Waits
<1>1. /\ program \in Programs /\ scope = NULL /\ walk = <<>> /\ pc \in Tree /\ Code(pc) = code /\ s \in SCB
      /\ h \in HState /\ Owned(h)
      /\ Frames(h, s) \in Seq(Frame) /\ Stands(Frames(h, s), pc, FALSE, h.fork[s])
  BY <1>0, Executes
<1>2. n \in Tree /\ Within(n) = Within(pc)
  BY <1>1, PlacedIs
<1>3. /\ u \in HState /\ SameLists(h, u) /\ SameStacks(h, u) /\ SameEvents(h, u)
      /\ u.pc = h.pc /\ u.fork = h.fork /\ u.fork_count = h.fork_count
      /\ u.mode[s] = "RUN" /\ \A t \in SCB \ {s} : u.mode[t] = h.mode[t]
  BY <1>1, RunningIs
<1> HIDE DEF s, n, u
<1>4. Owned(u) /\ (\A t : Frames(u, t) = Frames(h, t)) /\ u.context = h.context
  BY <1>1, <1>3, SameStacksOwned DEF SameStacks
<1>5. Stands(Frames(u, s), n, FALSE, h.fork[s])
  BY <1>1, <1>2, <1>4, StandsMoves
<1>6. Agree(u, Place(u, n)) /\ u.readylist # <<>>
  <2>1. u.mode[s] = "WAIT" => Code(n) \in Waits
    BY <1>3
  <2>2. \A t \in SCB \ {s} : u.mode[t] = h.mode[t] /\ u.context[t] = h.context[t] /\ Frames(u, t) = Frames(h, t)
    BY <1>3, <1>4
  <2>3. Executing(code)
    OBVIOUS
  <2> QED
    BY <1>0, <1>2, <1>3, <1>4, <1>5, <2>1, <2>2, <2>3, GoesOn DEF s
<1>7. n # IDLE
  BY <1>1, <1>2, TreeIs
<1> QED
  BY <1>1, <1>2, <1>6, <1>7, ContinueKeeps DEF u, n

LEMMA DelayKeeps ==
  ASSUME IInv, Delay
  PROVE  IInv'
<1> DEFINE s == Readylist
           g == Waiting(h)
           u == Suspended(g, "TIME")
<1>0. Executing("delay") /\ "delay" \notin {"none", "nonblocking"} /\ "delay" \in Waits
  BY DEF Delay, Waits
<1>1. /\ program \in Programs /\ scope = NULL /\ walk = <<>> /\ pc \in Tree /\ Code(pc) = "delay" /\ s \in SCB
      /\ h \in HState /\ Owned(h) /\ Threaded(h) /\ h.list[s] = "READY" /\ h.readylist # <<>> /\ Agree(h, Place(h, pc))
      /\ Frames(h, s) \in Seq(Frame) /\ Stands(Frames(h, s), pc, FALSE, h.fork[s])
  BY <1>0, Executes
<1>2. CASE h.mode[s] # "RUN"
  <2>1. Continue(Running(h), Stmt(pc).body)
    BY <1>2 DEF Delay
  <2> QED
    BY <1>0, <2>1, WaitEnds
<1>3. CASE h.mode[s] = "RUN"
  <2>1. Dispatch(u)
    BY <1>3 DEF Delay
  <2>2. /\ g \in HState /\ SameLists(h, g) /\ SameStacks(h, g) /\ SameEvents(h, g)
        /\ g.fork = h.fork /\ g.fork_count = h.fork_count
        /\ g.pc[s] = pc /\ g.mode[s] = "WAIT"
        /\ \A t \in SCB \ {s} : g.mode[t] = h.mode[t] /\ g.pc[t] = h.pc[t]
    BY <1>1, WaitingIs DEF Statements, Tree
  <2>3. s = Head(h.readylist)
    BY DEF Readylist
  <2> HIDE DEF s, g, u
  <2>4. Threaded(g) /\ Owned(g) /\ g.readylist = h.readylist /\ g.list = h.list
        /\ g.context = h.context /\ \A t : Frames(g, t) = Frames(h, t)
    BY <1>1, <2>2, SameStacksOwned DEF Threaded, SameLists, SameStacks
  <2>5. /\ u \in HState /\ Threaded(u) /\ SameRest(g, u)
        /\ u.list[s] = "TIME" /\ \A t \in SCB \ {s} : u.list[t] = g.list[t]
    BY <1>1, <2>2, <2>3, <2>4, Suspends DEF u
  <2>6. Owned(u) /\ u.context = h.context /\ (\A t : Frames(u, t) = Frames(h, t)) /\ SameEvents(h, u)
        /\ u.fork = h.fork /\ u.fork_count = h.fork_count /\ u.pc = g.pc /\ u.mode = g.mode
    BY <2>2, <2>4, <2>5, SameStacksOwned DEF SameRest, SameRun, SameEvents, SameStacks
  <2>7. \A t \in SCB \ {s} : SameProcess(h, u, t) /\ u.pc[t] = Place(h, pc)[t]
    BY <2>2, <2>3, <2>4, <2>5, <2>6 DEF SameProcess, Place
  <2>8. Settled(u, u.pc, s)
    <3>1. Joining(u, s) = FALSE
      BY <2>5 DEF Joining
    <3> QED
      BY <1>1, <2>2, <2>5, <2>6, <3>1 DEF Settled, Pends
  <2>9. Agree(u, u.pc)
    BY <1>1, <2>5, <2>6, <2>7, <2>8, OneMoves
  <2> QED
    BY <1>1, <2>1, <2>9, DispatchKeeps
<1> QED
  BY <1>2, <1>3

(* s has joined those who wait at m, at the head of the thread.            *)
Hooked(g, u, s, m) ==
  LET e == Stmt(m).event
  IN /\ u.waiter[m] = s /\ \A x \in Tree \ {m} : u.waiter[x] = g.waiter[x]
     /\ u.here[s] = IF m \in Range(g.event_chain[e]) THEN g.waiter[m] ELSE g.here[s]
     /\ \A t \in SCB \ {s} : u.here[t] = g.here[t]
     /\ u.event_chain[e] = IF m \in Range(g.event_chain[e]) THEN g.event_chain[e] ELSE Append(g.event_chain[e], m)
     /\ \A x \in Events \ {e} : u.event_chain[x] = g.event_chain[x]

LEMMA WaitOnEventIs ==
  ASSUME NEW g \in HState, NEW s \in SCB, NEW m \in Tree, Stmt(m).event \in Events,
         m \in Range(g.event_chain[Stmt(m).event]) => g.waiter[m] # s
  PROVE  LET u == WaitOnEvent(g, s, m)
         IN u \in HState /\ SameLists(g, u) /\ SameRun(g, u) /\ SameStacks(g, u) /\ Hooked(g, u, s, m)
<1> DEFINE e == Stmt(m).event
           u == WaitOnEvent(g, s, m)
           wt == [g.waiter EXCEPT ![m] = s]
           hr == [g.here EXCEPT ![s] = g.waiter[m]]
           ec == [g.event_chain EXCEPT ![e] = Append(@, m)]
<1>1. g.event_chain[e] \in Seq(Tree) /\ g.event_chain \in [Events -> Seq(Tree)]
  BY DEF HState
<1>2. Contains(g.event_chain[e], m) <=> m \in Range(g.event_chain[e])
  BY <1>1, RangeIs
<1>3. wt \in [Tree -> SCB \cup {NULL}] /\ wt[m] = s /\ \A x \in Tree \ {m} : wt[x] = g.waiter[x]
  BY DEF HState
<1>4. hr \in [SCB -> SCB \cup {NULL}] /\ hr[s] = g.waiter[m] /\ \A t \in SCB \ {s} : hr[t] = g.here[t]
  BY DEF HState
<1>5. ec \in [Events -> Seq(Tree)] /\ ec[e] = Append(g.event_chain[e], m) /\ \A x \in Events \ {e} : ec[x] = g.event_chain[x]
  BY <1>1
<1>6. CASE m \in Range(g.event_chain[e])
  <2>1. u = [g EXCEPT !.here = hr, !.waiter = wt]
    BY <1>2, <1>6 DEF WaitOnEvent, HState
  <2> HIDE DEF u, wt, hr, ec
  <2>2. /\ u \in HState /\ u.here = hr /\ u.waiter = wt /\ u.event_chain = g.event_chain
        /\ SameLists(g, u) /\ SameRun(g, u) /\ SameStacks(g, u)
    BY <1>3, <1>4, <2>1 DEF HState, SameLists, SameRun, SameStacks
  <2> QED
    BY <1>3, <1>4, <1>6, <2>2 DEF Hooked, u
<1>7. CASE m \notin Range(g.event_chain[e])
  <2>1. u = [g EXCEPT !.waiter = wt, !.event_chain = ec]
    BY <1>2, <1>7 DEF WaitOnEvent, HState
  <2> HIDE DEF u, wt, hr, ec
  <2>2. /\ u \in HState /\ u.here = g.here /\ u.waiter = wt /\ u.event_chain = ec
        /\ SameLists(g, u) /\ SameRun(g, u) /\ SameStacks(g, u)
    BY <1>3, <1>5, <2>1 DEF HState, SameLists, SameRun, SameStacks
  <2> QED
    BY <1>3, <1>5, <1>7, <2>2 DEF Hooked, u
<1> QED
  BY <1>6, <1>7

LEMMA WaitersGrow ==
  ASSUME program \in Programs, NEW g \in HState, NEW u \in HState, Waiters(g), NEW m \in Tree,
         Code(m) \in {"event", "wait"}, NEW s \in SCB, g.list[s] # "EVENT",
         u.list[s] = "EVENT", u.pc[s] = m, \A t \in SCB \ {s} : u.list[t] = g.list[t] /\ u.pc[t] = g.pc[t],
         Hooked(g, u, s, m)
  PROVE  Waiters(u)
<1> DEFINE e == Stmt(m).event
           M == g.event_chain[e]
<1>1. e \in Events
  BY PlacedIs
<1>2. g.here[s] = NULL /\ Marked(g, m)
  BY DEF Waiters, Awaiting
<1>3. s \notin WaitingAt(g, m) /\ WaitingAt(u, m) = WaitingAt(g, m) \cup {s}
  BY DEF WaitingAt
<1>4. M \in Seq(Tree) /\ IsInjective(M)
  BY <1>1 DEF HState, Waiters
<1>5. u.event_chain[e] = IF m \in Range(M) THEN M ELSE Append(M, m)
  BY DEF Hooked
<1>6. IsInjective(u.event_chain[e]) /\ Range(u.event_chain[e]) = Range(M) \cup {m}
  <2>1. CASE m \in Range(M)
    BY <1>4, <1>5, <2>1
  <2>2. CASE m \notin Range(M)
    BY <1>4, <1>5, <2>2, AppendGains DEF Gained
  <2> QED
    BY <2>1, <2>2
<1>7. Marked(u, m)
  <2>1. CASE m \in Range(M)
    <3>1. PICK Q : Queue(g, m, Q)
      BY <1>2, <2>1 DEF Marked
    <3>2. Q \in Seq(SCB) /\ IsInjective(Q) /\ Range(Q) = WaitingAt(g, m) /\ Q # <<>> /\ Q[1] = g.waiter[m]
      BY <3>1 DEF Queue
    <3> DEFINE P == <<s>> \o Q
               n == Len(Q)
    <3>3. /\ P \in Seq(SCB) /\ P # <<>> /\ Len(P) = n + 1 /\ n \in Nat
          /\ \A i \in 1 .. n + 1 : P[i] = IF i = 1 THEN s ELSE Q[i - 1]
      BY <3>2, PrependFacts
    <3>4. IsInjective(P) /\ Range(P) = Range(Q) \cup {s}
      BY <1>3, <3>2, PrependGains DEF Gained
    <3>5. n > 0
      BY <3>2
    <3>6. u.waiter[m] = s /\ u.here[s] = Q[1]
      BY <2>1, <3>2 DEF Hooked
    <3>7. ASSUME NEW i \in 1 .. n + 1 PROVE u.here[P[i]] = IF i = n + 1 THEN NULL ELSE P[i + 1]
      <4>1. CASE i = 1
        BY <3>3, <3>5, <3>6, <4>1
      <4>2. CASE i # 1
        <5>1. i - 1 \in 1 .. n /\ P[i] = Q[i - 1]
          BY <3>3, <4>2
        <5>2. Q[i - 1] \in SCB /\ Q[i - 1] # s
          <6>1. Q[i - 1] \in Range(Q)
            BY <3>2, <5>1, RangeIs
          <6> QED
            BY <1>3, <3>2, <5>1, <6>1 DEF WaitingAt
        <5>3. g.here[Q[i - 1]] = IF i - 1 = n THEN NULL ELSE Q[i]
          BY <3>1, <3>3, <5>1 DEF Queue
        <5>4. i # n + 1 => P[i + 1] = Q[i]
          BY <3>3
        <5>5. u.here[Q[i - 1]] = g.here[Q[i - 1]]
          BY <5>2 DEF Hooked
        <5> QED
          BY <3>3, <5>1, <5>3, <5>4, <5>5
      <4> QED
        BY <4>1, <4>2
    <3>8. P[1] = s
      BY <3>3
    <3> HIDE DEF P, n
    <3>9. Queue(u, m, P)
      BY <1>3, <3>2, <3>3, <3>4, <3>6, <3>7, <3>8 DEF Queue
    <3> QED
      BY <1>6, <3>9 DEF Marked
  <2>2. CASE m \notin Range(M)
    <3>1. WaitingAt(g, m) = {}
      BY <1>2, <2>2 DEF Marked
    <3> DEFINE P == <<s>>
    <3>2. P \in Seq(SCB) /\ Len(P) = 1 /\ P[1] = s /\ P # <<>>
      OBVIOUS
    <3>3. IsInjective(P) /\ Range(P) = {s}
      <4>1. \A i \in 1 .. Len(P) : i = 1
        BY <3>2
      <4> HIDE DEF P
      <4> QED
        BY <3>2, <4>1, RangeIs DEF Distinct
    <3>4. u.waiter[m] = s /\ u.here[s] = NULL
      BY <1>2, <2>2 DEF Hooked
    <3> HIDE DEF P
    <3>5. Queue(u, m, P)
      BY <1>3, <3>1, <3>2, <3>3, <3>4 DEF Queue
    <3> QED
      BY <1>6, <3>5 DEF Marked
  <2> QED
    BY <2>1, <2>2
<1>8. ASSUME NEW x \in Tree, Code(x) \in {"event", "wait"}, x # m PROVE Marked(u, x)
  <2>1. WaitingAt(u, x) = WaitingAt(g, x)
    <3>1. s \notin WaitingAt(g, x) /\ s \notin WaitingAt(u, x)
      BY <1>8 DEF WaitingAt
    <3> QED
      BY <3>1 DEF WaitingAt
  <2>2. Stmt(x).event \in Events /\ Marked(g, x)
    BY <1>8, PlacedIs DEF Waiters
  <2>3. x \in Range(u.event_chain[Stmt(x).event]) <=> x \in Range(g.event_chain[Stmt(x).event])
    <3>1. CASE Stmt(x).event = e
      BY <1>6, <1>8, <3>1
    <3>2. CASE Stmt(x).event # e
      BY <2>2, <3>2 DEF Hooked
    <3> QED
      BY <3>1, <3>2
  <2>4. ASSUME NEW Q, Queue(g, x, Q) PROVE Queue(u, x, Q)
    <3>1. u.waiter[x] = g.waiter[x]
      BY <1>8 DEF Hooked
    <3>2. \A i \in 1 .. Len(Q) : Q[i] \in SCB /\ Q[i] # s
      <4>1. Q \in Seq(SCB) /\ Range(Q) = WaitingAt(g, x)
        BY <2>4 DEF Queue
      <4>2. s \notin WaitingAt(g, x)
        BY DEF WaitingAt
      <4> QED
        BY <4>1, <4>2, RangeIs
    <3>3. \A i \in 1 .. Len(Q) : u.here[Q[i]] = g.here[Q[i]]
      BY <3>2 DEF Hooked
    <3> QED
      BY <2>1, <2>4, <3>1, <3>3 DEF Queue
  <2> QED
    BY <2>1, <2>2, <2>3, <2>4 DEF Marked
<1>9. ASSUME NEW x \in Events
      PROVE  /\ IsInjective(u.event_chain[x])
             /\ \A y \in Range(u.event_chain[x]) : Code(y) \in {"event", "wait"} /\ Stmt(y).event = x
  <2>1. CASE x = e
    <3>1. \A y \in Range(M) : Code(y) \in {"event", "wait"} /\ Stmt(y).event = e
      BY <1>1 DEF Waiters
    <3> QED
      BY <1>6, <2>1, <3>1
  <2>2. CASE x # e
    <3>1. u.event_chain[x] = g.event_chain[x]
      BY <2>2 DEF Hooked
    <3> QED
      BY <3>1 DEF Waiters
  <2> QED
    BY <2>1, <2>2
<1>10. ASSUME NEW t \in SCB, ~Awaiting(u, t) PROVE u.here[t] = NULL
  <2>1. t # s
    BY <1>10 DEF Awaiting
  <2>2. ~Awaiting(g, t) /\ u.here[t] = g.here[t]
    BY <1>10, <2>1 DEF Awaiting, Hooked
  <2> QED
    BY <2>2 DEF Waiters
<1> QED
  BY <1>7, <1>8, <1>9, <1>10 DEF Waiters

(* A wait for an event begins, or begins again.                            *)
LEMMA WaitBegins ==
  ASSUME IInv, NEW code \in {"event", "wait"}, Executing(code), WaitOnEventAll
  PROVE  IInv'
<1> DEFINE s == Readylist
           g == Waiting(h)
           w == WaitOnEvent(g, s, pc)
           u == Suspended(w, "EVENT")
<1>0. Executing(code) /\ code \notin {"none", "nonblocking"}
  OBVIOUS
<1>1. /\ program \in Programs /\ scope = NULL /\ walk = <<>> /\ pc \in Tree /\ Code(pc) = code /\ s \in SCB
      /\ h \in HState /\ Owned(h) /\ Threaded(h) /\ h.list[s] = "READY" /\ h.readylist # <<>> /\ Agree(h, Place(h, pc))
      /\ Frames(h, s) \in Seq(Frame) /\ Stands(Frames(h, s), pc, FALSE, h.fork[s])
  BY <1>0, Executes
<1>2. Dispatch(u)
  BY DEF WaitOnEventAll
<1>3. Code(pc) \in {"event", "wait"} /\ Stmt(pc).event \in Events
  BY <1>1, PlacedIs
<1>4. /\ g \in HState /\ SameLists(h, g) /\ SameStacks(h, g) /\ SameEvents(h, g)
      /\ g.fork = h.fork /\ g.fork_count = h.fork_count /\ g.pc[s] = pc /\ g.mode[s] = "WAIT"
      /\ \A t \in SCB \ {s} : g.mode[t] = h.mode[t] /\ g.pc[t] = h.pc[t]
  BY <1>1, WaitingIs DEF Statements, Tree
<1>5. s = Head(h.readylist)
  BY DEF Readylist
<1> HIDE DEF s, g, w, u
<1>6. pc \in Range(g.event_chain[Stmt(pc).event]) => g.waiter[pc] # s
  <2>1. Marked(h, pc)
    BY <1>1, <1>3 DEF Agree, Waiters
  <2>2. ASSUME NEW Q, Queue(h, pc, Q) PROVE h.waiter[pc] # s
    <3>1. Q[1] \in WaitingAt(h, pc)
      BY <2>2, TailFacts DEF Queue
    <3> QED
      BY <1>1, <2>2, <3>1 DEF Queue, WaitingAt
  <2> QED
    BY <1>4, <2>1, <2>2 DEF Marked, SameEvents
<1>7. w \in HState /\ SameLists(g, w) /\ SameRun(g, w) /\ SameStacks(g, w) /\ Hooked(g, w, s, pc)
  BY <1>1, <1>3, <1>4, <1>6, WaitOnEventIs DEF w
<1>8. Threaded(w) /\ Owned(w) /\ w.readylist = h.readylist /\ w.list = h.list
      /\ w.context = h.context /\ \A t : Frames(w, t) = Frames(h, t)
  <2>1. SameStacks(h, w) /\ SameLists(h, w)
    BY <1>4, <1>7 DEF SameStacks, SameLists
  <2> QED
    BY <1>1, <2>1, SameStacksOwned DEF Threaded, SameLists, SameStacks
<1>9. /\ u \in HState /\ Threaded(u) /\ SameRest(w, u)
      /\ u.list[s] = "EVENT" /\ \A t \in SCB \ {s} : u.list[t] = w.list[t]
  BY <1>1, <1>5, <1>7, <1>8, Suspends DEF u
<1>10. Owned(u) /\ u.context = h.context /\ (\A t : Frames(u, t) = Frames(h, t))
       /\ u.fork = h.fork /\ u.fork_count = h.fork_count /\ u.pc = g.pc /\ u.mode = g.mode
  BY <1>4, <1>7, <1>8, <1>9, SameStacksOwned DEF SameRest, SameRun, SameStacks
<1>11. Hooked(h, u, s, pc)
  BY <1>4, <1>7, <1>9 DEF Hooked, SameRest, SameEvents
<1>12. \A t \in SCB \ {s} : SameProcess(h, u, t) /\ u.pc[t] = Place(h, pc)[t]
  BY <1>4, <1>5, <1>8, <1>9, <1>10 DEF SameProcess, Place
<1>13. Joining(u, s) = FALSE /\ Joining(h, s) = FALSE
  BY <1>1, <1>3, <1>4, <1>10 DEF Joining
<1>14. ASSUME NEW t \in SCB PROVE Settled(u, u.pc, t)
  <2>1. CASE t = s
    BY <1>1, <1>3, <1>4, <1>9, <1>10, <1>13, <2>1 DEF Settled, Pends
  <2>2. CASE t # s
    <3>1. SameProcess(h, u, t) /\ u.pc[t] = Place(h, pc)[t] /\ Settled(h, Place(h, pc), t)
      BY <1>1, <1>12, <2>2 DEF Agree
    <3> QED
      BY <3>1, SettledStays
  <2> QED
    BY <2>1, <2>2
<1>15. Forking(u)
  <2>1. ASSUME NEW t \in SCB PROVE (u.list[t] = "FREE" <=> h.list[t] = "FREE") /\ (Joining(u, t) <=> Joining(h, t))
    <3>1. CASE t = s
      BY <1>1, <1>9, <1>13, <3>1
    <3>2. CASE t # s
      BY <1>12, <3>2 DEF SameProcess, Joining
    <3> QED
      BY <3>1, <3>2
  <2>2. \A t \in SCB : h.fork[t] \in SCB \cup {NULL}
    BY <1>1 DEF HState
  <2> QED
    BY <1>1, <1>10, <2>1, <2>2, ForkingStays DEF Agree
<1>16. Waiters(u)
  <2>1. Waiters(h) /\ h.list[s] # "EVENT" /\ u.pc[s] = pc
    BY <1>1, <1>4, <1>10 DEF Agree
  <2>2. \A t \in SCB \ {s} : u.list[t] = h.list[t] /\ u.pc[t] = h.pc[t]
    BY <1>12 DEF SameProcess
  <2> QED
    BY <1>1, <1>3, <1>9, <1>11, <2>1, <2>2, WaitersGrow
<1>17. Agree(u, u.pc)
  BY <1>9, <1>10, <1>14, <1>15, <1>16 DEF Agree
<1> QED
  BY <1>1, <1>2, <1>17, DispatchKeeps

LEMMA EventKeeps ==
  ASSUME IInv, Event
  PROVE  IInv'
<1>1. Executing("event") /\ "event" \in Waits /\ "event" \in {"event", "wait"}
  BY DEF Event, Waits
<1>2. CASE h.mode[Readylist] = "RUN"
  <2>1. WaitOnEventAll
    BY <1>2 DEF Event
  <2> QED
    BY <1>1, <2>1, WaitBegins
<1>3. CASE h.mode[Readylist] # "RUN"
  <2>1. Continue(Running(h), Stmt(pc).body)
    BY <1>3 DEF Event
  <2> QED
    BY <1>1, <2>1, WaitEnds
<1> QED
  BY <1>2, <1>3

LEMMA WaitKeeps ==
  ASSUME IInv, NEW holds \in BOOLEAN, Wait(holds)
  PROVE  IInv'
<1>1. Executing("wait") /\ "wait" \in Waits /\ "wait" \in {"event", "wait"}
  BY DEF Wait, Waits
<1>2. CASE ~holds
  <2>1. WaitOnEventAll
    BY <1>2 DEF Wait
  <2> QED
    BY <1>1, <2>1, WaitBegins
<1>3. CASE holds
  <2>1. Continue(Running(h), Stmt(pc).body)
    BY <1>3 DEF Wait
  <2> QED
    BY <1>1, <2>1, WaitEnds
<1> QED
  BY <1>2, <1>3

LEMMA LongerIs ==
  ASSUME NEW seq, Len(seq) >= 1
  PROVE  seq # <<>>
<1> SUFFICES ASSUME seq = <<>> PROVE FALSE
  OBVIOUS
<1>1. Len(seq) = 0
  BY EmptyFacts
<1> QED
  BY <1>1

(* A process is over, and nobody else has moved.                           *)
LEMMA OneEnds ==
  ASSUME program \in Programs, NEW g, NEW u, NEW at, NEW to, NEW s \in SCB,
         Agree(g, at), u \in HState, Threaded(u), Owned(u), SameEvents(g, u), Forking(u),
         \A t \in SCB \ {s} : SameProcess(g, u, t) /\ to[t] = at[t],
         g.list[s] = "READY", u.list[s] = "FREE", u.context[s] = <<>>
  PROVE  Agree(u, to)
<1>1. ASSUME NEW t \in SCB PROVE Settled(u, to, t)
  <2>1. CASE t = s
    BY <2>1 DEF Settled, Pends
  <2>2. CASE t # s
    <3>1. SameProcess(g, u, t) /\ to[t] = at[t] /\ Settled(g, at, t)
      BY <2>2 DEF Agree
    <3> QED
      BY <3>1, SettledStays
  <2> QED
    BY <2>1, <2>2
<1>2. Waiters(u)
  <2>1. \A t \in SCB : IF Awaiting(g, t) THEN u.list[t] = "EVENT" /\ u.pc[t] = g.pc[t] ELSE ~Awaiting(u, t)
    BY DEF SameProcess, Awaiting
  <2> QED
    BY <2>1, WaitersStay DEF Agree
<1> QED
  BY <1>1, <1>2 DEF Agree

LEMMA TopStands ==
  ASSUME program \in Programs, NEW F \in Seq(Frame), NEW p, NEW k, NEW j \in BOOLEAN, Stands(F, p, j, k),
         Within(p) = TOP
  PROVE  Len(F) = 1 /\ k = NULL
BY StandsAt

(* The process that executes is over, and no fork waits for it.            *)
LEMMA LoneEnds ==
  ASSUME program \in Programs, Agree(h, Place(h, pc)), h.readylist # <<>>, NEW s \in SCB, s = Head(h.readylist),
         h.list[s] = "READY", h.fork[s] = NULL,
         NEW u \in HState, Threaded(u), Owned(u), SameEvents(h, u),
         u.pc = h.pc, u.fork = h.fork, u.fork_count = h.fork_count, u.list[s] = "FREE", u.context[s] = <<>>,
         \A t \in SCB \ {s} : /\ u.list[t] = h.list[t] /\ u.mode[t] = h.mode[t]
                              /\ u.context[t] = h.context[t] /\ Frames(u, t) = Frames(h, t)
  PROVE  Agree(u, u.pc)
<1>1. h \in HState /\ Forking(h)
  BY DEF Agree
<1>5. \A t \in SCB \ {s} : SameProcess(h, u, t) /\ u.pc[t] = Place(h, pc)[t]
  BY DEF SameProcess, Place
<1>6. Forking(u)
  <2>2. \A t \in SCB : Joining(u, t) <=> Joining(h, t)
    BY DEF Joining
  <2>3. \A f \in SCB : Arms(u, f) = Arms(h, f)
    BY TreeIs, ContextsAssumption DEF Arms
  <2>4. \A t \in SCB : u.list[t] # "FREE" => h.list[t] # "FREE"
    OBVIOUS
  <2>5. \A t \in SCB : h.fork[t] \in SCB \cup {NULL}
    BY <1>1 DEF HState
  <2>6. \A t \in SCB : u.list[t] # "FREE" /\ u.fork[t] # NULL => Joining(u, u.fork[t])
    BY <1>1, <2>2, <2>4, <2>5 DEF Forking
  <2>7. \A f \in SCB : Joining(u, f) => u.fork_count[f] > 0 /\ u.fork_count[f] = Cardinality(Arms(u, f))
    BY <1>1, <2>2, <2>3 DEF Forking
  <2> QED
    BY <1>1, <2>6, <2>7 DEF Forking
<1> DEFINE at == Place(h, pc)
           to == u.pc
<1>7. /\ program \in Programs /\ Agree(h, at) /\ u \in HState /\ Threaded(u) /\ Owned(u) /\ SameEvents(h, u) /\ Forking(u)
      /\ \A t \in SCB \ {s} : SameProcess(h, u, t) /\ to[t] = at[t]
      /\ h.list[s] = "READY" /\ u.list[s] = "FREE" /\ u.context[s] = <<>>
  BY <1>5, <1>6
<1> HIDE DEF at, to
<1>8. Agree(u, to)
  BY ONLY <1>7, s \in SCB, OneEnds
<1> QED
  BY <1>8 DEF to

LEMMA DumpKeeps ==
  ASSUME IInv, Dump
  PROVE  IInv'
<1> DEFINE s == Readylist
           u == Dumped(h)
<1>0. Executing("dump") /\ "dump" \notin {"none", "nonblocking"} /\ Dispatch(u)
  BY DEF Dump
<1>1. /\ program \in Programs /\ scope = NULL /\ walk = <<>> /\ pc \in Tree /\ Code(pc) = "dump" /\ s \in SCB
      /\ h \in HState /\ Owned(h) /\ Threaded(h) /\ h.list[s] = "READY" /\ h.readylist # <<>> /\ Agree(h, Place(h, pc))
      /\ Frames(h, s) \in Seq(Frame) /\ Stands(Frames(h, s), pc, FALSE, h.fork[s])
  BY <1>0, Executes
<1>2. Len(Frames(h, s)) = 1 /\ Len(Frames(h, s)) <= 1 /\ h.fork[s] = NULL
  <2>1. Within(pc) = TOP
    BY <1>1, PlacedIs
  <2>2. PICK j \in BOOLEAN : Stands(Frames(h, s), pc, j, h.fork[s])
    BY <1>1
  <2>3. Len(Frames(h, s)) = 1 /\ h.fork[s] = NULL
    BY <1>1, <2>1, <2>2, TopStands
  <2> QED
    BY <2>3
<1>3. s = Head(h.readylist)
  BY DEF Readylist
<1> HIDE DEF s, u
<1>4. /\ u \in HState /\ Threaded(u) /\ Owned(u) /\ SameRun(h, u) /\ SameEvents(h, u)
      /\ u.list[s] = "FREE" /\ u.context[s] = <<>>
      /\ \A t \in SCB \ {s} : u.list[t] = h.list[t] /\ u.context[t] = h.context[t] /\ Frames(u, t) = Frames(h, t)
  BY <1>1, <1>2, <1>3, Dumps DEF u
<1>7. Agree(u, u.pc)
  <2>1. /\ u.pc = h.pc /\ u.fork = h.fork /\ u.fork_count = h.fork_count
        /\ \A t \in SCB \ {s} : u.mode[t] = h.mode[t]
    BY <1>4 DEF SameRun
  <2> QED
    BY <1>1, <1>2, <1>3, <1>4, <2>1, LoneEnds
<1> QED
  BY <1>0, <1>1, <1>7, DispatchKeeps

-----------------------------------------------------------------------------
(* Joins.                                                                  *)

Counted(g, f) == [g EXCEPT !.fork_count[f] = @ - 1]

LEMMA CountedIs ==
  ASSUME NEW g \in HState, NEW f \in SCB
  PROVE  LET u == Counted(g, f)
         IN /\ u \in HState /\ SameLists(g, u) /\ SameStacks(g, u) /\ SameEvents(g, u)
            /\ u.pc = g.pc /\ u.mode = g.mode /\ u.fork = g.fork
            /\ u.fork_count[f] = g.fork_count[f] - 1 /\ \A t \in SCB \ {f} : u.fork_count[t] = g.fork_count[t]
<1> DEFINE k == [g.fork_count EXCEPT ![f] = @ - 1]
<1>1. /\ k \in [SCB -> Int] /\ k[f] = g.fork_count[f] - 1 /\ \A t \in SCB \ {f} : k[t] = g.fork_count[t]
  BY DEF HState
<1>2. Counted(g, f) = [g EXCEPT !.fork_count = k]
  BY DEF Counted, HState
<1> HIDE DEF k
<1> QED
  BY <1>1, <1>2 DEF HState, SameLists, SameStacks, SameEvents

MadeRun(g, s) == [g EXCEPT !.mode[s] = "RUN"]

LEMMA MadeRunIs ==
  ASSUME NEW g \in HState, NEW s \in SCB
  PROVE  LET u == MadeRun(g, s)
         IN /\ u \in HState /\ SameLists(g, u) /\ SameStacks(g, u) /\ SameEvents(g, u)
            /\ u.pc = g.pc /\ u.fork = g.fork /\ u.fork_count = g.fork_count
            /\ u.mode[s] = "RUN" /\ \A t \in SCB \ {s} : u.mode[t] = g.mode[t]
<1> DEFINE f == [g.mode EXCEPT ![s] = "RUN"]
<1>1. f \in [SCB -> {"RUN", "WAIT"}] /\ f[s] = "RUN" /\ \A t \in SCB \ {s} : f[t] = g.mode[t]
  BY DEF HState
<1>2. MadeRun(g, s) = [g EXCEPT !.mode = f]
  BY DEF MadeRun, HState
<1> HIDE DEF f
<1> QED
  BY <1>1, <1>2 DEF HState, SameLists, SameStacks, SameEvents

(* The arms of a fork are finitely many.                                   *)
LEMMA ArmsFinite ==
  ASSUME NEW g \in HState, NEW f \in SCB
  PROVE  IsFiniteSet(Arms(g, f)) /\ Cardinality(Arms(g, f)) \in Nat /\ Arms(g, f) \subseteq SCB
<1>1. Arms(g, f) \subseteq SCB
  BY DEF Arms
<1> QED
  BY <1>1, ContextsAssumption, FS_Subset, FS_CardinalityType

(* The process at a join: it has one frame, and its fork waits for it.     *)
LEMMA JoinIs ==
  ASSUME IInv, Executing("join")
  PROVE  LET s == Readylist
             f == h.fork[s]
         IN /\ h.mode[s] = "RUN" /\ Len(Frames(h, s)) = 1 /\ h.context[s] # <<>>
            /\ f \in SCB /\ f # s /\ f # NULL /\ Joining(h, f) /\ h.fork_count[f] > 0 /\ h.fork_count[f] \in Nat
            /\ h.fork_count[f] = Cardinality(Arms(h, f)) /\ s \in Arms(h, f)
            /\ h.context[f] # <<>> /\ Stands(Frames(h, f), h.pc[f], TRUE, h.fork[f])
<1> DEFINE s == Readylist
           f == h.fork[s]
<1>1. /\ program \in Programs /\ pc \in Tree /\ Code(pc) = "join" /\ s \in SCB
      /\ h \in HState /\ h.list[s] = "READY" /\ Agree(h, Place(h, pc))
      /\ Frames(h, s) \in Seq(Frame) /\ Stands(Frames(h, s), pc, FALSE, h.fork[s])
      /\ (h.mode[s] = "WAIT" => "join" \in Waits)
  <2>1. "join" \notin {"none", "nonblocking"}
    OBVIOUS
  <2> QED
    BY <2>1, Executes
<1>2. h.mode[s] = "RUN"
  BY <1>1 DEF Waits, HState
<1>3. Len(Frames(h, s)) = 1 /\ f # NULL /\ h.context[s] # <<>>
  <2>1. Within(pc) \in Tree /\ Code(Within(pc)) \in Forks
    BY <1>1, PlacedIs
  <2>2. Len(Frames(h, s)) = 1 /\ f # NULL
    BY <1>1, <2>1, StandsAt
  <2> QED
    BY <1>1, <2>2, FramesIs DEF Stands
<1>4. f \in SCB /\ Joining(h, f)
  BY <1>1, <1>3 DEF HState, Agree, Forking
<1>5. f # s
  BY <1>1, <1>4 DEF Joining
<1>6. h.fork_count[f] > 0 /\ h.fork_count[f] = Cardinality(Arms(h, f)) /\ s \in Arms(h, f)
  BY <1>1, <1>4 DEF Agree, Forking, Arms
<1>7. h.list[f] = "EVENT" /\ Place(h, pc)[f] = h.pc[f] /\ Settled(h, Place(h, pc), f)
  BY <1>1, <1>4 DEF Joining, Agree, Settled, Pends
<1>8. Stands(Frames(h, f), h.pc[f], TRUE, h.fork[f])
  BY <1>4, <1>7 DEF Settled, Pends
<1>9. h.context[f] # <<>>
  BY <1>1, <1>4, <1>8, FramesIs DEF Stands
<1> QED
  BY <1>1, <1>2, <1>3, <1>4, <1>5, <1>6, <1>8, <1>9, ArmsFinite

(* An arm ends, and others of its fork are left.                           *)
LEMMA ArmEnds ==
  ASSUME IInv, Executing("join"), ~LastArm(h.fork[Readylist]),
         Dispatch(Dumped(exit_context(Counted(h, h.fork[Readylist]), Readylist)))
  PROVE  IInv'
<1> DEFINE s == Readylist
           f == h.fork[s]
           g == Counted(h, f)
           v == exit_context(g, s)
           u == Dumped(v)
<1>1. /\ program \in Programs /\ scope = NULL /\ walk = <<>> /\ pc \in Tree /\ s \in SCB
      /\ h \in HState /\ Owned(h) /\ Threaded(h) /\ h.list[s] = "READY" /\ h.readylist # <<>> /\ Agree(h, Place(h, pc))
      /\ Frames(h, s) \in Seq(Frame)
  <2>1. "join" \notin {"none", "nonblocking"}
    OBVIOUS
  <2> QED
    BY <2>1, Executes
<1>2. /\ Len(Frames(h, s)) = 1 /\ h.context[s] # <<>>
      /\ f \in SCB /\ f # s /\ f # NULL /\ Joining(h, f) /\ h.fork_count[f] > 0 /\ h.fork_count[f] \in Nat
      /\ h.fork_count[f] = Cardinality(Arms(h, f)) /\ s \in Arms(h, f)
  BY JoinIs
<1>3. h.fork_count[f] # 1
  BY DEF LastArm
<1>4. Dispatch(u)
  OBVIOUS
<1>5. s = Head(h.readylist)
  BY DEF Readylist
<1>6. f = h.fork[s]
  OBVIOUS
<1> HIDE DEF s, f, g, v, u
<1>7. /\ g \in HState /\ SameLists(h, g) /\ SameStacks(h, g) /\ SameEvents(h, g)
      /\ g.pc = h.pc /\ g.mode = h.mode /\ g.fork = h.fork
      /\ g.fork_count[f] = h.fork_count[f] - 1 /\ \A t \in SCB \ {f} : g.fork_count[t] = h.fork_count[t]
  BY <1>1, <1>2, CountedIs DEF g
<1>8. Threaded(g) /\ Owned(g) /\ g.readylist = h.readylist /\ g.list = h.list
      /\ g.context = h.context /\ \A t : Frames(g, t) = Frames(h, t)
  BY <1>1, <1>7, SameStacksOwned DEF Threaded, SameLists, SameStacks
<1>9. /\ v \in HState /\ SameLists(g, v) /\ SameRun(g, v) /\ SameEvents(g, v) /\ Owned(v)
      /\ Frames(v, s) = Tail(Frames(h, s))
      /\ \A t \in SCB \ {s} : v.context[t] = h.context[t] /\ Frames(v, t) = Frames(h, t)
  <2>1. g.context[s] # <<>>
    BY <1>2, <1>8
  <2>2. /\ v \in HState /\ SameLists(g, v) /\ SameRun(g, v) /\ SameEvents(g, v) /\ Owned(v)
        /\ Frames(v, s) = Tail(Frames(g, s))
        /\ \A t \in SCB \ {s} : v.context[t] = g.context[t] /\ Frames(v, t) = Frames(g, t)
    BY <1>1, <1>7, <1>8, <2>1, Exits DEF v
  <2> QED
    BY <1>8, <2>2
<1>10. Threaded(v) /\ v.readylist = h.readylist /\ v.list = h.list
  BY <1>8, <1>9 DEF Threaded, SameLists
<1>11. Len(Frames(v, s)) <= 1
  BY <1>1, <1>2, <1>9
<1>12. /\ u \in HState /\ Threaded(u) /\ Owned(u) /\ SameRun(v, u) /\ SameEvents(v, u)
       /\ u.list[s] = "FREE" /\ u.context[s] = <<>>
       /\ \A t \in SCB \ {s} : u.list[t] = v.list[t] /\ u.context[t] = v.context[t] /\ Frames(u, t) = Frames(v, t)
  BY <1>1, <1>5, <1>9, <1>10, <1>11, Dumps DEF u
<1>13. u.pc = h.pc /\ u.mode = h.mode /\ u.fork = h.fork /\ u.fork_count = g.fork_count /\ SameEvents(h, u)
  BY <1>7, <1>9, <1>12 DEF SameRun, SameEvents
<1>14. \A t \in SCB \ {s} : SameProcess(h, u, t) /\ u.pc[t] = Place(h, pc)[t]
  BY <1>5, <1>9, <1>10, <1>12, <1>13 DEF SameProcess, Place
<1>15. Forking(u)
  <2>1. Forking(h) /\ Cardinality(SCB) \in Nat
    BY <1>1, ContextsAssumption, FS_CardinalityType DEF Agree
  <2>2. \A t \in SCB : Joining(u, t) <=> Joining(h, t)
    BY <1>1, <1>10, <1>12, <1>13 DEF Joining
  <2>3. \A k \in SCB \ {f} : Arms(u, k) = Arms(h, k)
    BY <1>1, <1>6, <1>10, <1>12, <1>13 DEF Arms
  <2>4. Arms(u, f) = Arms(h, f) \ {s}
    BY <1>1, <1>10, <1>12, <1>13 DEF Arms
  <2>5. Cardinality(Arms(u, f)) = h.fork_count[f] - 1
    BY <1>1, <1>2, <2>4, ArmsFinite, FS_RemoveElement
  <2>6. \A t \in SCB : u.list[t] # "FREE" /\ u.fork[t] # NULL => Joining(u, u.fork[t])
    <3>1. \A t \in SCB : h.fork[t] \in SCB \cup {NULL}
      BY <1>1 DEF HState
    <3>2. \A t \in SCB : u.list[t] # "FREE" => h.list[t] # "FREE"
      BY <1>1, <1>10, <1>12
    <3> QED
      BY <1>13, <2>1, <2>2, <3>1, <3>2 DEF Forking
  <2>7. ASSUME NEW k \in SCB, Joining(u, k) PROVE u.fork_count[k] > 0 /\ u.fork_count[k] = Cardinality(Arms(u, k))
    <3>1. CASE k = f
      BY <1>2, <1>3, <1>7, <1>13, <2>5, <3>1
    <3>2. CASE k # f
      BY <1>7, <1>13, <2>1, <2>2, <2>3, <2>7, <3>2 DEF Forking
    <3> QED
      BY <3>1, <3>2
  <2>8. ASSUME NEW k \in SCB PROVE u.fork_count[k] \in 0 .. Cardinality(SCB)
    <3>1. h.fork_count[k] \in 0 .. Cardinality(SCB)
      BY <2>1 DEF Forking
    <3>2. u.fork_count[k] = IF k = f THEN h.fork_count[f] - 1 ELSE h.fork_count[k]
      BY <1>7, <1>13
    <3> QED
      BY <1>2, <2>1, <3>1, <3>2
  <2> QED
    BY <2>6, <2>7, <2>8 DEF Forking
<1>16. Agree(u, u.pc)
  <2>1. Agree(h, Place(h, pc)) /\ h.list[s] = "READY" /\ program \in Programs /\ s \in SCB
    BY <1>1
  <2>2. u \in HState /\ Threaded(u) /\ Owned(u) /\ SameEvents(h, u) /\ u.list[s] = "FREE" /\ u.context[s] = <<>>
    BY <1>12, <1>13
  <2> QED
    BY <1>14, <1>15, <2>1, <2>2, OneEnds
<1> QED
  BY <1>1, <1>4, <1>16, DispatchKeeps

(* The last arm ends, and the fork goes on behind its join.                *)
Mother(g, f) == MadeRun(PutSecond(g, f), f)
Over(g, s, f) == Dumped(exit_context(exit_context(Mother(g, f), s), f))

(* What becomes of the lists and the frames.                               *)
LEMMA OverIs ==
  ASSUME IInv, Executing("join"), LastArm(h.fork[Readylist])
  PROVE  LET s == Readylist
             f == h.fork[s]
             u == Over(Counted(h, f), s, f)
             n == Stmt(h.pc[f]).chain
         IN /\ u \in HState /\ Threaded(u) /\ Owned(u) /\ SameEvents(h, u)
            /\ u.pc = h.pc /\ u.fork = h.fork /\ u.fork_count[f] = 0
            /\ u.mode[f] = "RUN" /\ u.list[f] = "READY" /\ u.readylist # <<>> /\ Head(u.readylist) = f
            /\ u.list[s] = "FREE" /\ u.context[s] = <<>>
            /\ \A t \in SCB \ {s, f} : /\ SameProcess(h, u, t) /\ u.fork_count[t] = h.fork_count[t]
            /\ n \in Tree /\ Stands(Frames(u, f), n, FALSE, h.fork[f])
            /\ u.fork_count[s] = h.fork_count[s]
<1> DEFINE s == Readylist
           f == h.fork[s]
           g == Counted(h, f)
           r == PutSecond(g, f)
           m == MadeRun(r, f)
           v == exit_context(m, s)
           w == exit_context(v, f)
           u == Dumped(w)
           F == Frames(h, f)
           n == Stmt(h.pc[f]).chain
<1>1. /\ program \in Programs /\ s \in SCB
      /\ h \in HState /\ Owned(h) /\ Threaded(h) /\ h.list[s] = "READY" /\ h.readylist # <<>>
      /\ Frames(h, s) \in Seq(Frame)
  <2>1. "join" \notin {"none", "nonblocking"}
    OBVIOUS
  <2> QED
    BY <2>1, Executes
<1>2. /\ Len(Frames(h, s)) = 1 /\ h.context[s] # <<>>
      /\ f \in SCB /\ f # s /\ Joining(h, f) /\ h.context[f] # <<>>
      /\ Stands(F, h.pc[f], TRUE, h.fork[f])
  BY JoinIs
<1>3. h.fork_count[f] = 1
  BY DEF LastArm
<1>4. s = Head(h.readylist)
  BY DEF Readylist
<1>5. u = Over(g, s, f)
  BY DEF Over, Mother
<1>6. F \in Seq(Frame)
  BY <1>1, <1>2, FramesIs
<1>7. n \in Tree /\ Within(h.pc[f]) \in Tree /\ F[1].pc = n /\ n # NULL
  <2>1. h.pc[f] \in Tree
    BY <1>1, <1>2, <1>6, StandsAt
  <2>2. Code(h.pc[f]) = "join"
    BY <1>2 DEF Joining
  <2>3. /\ Within(h.pc[f]) \in Tree /\ Code(Within(h.pc[f])) \in Forks /\ Stmt(Within(h.pc[f])).chain = h.pc[f]
    BY <1>1, <2>1, <2>2, PlacedIs
  <2>4. PastJoin(Within(h.pc[f])) = n /\ n \in Tree
    BY <1>1, <2>3, PlacedIs DEF PastJoin
  <2>5. F[1].pc = PastJoin(Within(h.pc[f]))
    BY <1>1, <1>2, <1>6, <2>3, StandsAt
  <2> QED
    BY <1>1, <2>3, <2>4, <2>5, TreeIs
<1> HIDE DEF s, f, g, r, m, v, w, u, F, n
<1>8. /\ g \in HState /\ SameLists(h, g) /\ SameStacks(h, g) /\ SameEvents(h, g)
      /\ g.pc = h.pc /\ g.mode = h.mode /\ g.fork = h.fork
      /\ g.fork_count[f] = 0 /\ \A t \in SCB \ {f} : g.fork_count[t] = h.fork_count[t]
  BY <1>1, <1>2, <1>3, CountedIs DEF g
<1>9. Threaded(g) /\ Owned(g) /\ g.readylist = h.readylist /\ g.list = h.list
      /\ g.context = h.context /\ \A t : Frames(g, t) = Frames(h, t)
  BY <1>1, <1>8, SameStacksOwned DEF Threaded, SameLists, SameStacks
<1>10. f \notin Range(g.readylist)
  BY <1>2, <1>9 DEF Threaded, Joining
<1>11. /\ r \in HState /\ Threaded(r) /\ SameRest(g, r) /\ r.readylist # <<>> /\ r.list[f] = "READY"
       /\ \A t \in SCB \ {f} : r.list[t] = h.list[t]
       /\ Head(r.readylist) = s /\ Head(Tail(r.readylist)) = f /\ Len(r.readylist) = Len(h.readylist) + 1
  BY <1>1, <1>2, <1>4, <1>8, <1>9, <1>10, PutsSecond DEF r
<1>12. /\ m \in HState /\ SameLists(r, m) /\ SameStacks(r, m) /\ SameEvents(r, m)
       /\ m.pc = r.pc /\ m.fork = r.fork /\ m.fork_count = r.fork_count
       /\ m.mode[f] = "RUN" /\ \A t \in SCB \ {f} : m.mode[t] = r.mode[t]
  BY <1>2, <1>11, MadeRunIs DEF m
<1>13. SameStacks(g, m) /\ SameEvents(h, m) /\ m.pc = h.pc /\ m.fork = h.fork /\ m.fork_count = g.fork_count
       /\ \A t \in SCB \ {f} : m.mode[t] = h.mode[t]
  BY <1>8, <1>11, <1>12 DEF SameRest, SameStacks, SameEvents, SameRun
<1>14. Owned(m) /\ m.context = h.context /\ \A t : Frames(m, t) = Frames(h, t)
  BY <1>9, <1>13, SameStacksOwned DEF SameStacks
<1>15. /\ v \in HState /\ SameLists(m, v) /\ SameRun(m, v) /\ SameEvents(m, v) /\ Owned(v)
       /\ Frames(v, s) = Tail(Frames(h, s))
       /\ \A t \in SCB \ {s} : v.context[t] = h.context[t] /\ Frames(v, t) = Frames(h, t)
  <2>1. m.context[s] # <<>>
    BY <1>2, <1>14
  <2>2. /\ v \in HState /\ SameLists(m, v) /\ SameRun(m, v) /\ SameEvents(m, v) /\ Owned(v)
        /\ Frames(v, s) = Tail(Frames(m, s))
        /\ \A t \in SCB \ {s} : v.context[t] = m.context[t] /\ Frames(v, t) = Frames(m, t)
    BY <1>1, <1>12, <1>14, <2>1, Exits DEF v
  <2> QED
    BY <1>14, <2>2
<1>16. v.context[f] # <<>> /\ Frames(v, f) = F
  BY <1>2, <1>15 DEF F
<1>17. /\ w \in HState /\ SameLists(v, w) /\ SameRun(v, w) /\ SameEvents(v, w) /\ Owned(w)
       /\ Frames(w, f) = Tail(F)
       /\ \A t \in SCB \ {f} : w.context[t] = v.context[t] /\ Frames(w, t) = Frames(v, t)
  BY <1>2, <1>15, <1>16, Exits DEF w
<1>18. SameLists(r, w) /\ Threaded(w) /\ w.readylist = r.readylist /\ w.list = r.list
  BY <1>11, <1>12, <1>15, <1>17 DEF SameLists, Threaded
<1>19. Len(Frames(w, s)) <= 1
  <2>1. Frames(w, s) = Tail(Frames(h, s))
    BY <1>1, <1>2, <1>15, <1>17
  <2> QED
    BY <1>1, <1>2, <2>1
<1>20. /\ u \in HState /\ Threaded(u) /\ Owned(u) /\ SameRun(w, u) /\ SameEvents(w, u)
       /\ u.readylist = Tail(r.readylist) /\ u.list[s] = "FREE" /\ u.context[s] = <<>>
       /\ \A t \in SCB \ {s} : u.list[t] = w.list[t] /\ u.context[t] = w.context[t] /\ Frames(u, t) = Frames(w, t)
  <2>1. w.readylist # <<>> /\ s = Head(w.readylist) /\ w.readylist = r.readylist
    BY <1>11, <1>18
  <2>2. /\ u \in HState /\ Threaded(u) /\ Owned(u) /\ SameRun(w, u) /\ SameEvents(w, u)
        /\ u.readylist = Tail(w.readylist) /\ u.list[s] = "FREE" /\ u.context[s] = <<>>
        /\ \A t \in SCB \ {s} : u.list[t] = w.list[t] /\ u.context[t] = w.context[t] /\ Frames(u, t) = Frames(w, t)
    BY <1>1, <1>17, <1>18, <1>19, <2>1, Dumps DEF u
  <2> QED
    BY <2>1, <2>2
<1>21. /\ u.pc = h.pc /\ u.fork = h.fork /\ u.fork_count = g.fork_count /\ u.mode = m.mode /\ SameEvents(h, u)
  BY <1>13, <1>15, <1>17, <1>20 DEF SameRun, SameEvents
<1>22. u.readylist # <<>> /\ Head(u.readylist) = f
  <2>1. r.readylist \in Seq(SCB) /\ h.readylist \in Seq(SCB)
    BY <1>1, <1>11 DEF HState
  <2>2. Len(r.readylist) = Len(h.readylist) + 1 /\ Len(h.readylist) > 0
    BY <1>1, <1>11, <2>1
  <2>3. Len(r.readylist) >= 2
    BY <2>1, <2>2
  <2>4. Len(Tail(r.readylist)) >= 1
    BY <2>1, <2>3
  <2>5. Tail(r.readylist) # <<>>
    BY <2>4, LongerIs
  <2> QED
    BY <1>11, <1>20, <2>5
<1>23. u.list[f] = "READY" /\ u.mode[f] = "RUN" /\ Frames(u, f) = Tail(F)
  BY <1>2, <1>11, <1>12, <1>17, <1>18, <1>20, <1>21
<1>24. Stands(Tail(F), n, FALSE, h.fork[f])
  BY <1>1, <1>2, <1>6, <1>7, StandsExit
<1>25. \A t \in SCB \ {s, f} : SameProcess(h, u, t) /\ u.fork_count[t] = h.fork_count[t]
  BY <1>8, <1>11, <1>13, <1>15, <1>17, <1>18, <1>20, <1>21 DEF SameProcess
<1>26. u.fork_count[f] = 0 /\ u.fork_count[s] = h.fork_count[s]
  BY <1>1, <1>2, <1>8, <1>21
<1> HIDE DEF Over
<1> QED
  BY <1>5, <1>7, <1>20, <1>21, <1>22, <1>23, <1>24, <1>25, <1>26 DEF s, f, n, g

LEMMA ForkEnds ==
  ASSUME IInv, Executing("join"), LastArm(h.fork[Readylist]), NEW u,
         u = Over(Counted(h, h.fork[Readylist]), Readylist, h.fork[Readylist]), Continue(u, Stmt(Resume(u)).chain)
  PROVE  IInv'
<1> DEFINE s == Readylist
           f == h.fork[s]
           n == Stmt(h.pc[f]).chain
<1>1. /\ program \in Programs /\ scope = NULL /\ walk = <<>> /\ s \in SCB
      /\ h \in HState /\ h.list[s] = "READY" /\ h.readylist # <<>> /\ Agree(h, Place(h, pc))
  <2>1. "join" \notin {"none", "nonblocking"}
    OBVIOUS
  <2> QED
    BY <2>1, Executes
<1>2. /\ f \in SCB /\ f # s /\ f # NULL /\ Joining(h, f) /\ h.fork_count[f] = Cardinality(Arms(h, f)) /\ s \in Arms(h, f)
  BY JoinIs
<1>3. h.fork_count[f] = 1
  BY DEF LastArm
<1>4. s = Head(h.readylist)
  BY DEF Readylist
<1>5. /\ u \in HState /\ Threaded(u) /\ Owned(u) /\ SameEvents(h, u)
      /\ u.pc = h.pc /\ u.fork = h.fork /\ u.fork_count[f] = 0
      /\ u.mode[f] = "RUN" /\ u.list[f] = "READY" /\ u.readylist # <<>> /\ Head(u.readylist) = f
      /\ u.list[s] = "FREE" /\ u.context[s] = <<>>
      /\ \A t \in SCB \ {s, f} : /\ SameProcess(h, u, t) /\ u.fork_count[t] = h.fork_count[t]
      /\ n \in Tree /\ Stands(Frames(u, f), n, FALSE, h.fork[f])
      /\ u.fork_count[s] = h.fork_count[s]
  BY OverIs
<1>6. Continue(u, n)
  BY <1>5 DEF Resume
<1>7. Arms(h, f) = {s}
  <2>1. IsFiniteSet(Arms(h, f))
    BY <1>1, <1>2, ArmsFinite
  <2>2. PICK x : Arms(h, f) = {x}
    BY <1>2, <1>3, <2>1, FS_Singleton
  <2> QED
    BY <1>2, <2>2
<1> HIDE DEF s, f, n
<1>8. ASSUME NEW t \in SCB PROVE Settled(u, Place(u, n), t)
  <2>1. CASE t = s
    BY <1>5, <2>1 DEF Settled, Pends
  <2>2. CASE t = f
    <3>1. Place(u, n)[f] = n /\ Joining(u, f) = FALSE
      BY <1>2, <1>5 DEF Place, Joining
    <3> QED
      BY <1>5, <2>2, <3>1 DEF Settled, Pends
  <2>3. CASE t # s /\ t # f
    <3>1. SameProcess(h, u, t) /\ Place(u, n)[t] = h.pc[t] /\ Place(h, pc)[t] = h.pc[t]
      BY <1>4, <1>5, <2>3 DEF Place
    <3>2. Settled(h, Place(h, pc), t)
      BY <1>1 DEF Agree
    <3> QED
      BY <3>1, <3>2, SettledStays
  <2> QED
    BY <2>1, <2>2, <2>3
<1>9. Forking(u)
  <2>1. Forking(h) /\ Cardinality(SCB) \in Nat
    BY <1>1, ContextsAssumption, FS_CardinalityType DEF Agree
  <2>2. ASSUME NEW t \in SCB, t # f PROVE Joining(u, t) <=> Joining(h, t)
    <3>1. CASE t = s
      BY <1>1, <1>5, <3>1 DEF Joining
    <3>2. CASE t # s
      BY <1>5, <2>2, <3>2 DEF Joining, SameProcess
    <3> QED
      BY <3>1, <3>2
  <2>3. ~Joining(u, f)
    BY <1>5 DEF Joining
  <2>4. \A t \in SCB : h.fork[t] \in SCB \cup {NULL}
    BY <1>1 DEF HState
  <2>5. h.list[f] # "FREE"
    BY <1>2 DEF Joining
  <2>6. ASSUME NEW k \in SCB, k # f PROVE Arms(u, k) = Arms(h, k)
    <3>1. s \notin Arms(h, k) /\ s \notin Arms(u, k)
      BY <1>5, <2>6 DEF Arms, f
    <3>2. \A t \in SCB \ {s} : u.list[t] # "FREE" <=> h.list[t] # "FREE"
      BY <1>5, <2>5 DEF SameProcess
    <3> QED
      BY <1>5, <3>1, <3>2 DEF Arms
  <2>7. ASSUME NEW t \in SCB, u.list[t] # "FREE", u.fork[t] # NULL PROVE Joining(u, u.fork[t])
    <3>1. t # s /\ h.list[t] # "FREE" /\ h.fork[t] # NULL /\ h.fork[t] \in SCB
      BY <1>5, <2>4, <2>5, <2>7 DEF SameProcess
    <3>2. h.fork[t] # f
      BY <1>7, <3>1 DEF Arms
    <3> QED
      BY <1>5, <2>1, <2>2, <3>1, <3>2 DEF Forking
  <2>8. ASSUME NEW k \in SCB, Joining(u, k) PROVE u.fork_count[k] > 0 /\ u.fork_count[k] = Cardinality(Arms(u, k))
    <3>1. k # f /\ k # s
      BY <1>5, <2>3, <2>8 DEF Joining
    <3> QED
      BY <1>5, <2>1, <2>2, <2>6, <2>8, <3>1 DEF Forking
  <2>9. ASSUME NEW k \in SCB PROVE u.fork_count[k] \in 0 .. Cardinality(SCB)
    <3>1. h.fork_count[k] \in 0 .. Cardinality(SCB)
      BY <2>1 DEF Forking
    <3>2. u.fork_count[k] = 0 \/ u.fork_count[k] = h.fork_count[k]
      BY <1>5
    <3> QED
      BY <2>1, <3>1, <3>2
  <2> QED
    BY <2>7, <2>8, <2>9 DEF Forking
<1>10. Waiters(u)
  <2>1. ASSUME NEW t \in SCB PROVE IF Awaiting(h, t) THEN u.list[t] = "EVENT" /\ u.pc[t] = h.pc[t] ELSE ~Awaiting(u, t)
    <3>1. CASE t = s
      BY <1>1, <1>5, <3>1 DEF Awaiting
    <3>2. CASE t = f
      BY <1>2, <1>5, <3>2 DEF Awaiting, Joining
    <3>3. CASE t # s /\ t # f
      BY <1>5, <3>3 DEF Awaiting, SameProcess
    <3> QED
      BY <3>1, <3>2, <3>3
  <2> QED
    BY <1>1, <1>5, <2>1, WaitersStay DEF Agree
<1>11. Agree(u, Place(u, n))
  BY <1>5, <1>8, <1>9, <1>10 DEF Agree
<1>12. n # IDLE
  BY <1>1, <1>5, TreeIs
<1> QED
  BY <1>1, <1>5, <1>6, <1>11, <1>12, ContinueKeeps

LEMMA JoinKeeps ==
  ASSUME IInv, Join
  PROVE  IInv' /\ fault' = fault
<1> DEFINE s == Readylist
           f == h.fork[s]
           over == Over(Counted(h, f), s, f)
           left == Dumped(exit_context(Counted(h, f), s))
<1>1. Executing("join")
  BY DEF Join
<1>2. /\ h.mode[s] = "RUN" /\ h.context[s] # <<>> /\ f # NULL /\ h.fork_count[f] > 0 /\ h.context[f] # <<>>
  BY <1>1, JoinIs
<1>3. IF LastArm(f) THEN Continue(over, Stmt(Resume(over)).chain) ELSE Dispatch(left)
  BY <1>2 DEF Join, Over, Mother, MadeRun, Counted
<1> HIDE DEF over, left
<1>4. CASE LastArm(f)
  <2>1. Continue(over, Stmt(Resume(over)).chain)
    BY <1>3, <1>4
  <2>2. IInv'
    BY <1>1, <1>4, <2>1, ForkEnds DEF over
  <2> QED
    BY <2>1, <2>2 DEF Continue
<1>5. CASE ~LastArm(f)
  <2>1. Dispatch(left)
    BY <1>3, <1>5
  <2>2. IInv'
    BY <1>1, <1>5, <2>1, ArmEnds DEF left
  <2> QED
    BY <2>1, <2>2 DEF Continue, Dispatch
<1> QED
  BY <1>4, <1>5

-----------------------------------------------------------------------------
(* NotifyEvent wakes those who wait at a marker, one after the other.      *)

(* A list without repetition is no longer than the set has elements.       *)
LEMMA Bounded ==
  ASSUME NEW S, IsFiniteSet(S), NEW seq \in Seq(S), IsInjective(seq)
  PROVE  Len(seq) <= Cardinality(S) /\ Cardinality(S) \in Nat
<1> DEFINE n == Len(seq)
<1>1. n \in Nat /\ seq \in [1 .. n -> S]
  OBVIOUS
<1>2. seq \in Injection(1 .. n, S)
  <2> HIDE DEF n
  <2> QED
    BY <1>1 DEF Injection
<1>3. Cardinality(1 .. n) <= Cardinality(S)
  BY <1>2, FS_Injection
<1>4. Cardinality(1 .. n) = n
  <2> HIDE DEF n
  <2>1. Cardinality(1 .. n) = IF 1 > n THEN 0 ELSE n - 1 + 1
    BY <1>1, FS_Interval
  <2> QED
    BY <1>1, <2>1
<1> QED
  BY <1>3, <1>4, FS_CardinalityType

Wakers == [g : {g \in HState : Threaded(g)}, next : SCB \cup {NULL}]
Cleared(g, s) == [g EXCEPT !.here[s] = NULL]
Wake(w) == IF w.next = NULL THEN w
           ELSE [g |-> Cleared(PutLast(w.g, w.next), w.next), next |-> w.g.here[w.next]]

LEMMA ClearedIs ==
  ASSUME NEW g \in HState, NEW s \in SCB
  PROVE  LET u == Cleared(g, s)
         IN /\ u \in HState /\ SameLists(g, u) /\ SameRun(g, u) /\ SameStacks(g, u)
            /\ u.waiter = g.waiter /\ u.event_chain = g.event_chain
            /\ u.here[s] = NULL /\ \A t \in SCB \ {s} : u.here[t] = g.here[t]
<1> DEFINE k == [g.here EXCEPT ![s] = NULL]
<1>1. k \in [SCB -> SCB \cup {NULL}] /\ k[s] = NULL /\ \A t \in SCB \ {s} : k[t] = g.here[t]
  BY DEF HState
<1>2. Cleared(g, s) = [g EXCEPT !.here = k]
  BY DEF Cleared, HState
<1> HIDE DEF k
<1> QED
  BY <1>1, <1>2, ZenonT(30) DEF HState, SameLists, SameRun, SameStacks

LEMMA WakeIs ==
  ASSUME NEW w \in Wakers
  PROVE  /\ Wake(w) \in Wakers
         /\ w.next # NULL =>
              LET g == w.g
                  s == w.next
                  u == Wake(w).g
              IN /\ SameRun(g, u) /\ SameStacks(g, u) /\ u.waiter = g.waiter /\ u.event_chain = g.event_chain
                 /\ u.list[s] = "READY" /\ u.here[s] = NULL
                 /\ \A t \in SCB \ {s} : u.list[t] = g.list[t] /\ u.here[t] = g.here[t]
                 /\ Wake(w).next = g.here[s]
                 /\ g.list[s] # "READY" /\ g.readylist # <<>> => u.readylist # <<>> /\ Head(u.readylist) = Head(g.readylist)
<1>1. w.g \in HState /\ Threaded(w.g) /\ w.next \in SCB \cup {NULL}
  BY DEF Wakers
<1>2. CASE w.next = NULL
  BY <1>2 DEF Wake
<1>3. CASE w.next # NULL
  <2> DEFINE g == w.g
             s == w.next
             p == PutLast(g, s)
             u == Cleared(p, s)
             n == g.here[s]
  <2>1. s \in SCB
    BY <1>1, <1>3
  <2>2. /\ p \in HState /\ Threaded(p) /\ SameRest(g, p) /\ p.readylist # <<>>
        /\ p.list[s] = "READY" /\ \A t \in SCB \ {s} : p.list[t] = g.list[t]
        /\ s \notin Range(g.readylist) /\ g.readylist # <<>> => Head(p.readylist) = Head(g.readylist)
    <3> HIDE DEF s, g
    <3>1. g \in HState /\ Threaded(g)
      BY <1>1 DEF g
    <3> QED
      BY <2>1, <3>1, PutsLast
  <2> HIDE DEF p
  <2>3. /\ u \in HState /\ SameLists(p, u) /\ SameRun(p, u) /\ SameStacks(p, u)
        /\ u.waiter = p.waiter /\ u.event_chain = p.event_chain
        /\ u.here[s] = NULL /\ \A t \in SCB \ {s} : u.here[t] = p.here[t]
    <3> HIDE DEF s
    <3> QED
      BY <2>1, <2>2, ClearedIs
  <2>4. Wake(w) = [g |-> u, next |-> n]
    BY <1>3 DEF Wake, p
  <2>5. n \in SCB \cup {NULL}
    BY <1>1, <2>1 DEF HState
  <2>6. g.list[s] # "READY" => s \notin Range(g.readylist)
    BY <1>1, <2>1 DEF Threaded
  <2> HIDE DEF u, n, s, g
  <2>7. Threaded(u)
    BY <2>2, <2>3 DEF Threaded, SameLists
  <2>8. Wake(w) \in Wakers /\ Wake(w).g = u /\ Wake(w).next = n
    BY <2>3, <2>4, <2>5, <2>7 DEF Wakers
  <2>9. /\ SameRun(g, u) /\ SameStacks(g, u) /\ u.waiter = g.waiter /\ u.event_chain = g.event_chain
        /\ u.list[s] = "READY" /\ u.here[s] = NULL
        /\ \A t \in SCB \ {s} : u.list[t] = g.list[t] /\ u.here[t] = g.here[t]
    BY <2>2, <2>3 DEF SameRest, SameLists, SameRun, SameStacks, SameEvents
  <2>10. g.list[s] # "READY" /\ g.readylist # <<>> => u.readylist # <<>> /\ Head(u.readylist) = Head(g.readylist)
    BY <2>2, <2>3, <2>6 DEF SameLists
  <2> QED
    BY <2>8, <2>9, <2>10 DEF n, s, g
<1> QED
  BY <1>2, <1>3

(* k of those who wait at m have been woken.                               *)
WokenSoFar(g, Q, k, w) ==
  /\ w \in Wakers
  /\ SameRun(g, w.g) /\ SameStacks(g, w.g) /\ w.g.waiter = g.waiter /\ w.g.event_chain = g.event_chain
  /\ w.g.readylist # <<>> /\ Head(w.g.readylist) = Head(g.readylist)
  /\ w.next = IF k < Len(Q) THEN Q[k + 1] ELSE NULL
  /\ \A j \in 1 .. Len(Q) : j <= k => w.g.list[Q[j]] = "READY" /\ w.g.here[Q[j]] = NULL
  /\ \A t \in SCB : (\A j \in 1 .. Len(Q) : j <= k => t # Q[j]) => w.g.list[t] = g.list[t] /\ w.g.here[t] = g.here[t]

LEMMA WakesNext ==
  ASSUME NEW g \in HState, NEW m, NEW Q, Queue(g, m, Q), NEW k \in Nat, NEW w, WokenSoFar(g, Q, k, w)
  PROVE  WokenSoFar(g, Q, k + 1, Wake(w))
<1>1. /\ Q \in Seq(SCB) /\ IsInjective(Q) /\ Range(Q) = WaitingAt(g, m)
      /\ \A i \in 1 .. Len(Q) : g.here[Q[i]] = IF i = Len(Q) THEN NULL ELSE Q[i + 1]
  BY DEF Queue
<1>2. Distinct(Q) /\ Len(Q) \in Nat /\ \A i \in 1 .. Len(Q) : Q[i] \in SCB /\ Q[i] \in WaitingAt(g, m)
  BY <1>1, RangeIs
<1>3. CASE k < Len(Q)
  <2> DEFINE s == Q[k + 1]
             v == w.g
             u == Wake(w).g
  <2>1. k + 1 \in 1 .. Len(Q)
    BY <1>2, <1>3
  <2>2. s \in SCB /\ g.list[s] = "EVENT" /\ s # NULL
    BY <1>2, <2>1, ContextsAssumption DEF WaitingAt
  <2>3. w.next = s /\ v.list[s] = g.list[s] /\ v.here[s] = g.here[s]
    <3>1. \A j \in 1 .. Len(Q) : j <= k => s # Q[j]
      BY <1>2, <2>1 DEF Distinct
    <3> HIDE DEF s
    <3>2. w.next = s
      BY <1>3 DEF WokenSoFar, s
    <3> QED
      BY <2>2, <3>1, <3>2 DEF WokenSoFar
  <2>4. /\ Wake(w) \in Wakers /\ SameRun(v, u) /\ SameStacks(v, u) /\ u.waiter = v.waiter /\ u.event_chain = v.event_chain
        /\ u.list[s] = "READY" /\ u.here[s] = NULL
        /\ \A t \in SCB \ {s} : u.list[t] = v.list[t] /\ u.here[t] = v.here[t]
        /\ Wake(w).next = v.here[s]
        /\ (v.list[s] # "READY" /\ v.readylist # <<>> => u.readylist # <<>> /\ Head(u.readylist) = Head(v.readylist))
    <3>1. w \in Wakers /\ w.next # NULL
      BY <2>2, <2>3 DEF WokenSoFar
    <3> HIDE DEF s
    <3> QED
      BY <2>3, <3>1, WakeIs
  <2>5. Wake(w).next = IF k + 1 < Len(Q) THEN Q[k + 1 + 1] ELSE NULL
    BY <1>1, <1>2, <1>3, <2>1, <2>3, <2>4
  <2>6. ASSUME NEW j \in 1 .. Len(Q), j <= k + 1 PROVE u.list[Q[j]] = "READY" /\ u.here[Q[j]] = NULL
    <3>1. CASE j = k + 1
      BY <2>4, <3>1
    <3>2. CASE j # k + 1
      <4>1. Q[j] # s /\ Q[j] \in SCB /\ j <= k
        BY <1>2, <2>1, <2>6, <3>2 DEF Distinct
      <4>2. v.list[Q[j]] = "READY" /\ v.here[Q[j]] = NULL
        BY <4>1 DEF WokenSoFar
      <4> HIDE DEF s, u, v
      <4> QED
        BY <2>4, <4>1, <4>2
    <3> QED
      BY <3>1, <3>2
  <2>7. ASSUME NEW t \in SCB, \A j \in 1 .. Len(Q) : j <= k + 1 => t # Q[j]
        PROVE  u.list[t] = g.list[t] /\ u.here[t] = g.here[t]
    <3>1. t # s /\ \A j \in 1 .. Len(Q) : j <= k => t # Q[j]
      BY <1>2, <2>1, <2>7
    <3>2. v.list[t] = g.list[t] /\ v.here[t] = g.here[t]
      BY <3>1 DEF WokenSoFar
    <3> HIDE DEF s, u, v
    <3> QED
      BY <2>4, <3>1, <3>2
  <2>8. SameRun(g, u) /\ SameStacks(g, u) /\ u.waiter = g.waiter /\ u.event_chain = g.event_chain
        /\ u.readylist # <<>> /\ Head(u.readylist) = Head(g.readylist)
    <3>1. SameRun(g, v) /\ SameStacks(g, v) /\ v.waiter = g.waiter /\ v.event_chain = g.event_chain
          /\ v.readylist # <<>> /\ Head(v.readylist) = Head(g.readylist) /\ v.list[s] # "READY"
      BY <2>2, <2>3 DEF WokenSoFar
    <3> HIDE DEF s, u, v
    <3> QED
      BY <2>4, <3>1 DEF SameRun, SameStacks
  <2> HIDE DEF s, v
  <2> QED
    BY <2>4, <2>5, <2>6, <2>7, <2>8 DEF WokenSoFar
<1>4. CASE ~(k < Len(Q))
  <2>1. Wake(w) = w
    BY <1>4 DEF Wake, WokenSoFar
  <2>2. \A j \in 1 .. Len(Q) : j <= k /\ j <= k + 1
    BY <1>2, <1>4
  <2>3. ~(k + 1 < Len(Q))
    BY <1>2, <1>4
  <2> QED
    BY <1>4, <2>1, <2>2, <2>3 DEF WokenSoFar
<1> QED
  BY <1>3, <1>4

LEMMA WokenIs ==
  ASSUME NEW g \in HState, Threaded(g), NEW m, NEW Q, Queue(g, m, Q), g.readylist # <<>>
  PROVE  LET u == Woken(g, m)
         IN /\ u \in HState /\ Threaded(u) /\ SameRun(g, u) /\ SameStacks(g, u)
            /\ u.waiter = g.waiter /\ u.event_chain = g.event_chain
            /\ u.readylist # <<>> /\ Head(u.readylist) = Head(g.readylist)
            /\ \A t \in WaitingAt(g, m) : u.list[t] = "READY" /\ u.here[t] = NULL
            /\ \A t \in SCB \ WaitingAt(g, m) : u.list[t] = g.list[t] /\ u.here[t] = g.here[t]
<1> DEFINE n == Cardinality(SCB)
           base == [g |-> g, next |-> g.waiter[m]]
           S == Wakers
           h1 == [k \in 1 .. n |-> [w \in S |-> Wake(w)]]
           Step(f) == [k \in 0 .. n |-> IF k = 0 THEN base ELSE Wake(f[k - 1])]
           woken == CHOOSE f : f = Step(f)
<1>1. /\ Q \in Seq(SCB) /\ IsInjective(Q) /\ Range(Q) = WaitingAt(g, m) /\ Q # <<>> /\ Q[1] = g.waiter[m]
  BY DEF Queue
<1>2. Len(Q) <= n /\ n \in Nat /\ Len(Q) \in Nat /\ Len(Q) >= 1
  BY <1>1, ContextsAssumption, Bounded
<1>3. base \in S
  <2>1. g.waiter[m] \in SCB
    BY <1>1, <1>2
  <2> QED
    BY <2>1 DEF Wakers
<1>4. PICK f : Iterates(f, n, S, base, h1)
  <2>1. h1 \in [1 .. n -> [S -> S]]
    <3> HIDE DEF S
    <3>1. \A w \in S : Wake(w) \in S
      BY WakeIs DEF S
    <3> QED
      BY <3>1
  <2> HIDE DEF S, base, h1, n
  <2> QED
    BY <1>2, <1>3, <2>1, Iteration
<1>5. f = Step(f)
  <2>1. ASSUME NEW k \in 1 .. n PROVE f[k] = Wake(f[k - 1])
    <3>1. k - 1 \in 0 .. n
      BY <1>2
    <3>2. h1[k] = [w \in S |-> Wake(w)]
      OBVIOUS
    <3> HIDE DEF h1, n, S, base
    <3>3. f[k - 1] \in S /\ f[k] = h1[k][f[k - 1]]
      BY <1>4, <3>1 DEF Iterates
    <3> QED
      BY <3>2, <3>3
  <2> HIDE DEF h1, n, S, base
  <2> QED
    BY <1>2, <1>4, <2>1 DEF Iterates
<1>6. woken = Step(woken)
  <2>1. \E v : v = Step(v)
    BY <1>5
  <2> HIDE DEF Step
  <2> QED
    BY <2>1
<1>7. Woken(g, m) = woken[n].g
  BY DEF Woken, Wake, Cleared
<1> DEFINE T == {k \in 0 .. n : WokenSoFar(g, Q, k, woken[k])}
<1> HIDE DEF woken
<1>8. woken[0] = base /\ \A k \in 1 .. n : woken[k] = Wake(woken[k - 1])
  <2>1. \A k \in 0 .. n : woken[k] = IF k = 0 THEN base ELSE Wake(woken[k - 1])
    <3> HIDE DEF base, n
    <3> QED
      BY <1>6
  <2> HIDE DEF base, n
  <2> QED
    BY <1>2, <2>1
<1>9. 0 \in T
  <2>1. WokenSoFar(g, Q, 0, base)
    <3>1. SameRun(g, g) /\ SameStacks(g, g)
      BY DEF SameRun, SameStacks
    <3>2. \A j \in 1 .. Len(Q) : ~(j <= 0)
      BY <1>2
    <3> QED
      BY <1>1, <1>2, <1>3, <3>1, <3>2 DEF WokenSoFar
  <2> HIDE DEF base, n
  <2> QED
    BY <1>2, <1>8, <2>1
<1>10. ASSUME NEW k \in 0 .. n - 1, k \in T PROVE k + 1 \in T
  <2>1. k \in Nat /\ k + 1 \in 1 .. n /\ k + 1 - 1 = k
    BY <1>2
  <2>2. woken[k + 1] = Wake(woken[k])
    <3> HIDE DEF base, n, T
    <3> QED
      BY <1>8, <2>1
  <2>3. WokenSoFar(g, Q, k + 1, Wake(woken[k]))
    <3>1. WokenSoFar(g, Q, k, woken[k])
      BY <1>10
    <3> HIDE DEF T, n
    <3> QED
      BY <2>1, <3>1, WakesNext
  <2> QED
    BY <2>1, <2>2, <2>3
<1>11. WokenSoFar(g, Q, n, woken[n])
  <2>1. 0 .. n \subseteq T
    <3> HIDE DEF T, n
    <3> QED
      BY <1>2, <1>9, <1>10, Induction
  <2> HIDE DEF n
  <2> QED
    BY <1>2, <2>1
<1> DEFINE u == woken[n].g
<1>12. /\ u \in HState /\ Threaded(u) /\ SameRun(g, u) /\ SameStacks(g, u)
       /\ u.waiter = g.waiter /\ u.event_chain = g.event_chain /\ u.readylist # <<>> /\ Head(u.readylist) = Head(g.readylist)
  BY <1>11 DEF WokenSoFar, Wakers
<1>13. ASSUME NEW t \in WaitingAt(g, m) PROVE u.list[t] = "READY" /\ u.here[t] = NULL
  <2>1. PICK j \in 1 .. Len(Q) : t = Q[j]
    BY <1>1, RangeIs
  <2>2. j <= n
    BY <1>2
  <2> QED
    BY <1>11, <2>1, <2>2 DEF WokenSoFar
<1>14. ASSUME NEW t \in SCB, t \notin WaitingAt(g, m) PROVE u.list[t] = g.list[t] /\ u.here[t] = g.here[t]
  <2>1. \A j \in 1 .. Len(Q) : t # Q[j]
    BY <1>1, <1>14, RangeIs
  <2> QED
    BY <1>11, <2>1 DEF WokenSoFar
<1> HIDE DEF n
<1> QED
  BY <1>7, <1>12, <1>13, <1>14

LEMMA UndoIs ==
  ASSUME NEW g \in HState, NEW m, Stmt(m).event \in Events, IsInjective(g.event_chain[Stmt(m).event])
  PROVE  LET u == event_undo(g, m)
             e == Stmt(m).event
         IN /\ u \in HState /\ SameLists(g, u) /\ SameRun(g, u) /\ SameStacks(g, u) /\ u.here = g.here /\ u.waiter = g.waiter
            /\ IsInjective(u.event_chain[e]) /\ Range(u.event_chain[e]) = Range(g.event_chain[e]) \ {m}
            /\ \A x \in Events \ {e} : u.event_chain[x] = g.event_chain[x]
<1> DEFINE e == Stmt(m).event
           k == [g.event_chain EXCEPT ![e] = RemoveFirst(@, m)]
<1>1. g.event_chain \in [Events -> Seq(Tree)] /\ g.event_chain[e] \in Seq(Tree)
  BY DEF HState
<1>2. RemoveFirst(g.event_chain[e], m) \in Seq(Tree) /\ IsInjective(RemoveFirst(g.event_chain[e], m))
      /\ Range(RemoveFirst(g.event_chain[e], m)) = Range(g.event_chain[e]) \ {m}
  BY <1>1, RemoveFirstFacts
<1>3. k \in [Events -> Seq(Tree)] /\ k[e] = RemoveFirst(g.event_chain[e], m) /\ \A x \in Events \ {e} : k[x] = g.event_chain[x]
  BY <1>1, <1>2
<1>4. event_undo(g, m) = [g EXCEPT !.event_chain = k]
  BY DEF event_undo, HState
<1> HIDE DEF k, e
<1>5. LET u == [g EXCEPT !.event_chain = k]
      IN /\ u \in HState /\ SameLists(g, u) /\ SameRun(g, u) /\ SameStacks(g, u) /\ u.here = g.here /\ u.waiter = g.waiter
         /\ u.event_chain = k
  BY <1>3 DEF HState, SameLists, SameRun, SameStacks
<1> QED
  BY <1>2, <1>3, <1>4, <1>5 DEF e

(* Everyone who waits at a marker is ready, and the marker off its event.  *)
LEMMA NotifiedAgrees ==
  ASSUME program \in Programs, NEW at, Agree(h, at), h.readylist # <<>>, at = Place(h, pc),
         NEW e \in Events, NEW m \in Range(h.event_chain[e])
  PROVE  LET u == Notified(h, m)
         IN /\ h.list[h.waiter[m]] # "READY" /\ m \in Tree
            /\ Agree(u, Place(u, pc)) /\ u.readylist # <<>>
            /\ Range(u.event_chain[e]) = Range(h.event_chain[e]) \ {m}
<1> DEFINE v == Woken(h, m)
           u == event_undo(v, m)
           W == WaitingAt(h, m)
<1>1. h \in HState /\ Threaded(h) /\ Owned(h) /\ Forking(h) /\ Waiters(h)
  BY DEF Agree
<1>2. Code(m) \in {"event", "wait"} /\ Stmt(m).event = e /\ m \in Tree
  <2>1. h.event_chain[e] \in Seq(Tree)
    BY <1>1 DEF HState
  <2> QED
    BY <1>1, <2>1, RangeIs DEF Waiters
<1>3. PICK Q : Queue(h, m, Q)
  BY <1>1, <1>2 DEF Waiters, Marked
<1>4. h.waiter[m] \in W
  BY <1>3, TailFacts DEF Queue
<1>5. h.list[h.waiter[m]] # "READY"
  BY <1>4 DEF WaitingAt
<1>6. Notified(h, m) = u
  BY DEF Notified
<1>7. /\ v \in HState /\ Threaded(v) /\ SameRun(h, v) /\ SameStacks(h, v)
      /\ v.waiter = h.waiter /\ v.event_chain = h.event_chain
      /\ v.readylist # <<>> /\ Head(v.readylist) = Head(h.readylist)
      /\ \A t \in W : v.list[t] = "READY" /\ v.here[t] = NULL
      /\ \A t \in SCB \ W : v.list[t] = h.list[t] /\ v.here[t] = h.here[t]
  BY <1>1, <1>3, WokenIs
<1> HIDE DEF v
<1>8. /\ u \in HState /\ SameLists(v, u) /\ SameRun(v, u) /\ SameStacks(v, u) /\ u.here = v.here /\ u.waiter = v.waiter
      /\ IsInjective(u.event_chain[e]) /\ Range(u.event_chain[e]) = Range(h.event_chain[e]) \ {m}
      /\ \A x \in Events \ {e} : u.event_chain[x] = v.event_chain[x]
  <2>1. IsInjective(v.event_chain[e])
    BY <1>1, <1>7 DEF Waiters
  <2> QED
    BY <1>2, <1>7, <2>1, UndoIs
<1> HIDE DEF u
<1>9. /\ Threaded(u) /\ SameRun(h, u) /\ SameStacks(h, u) /\ u.readylist # <<>> /\ Head(u.readylist) = Head(h.readylist)
      /\ \A t \in W : u.list[t] = "READY" /\ u.here[t] = NULL
      /\ \A t \in SCB \ W : u.list[t] = h.list[t] /\ u.here[t] = h.here[t]
  BY <1>7, <1>8 DEF Threaded, SameLists, SameRun, SameStacks
<1>10. Owned(u) /\ u.context = h.context /\ (\A t : Frames(u, t) = Frames(h, t)) /\ u.pc = h.pc /\ u.mode = h.mode
       /\ u.fork = h.fork /\ u.fork_count = h.fork_count
  BY <1>1, <1>9, SameStacksOwned DEF SameStacks, SameRun
<1>11. \A t \in W : t \in SCB /\ h.list[t] = "EVENT" /\ h.pc[t] = m
  BY DEF WaitingAt
<1>12. Place(u, pc) = at
  BY <1>9, <1>10 DEF Place
<1>13. ASSUME NEW t \in SCB PROVE Settled(u, at, t)
  <2>1. CASE t \in W
    <3>1. Settled(h, at, t) /\ h.list[t] = "EVENT" /\ u.list[t] = "READY" /\ h.pc[t] = m
      BY <1>9, <1>11, <2>1 DEF Agree
    <3>2. Joining(h, t) = FALSE /\ Joining(u, t) = FALSE
      BY <1>2, <3>1 DEF Joining
    <3>3. Stands(Frames(h, t), at[t], FALSE, h.fork[t]) /\ at[t] = m
      BY <3>1, <3>2 DEF Settled, Pends
    <3> QED
      BY <1>2, <1>10, <3>1, <3>2, <3>3 DEF Settled, Pends, Waits
  <2>2. CASE t \notin W
    <3>1. SameProcess(h, u, t) /\ Settled(h, at, t)
      BY <1>9, <1>10, <2>2 DEF SameProcess, Agree
    <3> QED
      BY <3>1, SettledStays
  <2> QED
    BY <2>1, <2>2
<1>14. Forking(u)
  <2>1. ASSUME NEW t \in SCB PROVE (u.list[t] = "FREE" <=> h.list[t] = "FREE") /\ (Joining(u, t) <=> Joining(h, t))
    <3>1. CASE t \in W
      BY <1>2, <1>9, <1>11, <3>1 DEF Joining
    <3>2. CASE t \notin W
      BY <1>9, <1>10, <3>2 DEF Joining
    <3> QED
      BY <3>1, <3>2
  <2>2. \A t \in SCB : h.fork[t] \in SCB \cup {NULL}
    BY <1>1 DEF HState
  <2> QED
    BY <1>1, <1>10, <2>1, <2>2, ForkingStays
<1>15. Waiters(u)
  <2>1. WaitingAt(u, m) = {}
    BY <1>9, <1>10 DEF WaitingAt
  <2>2. ASSUME NEW x \in Tree, x # m PROVE WaitingAt(u, x) = WaitingAt(h, x) /\ WaitingAt(h, x) \cap W = {}
    BY <1>9, <1>10, <2>2 DEF WaitingAt
  <2>3. ASSUME NEW x \in Tree, Code(x) \in {"event", "wait"} PROVE Marked(u, x)
    <3>1. CASE x = m
      BY <1>2, <1>8, <2>1, <3>1 DEF Marked
    <3>2. CASE x # m
      <4>1. Marked(h, x) /\ Stmt(x).event \in Events
        BY <1>1, <2>3, PlacedIs DEF Waiters
      <4>2. x \in Range(u.event_chain[Stmt(x).event]) <=> x \in Range(h.event_chain[Stmt(x).event])
        <5>1. CASE Stmt(x).event = e
          BY <1>8, <3>2, <5>1
        <5>2. CASE Stmt(x).event # e
          BY <1>7, <1>8, <4>1, <5>2
        <5> QED
          BY <5>1, <5>2
      <4>3. ASSUME NEW P, Queue(h, x, P) PROVE Queue(u, x, P)
        <5>1. P \in Seq(SCB) /\ Range(P) = WaitingAt(h, x)
          BY <4>3 DEF Queue
        <5>2. \A i \in 1 .. Len(P) : P[i] \in SCB \ W
          BY <2>2, <3>2, <5>1, RangeIs
        <5>3. \A i \in 1 .. Len(P) : u.here[P[i]] = h.here[P[i]]
          BY <1>9, <5>2
        <5>4. u.waiter[x] = h.waiter[x]
          BY <1>7, <1>8
        <5> QED
          BY <2>2, <3>2, <4>3, <5>3, <5>4 DEF Queue
      <4> QED
        BY <2>2, <3>2, <4>1, <4>2, <4>3 DEF Marked
    <3> QED
      BY <3>1, <3>2
  <2>4. ASSUME NEW x \in Events
        PROVE  /\ IsInjective(u.event_chain[x])
               /\ \A y \in Range(u.event_chain[x]) : Code(y) \in {"event", "wait"} /\ Stmt(y).event = x
    <3>1. CASE x = e
      BY <1>1, <1>8, <3>1 DEF Waiters
    <3>2. CASE x # e
      BY <1>1, <1>7, <1>8, <3>2 DEF Waiters
    <3> QED
      BY <3>1, <3>2
  <2>5. ASSUME NEW t \in SCB, ~Awaiting(u, t) PROVE u.here[t] = NULL
    <3>1. CASE t \in W
      BY <1>9, <3>1
    <3>2. CASE t \notin W
      <4>1. ~Awaiting(h, t) /\ u.here[t] = h.here[t]
        BY <1>9, <1>10, <2>5, <3>2 DEF Awaiting
      <4> QED
        BY <1>1, <4>1 DEF Waiters
    <3> QED
      BY <3>1, <3>2
  <2> QED
    BY <2>3, <2>4, <2>5 DEF Waiters
<1>16. Agree(u, Place(u, pc))
  BY <1>8, <1>9, <1>10, <1>12, <1>13, <1>14, <1>15 DEF Agree
<1> QED
  BY <1>2, <1>5, <1>6, <1>8, <1>9, <1>16

LEMMA NotifyNextKeeps ==
  ASSUME IInv, NotifyNext
  PROVE  IInv'
<1> DEFINE m == Head(walk)
           u == Notified(h, m)
<1>1. walk # <<>> /\ walk' = Tail(walk) /\ UNCHANGED <<program, pc, scope, calls, returning, fault>>
      /\ h' = IF h.list[h.waiter[m]] = "READY" THEN h ELSE u
  BY DEF NotifyNext
<1>2. program \in Programs /\ walk \in Seq(Tree) /\ IsInjective(walk) /\ pc # IDLE
  BY <1>1 DEF IInv
<1>3. PICK e \in Events : Range(walk) \subseteq Range(h.event_chain[e])
  BY <1>1 DEF IInv
<1>4. scope = NULL /\ Agree(h, Place(h, pc)) /\ pc \in Tree /\ h.readylist # <<>>
  BY <1>1, <1>2 DEF IInv, Standing
<1>5. m \in Range(walk) /\ Tail(walk) \in Seq(Tree) /\ IsInjective(Tail(walk)) /\ Range(Tail(walk)) = Range(walk) \ {m}
  BY <1>1, <1>2, TailFacts
<1>6. m \in Range(h.event_chain[e])
  BY <1>3, <1>5
<1> HIDE DEF m, u
<1>7. /\ h.list[h.waiter[m]] # "READY" /\ Agree(u, Place(u, pc)) /\ u.readylist # <<>>
      /\ Range(u.event_chain[e]) = Range(h.event_chain[e]) \ {m}
  BY <1>2, <1>4, <1>6, NotifiedAgrees DEF u
<1>8. h' = u
  BY <1>1, <1>7
<1>9. Agree(h', Standing')
  <2>1. Standing' = Place(u, pc)
    BY <1>1, <1>4, <1>8 DEF Standing, Place
  <2> QED
    BY <1>7, <1>8, <2>1
<1>10. Agree(h, Standing)'
  BY <1>1, <1>9, Carried
<1>11. Range(walk') \subseteq Range(h'.event_chain[e])
  BY <1>1, <1>3, <1>5, <1>7, <1>8
<1> QED
  BY <1>1, <1>2, <1>4, <1>5, <1>7, <1>8, <1>10, <1>11 DEF IInv, Tree, Events

-----------------------------------------------------------------------------
(* Time advances: those that are due leave the time list in its order.     *)

LEMMA ChosenIs ==
  ASSUME NEW S, NEW seq \in Seq(S), IsInjective(seq), NEW X
  PROVE  Chosen(seq, X) \in Seq(S) /\ IsInjective(Chosen(seq, X)) /\ Range(Chosen(seq, X)) = Range(seq) \cap X
<1> DEFINE n == Len(seq)
           pick(c, k) == IF seq[k] \in X THEN Append(c, seq[k]) ELSE c
           V == Seq(S)
           base == <<>>
           step == [k \in 1 .. n |-> [c \in V |-> pick(c, k)]]
           Step(f) == [k \in 0 .. n |-> IF k = 0 THEN base ELSE pick(f[k - 1], k)]
           chosen == CHOOSE f : f = Step(f)
           First(k) == {seq[i] : i \in 1 .. k} \cap X
           Good(c, k) == c \in Seq(S) /\ IsInjective(c) /\ Range(c) = First(k)
           T == {k \in 0 .. n : Good(chosen[k], k)}
<1>1. n \in Nat /\ (\A k \in 1 .. n : seq[k] \in S) /\ Distinct(seq) /\ Range(seq) = {seq[i] : i \in 1 .. n}
  BY RangeIs
<1>2. PICK f : Iterates(f, n, V, base, step)
  <2>1. base \in V /\ step \in [1 .. n -> [V -> V]]
    BY <1>1
  <2> HIDE DEF V, base, step, n
  <2> QED
    BY <1>1, <2>1, Iteration
<1>3. f = Step(f)
  <2>1. ASSUME NEW k \in 1 .. n PROVE f[k] = pick(f[k - 1], k)
    <3>1. k - 1 \in 0 .. n
      BY <1>1
    <3>2. step[k] = [c \in V |-> pick(c, k)]
      OBVIOUS
    <3> HIDE DEF step, n, V, base, pick
    <3>3. f[k - 1] \in V /\ f[k] = step[k][f[k - 1]]
      BY <1>2, <3>1 DEF Iterates
    <3> QED
      BY <3>2, <3>3
  <2> HIDE DEF step, n, V, base, pick
  <2> QED
    BY <1>1, <1>2, <2>1 DEF Iterates
<1>4. chosen = Step(chosen)
  <2>1. \E v : v = Step(v)
    BY <1>3
  <2> HIDE DEF Step
  <2> QED
    BY <2>1
<1>5. Chosen(seq, X) = chosen[n]
  BY DEF Chosen
<1> HIDE DEF chosen
<1>6. chosen[0] = base /\ \A k \in 1 .. n : chosen[k] = pick(chosen[k - 1], k)
  <2>1. \A k \in 0 .. n : chosen[k] = IF k = 0 THEN base ELSE pick(chosen[k - 1], k)
    <3> HIDE DEF base, n, pick
    <3> QED
      BY <1>4
  <2> HIDE DEF base, n, pick
  <2> QED
    BY <1>1, <2>1
<1>7. 0 \in T
  <2>1. Good(base, 0)
    <3>1. First(0) = {}
      OBVIOUS
    <3> QED
      BY <3>1, EmptyFacts
  <2> HIDE DEF base, n, Good
  <2> QED
    BY <1>1, <1>6, <2>1
<1>8. ASSUME NEW k \in 0 .. n - 1, k \in T PROVE k + 1 \in T
  <2> DEFINE c == chosen[k]
             x == seq[k + 1]
  <2>1. k + 1 \in 1 .. n /\ k + 1 - 1 = k /\ k \in Nat
    BY <1>1
  <2>2. c \in Seq(S) /\ IsInjective(c) /\ Range(c) = First(k)
    BY <1>8
  <2>3. x \in S /\ x \notin First(k)
    <3>1. \A i \in 1 .. k : i \in 1 .. n /\ i # k + 1
      BY <2>1
    <3> QED
      BY <1>1, <2>1, <3>1 DEF Distinct
  <2>4. First(k + 1) = IF x \in X THEN First(k) \cup {x} ELSE First(k)
    <3>1. 1 .. k + 1 = 1 .. k \cup {k + 1}
      BY <2>1
    <3> QED
      BY <3>1
  <2>5. chosen[k + 1] = IF x \in X THEN Append(c, x) ELSE c
    <3>1. chosen[k + 1] = pick(chosen[k + 1 - 1], k + 1)
      <4> HIDE DEF pick, n, base
      <4> QED
        BY <1>6, <2>1
    <3> QED
      BY <2>1, <3>1
  <2> HIDE DEF c, x, First
  <2>6. Good(chosen[k + 1], k + 1)
    <3>1. CASE x \in X
      <4>1. Gained(Append(c, x), c, S, x)
        BY <2>2, <2>3, AppendGains
      <4> QED
        BY <2>2, <2>4, <2>5, <3>1, <4>1 DEF Gained
    <3>2. CASE x \notin X
      BY <2>2, <2>4, <2>5, <3>2
    <3> QED
      BY <3>1, <3>2
  <2> HIDE DEF Good, n
  <2> QED
    BY <1>1, <2>1, <2>6
<1>9. 0 .. n \subseteq T
  <2> HIDE DEF T, n
  <2> QED
    BY <1>1, <1>7, <1>8, Induction
<1>10. Good(chosen[n], n)
  <2> HIDE DEF Good, n
  <2> QED
    BY <1>1, <1>9
<1> QED
  BY <1>1, <1>5, <1>10

Advanced(g, now) ==
  [g EXCEPT !.timelist = Chosen(@, SCB \ now), !.readylist = Chosen(g.timelist, now), !.stray = NULL,
            !.list = [s \in SCB |-> IF s \in now THEN "READY" ELSE @[s]]]

LEMMA AdvancedIs ==
  ASSUME NEW g \in HState, Threaded(g), g.readylist = <<>>, NEW now \in SUBSET Range(g.timelist)
  PROVE  LET u == Advanced(g, now)
         IN /\ u \in HState /\ Threaded(u) /\ SameRest(g, u)
            /\ \A t \in SCB : u.list[t] = IF t \in now THEN "READY" ELSE g.list[t]
            /\ \A t \in now : t \in SCB /\ g.list[t] = "TIME"
<1> DEFINE a == Chosen(g.timelist, SCB \ now)
           b == Chosen(g.timelist, now)
           k == [s \in SCB |-> IF s \in now THEN "READY" ELSE g.list[s]]
           u == Advanced(g, now)
<1>1. g.timelist \in Seq(SCB) /\ IsInjective(g.timelist) /\ Range(g.timelist) \subseteq SCB
  BY RangeIs DEF HState, Threaded
<1>2. a \in Seq(SCB) /\ IsInjective(a) /\ Range(a) = Range(g.timelist) \ now
  <2>1. a \in Seq(SCB) /\ IsInjective(a) /\ Range(a) = Range(g.timelist) \cap (SCB \ now)
    BY <1>1, ChosenIs
  <2> HIDE DEF a
  <2> QED
    BY <1>1, <2>1
<1>3. b \in Seq(SCB) /\ IsInjective(b) /\ Range(b) = now
  <2>1. b \in Seq(SCB) /\ IsInjective(b) /\ Range(b) = Range(g.timelist) \cap now
    BY <1>1, ChosenIs
  <2> HIDE DEF b
  <2> QED
    BY <1>1, <2>1
<1>4. k \in [SCB -> {"READY", "TIME", "EVENT", "FREE", "NOLIST"}]
  BY DEF HState
<1>5. u = [g EXCEPT !.timelist = a, !.readylist = b, !.stray = NULL, !.list = k]
  BY DEF Advanced, HState
<1>6. \A t \in now : t \in SCB /\ g.list[t] = "TIME"
  BY <1>1 DEF Threaded
<1>7. \A t \in SCB : k[t] = IF t \in now THEN "READY" ELSE g.list[t]
  OBVIOUS
<1> HIDE DEF a, b, k, u
<1>8. u \in HState /\ u.timelist = a /\ u.readylist = b /\ u.list = k /\ u.freelist = g.freelist /\ SameRest(g, u)
  BY <1>2, <1>3, <1>4, <1>5 DEF HState, SameRest, SameRun, SameEvents, SameStacks
<1>9. Threaded(u)
  <2>1. Range(g.readylist) = {}
    BY EmptyFacts
  <2> QED
    BY <1>2, <1>3, <1>6, <1>7, <1>8, <2>1 DEF Threaded
<1> QED
  BY <1>6, <1>7, <1>8, <1>9 DEF u

LEMMA AdvanceTimeKeeps ==
  ASSUME IInv, AdvanceTime
  PROVE  IInv'
<1>1. pc = IDLE
  BY DEF AdvanceTime
<1>2. PICK now \in SUBSET Range(h.timelist) : Dispatch(Advanced(h, now))
  BY DEF AdvanceTime, Advanced
<1> DEFINE u == Advanced(h, now)
<1>3. program \in Programs /\ scope = NULL /\ walk = <<>> /\ h.readylist = <<>> /\ Agree(h, Place(h, pc))
  <2>1. program \in Programs
    BY DEF IInv
  <2>2. IDLE \notin Tree
    BY <2>1, TreeIs
  <2> QED
    BY <1>1, <2>1, <2>2 DEF IInv, Standing
<1>4. h \in HState /\ Threaded(h) /\ Owned(h)
  BY <1>3 DEF Agree
<1>5. /\ u \in HState /\ Threaded(u) /\ SameRest(h, u)
      /\ \A t \in SCB : u.list[t] = IF t \in now THEN "READY" ELSE h.list[t]
      /\ \A t \in now : t \in SCB /\ h.list[t] = "TIME"
  BY <1>3, <1>4, AdvancedIs
<1> HIDE DEF u
<1>6. Owned(u) /\ u.context = h.context /\ (\A t : Frames(u, t) = Frames(h, t)) /\ SameEvents(h, u)
      /\ u.fork = h.fork /\ u.fork_count = h.fork_count /\ u.pc = h.pc /\ u.mode = h.mode
  BY <1>4, <1>5, SameStacksOwned DEF SameRest, SameRun, SameEvents, SameStacks
<1>7. Place(h, pc) = u.pc
  BY <1>3, <1>4, <1>6 DEF Place, HState
<1>8. ASSUME NEW t \in SCB PROVE Settled(u, u.pc, t)
  <2>1. Settled(h, u.pc, t)
    BY <1>3, <1>7 DEF Agree
  <2>2. CASE t \in now
    <3>1. h.list[t] = "TIME" /\ u.list[t] = "READY"
      BY <1>5, <2>2
    <3>2. Joining(h, t) = FALSE /\ Joining(u, t) = FALSE
      BY <3>1 DEF Joining
    <3>3. (Pends(u, u.pc, t) <=> Pends(h, u.pc, t)) /\ Frames(u, t) = Frames(h, t) /\ u.fork[t] = h.fork[t]
      BY <1>6 DEF Pends
    <3>4. CASE Pends(h, u.pc, t)
      BY <2>1, <3>1, <3>3, <3>4 DEF Settled
    <3>5. CASE ~Pends(h, u.pc, t)
      BY <2>1, <3>1, <3>2, <3>3, <3>5 DEF Settled, Waits
    <3> QED
      BY <3>4, <3>5
  <2>3. CASE t \notin now
    <3>1. SameProcess(h, u, t)
      BY <1>5, <1>6, <2>3 DEF SameProcess
    <3> QED
      BY <2>1, <3>1, SettledStays
  <2> QED
    BY <2>2, <2>3
<1>9. Forking(u)
  <2>1. \A t \in SCB : (u.list[t] = "FREE" <=> h.list[t] = "FREE") /\ (Joining(u, t) <=> Joining(h, t))
    BY <1>5, <1>6 DEF Joining
  <2>2. \A t \in SCB : h.fork[t] \in SCB \cup {NULL}
    BY <1>4 DEF HState
  <2> QED
    BY <1>3, <1>6, <2>1, <2>2, ForkingStays DEF Agree
<1>10. Waiters(u)
  <2>1. \A t \in SCB : IF Awaiting(h, t) THEN u.list[t] = "EVENT" /\ u.pc[t] = h.pc[t] ELSE ~Awaiting(u, t)
    BY <1>5, <1>6 DEF Awaiting
  <2> QED
    BY <1>3, <1>6, <2>1, WaitersStay DEF Agree
<1>11. Agree(u, u.pc)
  BY <1>5, <1>6, <1>8, <1>9, <1>10 DEF Agree
<1>12. Dispatch(u)
  BY <1>2 DEF u
<1> QED
  BY <1>3, <1>11, <1>12, DispatchKeeps

LEMMA FinishedKeeps ==
  ASSUME IInv, UNCHANGED vars
  PROVE  IInv'
<1>1. Agree(h', Standing')
  BY DEF IInv, vars, Standing, Place
<1>2. Agree(h, Standing)'
  BY <1>1, Carried DEF vars
<1> QED
  BY <1>2 DEF IInv, vars, Tree, Scopes, Events

-----------------------------------------------------------------------------
(* Processes that are made: by a fork for its arms, and in the beginning.  *)

(* A recursive definition of n steps, where every value has what its       *)
(* number asks, and that is what the next step needs.                      *)
Leads(n, G, next) == \A k \in 1 .. n : next[k] \in [G[k - 1] -> G[k]]
Follows(f, n, S, G, base, next) ==
  /\ f \in [0 .. n -> S] /\ f[0] = base
  /\ \A k \in 0 .. n : f[k] \in G[k]
  /\ \A k \in 1 .. n : f[k] = next[k][f[k - 1]]

LEMMA Stepwise ==
  ASSUME NEW n \in Nat, NEW S, NEW G \in [0 .. n -> SUBSET S], NEW base \in G[0],
         NEW next, Leads(n, G, next)
  PROVE  \E f : Follows(f, n, S, G, base, next)
<1> USE DEF Leads
<1> DEFINE step == [k \in 1 .. n |-> [s \in S |-> IF s \in G[k - 1] THEN next[k][s] ELSE s]]
<1>1. step \in [1 .. n -> [S -> S]]
  <2>1. ASSUME NEW k \in 1 .. n, NEW s \in S PROVE (IF s \in G[k - 1] THEN next[k][s] ELSE s) \in S
    <3>1. k \in 0 .. n /\ k - 1 \in 0 .. n
      OBVIOUS
    <3> QED
      BY <3>1
  <2> QED
    BY <2>1
<1>2. base \in S
  <2>1. 0 \in 0 .. n
    OBVIOUS
  <2> QED
    BY <2>1
<1>3. PICK f : Iterates(f, n, S, base, step)
  <2> HIDE DEF step
  <2> QED
    BY <1>1, <1>2, Iteration
<1>4. f \in [0 .. n -> S] /\ f[0] = base
  BY <1>3 DEF Iterates
<1>5. ASSUME NEW k \in 1 .. n, f[k - 1] \in G[k - 1] PROVE f[k] = next[k][f[k - 1]] /\ f[k] \in G[k]
  <2>1. f[k] = step[k][f[k - 1]]
    <3> HIDE DEF step
    <3> QED
      BY <1>3 DEF Iterates
  <2>2. k - 1 \in 0 .. n /\ f[k - 1] \in S
    BY <1>4
  <2>3. f[k] = next[k][f[k - 1]]
    BY <1>5, <2>1, <2>2
  <2> QED
    BY <1>5, <2>3
<1> HIDE DEF step
<1> DEFINE T == {k \in 0 .. n : f[k] \in G[k]}
<1>6. 0 \in T
  BY <1>4
<1>7. ASSUME NEW k \in 0 .. n - 1, k \in T PROVE k + 1 \in T
  <2>1. k + 1 \in 1 .. n /\ k + 1 - 1 = k /\ k + 1 \in 0 .. n
    OBVIOUS
  <2> QED
    BY <1>5, <1>7, <2>1
<1>8. 0 .. n \subseteq T
  <2> HIDE DEF T
  <2> QED
    BY <1>6, <1>7, Induction
<1>9. \A k \in 0 .. n : f[k] \in G[k]
  BY <1>8
<1>10. \A k \in 1 .. n : f[k] = next[k][f[k - 1]]
  <2>1. \A k \in 1 .. n : k - 1 \in 0 .. n
    OBVIOUS
  <2> QED
    BY <1>5, <1>9, <2>1
<1> QED
  BY <1>4, <1>9, <1>10 DEF Follows

Fresh(g, s, start) ==
  [g EXCEPT !.freelist = Tail(@), !.stray = StrayWithout(@, s), !.list[s] = "NOLIST", !.pc[s] = start,
            !.mode[s] = "RUN", !.fork[s] = NULL, !.fork_count[s] = 0, !.here[s] = NULL, !.context[s] = <<>>]

LEMMA FreshIs ==
  ASSUME NEW g \in HState, IsInjective(g.freelist), g.freelist # <<>>, NEW s \in SCB, g.context[s] = <<>>,
         NEW start \in Statements
  PROVE  LET u == Fresh(g, s, start)
         IN /\ u \in HState /\ SameStacks(g, u) /\ u.waiter = g.waiter /\ u.event_chain = g.event_chain
            /\ u.readylist = g.readylist /\ u.timelist = g.timelist /\ u.freelist = Tail(g.freelist)
            /\ u.list[s] = "NOLIST" /\ u.pc[s] = start /\ u.mode[s] = "RUN" /\ u.fork[s] = NULL
            /\ u.fork_count[s] = 0 /\ u.here[s] = NULL
            /\ \A t \in SCB \ {s} : /\ u.list[t] = g.list[t] /\ u.pc[t] = g.pc[t] /\ u.mode[t] = g.mode[t]
                                    /\ u.fork[t] = g.fork[t] /\ u.fork_count[t] = g.fork_count[t] /\ u.here[t] = g.here[t]
<1> DEFINE a == [g.list EXCEPT ![s] = "NOLIST"]
           b == [g.pc EXCEPT ![s] = start]
           c == [g.mode EXCEPT ![s] = "RUN"]
           d == [g.fork EXCEPT ![s] = NULL]
           e == [g.fork_count EXCEPT ![s] = 0]
           f == [g.here EXCEPT ![s] = NULL]
           k == [g.context EXCEPT ![s] = <<>>]
           F == Tail(g.freelist)
           u == Fresh(g, s, start)
<1>1. a \in [SCB -> {"READY", "TIME", "EVENT", "FREE", "NOLIST"}] /\ a[s] = "NOLIST" /\ \A t \in SCB \ {s} : a[t] = g.list[t]
  BY DEF HState
<1>2. b \in [SCB -> Statements] /\ b[s] = start /\ \A t \in SCB \ {s} : b[t] = g.pc[t]
  BY DEF HState
<1>3. c \in [SCB -> {"RUN", "WAIT"}] /\ c[s] = "RUN" /\ \A t \in SCB \ {s} : c[t] = g.mode[t]
  BY DEF HState
<1>4. d \in [SCB -> SCB \cup {NULL}] /\ d[s] = NULL /\ \A t \in SCB \ {s} : d[t] = g.fork[t]
  BY DEF HState
<1>5. e \in [SCB -> Int] /\ e[s] = 0 /\ \A t \in SCB \ {s} : e[t] = g.fork_count[t]
  BY DEF HState
<1>6. f \in [SCB -> SCB \cup {NULL}] /\ f[s] = NULL /\ \A t \in SCB \ {s} : f[t] = g.here[t]
  BY DEF HState
<1>7. k = g.context
  BY DEF HState
<1>8. F \in Seq(SCB)
  BY TailFacts DEF HState
<1>9. u = [g EXCEPT !.freelist = F, !.stray = NULL, !.list = a, !.pc = b, !.mode = c, !.fork = d, !.fork_count = e, !.here = f, !.context = k]
  BY DEF Fresh, StrayWithout, HState
<1> HIDE DEF a, b, c, d, e, f, k, F, u
<1>10. /\ u \in HState /\ u.list = a /\ u.pc = b /\ u.mode = c /\ u.fork = d /\ u.fork_count = e /\ u.here = f
       /\ u.freelist = F /\ u.readylist = g.readylist /\ u.timelist = g.timelist
       /\ u.waiter = g.waiter /\ u.event_chain = g.event_chain /\ SameStacks(g, u)
  BY <1>1, <1>2, <1>3, <1>4, <1>5, <1>6, <1>7, <1>8, <1>9 DEF HState, SameStacks
<1> QED
  BY <1>1, <1>2, <1>3, <1>4, <1>5, <1>6, <1>10 DEF u, F

LEMMA BuildIs ==
  ASSUME NEW g, NEW start, NEW b
  PROVE  BuildSCB(g, start, b) = enter_context(Fresh(g, Head(g.freelist), start), Head(g.freelist), b, NULL)
BY Zenon DEF BuildSCB, Fresh

(* A new process has one frame, and is on no list.                         *)
LEMMA Builds ==
  ASSUME NEW g \in HState, Threaded(g), Owned(g), g.freelist # <<>>, NEW s \in SCB, s = Head(g.freelist),
         g.context[s] = <<>>, NEW start \in Statements, NEW b \in Scopes, NEW n \in Nat, n > 0, CanMake(g, n)
  PROVE  LET u == BuildSCB(g, start, b)
         IN /\ u \in HState /\ Owned(u) /\ CanMake(u, n - 1) /\ u.waiter = g.waiter /\ u.event_chain = g.event_chain
            /\ u.readylist = g.readylist /\ u.timelist = g.timelist /\ u.freelist = Tail(g.freelist)
            /\ u.list[s] = "NOLIST" /\ u.pc[s] = start /\ u.mode[s] = "RUN" /\ u.fork[s] = NULL
            /\ u.fork_count[s] = 0 /\ u.here[s] = NULL /\ Frames(u, s) = <<[scb |-> s, scope |-> b, pc |-> NULL]>>
            /\ \A t \in SCB \ {s} : SameProcess(g, u, t) /\ u.fork_count[t] = g.fork_count[t] /\ u.here[t] = g.here[t]
<1> DEFINE v == Fresh(g, s, start)
           u == enter_context(v, s, b, NULL)
           m == [scb |-> s, scope |-> b, pc |-> NULL]
<1>1. BuildSCB(g, start, b) = u
  <2>1. BuildSCB(g, start, b) = enter_context(Fresh(g, Head(g.freelist), start), Head(g.freelist), b, NULL)
    BY BuildIs
  <2> QED
    BY <2>1
<1> HIDE DEF v
<1>2. /\ v \in HState /\ SameStacks(g, v) /\ v.waiter = g.waiter /\ v.event_chain = g.event_chain
      /\ v.readylist = g.readylist /\ v.timelist = g.timelist /\ v.freelist = Tail(g.freelist)
      /\ v.list[s] = "NOLIST" /\ v.pc[s] = start /\ v.mode[s] = "RUN" /\ v.fork[s] = NULL
      /\ v.fork_count[s] = 0 /\ v.here[s] = NULL
      /\ \A t \in SCB \ {s} : /\ v.list[t] = g.list[t] /\ v.pc[t] = g.pc[t] /\ v.mode[t] = g.mode[t]
                              /\ v.fork[t] = g.fork[t] /\ v.fork_count[t] = g.fork_count[t] /\ v.here[t] = g.here[t]
  BY FreshIs DEF v, Threaded
<1>3. Owned(v) /\ CanMake(v, n) /\ (\A t : Frames(v, t) = Frames(g, t)) /\ v.context = g.context
  BY <1>2, SameStacksOwned DEF SameStacks
<1> HIDE DEF u, m
<1>4. /\ u \in HState /\ SameLists(v, u) /\ SameRun(v, u) /\ SameEvents(v, u)
      /\ Owned(u) /\ CanMake(u, n - 1) /\ Frames(u, s) = <<m>> \o Frames(v, s)
      /\ \A t \in SCB \ {s} : u.context[t] = v.context[t] /\ Frames(u, t) = Frames(v, t)
  <2>1. v \in HState
    BY <1>2
  <2>2. Owned(v) /\ CanMake(v, n)
    BY <1>3
  <2>3. NULL \in Statements
    BY DEF Statements
  <2> USE DEF u, m
  <2> QED
    BY ONLY <2>1, <2>2, <2>3, s \in SCB, b \in Scopes, n \in Nat, n > 0, Enters
<1>5. Frames(u, s) = <<m>>
  <2>1. Frames(v, s) = <<>>
    BY <1>2, <1>3, FramesIs
  <2> QED
    BY <1>4, <2>1
<1>6. /\ u.waiter = g.waiter /\ u.event_chain = g.event_chain
      /\ u.readylist = g.readylist /\ u.timelist = g.timelist /\ u.freelist = Tail(g.freelist)
      /\ u.list[s] = "NOLIST" /\ u.pc[s] = start /\ u.mode[s] = "RUN" /\ u.fork[s] = NULL
      /\ u.fork_count[s] = 0 /\ u.here[s] = NULL
  BY <1>2, <1>4 DEF SameLists, SameRun, SameEvents
<1>7. \A t \in SCB \ {s} : SameProcess(g, u, t) /\ u.fork_count[t] = g.fork_count[t] /\ u.here[t] = g.here[t]
  BY <1>2, <1>3, <1>4 DEF SameProcess, SameLists, SameRun, SameEvents
<1> QED
  BY <1>1, <1>4, <1>5, <1>6, <1>7 DEF m

(* A new process is put on the time list, where it waits.                  *)
Timed(g, t) == [g EXCEPT !.timelist = Append(@, t), !.list[t] = "TIME", !.mode[t] = "WAIT"]

LEMMA TimedIs ==
  ASSUME NEW g \in HState, NEW t \in SCB
  PROVE  LET u == Timed(g, t)
         IN /\ u \in HState /\ SameStacks(g, u) /\ SameEvents(g, u)
            /\ u.pc = g.pc /\ u.fork = g.fork /\ u.fork_count = g.fork_count
            /\ u.readylist = g.readylist /\ u.timelist = Append(g.timelist, t) /\ u.freelist = g.freelist
            /\ u.list[t] = "TIME" /\ u.mode[t] = "WAIT"
            /\ \A r \in SCB \ {t} : u.list[r] = g.list[r] /\ u.mode[r] = g.mode[r]
<1> DEFINE a == [g.list EXCEPT ![t] = "TIME"]
           c == [g.mode EXCEPT ![t] = "WAIT"]
           q == Append(g.timelist, t)
           u == Timed(g, t)
<1>1. a \in [SCB -> {"READY", "TIME", "EVENT", "FREE", "NOLIST"}] /\ a[t] = "TIME" /\ \A r \in SCB \ {t} : a[r] = g.list[r]
  BY DEF HState
<1>2. c \in [SCB -> {"RUN", "WAIT"}] /\ c[t] = "WAIT" /\ \A r \in SCB \ {t} : c[r] = g.mode[r]
  BY DEF HState
<1>3. q \in Seq(SCB)
  BY DEF HState
<1>4. u = [g EXCEPT !.timelist = q, !.list = a, !.mode = c]
  BY DEF Timed, HState
<1> HIDE DEF a, c, q, u
<1>5. /\ u \in HState /\ SameStacks(g, u) /\ SameEvents(g, u)
      /\ u.pc = g.pc /\ u.fork = g.fork /\ u.fork_count = g.fork_count
      /\ u.readylist = g.readylist /\ u.timelist = q /\ u.freelist = g.freelist /\ u.list = a /\ u.mode = c
  BY <1>1, <1>2, <1>3, <1>4 DEF HState, SameStacks, SameEvents
<1> QED
  BY <1>1, <1>2, <1>5 DEF u, q

(* A nonblocking assignment is left to a process of its own.               *)
LEMMA PendingIs ==
  ASSUME IInv, Executing("nonblocking"), h.mode[Readylist] = "RUN", h.context[Readylist] # <<>>,
         h.freelist # <<>>, CanMake(h, 1)
  PROVE  LET u == Pending(h, pc)
             t == Head(h.freelist)
             n == Stmt(pc).chain
         IN /\ n \in Tree /\ Agree(u, Place(u, n)) /\ u.readylist = h.readylist
            /\ t \in SCB /\ u.mode[t] = "WAIT"
            /\ \A r \in SCB \ {t} : u.list[r] = h.list[r] /\ u.mode[r] = h.mode[r] /\ u.pc[r] = h.pc[r]
<1> DEFINE s == Readylist
           n == Stmt(pc).chain
           t == Head(h.freelist)
           b == h.member[Head(h.context[s])].scope
           v == BuildSCB(h, pc, b)
           u == Timed(v, t)
           at == Place(h, pc)
           to == Place(u, n)
<1>1. /\ program \in Programs /\ scope = NULL /\ walk = <<>> /\ pc \in Tree /\ Code(pc) = "nonblocking" /\ s \in SCB
      /\ h \in HState /\ Owned(h) /\ Threaded(h) /\ h.list[s] = "READY" /\ h.readylist # <<>> /\ Agree(h, at)
      /\ Frames(h, s) \in Seq(Frame) /\ Settled(h, at, s) /\ at[s] = pc /\ ~Joining(h, s)
  <2>1. "nonblocking" # "none"
    OBVIOUS
  <2> QED
    BY <2>1, ExecutesAny
<1>2. Stands(Frames(h, s), pc, FALSE, h.fork[s])
  <2>1. ~Pends(h, at, s) /\ Joining(h, s) = FALSE
    BY <1>1 DEF Pends
  <2> HIDE DEF at
  <2> QED
    BY <1>1, <2>1 DEF Settled
<1>3. n \in Tree /\ Within(n) = Within(pc)
  BY <1>1, PlacedIs
<1>4. s = Head(h.readylist)
  BY DEF Readylist
<1>5. Pending(h, pc) = u
  BY DEF Pending, Timed
<1> HIDE DEF s, n, t, b, v, u, at, to
<1>6. b = In(pc) /\ b \in Scopes
  <2>1. Fits(Within(pc), Frames(h, s)[1], FALSE) /\ Len(Frames(h, s)) > 0
    <3>1. PICK j \in BOOLEAN : j = FALSE /\ Stands(Frames(h, s), pc, j, h.fork[s])
      BY <1>2
    <3> QED
      BY <1>1, <3>1, StandsAt
  <2>2. /\ h.context[s] \in Seq(CONTEXT) /\ h.context[s] # <<>> /\ 1 \in 1 .. Len(h.context[s])
        /\ Frames(h, s)[1] = h.member[h.context[s][1]] /\ h.context[s][1] \in CONTEXT
    <3>1. h.context[s] \in Seq(CONTEXT)
      BY <1>1 DEF HState
    <3>2. Len(Frames(h, s)) = Len(h.context[s]) /\ Len(h.context[s]) \in Nat
      BY <1>1, FramesIs
    <3>3. 1 \in 1 .. Len(h.context[s]) /\ h.context[s] # <<>>
      BY <2>1, <3>1, <3>2
    <3> QED
      BY <1>1, <3>1, <3>3, FramesIs
  <2>3. b = Frames(h, s)[1].scope
    BY <2>2 DEF b
  <2>4. PICK m : m = Frames(h, s)[1]
    OBVIOUS
  <2>5. m.scope = In(pc)
    <3>1. PICK j \in BOOLEAN : Fits(Within(pc), m, j)
      BY <2>1, <2>4
    <3> QED
      BY <1>1, <3>1, FitsIn
  <2>6. h.member[h.context[s][1]].scope \in Scopes
    BY <1>1, <2>2 DEF HState, Frame
  <2> QED
    BY <2>2, <2>3, <2>4, <2>5, <2>6
<1>7. t \in SCB /\ t \in Range(h.freelist) /\ Range(Tail(h.freelist)) = Range(h.freelist) \ {t}
      /\ IsInjective(Tail(h.freelist))
  <2>1. h.freelist \in Seq(SCB) /\ IsInjective(h.freelist)
    BY <1>1 DEF HState, Threaded
  <2> QED
    BY <2>1, TailFacts DEF t
<1>8. h.list[t] = "FREE" /\ t # s /\ t \notin Range(h.readylist) /\ t \notin Range(h.timelist)
  BY <1>1, <1>7 DEF Threaded
<1>9. h.context[t] = <<>> /\ h.here[t] = NULL
  <2>1. Settled(h, at, t) /\ Waiters(h)
    BY <1>1, <1>7 DEF Agree
  <2> QED
    BY <1>7, <1>8, <2>1 DEF Settled, Waiters, Awaiting
<1>10. /\ v \in HState /\ Owned(v) /\ v.waiter = h.waiter /\ v.event_chain = h.event_chain
       /\ v.readylist = h.readylist /\ v.timelist = h.timelist /\ v.freelist = Tail(h.freelist)
       /\ v.list[t] = "NOLIST" /\ v.pc[t] = pc /\ v.mode[t] = "RUN" /\ v.fork[t] = NULL
       /\ v.fork_count[t] = 0 /\ v.here[t] = NULL /\ Frames(v, t) = <<[scb |-> t, scope |-> b, pc |-> NULL]>>
       /\ \A r \in SCB \ {t} : SameProcess(h, v, r) /\ v.fork_count[r] = h.fork_count[r] /\ v.here[r] = h.here[r]
  <2>1. t = Head(h.freelist) /\ pc \in Statements /\ 1 \in Nat /\ 1 > 0
    BY <1>1 DEF t, Statements, Tree
  <2> QED
    BY <1>1, <1>6, <1>7, <1>9, <2>1, Builds DEF v
<1>11. /\ u \in HState /\ SameStacks(v, u) /\ SameEvents(v, u)
       /\ u.pc = v.pc /\ u.fork = v.fork /\ u.fork_count = v.fork_count
       /\ u.readylist = v.readylist /\ u.timelist = Append(v.timelist, t) /\ u.freelist = v.freelist
       /\ u.list[t] = "TIME" /\ u.mode[t] = "WAIT"
       /\ \A r \in SCB \ {t} : u.list[r] = v.list[r] /\ u.mode[r] = v.mode[r]
  BY <1>7, <1>10, TimedIs DEF u
<1>12. Owned(u) /\ (\A r : Frames(u, r) = Frames(v, r)) /\ u.context = v.context
  BY <1>10, <1>11, SameStacksOwned DEF SameStacks
<1>13. \A r \in SCB \ {t} : SameProcess(h, u, r)
  BY <1>10, <1>11, <1>12 DEF SameProcess
<1>14. Threaded(u)
  <2>1. h.timelist \in Seq(SCB) /\ IsInjective(h.timelist)
    BY <1>1 DEF HState, Threaded
  <2>2. Gained(Append(h.timelist, t), h.timelist, SCB, t)
    BY <1>7, <1>8, <2>1, AppendGains
  <2>3. IsInjective(u.readylist) /\ Range(u.readylist) = (Range(h.readylist) \ {t}) \cup {}
    BY <1>1, <1>8, <1>10, <1>11 DEF Threaded
  <2>4. IsInjective(u.timelist) /\ Range(u.timelist) = (Range(h.timelist) \ {t}) \cup {t}
    BY <1>8, <1>10, <1>11, <2>2 DEF Gained
  <2>5. IsInjective(u.freelist) /\ Range(u.freelist) = (Range(h.freelist) \ {t}) \cup {}
    BY <1>7, <1>10, <1>11
  <2>6. \A r \in SCB \ {t} : u.list[r] = h.list[r]
    BY <1>13 DEF SameProcess
  <2> QED
    BY <1>1, <1>7, <1>11, <2>3, <2>4, <2>5, <2>6, Relisted
<1>15. SameEvents(h, u)
  <2>1. u.here \in [SCB -> SCB \cup {NULL}] /\ h.here \in [SCB -> SCB \cup {NULL}]
    BY <1>1, <1>11 DEF HState
  <2>2. \A r \in SCB : u.here[r] = h.here[r]
    BY <1>9, <1>10, <1>11 DEF SameEvents
  <2> QED
    BY <1>10, <1>11, <2>1, <2>2 DEF SameEvents
<1>16. Forking(u)
  <2>1. Forking(h) /\ Cardinality(SCB) \in Nat
    BY <1>1, ContextsAssumption, FS_CardinalityType DEF Agree
  <2>2. \A r \in SCB : Joining(u, r) <=> Joining(h, r)
    BY <1>8, <1>11, <1>13 DEF Joining, SameProcess
  <2>3. u.fork[t] = NULL /\ u.fork_count[t] = 0 /\ NULL \notin SCB
    BY <1>10, <1>11, ContextsAssumption
  <2>4. \A f \in SCB : Arms(u, f) = Arms(h, f)
    BY <1>8, <1>13, <2>3 DEF Arms, SameProcess
  <2>5. \A r \in SCB : h.fork[r] \in SCB \cup {NULL}
    BY <1>1 DEF HState
  <2>6. \A r \in SCB : u.list[r] # "FREE" /\ u.fork[r] # NULL => Joining(u, u.fork[r])
    BY <1>13, <2>1, <2>2, <2>3, <2>5 DEF Forking, SameProcess
  <2>7. \A f \in SCB : Joining(u, f) => u.fork_count[f] > 0 /\ u.fork_count[f] = Cardinality(Arms(u, f))
    <3>1. \A f \in SCB : Joining(u, f) => f # t
      BY <1>11 DEF Joining
    <3> QED
      BY <1>10, <1>11, <2>1, <2>2, <2>4, <3>1 DEF Forking
  <2>8. \A f \in SCB : u.fork_count[f] \in 0 .. Cardinality(SCB)
    <3>1. 0 \in 0 .. Cardinality(SCB)
      BY <2>1
    <3> QED
      BY <1>10, <1>11, <2>1, <2>3, <3>1 DEF Forking
  <2> QED
    BY <2>6, <2>7, <2>8 DEF Forking
<1>17. Waiters(u)
  <2>1. \A r \in SCB : IF Awaiting(h, r) THEN u.list[r] = "EVENT" /\ u.pc[r] = h.pc[r] ELSE ~Awaiting(u, r)
    BY <1>8, <1>11, <1>13 DEF Awaiting, SameProcess
  <2> QED
    BY <1>1, <1>15, <2>1, WaitersStay DEF Agree
<1>18. ASSUME NEW r \in SCB PROVE Settled(u, to, r)
  <2>0. u.readylist = h.readylist /\ to[r] = IF r = s THEN n ELSE u.pc[r]
    BY <1>1, <1>4, <1>10, <1>11 DEF to, Place
  <2>1. CASE r = t
    <3>1. to[r] = pc /\ u.list[r] = "TIME" /\ Pends(u, to, r) /\ u.fork[r] = NULL
      BY <1>1, <1>8, <1>10, <1>11, <2>0, <2>1 DEF Pends
    <3>2. Frames(u, r) = Alone(pc, r)
      BY <1>6, <1>10, <1>12, <2>1 DEF Alone
    <3> QED
      BY <1>1, <3>1, <3>2 DEF Settled
  <2>2. CASE r = s
    <3>1. SameProcess(h, u, s) /\ to[s] = n
      BY <1>8, <1>13, <2>0, <2>2, s \in SCB
    <3>2. u.list[s] = "READY" /\ u.mode[s] = "RUN" /\ u.fork[s] = h.fork[s] /\ Frames(u, s) = Frames(h, s)
      BY <1>1, <3>1 DEF SameProcess, s
    <3>3. Stands(Frames(h, s), n, FALSE, h.fork[s])
      BY <1>1, <1>2, <1>3, StandsMoves
    <3>4. ~Pends(u, to, s) /\ Joining(u, s) = FALSE
      BY <3>2 DEF Pends, Joining
    <3> QED
      BY <2>2, <3>1, <3>2, <3>3, <3>4 DEF Settled
  <2>3. CASE r \notin {s, t}
    <3>1. SameProcess(h, u, r)
      BY <1>13, <2>3
    <3>2. to[r] = at[r]
      BY <1>4, <2>0, <2>3, <3>1 DEF at, Place, SameProcess
    <3>3. Settled(h, at, r)
      BY <1>1 DEF Agree
    <3> QED
      BY <3>1, <3>2, <3>3, SettledStays
  <2> QED
    BY <2>1, <2>2, <2>3
<1>19. Agree(u, to)
  BY <1>11, <1>12, <1>14, <1>16, <1>17, <1>18 DEF Agree
<1>20. \A r \in SCB \ {t} : u.list[r] = h.list[r] /\ u.mode[r] = h.mode[r] /\ u.pc[r] = h.pc[r]
  BY <1>13 DEF SameProcess
<1> QED
  BY <1>3, <1>5, <1>7, <1>10, <1>11, <1>19, <1>20 DEF to, t, n

(* The assignment stores, and its process is over.                         *)
LEMMA PendingEnds ==
  ASSUME IInv, Executing("nonblocking"), h.mode[Readylist] = "WAIT", h.context[Readylist] # <<>>
  PROVE  LET u == Dumped(exit_context(Running(h), Readylist))
         IN /\ Agree(u, u.pc) /\ u.list[Readylist] = "FREE"
            /\ \A t \in SCB \ {Readylist} : u.list[t] = h.list[t] /\ u.mode[t] = h.mode[t] /\ u.pc[t] = h.pc[t]
<1> DEFINE s == Readylist
           g == Running(h)
           v == exit_context(g, s)
           u == Dumped(v)
           at == Place(h, pc)
<1>1. /\ program \in Programs /\ pc \in Tree /\ Code(pc) = "nonblocking" /\ s \in SCB
      /\ h \in HState /\ Owned(h) /\ Threaded(h) /\ h.list[s] = "READY" /\ h.readylist # <<>> /\ Agree(h, at)
      /\ Frames(h, s) \in Seq(Frame) /\ Settled(h, at, s) /\ at[s] = pc
  <2>1. "nonblocking" # "none"
    OBVIOUS
  <2> QED
    BY <2>1, ExecutesAny
<1>2. h.fork[s] = NULL /\ Frames(h, s) = Alone(pc, s)
  <2>1. Pends(h, at, s)
    BY <1>1 DEF Pends
  <2> HIDE DEF at
  <2> QED
    BY <1>1, <2>1 DEF Settled
<1>3. s = Head(h.readylist)
  BY DEF Readylist
<1>4. /\ g \in HState /\ SameLists(h, g) /\ SameStacks(h, g) /\ SameEvents(h, g)
      /\ g.pc = h.pc /\ g.fork = h.fork /\ g.fork_count = h.fork_count
      /\ \A t \in SCB \ {s} : g.mode[t] = h.mode[t]
  BY <1>1, RunningIs
<1> HIDE DEF s, g, v, u, at
<1>5. Owned(g) /\ (\A t : Frames(g, t) = Frames(h, t)) /\ g.context = h.context
  BY <1>1, <1>4, SameStacksOwned DEF SameStacks
<1>6. /\ v \in HState /\ SameLists(g, v) /\ SameRun(g, v) /\ SameEvents(g, v) /\ Owned(v)
      /\ Frames(v, s) = Tail(Frames(h, s))
      /\ \A t \in SCB \ {s} : v.context[t] = h.context[t] /\ Frames(v, t) = Frames(h, t)
  <2>1. g.context[s] # <<>>
    BY <1>5 DEF s
  <2>2. /\ v \in HState /\ SameLists(g, v) /\ SameRun(g, v) /\ SameEvents(g, v) /\ Owned(v)
        /\ Frames(v, s) = Tail(Frames(g, s))
        /\ \A t \in SCB \ {s} : v.context[t] = g.context[t] /\ Frames(v, t) = Frames(g, t)
    BY <1>1, <1>4, <1>5, <2>1, Exits DEF v
  <2> QED
    BY <1>5, <2>2
<1>7. Threaded(v) /\ v.readylist = h.readylist /\ v.list = h.list
  BY <1>1, <1>4, <1>6 DEF Threaded, SameLists
<1>8. Len(Frames(v, s)) <= 1
  <2>1. Frames(v, s) = <<>>
    BY <1>2, <1>6 DEF Alone
  <2> QED
    BY <2>1, EmptyFacts
<1>9. /\ u \in HState /\ Threaded(u) /\ Owned(u) /\ SameRun(v, u) /\ SameEvents(v, u)
      /\ u.list[s] = "FREE" /\ u.context[s] = <<>>
      /\ \A t \in SCB \ {s} : u.list[t] = v.list[t] /\ u.context[t] = v.context[t] /\ Frames(u, t) = Frames(v, t)
  BY <1>1, <1>3, <1>6, <1>7, <1>8, Dumps DEF u
<1>10. u.pc = h.pc /\ u.fork = h.fork /\ u.fork_count = h.fork_count /\ SameEvents(h, u)
  BY <1>4, <1>6, <1>9 DEF SameRun, SameEvents
<1>11. \A t \in SCB \ {s} : /\ u.list[t] = h.list[t] /\ u.mode[t] = h.mode[t]
                            /\ u.context[t] = h.context[t] /\ Frames(u, t) = Frames(h, t)
  BY <1>4, <1>6, <1>7, <1>9 DEF SameRun
<1>12. Agree(u, u.pc)
  BY <1>1, <1>2, <1>3, <1>9, <1>10, <1>11, LoneEnds DEF at
<1> QED
  BY <1>9, <1>10, <1>11, <1>12 DEF u, v, g, s

LEMMA NonBlockingKeeps ==
  ASSUME IInv, NonBlocking
  PROVE  IInv'
<1> DEFINE n == Stmt(pc).chain
           u == Pending(h, pc)
<1>1. Executing("nonblocking")
  BY DEF NonBlocking
<1>2. program \in Programs /\ scope = NULL /\ walk = <<>> /\ Readylist \in SCB /\ h \in HState /\ h.readylist # <<>>
  <2>1. "nonblocking" # "none"
    OBVIOUS
  <2> QED
    BY <1>1, <2>1, ExecutesAny
<1>3. CASE h.context[Readylist] = <<>>
  <2>1. Fail
    BY <1>3 DEF NonBlocking
  <2> QED
    BY <2>1, Fails
<1>4. CASE h.context[Readylist] # <<>> /\ h.mode[Readylist] = "WAIT"
  <2>1. Dispatch(Dumped(exit_context(Running(h), Readylist)))
    BY <1>4 DEF NonBlocking
  <2> QED
    BY <1>1, <1>2, <1>4, <2>1, PendingEnds, DispatchKeeps
<1>5. CASE h.context[Readylist] # <<>> /\ h.mode[Readylist] # "WAIT"
  <2>1. h.mode[Readylist] = "RUN"
    BY <1>2, <1>5 DEF HState
  <2>2. h.freelist # <<>> /\ CanMake(h, 1) /\ Continue(u, n)
    BY <1>5 DEF NonBlocking
  <2>3. n \in Tree /\ Agree(u, Place(u, n)) /\ u.readylist = h.readylist
    BY <1>1, <1>5, <2>1, <2>2, PendingIs
  <2>4. n # IDLE
    BY <1>2, <2>3, TreeIs
  <2> HIDE DEF n, u
  <2> QED
    BY <1>2, <2>2, <2>3, <2>4, ContinueKeeps
<1> QED
  BY <1>3, <1>4, <1>5

(* An arm is put on the ready list, for the fork at its head.              *)
Ranged(g, q, t, s, i) ==
  [g EXCEPT !.readylist = q, !.list[t] = "READY", !.stray = IF Len(g.readylist) = i THEN NULL ELSE @, !.fork[t] = s, !.fork_count[s] = @ + 1]

LEMMA RangedIs ==
  ASSUME NEW g \in HState, NEW q \in Seq(SCB), NEW t \in SCB, NEW s \in SCB, NEW i
  PROVE  LET u == Ranged(g, q, t, s, i)
         IN /\ u \in HState /\ SameStacks(g, u) /\ SameEvents(g, u) /\ u.pc = g.pc /\ u.mode = g.mode
            /\ u.readylist = q /\ u.timelist = g.timelist /\ u.freelist = g.freelist
            /\ u.list[t] = "READY" /\ u.fork[t] = s /\ \A r \in SCB \ {t} : u.list[r] = g.list[r] /\ u.fork[r] = g.fork[r]
            /\ u.fork_count[s] = g.fork_count[s] + 1 /\ \A r \in SCB \ {s} : u.fork_count[r] = g.fork_count[r]
<1> DEFINE a == [g.list EXCEPT ![t] = "READY"]
           d == [g.fork EXCEPT ![t] = s]
           e == [g.fork_count EXCEPT ![s] = @ + 1]
           u == Ranged(g, q, t, s, i)
<1>1. a \in [SCB -> {"READY", "TIME", "EVENT", "FREE", "NOLIST"}] /\ a[t] = "READY" /\ \A r \in SCB \ {t} : a[r] = g.list[r]
  BY DEF HState
<1>2. d \in [SCB -> SCB \cup {NULL}] /\ d[t] = s /\ \A r \in SCB \ {t} : d[r] = g.fork[r]
  BY DEF HState
<1>3. e \in [SCB -> Int] /\ e[s] = g.fork_count[s] + 1 /\ \A r \in SCB \ {s} : e[r] = g.fork_count[r]
  BY DEF HState
<1>4. u = [g EXCEPT !.readylist = q, !.list = a, !.stray = NULL, !.fork = d, !.fork_count = e]
  BY DEF Ranged, HState
<1> HIDE DEF a, d, e, u
<1>5. /\ u \in HState /\ SameStacks(g, u) /\ SameEvents(g, u) /\ u.pc = g.pc /\ u.mode = g.mode
      /\ u.readylist = q /\ u.timelist = g.timelist /\ u.freelist = g.freelist
      /\ u.list = a /\ u.fork = d /\ u.fork_count = e
  BY <1>1, <1>2, <1>3, <1>4 DEF HState, SameStacks, SameEvents
<1> QED
  BY <1>1, <1>2, <1>3, <1>5 DEF u

Thread(g, i) ==
  LET arm == Head(g.freelist)
      u == BuildSCB(g, Stmt(pc).arms[i], Stmt(pc).block)
  IN Ranged(u, InsertAt(u.readylist, i + 1, arm), arm, Readylist, i)

Made(g) == {t \in SCB : h.list[t] = "FREE" /\ g.list[t] # "FREE"}

(* k arms of the fork at pc have been made.                                *)
ForkedSoFar(k, g) ==
  LET s == Readylist
      n == Len(Stmt(pc).arms)
      b == Stmt(pc).block
  IN /\ g \in HState /\ Threaded(g) /\ Owned(g) /\ CanMake(g, n - k) /\ Len(g.freelist) >= n - k
     /\ g.readylist # <<>> /\ Head(g.readylist) = s /\ Len(g.readylist) > k
     /\ SameEvents(h, g)
     /\ g.list[s] = "READY" /\ g.fork[s] = h.fork[s]
     /\ Frames(g, s) = <<[scb |-> s, scope |-> b, pc |-> PastJoin(pc)]>> \o Frames(h, s)
     /\ g.fork_count[s] = k /\ IsFiniteSet(Made(g)) /\ Cardinality(Made(g)) = k
     /\ \A t \in Made(g) : /\ g.list[t] = "READY" /\ g.mode[t] = "RUN" /\ g.fork[t] = s /\ g.fork_count[t] = 0
                           /\ g.pc[t] \in Tree /\ Within(g.pc[t]) = pc
                           /\ Frames(g, t) = <<[scb |-> t, scope |-> b, pc |-> NULL]>>
     /\ \A t \in SCB \ {s} : t \notin Made(g) => SameProcess(h, g, t) /\ g.fork_count[t] = h.fork_count[t]

LEMMA Threads ==
  ASSUME IInv, Code(pc) \in Forks, NEW code, code \notin {"none", "nonblocking"}, Executing(code),
         NEW k \in Nat, k < Len(Stmt(pc).arms), NEW g, ForkedSoFar(k, g)
  PROVE  ForkedSoFar(k + 1, Thread(g, k + 1))
<1> DEFINE s == Readylist
           A == Stmt(pc).arms
           n == Len(A)
           b == Stmt(pc).block
           t == Head(g.freelist)
           u == BuildSCB(g, A[k + 1], b)
           q == InsertAt(u.readylist, k + 1 + 1, t)
           v == Ranged(u, q, t, s, k + 1)
<1>1. /\ program \in Programs /\ pc \in Tree /\ s \in SCB /\ h.list[s] = "READY" /\ h \in HState /\ Agree(h, Place(h, pc))
      /\ s = Head(h.readylist) /\ h.readylist # <<>>
  BY Executes DEF Readylist
<1>2. /\ A \in Seq(Tree) /\ n \in Nat /\ k + 1 \in 1 .. n /\ A[k + 1] \in Tree /\ Within(A[k + 1]) = pc /\ b \in Scopes
  <2>1. A \in Seq(Tree)
    BY <1>1, TreeIs
  <2>2. n \in Nat /\ k + 1 \in 1 .. n
    BY <2>1
  <2>3. b \in Scopes /\ \A i \in 1 .. n : A[i] \in Tree /\ Within(A[i]) = pc
    BY <1>1, PlacedIs
  <2> QED
    BY <2>1, <2>2, <2>3
<1>3. Thread(g, k + 1) = v
  BY DEF Thread
<1> HIDE DEF s, A, b, t, u, q, v
<1>4. /\ g \in HState /\ Threaded(g) /\ Owned(g) /\ CanMake(g, n - k) /\ Len(g.freelist) >= n - k
      /\ g.readylist # <<>> /\ Head(g.readylist) = s /\ Len(g.readylist) > k
      /\ SameEvents(h, g)
      /\ g.list[s] = "READY" /\ g.fork[s] = h.fork[s]
      /\ Frames(g, s) = <<[scb |-> s, scope |-> b, pc |-> PastJoin(pc)]>> \o Frames(h, s)
      /\ g.fork_count[s] = k /\ IsFiniteSet(Made(g)) /\ Cardinality(Made(g)) = k
      /\ \A r \in Made(g) : /\ g.list[r] = "READY" /\ g.mode[r] = "RUN" /\ g.fork[r] = s /\ g.fork_count[r] = 0
                            /\ g.pc[r] \in Tree /\ Within(g.pc[r]) = pc
                            /\ Frames(g, r) = <<[scb |-> r, scope |-> b, pc |-> NULL]>>
      /\ \A r \in SCB \ {s} : r \notin Made(g) => SameProcess(h, g, r) /\ g.fork_count[r] = h.fork_count[r]
  BY DEF ForkedSoFar, s, A, b
<1>5. g.freelist \in Seq(SCB) /\ g.freelist # <<>> /\ IsInjective(g.freelist) /\ Len(g.freelist) \in Nat
  <2>1. g.freelist \in Seq(SCB) /\ IsInjective(g.freelist)
    BY <1>4 DEF HState, Threaded
  <2>2. Len(g.freelist) >= 1
    BY <1>2, <1>4, <2>1
  <2> QED
    BY <2>1, <2>2, LongerIs
<1>6. t \in SCB /\ t \in Range(g.freelist) /\ Len(Tail(g.freelist)) = Len(g.freelist) - 1
      /\ Range(Tail(g.freelist)) = Range(g.freelist) \ {t}
      /\ Tail(g.freelist) \in Seq(SCB) /\ IsInjective(Tail(g.freelist))
  BY <1>5, TailFacts DEF t
<1>7. g.list[t] = "FREE" /\ t # s /\ t \notin Made(g) /\ SameProcess(h, g, t) /\ h.list[t] = "FREE"
  BY <1>4, <1>6 DEF Threaded, Made, SameProcess
<1>8. g.context[t] = <<>> /\ h.here[t] = NULL
  <2>1. Settled(h, Place(h, pc), t) /\ Waiters(h)
    BY <1>1, <1>6 DEF Agree
  <2>2. h.context[t] = <<>>
    BY <1>7, <2>1 DEF Settled, Pends
  <2> QED
    BY <1>6, <1>7, <2>1, <2>2 DEF SameProcess, Waiters, Awaiting
<1>9. n - k \in Nat /\ n - k > 0 /\ n - k - 1 = n - (k + 1) /\ A[k + 1] \in Statements
  BY <1>2 DEF Statements, Tree
<1>10. /\ u \in HState /\ Owned(u) /\ CanMake(u, n - (k + 1)) /\ u.waiter = g.waiter /\ u.event_chain = g.event_chain
       /\ u.readylist = g.readylist /\ u.timelist = g.timelist /\ u.freelist = Tail(g.freelist)
       /\ u.list[t] = "NOLIST" /\ u.pc[t] = A[k + 1] /\ u.mode[t] = "RUN" /\ u.fork[t] = NULL
       /\ u.fork_count[t] = 0 /\ u.here[t] = NULL /\ Frames(u, t) = <<[scb |-> t, scope |-> b, pc |-> NULL]>>
       /\ \A r \in SCB \ {t} : SameProcess(g, u, r) /\ u.fork_count[r] = g.fork_count[r] /\ u.here[r] = g.here[r]
  <2>1. t = Head(g.freelist)
    BY DEF t
  <2>2. CanMake(u, n - k - 1) => CanMake(u, n - (k + 1))
    BY <1>9
  <2> DEFINE j == n - k
             start == A[k + 1]
  <2>3. /\ g \in HState /\ Threaded(g) /\ Owned(g) /\ g.freelist # <<>> /\ t \in SCB /\ g.context[t] = <<>>
        /\ start \in Statements /\ b \in Scopes /\ j \in Nat /\ j > 0 /\ CanMake(g, j)
    BY <1>2, <1>4, <1>5, <1>6, <1>8, <1>9
  <2>4. u = BuildSCB(g, start, b)
    BY DEF u
  <2> HIDE DEF j, start
  <2>5. /\ u \in HState /\ Owned(u) /\ CanMake(u, j - 1) /\ u.waiter = g.waiter /\ u.event_chain = g.event_chain
        /\ u.readylist = g.readylist /\ u.timelist = g.timelist /\ u.freelist = Tail(g.freelist)
        /\ u.list[t] = "NOLIST" /\ u.pc[t] = start /\ u.mode[t] = "RUN" /\ u.fork[t] = NULL
        /\ u.fork_count[t] = 0 /\ u.here[t] = NULL /\ Frames(u, t) = <<[scb |-> t, scope |-> b, pc |-> NULL]>>
        /\ \A r \in SCB \ {t} : SameProcess(g, u, r) /\ u.fork_count[r] = g.fork_count[r] /\ u.here[r] = g.here[r]
    BY ONLY <2>1, <2>3, <2>4, Builds
  <2> QED
    BY <2>2, <2>5 DEF j, start
<1>11. /\ q \in Seq(SCB) /\ Gained(q, g.readylist, SCB, t) /\ Head(q) = s /\ Len(q) = Len(g.readylist) + 1
       /\ t \notin Range(g.readylist) /\ t \notin Range(g.timelist) /\ Len(g.readylist) \in Nat
  <2>0. g \in HState /\ Threaded(g) /\ t \in SCB /\ g.list[t] = "FREE"
    BY <1>4, <1>6, <1>7
  <2>1. t \notin Range(g.readylist) /\ t \notin Range(g.timelist) /\ Len(g.readylist) \in Nat
    <3>1. t \notin Range(g.readylist) /\ t \notin Range(g.timelist)
      BY <2>0 DEF Threaded
    <3>2. g.readylist \in Seq(SCB)
      BY <2>0 DEF HState
    <3> QED
      BY <3>1, <3>2
  <2>2. k + 1 + 1 \in 2 .. Len(g.readylist) + 1
    BY <1>4, <2>1
  <2>3. q = InsertAt(g.readylist, k + 1 + 1, t)
    BY <1>10 DEF q
  <2> QED
    BY <1>4, <1>6, <2>1, <2>2, <2>3, InsertsBehind
<1>12. /\ v \in HState /\ SameStacks(u, v) /\ SameEvents(u, v) /\ v.pc = u.pc /\ v.mode = u.mode
       /\ v.readylist = q /\ v.timelist = u.timelist /\ v.freelist = u.freelist
       /\ v.list[t] = "READY" /\ v.fork[t] = s /\ \A r \in SCB \ {t} : v.list[r] = u.list[r] /\ v.fork[r] = u.fork[r]
       /\ v.fork_count[s] = u.fork_count[s] + 1 /\ \A r \in SCB \ {s} : v.fork_count[r] = u.fork_count[r]
  <2>1. u \in HState /\ q \in Seq(SCB) /\ t \in SCB /\ s \in SCB
    BY <1>1, <1>6, <1>10, <1>11
  <2> QED
    BY <2>1, RangedIs DEF v
<1>13. Owned(v) /\ CanMake(v, n - (k + 1)) /\ (\A r : Frames(v, r) = Frames(u, r)) /\ v.context = u.context
  BY <1>10, <1>12, SameStacksOwned DEF SameStacks
<1>14. \A r \in SCB \ {t} : v.list[r] = g.list[r]
  BY <1>10, <1>12 DEF SameProcess
<1>15. Threaded(v)
  <2>1. Range(v.readylist) = (Range(g.readylist) \ {t}) \cup {t} /\ IsInjective(v.readylist)
    BY <1>11, <1>12 DEF Gained
  <2>2. Range(v.timelist) = (Range(g.timelist) \ {t}) \cup {} /\ IsInjective(v.timelist)
    BY <1>4, <1>10, <1>11, <1>12 DEF Threaded
  <2>3. Range(v.freelist) = (Range(g.freelist) \ {t}) \cup {} /\ IsInjective(v.freelist)
    BY <1>6, <1>10, <1>12
  <2> QED
    BY <1>4, <1>6, <1>12, <1>14, <2>1, <2>2, <2>3, Relisted
<1>16. SameEvents(h, v)
  <2>1. v.here = h.here
    <3>1. v.here \in [SCB -> SCB \cup {NULL}] /\ h.here \in [SCB -> SCB \cup {NULL}]
      BY <1>1, <1>12 DEF HState
    <3>2. \A r \in SCB : v.here[r] = h.here[r]
      BY <1>4, <1>8, <1>10, <1>12 DEF SameEvents
    <3> QED
      BY <3>1, <3>2
  <2> QED
    BY <1>4, <1>10, <1>12, <2>1 DEF SameEvents
<1>17. Made(v) = Made(g) \cup {t}
  BY <1>6, <1>7, <1>12, <1>14 DEF Made
<1>18. IsFiniteSet(Made(v)) /\ Cardinality(Made(v)) = k + 1
  BY <1>4, <1>7, <1>17, FS_AddElement
<1>19. Len(v.freelist) >= n - (k + 1) /\ Len(v.readylist) > k + 1 /\ v.readylist # <<>> /\ Head(v.readylist) = s
  BY <1>2, <1>4, <1>5, <1>6, <1>10, <1>11, <1>12 DEF Gained
<1>20. /\ v.list[s] = "READY" /\ v.fork[s] = h.fork[s] /\ v.fork_count[s] = k + 1
       /\ Frames(v, s) = <<[scb |-> s, scope |-> b, pc |-> PastJoin(pc)]>> \o Frames(h, s)
  BY <1>1, <1>4, <1>7, <1>10, <1>12, <1>13, SMTT(30) DEF SameProcess
<1>21. ASSUME NEW r \in Made(v)
       PROVE  /\ v.list[r] = "READY" /\ v.mode[r] = "RUN" /\ v.fork[r] = s /\ v.fork_count[r] = 0
              /\ v.pc[r] \in Tree /\ Within(v.pc[r]) = pc
              /\ Frames(v, r) = <<[scb |-> r, scope |-> b, pc |-> NULL]>>
  <2>1. CASE r = t
    BY <1>2, <1>6, <1>7, <1>10, <1>12, <1>13, <2>1
  <2>2. CASE r # t
    <3>1. r \in Made(g) /\ r \in SCB \ {t} /\ r # s
      BY <1>1, <1>17, <2>2 DEF Made
    <3>2. SameProcess(g, u, r) /\ v.fork_count[r] = g.fork_count[r]
      BY <1>10, <1>12, <3>1
    <3> QED
      BY <1>4, <1>12, <1>13, <3>1, <3>2 DEF SameProcess
  <2> QED
    BY <2>1, <2>2
<1>22. ASSUME NEW r \in SCB \ {s}, r \notin Made(v)
       PROVE  SameProcess(h, v, r) /\ v.fork_count[r] = h.fork_count[r]
  <2>1. r # t /\ r \notin Made(g)
    BY <1>17, <1>22
  <2>2. SameProcess(h, g, r) /\ g.fork_count[r] = h.fork_count[r] /\ SameProcess(g, u, r) /\ u.fork_count[r] = g.fork_count[r]
    BY <1>4, <1>10, <2>1
  <2> QED
    BY <1>12, <1>13, <2>1, <2>2 DEF SameProcess
<1>23. ForkedSoFar(k + 1, v)
  BY <1>12, <1>13, <1>15, <1>16, <1>18, <1>19, <1>20, <1>21, <1>22 DEF ForkedSoFar, s, A, b
<1> QED
  BY <1>3, <1>23

Uncounted(g, s) == [g EXCEPT !.fork_count[s] = 0]
Forked == Uncounted(enter_context(h, Readylist, Stmt(pc).block, PastJoin(pc)), Readylist)

LEMMA UncountedIs ==
  ASSUME NEW g \in HState, NEW f \in SCB
  PROVE  LET u == Uncounted(g, f)
         IN /\ u \in HState /\ SameLists(g, u) /\ SameStacks(g, u) /\ SameEvents(g, u)
            /\ u.pc = g.pc /\ u.mode = g.mode /\ u.fork = g.fork
            /\ u.fork_count[f] = 0 /\ \A t \in SCB \ {f} : u.fork_count[t] = g.fork_count[t]
<1> DEFINE k == [g.fork_count EXCEPT ![f] = 0]
<1>1. /\ k \in [SCB -> Int] /\ k[f] = 0 /\ \A t \in SCB \ {f} : k[t] = g.fork_count[t]
  BY DEF HState
<1>2. Uncounted(g, f) = [g EXCEPT !.fork_count = k]
  BY DEF Uncounted, HState
<1> HIDE DEF k
<1> QED
  BY <1>1, <1>2 DEF HState, SameLists, SameStacks, SameEvents

LEMMA ForkBegins ==
  ASSUME IInv, Code(pc) \in Forks, NEW code, code \notin {"none", "nonblocking"}, Executing(code),
         Len(h.freelist) >= Len(Stmt(pc).arms), CanMake(h, Len(Stmt(pc).arms) + 1)
  PROVE  ForkedSoFar(0, Forked)
<1> DEFINE s == Readylist
           n == Len(Stmt(pc).arms)
           b == Stmt(pc).block
           r == PastJoin(pc)
           g == enter_context(h, s, b, r)
           u == Uncounted(g, s)
<1>1. /\ program \in Programs /\ pc \in Tree /\ s \in SCB /\ h.list[s] = "READY" /\ h \in HState /\ Threaded(h) /\ Owned(h)
      /\ h.readylist # <<>>
  BY Executes
<1>2. s = Head(h.readylist)
  BY DEF Readylist
<1>3. b \in Scopes /\ r \in Statements /\ n \in Nat
  <2>1. Stmt(pc).arms \in Seq(Tree)
    BY <1>1, TreeIs
  <2>2. b \in Scopes /\ r \in Tree
    BY <1>1, PlacedIs
  <2> QED
    BY <2>1, <2>2 DEF Statements, Tree
<1>4. Forked = u
  BY DEF Forked
<1> HIDE DEF s, n, b, r, g, u
<1>5. /\ g \in HState /\ SameLists(h, g) /\ SameRun(h, g) /\ SameEvents(h, g)
      /\ Owned(g) /\ CanMake(g, n)
      /\ Frames(g, s) = <<[scb |-> s, scope |-> b, pc |-> r]>> \o Frames(h, s)
      /\ \A t \in SCB \ {s} : g.context[t] = h.context[t] /\ Frames(g, t) = Frames(h, t)
  <2>1. n + 1 \in Nat /\ n + 1 > 0 /\ n + 1 - 1 = n /\ CanMake(h, n + 1)
    BY <1>3 DEF n
  <2>2. CanMake(g, n + 1 - 1) => CanMake(g, n)
    BY <2>1
  <2> QED
    BY <1>1, <1>3, <2>1, <2>2, Enters DEF g
<1>6. /\ u \in HState /\ SameLists(g, u) /\ SameStacks(g, u) /\ SameEvents(g, u)
      /\ u.pc = g.pc /\ u.mode = g.mode /\ u.fork = g.fork
      /\ u.fork_count[s] = 0 /\ \A t \in SCB \ {s} : u.fork_count[t] = g.fork_count[t]
  BY <1>1, <1>5, UncountedIs DEF u
<1>7. Owned(u) /\ CanMake(u, n - 0) /\ (\A t : Frames(u, t) = Frames(g, t)) /\ u.context = g.context
  <2>1. n - 0 = n
    BY <1>3
  <2>2. CanMake(u, n) => CanMake(u, n - 0)
    BY <2>1
  <2> QED
    BY <1>5, <1>6, <2>2, SameStacksOwned DEF SameStacks
<1>8. Threaded(u) /\ u.list = h.list /\ u.readylist = h.readylist /\ u.freelist = h.freelist
  BY <1>1, <1>5, <1>6 DEF Threaded, SameLists
<1>9. Made(u) = {} /\ IsFiniteSet(Made(u)) /\ Cardinality(Made(u)) = 0
  BY <1>8, FS_EmptySet DEF Made
<1>10. Len(u.readylist) > 0 /\ Len(u.freelist) >= n - 0
  <2>1. h.readylist \in Seq(SCB) /\ Len(h.freelist) >= n
    BY <1>1 DEF HState, n
  <2> QED
    BY <1>1, <1>3, <1>8, <2>1
<1>11. SameEvents(h, u) /\ u.list[s] = "READY" /\ u.fork[s] = h.fork[s]
       /\ Frames(u, s) = <<[scb |-> s, scope |-> b, pc |-> r]>> \o Frames(h, s)
  BY <1>1, <1>5, <1>6, <1>7, <1>8 DEF SameEvents, SameRun
<1>12. \A t \in SCB \ {s} : SameProcess(h, u, t) /\ u.fork_count[t] = h.fork_count[t]
  BY <1>5, <1>6, <1>7, <1>8 DEF SameProcess, SameRun
<1>13. ForkedSoFar(0, u)
  BY <1>1, <1>2, <1>6, <1>7, <1>8, <1>9, <1>10, <1>11, <1>12 DEF ForkedSoFar, s, n, b, r
<1> QED
  BY <1>4, <1>13

(* All arms have been made.                                                *)
LEMMA ForkedIs ==
  ASSUME IInv, Code(pc) \in Forks, NEW code, code \notin {"none", "nonblocking"}, Executing(code),
         Len(h.freelist) >= Len(Stmt(pc).arms), CanMake(h, Len(Stmt(pc).arms) + 1)
  PROVE  LET n == Len(Stmt(pc).arms)
             built[i \in 0 .. n] == IF i = 0 THEN Forked ELSE Thread(built[i - 1], i)
         IN  n \in Nat /\ ForkedSoFar(n, built[n])
<1> DEFINE n == Len(Stmt(pc).arms)
           S == HState
           G == [k \in 0 .. n |-> {g \in S : ForkedSoFar(k, g)}]
           next == [k \in 1 .. n |-> [g \in G[k - 1] |-> Thread(g, k)]]
           Step(f) == [i \in 0 .. n |-> IF i = 0 THEN Forked ELSE Thread(f[i - 1], i)]
           built == CHOOSE f : f = Step(f)
<1>1. n \in Nat
  <2>1. program \in Programs /\ pc \in Tree
    BY Executes
  <2>2. Stmt(pc).arms \in Seq(Tree)
    BY <2>1, TreeIs
  <2> QED
    BY <2>2
<1>2. ForkedSoFar(0, Forked) /\ Forked \in S
  <2>1. ForkedSoFar(0, Forked)
    BY ForkBegins
  <2> QED
    BY <2>1 DEF ForkedSoFar
<1>3. ASSUME NEW k \in 1 .. n, NEW g, ForkedSoFar(k - 1, g) PROVE ForkedSoFar(k, Thread(g, k)) /\ Thread(g, k) \in S
  <2>1. k - 1 \in Nat /\ k - 1 < n /\ k - 1 + 1 = k
    BY <1>1
  <2>2. ForkedSoFar(k - 1 + 1, Thread(g, k - 1 + 1))
    BY <1>3, <2>1, Threads
  <2>3. ForkedSoFar(k, Thread(g, k))
    BY <2>1, <2>2
  <2> QED
    BY <2>3 DEF ForkedSoFar
<1>4. PICK f : /\ f \in [0 .. n -> S] /\ f[0] = Forked
               /\ \A k \in 0 .. n : f[k] \in G[k]
               /\ \A k \in 1 .. n : f[k] = next[k][f[k - 1]]
  <2>1. G \in [0 .. n -> SUBSET S]
    OBVIOUS
  <2>2. Forked \in G[0]
    BY <1>1, <1>2
  <2>3. ASSUME NEW k \in 1 .. n PROVE next[k] \in [G[k - 1] -> G[k]]
    <3>1. k - 1 \in 0 .. n /\ k \in 0 .. n
      BY <1>1
    <3>2. G[k - 1] = {g \in S : ForkedSoFar(k - 1, g)} /\ G[k] = {g \in S : ForkedSoFar(k, g)}
      BY <3>1
    <3>3. next[k] = [g \in G[k - 1] |-> Thread(g, k)]
      OBVIOUS
    <3> HIDE DEF G, next, n, S
    <3>4. \A g \in G[k - 1] : Thread(g, k) \in G[k]
      BY <1>3, <3>2
    <3> QED
      BY <3>3, <3>4
  <2> DEFINE base == Forked
  <2>4. base \in G[0]
    BY <2>2
  <2>5. Leads(n, G, next)
    <3> HIDE DEF G, next, n, S
    <3> QED
      BY <2>3 DEF Leads
  <2>6. base = Forked
    OBVIOUS
  <2> HIDE DEF G, next, n, S, base, Step, built
  <2>7. PICK f : Follows(f, n, S, G, base, next)
    BY <1>1, <2>1, <2>4, <2>5, Stepwise
  <2> QED
    BY <2>6, <2>7 DEF Follows
<1>5. f = Step(f)
  <2>1. ASSUME NEW k \in 1 .. n PROVE f[k] = Thread(f[k - 1], k)
    <3>1. k - 1 \in 0 .. n
      BY <1>1
    <3>2. next[k] = [g \in G[k - 1] |-> Thread(g, k)]
      OBVIOUS
    <3> HIDE DEF next, n, S, G
    <3>3. f[k - 1] \in G[k - 1] /\ f[k] = next[k][f[k - 1]]
      BY <1>4, <3>1
    <3> QED
      BY <3>2, <3>3
  <2> HIDE DEF next, n, S, G
  <2> QED
    BY <1>1, <1>4, <2>1
<1>6. built = Step(built)
  <2>1. \E v : v = Step(v)
    BY <1>5
  <2> HIDE DEF Step
  <2> QED
    BY <2>1
<1> DEFINE T == {k \in 0 .. n : ForkedSoFar(k, built[k])}
<1> HIDE DEF built
<1>7. built[0] = Forked /\ \A k \in 1 .. n : built[k] = Thread(built[k - 1], k)
  <2>1. \A k \in 0 .. n : built[k] = IF k = 0 THEN Forked ELSE Thread(built[k - 1], k)
    <3> HIDE DEF n
    <3> QED
      BY <1>6
  <2> HIDE DEF n
  <2> QED
    BY <1>1, <2>1
<1>8. 0 \in T
  <2> HIDE DEF n
  <2> QED
    BY <1>1, <1>2, <1>7
<1>9. ASSUME NEW k \in 0 .. n - 1, k \in T PROVE k + 1 \in T
  <2>1. k + 1 \in 1 .. n /\ k + 1 - 1 = k /\ k + 1 \in 0 .. n
    BY <1>1
  <2>2. ForkedSoFar(k + 1 - 1, built[k + 1 - 1])
    BY <1>9, <2>1
  <2>3. built[k + 1] = Thread(built[k + 1 - 1], k + 1)
    <3> HIDE DEF n, T
    <3> QED
      BY <1>7, <2>1
  <2>4. ForkedSoFar(k + 1, built[k + 1])
    <3> HIDE DEF n, T, S
    <3> QED
      BY <1>3, <2>1, <2>2, <2>3
  <2> QED
    BY <2>1, <2>4
<1>10. 0 .. n \subseteq T
  <2> HIDE DEF T, n
  <2> QED
    BY <1>1, <1>8, <1>9, Induction
<1>11. ForkedSoFar(n, built[n])
  <2> HIDE DEF n
  <2> QED
    BY <1>1, <1>10
<1> QED
  BY <1>1, <1>11 DEF built

Parked(g, s, p) == [g EXCEPT !.pc[s] = p, !.mode[s] = "WAIT"]

LEMMA ParkedIs ==
  ASSUME NEW g \in HState, NEW s \in SCB, NEW p \in Statements
  PROVE  LET u == Parked(g, s, p)
         IN /\ u \in HState /\ SameLists(g, u) /\ SameStacks(g, u) /\ SameEvents(g, u)
            /\ u.fork = g.fork /\ u.fork_count = g.fork_count /\ u.mode[s] = "WAIT"
            /\ u.pc[s] = p /\ \A t \in SCB \ {s} : u.mode[t] = g.mode[t] /\ u.pc[t] = g.pc[t]
<1> DEFINE a == [g.pc EXCEPT ![s] = p]
           b == [g.mode EXCEPT ![s] = "WAIT"]
           u == Parked(g, s, p)
<1>1. /\ a \in [SCB -> Statements] /\ a[s] = p /\ \A t \in SCB \ {s} : a[t] = g.pc[t]
      /\ b \in [SCB -> {"RUN", "WAIT"}] /\ \A t \in SCB \ {s} : b[t] = g.mode[t]
  BY DEF HState
<1>2. u = [g EXCEPT !.pc = a, !.mode = b] /\ b[s] = "WAIT"
  BY DEF Parked, HState
<1> HIDE DEF a, b, u
<1>3. u.mode[s] = "WAIT"
  BY <1>2 DEF HState
<1>4. /\ u \in HState /\ SameLists(g, u) /\ SameStacks(g, u) /\ SameEvents(g, u)
      /\ u.fork = g.fork /\ u.fork_count = g.fork_count
      /\ u.pc[s] = p /\ \A t \in SCB \ {s} : u.mode[t] = g.mode[t] /\ u.pc[t] = g.pc[t]
  BY <1>1, <1>2 DEF HState, SameLists, SameStacks, SameEvents
<1> QED
  BY <1>3, <1>4 DEF u

(* The fork waits at its join, and its arms are ready.                     *)
LEMMA ForkAgrees ==
  ASSUME IInv, Code(pc) \in Forks, NEW code, code \notin {"none", "nonblocking"}, Executing(code),
         NEW g, ForkedSoFar(Len(Stmt(pc).arms), g),
         NEW go, go = Suspended(Parked(g, Readylist, Stmt(pc).chain), "EVENT")
  PROVE  Agree(go, go.pc) /\ go.readylist # <<>>
<1> DEFINE s == Readylist
           n == Len(Stmt(pc).arms)
           b == Stmt(pc).block
           j == Stmt(pc).chain
           a == Parked(g, s, j)
           m == [scb |-> s, scope |-> b, pc |-> PastJoin(pc)]
<1>1. /\ program \in Programs /\ pc \in Tree /\ s \in SCB /\ h.list[s] = "READY" /\ h \in HState
      /\ h.readylist # <<>> /\ Agree(h, Place(h, pc))
      /\ Frames(h, s) \in Seq(Frame) /\ Stands(Frames(h, s), pc, FALSE, h.fork[s])
  BY Executes
<1>2. s = Head(h.readylist)
  BY DEF Readylist
<1>3. /\ b \in Scopes /\ j \in Tree /\ Code(j) = "join" /\ Within(j) = pc
      /\ PastJoin(pc) \in Tree /\ Within(PastJoin(pc)) = Within(pc) /\ Stmt(pc).arms # <<>>
  BY <1>1, PlacedIs
<1>4. n \in Nat /\ n > 0
  <2>1. Stmt(pc).arms \in Seq(Tree)
    BY <1>1, TreeIs
  <2> QED
    BY <1>3, <2>1
<1>5. /\ g \in HState /\ Threaded(g) /\ Owned(g) /\ g.readylist # <<>> /\ Head(g.readylist) = s /\ Len(g.readylist) > n
      /\ SameEvents(h, g) /\ g.list[s] = "READY" /\ g.fork[s] = h.fork[s]
      /\ Frames(g, s) = <<m>> \o Frames(h, s)
      /\ g.fork_count[s] = n /\ IsFiniteSet(Made(g)) /\ Cardinality(Made(g)) = n
      /\ \A t \in Made(g) : /\ g.list[t] = "READY" /\ g.mode[t] = "RUN" /\ g.fork[t] = s /\ g.fork_count[t] = 0
                            /\ g.pc[t] \in Tree /\ Within(g.pc[t]) = pc
                            /\ Frames(g, t) = <<[scb |-> t, scope |-> b, pc |-> NULL]>>
      /\ \A t \in SCB \ {s} : t \notin Made(g) => SameProcess(h, g, t) /\ g.fork_count[t] = h.fork_count[t]
  BY DEF ForkedSoFar
<1>6. j \in Statements /\ NULL \notin Tree /\ TOP \notin Tree /\ NULL \notin SCB /\ "EVENT" \in {"TIME", "EVENT"}
  <2>1. NULL \notin Tree /\ TOP \notin Tree
    BY <1>1, TreeIs
  <2> QED
    BY <1>3, <2>1, ContextsAssumption DEF Statements, Tree
<1>7. go = Suspended(a, "EVENT")
  OBVIOUS
<1>8. /\ a \in HState /\ SameLists(g, a) /\ SameStacks(g, a) /\ SameEvents(g, a)
      /\ a.fork = g.fork /\ a.fork_count = g.fork_count
      /\ a.pc[s] = j /\ \A t \in SCB \ {s} : a.mode[t] = g.mode[t] /\ a.pc[t] = g.pc[t]
  BY <1>1, <1>5, <1>6, ParkedIs
<1> HIDE DEF s, n, b, j, a, m
<1>9. Threaded(a) /\ Owned(a) /\ a.readylist = g.readylist /\ a.list = g.list
  <2>1. Threaded(a)
    BY <1>5, <1>8 DEF Threaded, SameLists
  <2>2. Owned(a)
    BY <1>5, <1>8, SameStacksOwned
  <2> QED
    BY <1>8, <2>1, <2>2 DEF SameLists
<1>10. /\ go \in HState /\ Threaded(go) /\ SameRest(a, go) /\ go.readylist = Tail(a.readylist)
       /\ go.list[s] = "EVENT" /\ \A t \in SCB \ {s} : go.list[t] = a.list[t]
  <2>1. Head(a.readylist) = s /\ a.readylist # <<>>
    BY <1>5, <1>9
  <2> QED
    BY <1>6, <1>7, <1>8, <1>9, <2>1, Suspends
<1>11. go.readylist # <<>>
  <2>1. g.readylist \in Seq(SCB) /\ Len(Tail(g.readylist)) = Len(g.readylist) - 1
    BY <1>5 DEF HState
  <2>3. Len(g.readylist) > n /\ go.readylist = Tail(g.readylist) /\ Len(g.readylist) \in Nat
    BY <1>5, <1>9, <1>10, <2>1
  <2>4. Len(g.readylist) - 1 >= 1
    BY <1>4, <2>3
  <2>5. Len(Tail(g.readylist)) >= 1
    BY <2>1, <2>4
  <2>2. Len(go.readylist) >= 1
    BY <2>3, <2>5
  <2> QED
    BY <2>2, LongerIs
<1>12. /\ Owned(go) /\ SameEvents(h, go) /\ go.context = g.context /\ (\A t : Frames(go, t) = Frames(g, t))
       /\ go.fork = g.fork /\ go.fork_count = g.fork_count
       /\ go.pc[s] = j /\ \A t \in SCB \ {s} : go.mode[t] = g.mode[t] /\ go.pc[t] = g.pc[t] /\ go.list[t] = g.list[t]
  <2>1. SameRun(a, go) /\ SameEvents(a, go) /\ SameStacks(a, go)
    BY <1>10 DEF SameRest
  <2>2. Owned(go) /\ \A t : Frames(go, t) = Frames(a, t)
    BY <1>9, <2>1, SameStacksOwned
  <2>3. \A t : Frames(a, t) = Frames(g, t)
    BY <1>5, <1>8, SameStacksOwned
  <2>4. SameEvents(h, go)
    BY <1>5, <1>8, <2>1 DEF SameEvents
  <2>5. go.context = g.context
    BY <1>8, <2>1 DEF SameStacks
  <2> QED
    BY <1>8, <1>9, <1>10, <2>1, <2>2, <2>3, <2>4, <2>5 DEF SameRun
<1>13. s \notin Made(g) /\ Made(g) \subseteq SCB /\ \A t \in Made(g) : h.list[t] = "FREE"
  BY <1>1 DEF Made
<1>14. \A t \in SCB \ {s} : t \notin Made(g) => SameProcess(h, go, t) /\ go.fork_count[t] = h.fork_count[t]
  BY <1>5, <1>12 DEF SameProcess
<1>15. \A t \in Made(g) : /\ go.list[t] = "READY" /\ go.mode[t] = "RUN" /\ go.fork[t] = s /\ go.fork_count[t] = 0
                          /\ go.pc[t] \in Tree /\ Within(go.pc[t]) = pc
                          /\ Frames(go, t) = <<[scb |-> t, scope |-> b, pc |-> NULL]>>
  BY <1>5, <1>12, <1>13, SMTT(30)
<1>16. Joining(go, s) /\ Joining(go, s) = TRUE /\ ~Awaiting(go, s)
  BY <1>3, <1>10, <1>12 DEF Joining, Awaiting
<1>17. Settled(go, go.pc, s)
  <2>1. m \in Frame /\ m.pc = PastJoin(pc) /\ m.scope = b
    BY <1>1, <1>3 DEF m, Frame, Statements, Tree
  <2>2. ASSUME NEW q \in BOOLEAN, q PROVE Fits(Within(j), m, q)
    BY <1>1, <1>3, <2>1, <2>2 DEF Fits, b
  <2>3. PICK q \in BOOLEAN : q
    OBVIOUS
  <2>4. Fits(Within(j), m, q)
    BY <2>2, <2>3
  <2>5. Stands(<<m>> \o Frames(h, s), j, q, h.fork[s])
    <3>1. m.pc \in Tree /\ Within(m.pc) = Within(pc)
      BY <1>3, <2>1
    <3> QED
      BY <1>1, <1>3, <2>1, <2>4, <3>1, StandsEnter
  <2>6. q = Joining(go, s)
    BY <1>16, <2>3
  <2>7. Frames(go, s) = <<m>> \o Frames(h, s) /\ go.pc[s] = j /\ go.fork[s] = h.fork[s]
    BY <1>5, <1>12
  <2>8. Stands(Frames(go, s), go.pc[s], Joining(go, s), go.fork[s])
    BY <2>5, <2>6, <2>7
  <2> QED
    BY <1>3, <1>10, <1>12, <2>8 DEF Settled, Pends
<1>18. ASSUME NEW t \in Made(g) PROVE Settled(go, go.pc, t)
  <2> DEFINE f == [scb |-> t, scope |-> b, pc |-> NULL]
  <2>1. f \in Frame /\ f.pc = NULL /\ f.scope = b
    BY <1>3, <1>13 DEF Frame, Statements
  <2> HIDE DEF f
  <2>2. ~Joining(go, t) /\ Joining(go, t) \in BOOLEAN /\ go.pc[t] \in Tree /\ Within(go.pc[t]) = pc
    BY <1>15 DEF Joining
  <2>3. Fits(Within(go.pc[t]), f, FALSE)
    BY <1>1, <2>1, <2>2 DEF Fits, b
  <2>4. s # NULL /\ Within(go.pc[t]) # TOP
    BY <1>1, <1>6, <2>2
  <2>5. Stands(<<f>>, go.pc[t], FALSE, s)
    BY <1>1, <2>1, <2>2, <2>3, <2>4, StandsNew
  <2>6. Joining(go, t) = FALSE
    BY <2>2
  <2>7. Stands(Frames(go, t), go.pc[t], Joining(go, t), go.fork[t])
    BY <1>15, <2>5, <2>6 DEF f
  <2> QED
    BY <1>15, <2>7 DEF Settled, Pends
<1>19. ASSUME NEW t \in SCB PROVE Settled(go, go.pc, t)
  <2>1. CASE t = s
    BY <1>17, <2>1
  <2>2. CASE t \in Made(g)
    BY <1>18, <2>2
  <2>3. CASE t # s /\ t \notin Made(g)
    <3>1. SameProcess(h, go, t)
      BY <1>14, <2>3
    <3>2. Place(h, pc)[t] = h.pc[t] /\ go.pc[t] = h.pc[t]
      BY <1>2, <2>3, <3>1 DEF Place, SameProcess
    <3>3. Settled(h, Place(h, pc), t)
      BY <1>1 DEF Agree
    <3>4. go.pc[t] = Place(h, pc)[t]
      BY <3>2
    <3> QED
      BY <3>1, <3>3, <3>4, SettledStays
  <2> QED
    BY <2>1, <2>2, <2>3
<1>20. Forking(go)
  <2>1. Forking(h) /\ Cardinality(SCB) \in Nat /\ \A t \in SCB : h.fork[t] \in SCB \cup {NULL}
    BY <1>1, ContextsAssumption, FS_CardinalityType DEF Agree, HState
  <2>2. ~Joining(h, s) /\ \A t \in Made(g) : ~Joining(h, t) /\ ~Joining(go, t)
    BY <1>1, <1>13, <1>15 DEF Joining
  <2>3. \A t \in SCB \ {s} : Joining(go, t) <=> Joining(h, t)
    BY <1>14, <2>2 DEF Joining, SameProcess
  <2>4. \A t \in SCB : h.list[t] # "FREE" => h.fork[t] # s
    BY <1>1, <1>6, <2>1, <2>2 DEF Forking
  <2>5. h.fork[s] = go.fork[s] /\ go.list[s] # "FREE" /\ h.list[s] # "FREE"
    BY <1>1, <1>5, <1>10, <1>12
  <2>6. Arms(go, s) = Made(g)
    <3>1. \A t \in SCB \ {s} : t \notin Made(g) => ~(go.list[t] # "FREE" /\ go.fork[t] = s)
      BY <1>14, <2>4 DEF SameProcess
    <3>2. s \notin Arms(go, s)
      BY <2>4, <2>5 DEF Arms
    <3>3. \A t \in Made(g) : t \in SCB /\ go.list[t] # "FREE" /\ go.fork[t] = s
      BY <1>13, <1>15
    <3> QED
      BY <3>1, <3>2, <3>3 DEF Arms
  <2>7. ASSUME NEW k \in SCB \ {s} PROVE Arms(go, k) = Arms(h, k)
    <3>1. \A t \in SCB \ {s} : t \notin Made(g) => go.list[t] = h.list[t] /\ go.fork[t] = h.fork[t]
      BY <1>14 DEF SameProcess
    <3>2. \A t \in Made(g) : t \notin Arms(h, k) /\ t \notin Arms(go, k)
      BY <1>13, <1>15, <2>7 DEF Arms
    <3>3. s \in Arms(go, k) <=> s \in Arms(h, k)
      BY <2>5 DEF Arms
    <3> QED
      BY <3>1, <3>2, <3>3 DEF Arms
  <2>8. ASSUME NEW t \in SCB, go.list[t] # "FREE", go.fork[t] # NULL PROVE Joining(go, go.fork[t])
    <3>1. CASE t \in Made(g)
      BY <1>15, <1>16, <3>1
    <3>2. CASE t \notin Made(g)
      <4>1. h.list[t] # "FREE" /\ h.fork[t] = go.fork[t]
        BY <1>14, <2>5, <2>8, <3>2 DEF SameProcess
      <4>2. Joining(h, h.fork[t]) /\ h.fork[t] # s /\ h.fork[t] \in SCB
        BY <2>1, <2>4, <2>8, <4>1 DEF Forking
      <4> QED
        BY <2>3, <4>1, <4>2
    <3> QED
      BY <3>1, <3>2
  <2>9. ASSUME NEW k \in SCB, Joining(go, k) PROVE go.fork_count[k] > 0 /\ go.fork_count[k] = Cardinality(Arms(go, k))
    <3>1. CASE k = s
      BY <1>4, <1>5, <1>12, <2>6, <3>1
    <3>2. CASE k # s
      <4>1. k \notin Made(g) /\ Joining(h, k)
        BY <2>2, <2>3, <2>9, <3>2
      <4>2. go.fork_count[k] = h.fork_count[k] /\ Arms(go, k) = Arms(h, k)
        BY <1>14, <2>7, <3>2, <4>1
      <4> QED
        BY <2>1, <4>1, <4>2 DEF Forking
    <3> QED
      BY <3>1, <3>2
  <2>10. ASSUME NEW k \in SCB PROVE go.fork_count[k] \in 0 .. Cardinality(SCB)
    <3>1. CASE k = s
      <4>1. Cardinality(Made(g)) <= Cardinality(SCB)
        BY <1>13, ContextsAssumption, FS_Subset
      <4> QED
        BY <1>4, <1>5, <1>12, <2>1, <3>1, <4>1
    <3>2. CASE k \in Made(g)
      <4>1. go.fork_count[k] = 0
        BY <1>15, <3>2
      <4>2. 0 \in 0 .. Cardinality(SCB)
        BY <2>1
      <4> QED
        BY <4>1, <4>2
    <3>3. CASE k # s /\ k \notin Made(g)
      BY <1>14, <2>1, <3>3 DEF Forking
    <3> QED
      BY <3>1, <3>2, <3>3
  <2> QED
    BY <2>8, <2>9, <2>10 DEF Forking
<1>21. Waiters(go)
  <2>1. ASSUME NEW t \in SCB PROVE IF Awaiting(h, t) THEN go.list[t] = "EVENT" /\ go.pc[t] = h.pc[t] ELSE ~Awaiting(go, t)
    <3>1. CASE t = s
      BY <1>1, <1>16, <3>1 DEF Awaiting
    <3>2. CASE t \in Made(g)
      BY <1>13, <1>15, <3>2 DEF Awaiting
    <3>3. CASE t # s /\ t \notin Made(g)
      BY <1>14, <3>3 DEF Awaiting, SameProcess
    <3> QED
      BY <3>1, <3>2, <3>3
  <2>2. Waiters(h)
    BY <1>1 DEF Agree
  <2> QED
    BY <1>1, <1>12, <2>1, <2>2, WaitersStay
<1> QED
  BY <1>10, <1>11, <1>12, <1>19, <1>20, <1>21 DEF Agree

Sent(g, s, p) == [g EXCEPT !.pc[s] = p]

LEMMA SentIs ==
  ASSUME NEW g \in HState, NEW s \in SCB, NEW p \in Statements
  PROVE  LET u == Sent(g, s, p)
         IN /\ u \in HState /\ SameLists(g, u) /\ SameStacks(g, u) /\ SameEvents(g, u)
            /\ u.fork = g.fork /\ u.fork_count = g.fork_count /\ u.mode = g.mode
            /\ u.pc[s] = p /\ \A t \in SCB \ {s} : u.pc[t] = g.pc[t]
<1> DEFINE a == [g.pc EXCEPT ![s] = p]
<1>1. /\ a \in [SCB -> Statements] /\ a[s] = p /\ \A t \in SCB \ {s} : a[t] = g.pc[t]
  BY DEF HState
<1>2. Sent(g, s, p) = [g EXCEPT !.pc = a]
  BY DEF Sent, HState
<1> HIDE DEF a
<1> QED
  BY <1>1, <1>2 DEF HState, SameLists, SameStacks, SameEvents

LEMMA ForkKeeps ==
  ASSUME IInv, Fork
  PROVE  IInv' /\ fault' = fault
<1> DEFINE n == Len(Stmt(pc).arms)
           built[i \in 0 .. n] == IF i = 0 THEN Forked ELSE Thread(built[i - 1], i)
           g == built[n]
           go == Suspended(Parked(g, Readylist, Stmt(pc).chain), "EVENT")
           t == Head(go.readylist)
           u == Sent(go, t, NULL)
<1>1. PICK code \in Forks : Executing(code)
  BY DEF Fork, Forks
<1>2. code \notin {"none", "nonblocking"} /\ Code(pc) \in Forks
  BY <1>1 DEF Forks, Executing
<1>3. /\ program \in Programs /\ scope = NULL /\ walk = <<>>
  BY <1>1, <1>2, Executes
<1>4. Len(h.freelist) >= Len(Stmt(pc).arms) /\ CanMake(h, Len(Stmt(pc).arms) + 1)
  BY DEF Fork
<1>5. Continue(u, Resume(go))
  BY DEF Fork, Forked, Uncounted, Thread, Ranged, Parked, Sent
<1>6. ForkedSoFar(n, g)
  <2> HIDE DEF g
  <2>1. ForkedSoFar(Len(Stmt(pc).arms), built[Len(Stmt(pc).arms)])
    BY <1>1, <1>2, <1>4, ForkedIs
  <2> QED
    BY <2>1 DEF g
<1> HIDE DEF g
<1>7. ForkedSoFar(Len(Stmt(pc).arms), g)
  BY <1>6
<1>8. Agree(go, go.pc) /\ go.readylist # <<>>
  BY <1>1, <1>2, <1>7, ForkAgrees
<1> HIDE DEF go
<1>9. go \in HState /\ Threaded(go) /\ Owned(go) /\ go.readylist \in Seq(SCB) /\ IsInjective(go.readylist)
  BY <1>8 DEF Agree, Threaded, HState
<1>10. t \in SCB /\ t \in Range(go.readylist) /\ go.list[t] = "READY" /\ Settled(go, go.pc, t)
  <2>1. t \in SCB /\ t \in Range(go.readylist)
    BY <1>8, <1>9, TailFacts
  <2> QED
    BY <1>8, <1>9, <2>1 DEF Threaded, Agree
<1>11. Resume(go) = go.pc[t]
  BY <1>8 DEF Resume
<1> DEFINE p == go.pc[t]
<1>12. p \in Tree
  BY <1>3, <1>9, <1>10, SettledAt
<1> HIDE DEF t
<1>13. /\ u \in HState /\ SameLists(go, u) /\ SameStacks(go, u) /\ SameEvents(go, u)
       /\ u.fork = go.fork /\ u.fork_count = go.fork_count /\ u.mode = go.mode
       /\ \A r \in SCB \ {t} : u.pc[r] = go.pc[r]
  <2>1. NULL \in Statements
    BY DEF Statements
  <2> QED
    BY <1>9, <1>10, <2>1, SentIs
<1> HIDE DEF u
<1>14. Threaded(u) /\ u.list = go.list /\ u.readylist = go.readylist
  BY <1>9, <1>13 DEF Threaded, SameLists
<1>15. Owned(u) /\ (\A r : Frames(u, r) = Frames(go, r)) /\ u.context = go.context
  BY <1>9, <1>13, SameStacksOwned DEF SameStacks
<1>16. Settled(u, go.pc, t)
  <2>1. Joining(u, t) = FALSE /\ Joining(go, t) = FALSE
    BY <1>10, <1>14 DEF Joining
  <2>2. (Pends(u, go.pc, t) <=> Pends(go, go.pc, t)) /\ Frames(u, t) = Frames(go, t) /\ u.fork[t] = go.fork[t]
        /\ u.mode[t] = go.mode[t] /\ u.list[t] = go.list[t]
    BY <1>13, <1>14, <1>15 DEF Pends
  <2>3. CASE Pends(go, go.pc, t)
    BY <1>10, <2>2, <2>3 DEF Settled
  <2>4. CASE ~Pends(go, go.pc, t)
    BY <1>10, <2>1, <2>2, <2>4 DEF Settled
  <2> QED
    BY <2>3, <2>4
<1>17. Agree(u, go.pc)
  <2>1. \A r \in SCB \ {t} : SameProcess(go, u, r) /\ go.pc[r] = go.pc[r]
    BY <1>13, <1>14, <1>15 DEF SameProcess
  <2>2. go.list[t] \notin {"FREE", "EVENT"} /\ u.list[t] \notin {"FREE", "EVENT"}
    BY <1>10, <1>14
  <2> QED
    BY <1>3, <1>8, <1>10, <1>13, <1>14, <1>15, <1>16, <2>1, <2>2, OneMoves
<1>18. Place(u, p) = go.pc
  <2>1. go.pc \in [SCB -> Statements]
    BY <1>9 DEF HState
  <2>2. \A r \in SCB : (u.readylist # <<>> /\ r = Head(u.readylist)) <=> r = t
    BY <1>8, <1>14 DEF t
  <2> QED
    BY <1>10, <1>13, <2>1, <2>2 DEF Place
<1>19. p # IDLE /\ u.readylist # <<>>
  BY <1>3, <1>8, <1>12, <1>14, TreeIs
<1>20. Continue(u, p)
  BY <1>5, <1>11
<1> HIDE DEF p
<1>21. IInv'
  BY <1>3, <1>12, <1>17, <1>18, <1>19, <1>20, ContinueKeeps
<1> QED
  BY <1>20, <1>21 DEF Continue

-----------------------------------------------------------------------------
(* In the beginning.                                                       *)

LEMMA SetToSeqIs ==
  ASSUME NEW S, IsFiniteSet(S)
  PROVE  /\ SetToSeq(S) \in Seq(S) /\ IsInjective(SetToSeq(S)) /\ Range(SetToSeq(S)) = S
         /\ Len(SetToSeq(S)) = Cardinality(S) /\ Cardinality(S) \in Nat
<1> DEFINE n == Cardinality(S)
           f == SetToSeq(S)
<1>1. n \in Nat /\ ExistsBijection(1 .. n, S)
  BY FS_CardinalityType
<1> HIDE DEF n
<1>2. \E x \in [1 .. n -> S] : IsInjective(x)
  BY <1>1 DEF ExistsBijection, Bijection, Injection
<1>3. f \in [1 .. n -> S] /\ IsInjective(f)
  <2> DEFINE g == CHOOSE x \in [1 .. n -> S] : IsInjective(x)
  <2>1. g \in [1 .. n -> S] /\ IsInjective(g)
    BY <1>2
  <2>2. f = g
    BY DEF SetToSeq, n
  <2> QED
    BY <2>1, <2>2
<1> HIDE DEF f
<1>4. f \in Seq(S) /\ Len(f) = n
  BY <1>1, <1>3
<1>5. f \in Injection(1 .. n, S)
  BY <1>3 DEF Injection
<1>6. Cardinality(1 .. n) = n
  <2>1. Cardinality(1 .. n) = IF 1 > n THEN 0 ELSE n - 1 + 1
    BY <1>1, FS_Interval
  <2> QED
    BY <1>1, <2>1
<1>7. f \in Surjection(1 .. n, S)
  <2>1. Cardinality(1 .. n) = Cardinality(S)
    BY <1>6 DEF n
  <2> QED
    BY <1>5, <2>1, FS_Injection
<1>8. Range(f) = S
  <2>1. Range(f) = {f[i] : i \in 1 .. n}
    BY <1>4, RangeIs
  <2> QED
    BY <1>3, <1>7, <2>1 DEF Surjection
<1> QED
  BY <1>1, <1>3, <1>4, <1>8 DEF f, n

Nobody == [readylist |-> <<>>, timelist |-> <<>>, freelist |-> SetToSeq(SCB), stray |-> NULL,
           list |-> [s \in SCB |-> "FREE"], pc |-> [s \in SCB |-> NULL],
           mode |-> [s \in SCB |-> "RUN"], fork |-> [s \in SCB |-> NULL],
           fork_count |-> [s \in SCB |-> 0], here |-> [s \in SCB |-> NULL],
           context |-> [s \in SCB |-> <<>>],
           member |-> [c \in CONTEXT |-> [scb |-> NULL, scope |-> TOP, pc |-> NULL]],
           context_list |-> [b \in Scopes |-> <<>>], free_context |-> <<>>,
           waiter |-> [m \in DOMAIN program.text |-> NULL],
           event_chain |-> [e \in Events |-> <<>>]]
Populated(g, i) == PutLast(BuildSCB(g, program.initial[i], TOP), Head(g.freelist))

(* k initial blocks have a process.                                        *)
BuiltSoFar(k, g) ==
  LET n == Len(program.initial)
  IN /\ g \in HState /\ Threaded(g) /\ Owned(g) /\ CanMake(g, n - k) /\ Len(g.freelist) >= n - k
     /\ \A e \in Events : g.event_chain[e] = <<>>
     /\ \A t \in SCB :
          /\ g.fork_count[t] = 0 /\ g.here[t] = NULL
          /\ \/ g.list[t] = "FREE" /\ g.context[t] = <<>>
             \/ /\ g.list[t] = "READY" /\ g.mode[t] = "RUN" /\ g.fork[t] = NULL
                /\ g.pc[t] \in Tree /\ Within(g.pc[t]) = TOP
                /\ Frames(g, t) = <<[scb |-> t, scope |-> TOP, pc |-> NULL]>>

LEMMA NobodyIs ==
  ASSUME program \in Programs
  PROVE  BuiltSoFar(0, Nobody)
<1> DEFINE g == Nobody
           q == SetToSeq(SCB)
           n == Len(program.initial)
<1>1. q \in Seq(SCB) /\ IsInjective(q) /\ Range(q) = SCB /\ Len(q) = Cardinality(SCB) /\ Cardinality(SCB) \in Nat
  BY ContextsAssumption, SetToSeqIs
<1>2. n <= Cardinality(SCB) /\ n <= Cardinality(CONTEXT)
  BY ProgramsAssumption DEF WellFormed
<1>3. TOP \in Scopes /\ program.initial \in Seq(Tree)
  BY TreeIs
<1>4. n \in Nat /\ n - 0 = n /\ Cardinality(CONTEXT) \in Nat
  BY <1>3, ContextsAssumption, FS_CardinalityType
<1> HIDE DEF q
<1>5. g = [readylist |-> <<>>, timelist |-> <<>>, freelist |-> q, stray |-> NULL,
           list |-> [s \in SCB |-> "FREE"], pc |-> [s \in SCB |-> NULL],
           mode |-> [s \in SCB |-> "RUN"], fork |-> [s \in SCB |-> NULL],
           fork_count |-> [s \in SCB |-> 0], here |-> [s \in SCB |-> NULL],
           context |-> [s \in SCB |-> <<>>],
           member |-> [c \in CONTEXT |-> [scb |-> NULL, scope |-> TOP, pc |-> NULL]],
           context_list |-> [b \in Scopes |-> <<>>], free_context |-> <<>>,
           waiter |-> [m \in Tree |-> NULL],
           event_chain |-> [e \in Events |-> <<>>]]
  BY DEF q, Tree, Nobody
<1> HIDE DEF g
<1>6. /\ g.readylist = <<>> /\ g.timelist = <<>> /\ g.freelist = q /\ g.free_context = <<>>
      /\ \A s \in SCB : g.list[s] = "FREE" /\ g.fork_count[s] = 0 /\ g.here[s] = NULL /\ g.context[s] = <<>>
      /\ \A b \in Scopes : g.context_list[b] = <<>>
      /\ \A e \in Events : g.event_chain[e] = <<>>
  BY <1>5
<1>7. g \in HState
  <2>1. [scb |-> NULL, scope |-> TOP, pc |-> NULL] \in Frame /\ NULL \in Statements
    BY <1>3 DEF Frame, Statements
  <2> DEFINE f == [scb |-> NULL, scope |-> TOP, pc |-> NULL]
  <2> HIDE DEF f
  <2>2. [c \in CONTEXT |-> f] \in [CONTEXT -> Frame]
    BY <2>1 DEF f
  <2>3. g = [readylist |-> <<>>, timelist |-> <<>>, freelist |-> q, stray |-> NULL,
           list |-> [s \in SCB |-> "FREE"], pc |-> [s \in SCB |-> NULL],
           mode |-> [s \in SCB |-> "RUN"], fork |-> [s \in SCB |-> NULL],
           fork_count |-> [s \in SCB |-> 0], here |-> [s \in SCB |-> NULL],
           context |-> [s \in SCB |-> <<>>],
           member |-> [c \in CONTEXT |-> f],
           context_list |-> [b \in Scopes |-> <<>>], free_context |-> <<>>,
           waiter |-> [m \in Tree |-> NULL],
           event_chain |-> [e \in Events |-> <<>>]]
    BY <1>5 DEF f
  <2> QED
    BY <1>1, <2>1, <2>2, <2>3 DEF HState
<1>8. Threaded(g)
  BY <1>1, <1>6, EmptyFacts DEF Threaded
<1>9. \A c : ~Used(g, c)
  BY <1>6, EmptyFacts DEF Used
<1>10. Owned(g)
  BY <1>6, <1>9, EmptyFacts DEF Owned
<1>11. CanMake(g, n)
  <2>1. Live(g) = {}
    BY <1>7, <1>9, <1>10, LiveIs
  <2>2. CONTEXT \ (Live(g) \cup Range(g.free_context)) = CONTEXT
    BY <1>6, <2>1, EmptyFacts
  <2>3. Len(g.free_context) = 0
    BY <1>6, EmptyFacts
  <2>4. Cardinality(CONTEXT \ (Live(g) \cup Range(g.free_context))) = Cardinality(CONTEXT)
    BY <2>2
  <2>5. Len(g.free_context) + Cardinality(CONTEXT \ (Live(g) \cup Range(g.free_context))) >= n
    BY <1>2, <1>4, <2>3, <2>4
  <2> QED
    BY <2>5 DEF CanMake
<1>12. CanMake(g, n - 0) /\ Len(g.freelist) >= n - 0
  <2>1. CanMake(g, n) => CanMake(g, n - 0)
    BY <1>4
  <2>2. Len(g.freelist) >= n
    BY <1>1, <1>2, <1>6
  <2> QED
    BY <1>4, <1>11, <2>1, <2>2
<1>13. BuiltSoFar(0, g)
  BY <1>6, <1>7, <1>8, <1>10, <1>12 DEF BuiltSoFar
<1> QED
  BY <1>13 DEF g

Listed(g, q, t) == [g EXCEPT !.readylist = q, !.list[t] = "READY"]

LEMMA ListedIs ==
  ASSUME NEW g \in HState, NEW q \in Seq(SCB), NEW t \in SCB
  PROVE  LET u == Listed(g, q, t)
         IN /\ u \in HState /\ SameStacks(g, u) /\ SameEvents(g, u) /\ SameRun(g, u)
            /\ u.readylist = q /\ u.timelist = g.timelist /\ u.freelist = g.freelist
            /\ u.list[t] = "READY" /\ \A r \in SCB \ {t} : u.list[r] = g.list[r]
<1> DEFINE k == [g.list EXCEPT ![t] = "READY"]
<1>1. /\ k \in [SCB -> {"READY", "TIME", "EVENT", "FREE", "NOLIST"}] /\ k[t] = "READY" /\ \A r \in SCB \ {t} : k[r] = g.list[r]
  BY DEF HState
<1>2. Listed(g, q, t) = [g EXCEPT !.readylist = q, !.list = k]
  BY DEF Listed, HState
<1> HIDE DEF k
<1> QED
  BY <1>1, <1>2 DEF HState, SameRun, SameStacks, SameEvents

LEMMA Populates ==
  ASSUME program \in Programs, NEW k \in Nat, k < Len(program.initial), NEW g, BuiltSoFar(k, g)
  PROVE  BuiltSoFar(k + 1, Populated(g, k + 1))
<1> DEFINE A == program.initial
           n == Len(A)
           t == Head(g.freelist)
           u == BuildSCB(g, A[k + 1], TOP)
           q == Append(u.readylist, t)
           v == Listed(u, q, t)
<1>1. A \in Seq(Tree) /\ (\A i \in 1 .. n : Within(A[i]) = TOP) /\ TOP \in Scopes /\ NULL \notin SCB
  BY TreeIs, ContextsAssumption
<1>2. /\ n \in Nat /\ k + 1 \in 1 .. n /\ A[k + 1] \in Tree /\ Within(A[k + 1]) = TOP
  <2>1. n \in Nat /\ k + 1 \in 1 .. n
    BY <1>1
  <2> QED
    BY <1>1, <2>1
<1>3. Populated(g, k + 1) = PutLast(u, t)
  BY DEF Populated
<1> HIDE DEF A, t, u, q, v
<1>4. /\ g \in HState /\ Threaded(g) /\ Owned(g) /\ CanMake(g, n - k) /\ Len(g.freelist) >= n - k
      /\ \A e \in Events : g.event_chain[e] = <<>>
      /\ \A r \in SCB :
           /\ g.fork_count[r] = 0 /\ g.here[r] = NULL
           /\ \/ g.list[r] = "FREE" /\ g.context[r] = <<>>
              \/ /\ g.list[r] = "READY" /\ g.mode[r] = "RUN" /\ g.fork[r] = NULL
                 /\ g.pc[r] \in Tree /\ Within(g.pc[r]) = TOP
                 /\ Frames(g, r) = <<[scb |-> r, scope |-> TOP, pc |-> NULL]>>
  BY DEF BuiltSoFar, A
<1>5. g.freelist \in Seq(SCB) /\ g.freelist # <<>> /\ IsInjective(g.freelist) /\ Len(g.freelist) \in Nat
  <2>1. g.freelist \in Seq(SCB) /\ IsInjective(g.freelist)
    BY <1>4 DEF HState, Threaded
  <2>2. Len(g.freelist) >= 1
    BY <1>2, <1>4, <2>1
  <2> QED
    BY <2>1, <2>2, LongerIs
<1>6. t \in SCB /\ t \in Range(g.freelist) /\ Len(Tail(g.freelist)) = Len(g.freelist) - 1
      /\ Range(Tail(g.freelist)) = Range(g.freelist) \ {t}
      /\ Tail(g.freelist) \in Seq(SCB) /\ IsInjective(Tail(g.freelist))
  BY <1>5, TailFacts DEF t
<1>7. /\ g.list[t] = "FREE" /\ g.context[t] = <<>>
      /\ t \notin Range(g.readylist) /\ t \notin Range(g.timelist) /\ t \notin Range(Tail(g.freelist))
      /\ g.readylist \in Seq(SCB) /\ g.timelist \in Seq(SCB) /\ IsInjective(g.readylist) /\ IsInjective(g.timelist)
  <2>1. g.list[t] = "FREE" /\ t \notin Range(g.readylist) /\ t \notin Range(g.timelist)
    BY <1>4, <1>6 DEF Threaded
  <2> QED
    BY <1>4, <1>6, <2>1 DEF Threaded, HState
<1>8. n - k \in Nat /\ n - k > 0 /\ n - k - 1 = n - (k + 1) /\ A[k + 1] \in Statements
  BY <1>2 DEF Statements, Tree
<1>9. /\ u \in HState /\ Owned(u) /\ CanMake(u, n - (k + 1)) /\ u.waiter = g.waiter /\ u.event_chain = g.event_chain
      /\ u.readylist = g.readylist /\ u.timelist = g.timelist /\ u.freelist = Tail(g.freelist)
      /\ u.list[t] = "NOLIST" /\ u.pc[t] = A[k + 1] /\ u.mode[t] = "RUN" /\ u.fork[t] = NULL
      /\ u.fork_count[t] = 0 /\ u.here[t] = NULL /\ Frames(u, t) = <<[scb |-> t, scope |-> TOP, pc |-> NULL]>>
      /\ \A r \in SCB \ {t} : SameProcess(g, u, r) /\ u.fork_count[r] = g.fork_count[r] /\ u.here[r] = g.here[r]
  <2>1. t = Head(g.freelist)
    BY DEF t
  <2>2. CanMake(u, n - k - 1) => CanMake(u, n - (k + 1))
    BY <1>8
  <2> HIDE DEF n
  <2> QED
    BY <1>1, <1>4, <1>5, <1>6, <1>7, <1>8, <2>1, <2>2, Builds DEF u
<1>10. PutLast(u, t) = v
  <2>1. /\ RemoveFirst(g.readylist, t) = g.readylist /\ RemoveFirst(g.timelist, t) = g.timelist
        /\ RemoveFirst(Tail(g.freelist), t) = Tail(g.freelist)
    BY <1>6, <1>7, RemoveFirstFacts
  <2>2. Without(u, t) = [u EXCEPT !.readylist = RemoveFirst(u.readylist, t), !.timelist = RemoveFirst(u.timelist, t),
                                  !.freelist = RemoveFirst(u.freelist, t)]
    BY <1>9 DEF Without, StrayWithout, HState
  <2>3. /\ RemoveFirst(u.readylist, t) = u.readylist /\ RemoveFirst(u.timelist, t) = u.timelist
        /\ RemoveFirst(u.freelist, t) = u.freelist
    BY <1>9, <2>1
  <2>4. Without(u, t) = [u EXCEPT !.readylist = u.readylist, !.timelist = u.timelist, !.freelist = u.freelist]
    BY <2>2, <2>3
  <2>5. Without(u, t) = u
    BY <1>9, <2>4 DEF HState
  <2> QED
    BY <1>9, <2>5 DEF PutLast, Listed, HState, v, q
<1>11. q \in Seq(SCB) /\ IsInjective(q) /\ Range(q) = Range(g.readylist) \cup {t}
  <2>1. Gained(Append(g.readylist, t), g.readylist, SCB, t)
    BY <1>6, <1>7, AppendGains
  <2> QED
    BY <1>9, <2>1 DEF Gained, q
<1>12. /\ v \in HState /\ SameStacks(u, v) /\ SameEvents(u, v) /\ SameRun(u, v)
       /\ v.readylist = q /\ v.timelist = u.timelist /\ v.freelist = u.freelist
       /\ v.list[t] = "READY" /\ \A r \in SCB \ {t} : v.list[r] = u.list[r]
  BY <1>6, <1>9, <1>11, ListedIs DEF v
<1>13. Owned(v) /\ CanMake(v, n - (k + 1)) /\ (\A r : Frames(v, r) = Frames(u, r)) /\ v.context = u.context
  BY <1>9, <1>12, SameStacksOwned DEF SameStacks
<1>14. \A r \in SCB \ {t} : v.list[r] = g.list[r]
  BY <1>9, <1>12 DEF SameProcess
<1>15. Threaded(v)
  <2>1. Range(v.readylist) = (Range(g.readylist) \ {t}) \cup {t} /\ IsInjective(v.readylist)
    BY <1>11, <1>12
  <2>2. Range(v.timelist) = (Range(g.timelist) \ {t}) \cup {} /\ IsInjective(v.timelist)
    BY <1>7, <1>9, <1>12
  <2>3. Range(v.freelist) = (Range(g.freelist) \ {t}) \cup {} /\ IsInjective(v.freelist)
    BY <1>6, <1>9, <1>12
  <2> QED
    BY <1>4, <1>6, <1>12, <1>14, <2>1, <2>2, <2>3, Relisted
<1>16. Len(v.freelist) >= n - (k + 1)
  BY <1>2, <1>4, <1>5, <1>6, <1>9, <1>12
<1>17. \A e \in Events : v.event_chain[e] = <<>>
  BY <1>4, <1>9, <1>12 DEF SameEvents
<1>18. ASSUME NEW r \in SCB
       PROVE  /\ v.fork_count[r] = 0 /\ v.here[r] = NULL
              /\ \/ v.list[r] = "FREE" /\ v.context[r] = <<>>
                 \/ /\ v.list[r] = "READY" /\ v.mode[r] = "RUN" /\ v.fork[r] = NULL
                    /\ v.pc[r] \in Tree /\ Within(v.pc[r]) = TOP
                    /\ Frames(v, r) = <<[scb |-> r, scope |-> TOP, pc |-> NULL]>>
  <2>1. CASE r = t
    BY <1>2, <1>9, <1>12, <1>13, <2>1 DEF SameRun, SameEvents
  <2>2. CASE r # t
    <3>1. SameProcess(g, v, r) /\ v.fork_count[r] = g.fork_count[r] /\ v.here[r] = g.here[r]
      BY <1>9, <1>12, <1>13, <2>2 DEF SameRun, SameEvents, SameProcess
    <3>2. /\ g.fork_count[r] = 0 /\ g.here[r] = NULL
          /\ \/ g.list[r] = "FREE" /\ g.context[r] = <<>>
             \/ /\ g.list[r] = "READY" /\ g.mode[r] = "RUN" /\ g.fork[r] = NULL
                /\ g.pc[r] \in Tree /\ Within(g.pc[r]) = TOP
                /\ Frames(g, r) = <<[scb |-> r, scope |-> TOP, pc |-> NULL]>>
      BY <1>4
    <3> QED
      BY <3>1, <3>2 DEF SameProcess
  <2> QED
    BY <2>1, <2>2
<1>19. BuiltSoFar(k + 1, v)
  BY <1>12, <1>13, <1>15, <1>16, <1>17, <1>18 DEF BuiltSoFar, A
<1> QED
  BY <1>3, <1>10, <1>19

LEMMA BuiltIs ==
  ASSUME program \in Programs
  PROVE  BuiltSoFar(Len(program.initial), Built(program.initial))
<1> DEFINE n == Len(program.initial)
           S == HState
           base == Nobody
           G == [k \in 0 .. n |-> {g \in S : BuiltSoFar(k, g)}]
           next == [k \in 1 .. n |-> [g \in G[k - 1] |-> Populated(g, k)]]
           Step(f) == [i \in 0 .. n |-> IF i = 0 THEN base ELSE Populated(f[i - 1], i)]
           built == CHOOSE f : f = Step(f)
<1>1. n \in Nat
  <2>1. program.initial \in Seq(Tree)
    BY TreeIs
  <2> QED
    BY <2>1
<1>2. BuiltSoFar(0, base) /\ base \in S
  <2>1. BuiltSoFar(0, base)
    BY NobodyIs
  <2> HIDE DEF base
  <2> QED
    BY <2>1 DEF BuiltSoFar
<1>0. Built(program.initial) = built[n]
  BY DEF Built, Nobody, Populated
<1> HIDE DEF base
<1>3. ASSUME NEW k \in 1 .. n, NEW g, BuiltSoFar(k - 1, g) PROVE BuiltSoFar(k, Populated(g, k)) /\ Populated(g, k) \in S
  <2>1. k - 1 \in Nat /\ k - 1 < n /\ k - 1 + 1 = k
    BY <1>1
  <2>2. BuiltSoFar(k - 1 + 1, Populated(g, k - 1 + 1))
    BY <1>3, <2>1, Populates
  <2>3. BuiltSoFar(k, Populated(g, k))
    BY <2>1, <2>2
  <2> QED
    BY <2>3 DEF BuiltSoFar
<1>4. PICK f : Follows(f, n, S, G, base, next)
  <2>1. G \in [0 .. n -> SUBSET S]
    OBVIOUS
  <2>2. base \in G[0]
    BY <1>1, <1>2
  <2>3. ASSUME NEW k \in 1 .. n PROVE next[k] \in [G[k - 1] -> G[k]]
    <3>1. k - 1 \in 0 .. n /\ k \in 0 .. n
      BY <1>1
    <3>2. G[k - 1] = {g \in S : BuiltSoFar(k - 1, g)} /\ G[k] = {g \in S : BuiltSoFar(k, g)}
      BY <3>1
    <3>3. next[k] = [g \in G[k - 1] |-> Populated(g, k)]
      OBVIOUS
    <3> HIDE DEF G, next, n, S
    <3>4. \A g \in G[k - 1] : Populated(g, k) \in G[k]
      BY <1>3, <3>2
    <3> QED
      BY <3>3, <3>4
  <2> HIDE DEF G, next, n, S, Step, built
  <2>4. Leads(n, G, next)
    BY <2>3 DEF Leads
  <2> QED
    BY <1>1, <2>1, <2>2, <2>4, Stepwise
<1>5. f = Step(f)
  <2>1. ASSUME NEW k \in 1 .. n PROVE f[k] = Populated(f[k - 1], k)
    <3>1. k - 1 \in 0 .. n
      BY <1>1
    <3>2. next[k] = [g \in G[k - 1] |-> Populated(g, k)]
      OBVIOUS
    <3> HIDE DEF next, n, S, G
    <3>3. f[k - 1] \in G[k - 1] /\ f[k] = next[k][f[k - 1]]
      BY <1>4, <3>1 DEF Follows
    <3> QED
      BY <3>2, <3>3
  <2> HIDE DEF next, n, S, G
  <2> QED
    BY <1>1, <1>4, <2>1 DEF Follows
<1>6. built = Step(built)
  <2>1. \E v : v = Step(v)
    BY <1>5
  <2> HIDE DEF Step
  <2> QED
    BY <2>1
<1> DEFINE T == {k \in 0 .. n : BuiltSoFar(k, built[k])}
<1> HIDE DEF built
<1>7. built[0] = base /\ \A k \in 1 .. n : built[k] = Populated(built[k - 1], k)
  <2>1. \A k \in 0 .. n : built[k] = IF k = 0 THEN base ELSE Populated(built[k - 1], k)
    <3> HIDE DEF n
    <3> QED
      BY <1>6
  <2> HIDE DEF n
  <2> QED
    BY <1>1, <2>1
<1>8. 0 \in T
  <2> HIDE DEF n
  <2> QED
    BY <1>1, <1>2, <1>7
<1>9. ASSUME NEW k \in 0 .. n - 1, k \in T PROVE k + 1 \in T
  <2>1. k + 1 \in 1 .. n /\ k + 1 - 1 = k /\ k + 1 \in 0 .. n
    BY <1>1
  <2>2. BuiltSoFar(k + 1 - 1, built[k + 1 - 1])
    BY <1>9, <2>1
  <2>3. built[k + 1] = Populated(built[k + 1 - 1], k + 1)
    <3> HIDE DEF n, T
    <3> QED
      BY <1>7, <2>1
  <2>4. BuiltSoFar(k + 1, built[k + 1])
    <3> HIDE DEF n, T, S
    <3> QED
      BY <1>3, <2>1, <2>2, <2>3
  <2> QED
    BY <2>1, <2>4
<1>10. 0 .. n \subseteq T
  <2> HIDE DEF T, n
  <2> QED
    BY <1>1, <1>8, <1>9, Induction
<1>11. BuiltSoFar(n, built[n])
  <2> HIDE DEF n
  <2> QED
    BY <1>1, <1>10
<1> QED
  BY <1>0, <1>11

LEMMA InitKeeps ==
  ASSUME Init
  PROVE  IInv
<1> DEFINE u == Built(program.initial)
           n == Resume(u)
<1>1. /\ program \in Programs /\ h = u /\ pc = n /\ scope = NULL
      /\ walk = <<>> /\ calls = <<>> /\ returning = {} /\ fault = FALSE
  BY DEF Init
<1>2. BuiltSoFar(Len(program.initial), u)
  BY <1>1, BuiltIs
<1> HIDE DEF u
<1>3. /\ u \in HState /\ Threaded(u) /\ Owned(u)
      /\ \A e \in Events : u.event_chain[e] = <<>>
      /\ \A t \in SCB :
           /\ u.fork_count[t] = 0 /\ u.here[t] = NULL
           /\ \/ u.list[t] = "FREE" /\ u.context[t] = <<>>
             \/ /\ u.list[t] = "READY" /\ u.mode[t] = "RUN" /\ u.fork[t] = NULL
                /\ u.pc[t] \in Tree /\ Within(u.pc[t]) = TOP
                /\ Frames(u, t) = <<[scb |-> t, scope |-> TOP, pc |-> NULL]>>
  BY <1>2 DEF BuiltSoFar
<1>4. ASSUME NEW t \in SCB PROVE Settled(u, u.pc, t)
  <2>1. CASE u.list[t] = "FREE"
    BY <1>3, <2>1 DEF Settled, Pends
  <2>2. CASE u.list[t] # "FREE"
    <3> DEFINE m == [scb |-> t, scope |-> TOP, pc |-> NULL]
    <3>1. TOP \in Scopes
      BY <1>1, TreeIs
    <3>2. m \in Frame /\ m.pc = NULL /\ m.scope = TOP
      BY <3>1 DEF Frame, Statements
    <3>3. /\ u.list[t] = "READY" /\ u.mode[t] = "RUN" /\ u.fork[t] = NULL
          /\ u.pc[t] \in Tree /\ Within(u.pc[t]) = TOP
          /\ Frames(u, t) = <<m>>
      BY <1>3, <2>2
    <3> HIDE DEF m
    <3>4. Fits(Within(u.pc[t]), m, FALSE)
      BY <3>2, <3>3 DEF Fits
    <3>5. Stands(<<m>>, u.pc[t], FALSE, u.fork[t])
      BY <1>1, <3>2, <3>3, <3>4, StandsNew
    <3>6. Joining(u, t) = FALSE
      BY <3>3 DEF Joining
    <3> QED
      BY <3>3, <3>5, <3>6 DEF Settled, Pends
  <2> QED
    BY <2>1, <2>2
<1>5. Forking(u)
  <2>1. Cardinality(SCB) \in Nat
    BY ContextsAssumption, FS_CardinalityType
  <2>2. \A t \in SCB : ~Joining(u, t) /\ u.fork_count[t] \in 0 .. Cardinality(SCB) /\ (u.list[t] = "FREE" \/ u.fork[t] = NULL)
    BY <1>3, <2>1 DEF Joining
  <2> QED
    BY <2>2 DEF Forking
<1>6. Waiters(u)
  <2>1. ASSUME NEW m \in Tree, Code(m) \in {"event", "wait"} PROVE Marked(u, m)
    <3>1. WaitingAt(u, m) = {}
      BY <1>3 DEF WaitingAt
    <3>2. Stmt(m).event \in Events
      BY <1>1, <2>1, PlacedIs
    <3>3. m \notin Range(u.event_chain[Stmt(m).event])
      BY <1>3, <3>2, EmptyFacts
    <3> QED
      BY <3>1, <3>3 DEF Marked
  <2>2. \A e \in Events : IsInjective(u.event_chain[e]) /\ \A m \in Range(u.event_chain[e]) : FALSE
    BY <1>3, EmptyFacts
  <2> QED
    BY <1>3, <2>1, <2>2 DEF Waiters
<1>7. Agree(u, u.pc)
  BY <1>3, <1>4, <1>5, <1>6 DEF Agree
<1>8. Place(u, n) = u.pc /\ n \in Tree \cup {IDLE} /\ (n = IDLE <=> u.readylist = <<>>)
  <2>1. u.readylist \in Seq(SCB) /\ IsInjective(u.readylist) /\ u.pc \in [SCB -> Statements]
    BY <1>3 DEF HState, Threaded
  <2>2. CASE u.readylist = <<>>
    BY <2>1, <2>2 DEF Resume, Place
  <2>3. CASE u.readylist # <<>>
    <3> DEFINE s == Head(u.readylist)
    <3>1. s \in SCB /\ s \in Range(u.readylist)
      BY <2>1, <2>3, TailFacts
    <3>2. n = u.pc[s]
      BY <2>3 DEF Resume
    <3>3. Place(u, n) = u.pc
      BY <2>1, <2>3, <3>2 DEF Place
    <3>4. u.list[s] = "READY"
      BY <1>3, <3>1 DEF Threaded
    <3>5. n \in Tree
      BY <1>3, <3>1, <3>2, <3>4
    <3>6. n # IDLE
      BY <1>1, <3>5, TreeIs
    <3> QED
      BY <2>3, <3>3, <3>5, <3>6
  <2> QED
    BY <2>2, <2>3
<1> HIDE DEF n
<1>9. Standing = u.pc
  BY <1>1, <1>8 DEF Standing
<1>10. walk \in Seq(Tree) /\ IsInjective(walk)
  BY <1>1, EmptyFacts
<1> QED
  BY <1>1, <1>7, <1>8, <1>9, <1>10 DEF IInv

-----------------------------------------------------------------------------
(* Disable, of blocks that are sealed: what is entered from them is in X.  *)

LEMMA SealedIs ==
  ASSUME program \in Programs, NEW X, Sealed(program, X)
  PROVE  /\ TOP \notin X
         /\ \A s \in Tree : /\ Code(s) \in Forks => Stmt(s).block \notin X
                            /\ In(s) \in X => /\ Code(s) \notin Forks \cup {"event", "wait"}
                                              /\ Code(s) \in {"begin", "task"} => Stmt(s).block \in X
<1>1. ASSUME NEW s \in Tree
      PROVE  /\ Code(s) \in Forks => Stmt(s).block \notin X
             /\ In(s) \in X => /\ Code(s) \notin Forks \cup {"event", "wait"}
                               /\ Code(s) \in {"begin", "task"} => Stmt(s).block \in X
  <2>1. \A codes : Is(program, s, codes) <=> Code(s) \in codes
    BY DEF Is, Tree, Code, Stmt
  <2>2. s \in DOMAIN program.text /\ In(s) = BlockOf(program, s) /\ Stmt(s).block = program.text[s].block
    BY DEF Tree, In, Stmt
  <2> QED
    BY <2>1, <2>2 DEF Sealed
<1> QED
  BY <1>1 DEF Sealed

(* A frame of a sealed block is that of a begin or a call.                 *)
LEMMA SealedFrame ==
  ASSUME program \in Programs, NEW X, Sealed(program, X), NEW p \in Tree, NEW m, NEW j \in BOOLEAN,
         Fits(Within(p), m, j), m.scope \in X
  PROVE  m.pc \in Tree /\ m.pc # NULL /\ ~(Within(p) \in Tree /\ Code(Within(p)) \in Forks)
<1> DEFINE w == Within(p)
<1>1. TOP \notin X /\ \A s \in Tree : Code(s) \in Forks => Stmt(s).block \notin X
  BY SealedIs
<1>2. NULL \notin Tree
  BY TreeIs
<1>3. CASE w = TOP /\ m.scope = TOP
  BY <1>1, <1>3
<1>4. CASE w \in Tree /\ Code(w) = "begin" /\ m.pc = Stmt(w).chain
  <2>1. Stmt(w).chain \in Tree
    BY <1>4, PlacedIs
  <2> QED
    BY <1>2, <1>4, <2>1 DEF Forks
<1>5. CASE w \in Tree /\ Code(w) \in Forks /\ m.scope = Stmt(w).block
  BY <1>1, <1>5
<1>6. CASE w \in TaskBlocks(program) /\ m.pc \in Tree
  <2>1. w \notin Tree
    BY <1>6, TaskBlocksApart
  <2> QED
    BY <1>2, <1>6, <2>1
<1> QED
  BY <1>3, <1>4, <1>5, <1>6 DEF Fits

(* What is entered from a sealed block is sealed.                          *)
LEMMA SealedCaller ==
  ASSUME program \in Programs, NEW X, Sealed(program, X), NEW p \in Tree, NEW m, NEW j \in BOOLEAN,
         Fits(Within(p), m, j), m.pc \in Tree, In(m.pc) \in X
  PROVE  m.scope \in X
<1> DEFINE w == Within(p)
<1>1. \A s \in Tree : In(s) \in X => /\ Code(s) \notin Forks \cup {"event", "wait"}
                                     /\ Code(s) \in {"begin", "task"} => Stmt(s).block \in X
  BY SealedIs
<1>2. NULL \notin Tree /\ \A s \in Tree : In(s) = IF Within(s) \in Tree THEN Stmt(Within(s)).block ELSE Within(s)
  BY TreeIs
<1>3. CASE m.pc = NULL
  BY <1>2, <1>3
<1>4. CASE w \in Tree /\ Code(w) = "begin" /\ m.scope = Stmt(w).block /\ m.pc = Stmt(w).chain
  <2>1. Within(Stmt(w).chain) = Within(w)
    BY <1>4, PlacedIs
  <2>2. In(m.pc) = In(w)
    BY <1>2, <1>4, <2>1
  <2> QED
    BY <1>1, <1>4, <2>2
<1>5. CASE w \in Tree /\ Code(w) \in Forks /\ m.pc = PastJoin(w)
  <2>1. Within(PastJoin(w)) = Within(w)
    BY <1>5, PlacedIs
  <2>2. In(m.pc) = In(w)
    BY <1>2, <1>5, <2>1
  <2> QED
    BY <1>1, <1>5, <2>2
<1>6. CASE w \in TaskBlocks(program) /\ m.scope = w /\ Code(m.pc) = "task" /\ Stmt(m.pc).block = w
  BY <1>1, <1>6
<1> QED
  BY <1>3, <1>4, <1>5, <1>6 DEF Fits

(* Whoever is in a sealed block waits neither at a join nor for an event,  *)
(* and his context there returns to a statement.                           *)
LEMMA SealedStands ==
  ASSUME program \in Programs, NEW X, Sealed(program, X), NEW F \in Seq(Frame), NEW p, NEW k, NEW j \in BOOLEAN,
         Stands(F, p, j, k), NEW i \in 1 .. Len(F), F[i].scope \in X
  PROVE  F[i].pc \in Tree /\ i < Len(F) /\ p \in Tree /\ Code(p) \notin {"event", "wait", "join"}
<1>1. Len(F) \in Nat
  OBVIOUS
<1>2. \A x \in 1 .. Len(F) : /\ Caller(F, p, x) \in Tree
                             /\ Fits(Within(Caller(F, p, x)), F[x], x = 1 /\ j)
                             /\ (x = 1 /\ j) \in BOOLEAN
                             /\ x = Len(F) <=> F[x].pc = NULL
  BY DEF Stands
<1>3. F[i].pc \in Tree /\ F[i].pc # NULL
  <2> DEFINE q == Caller(F, p, i)
             y == i = 1 /\ j
  <2>1. q \in Tree /\ y \in BOOLEAN /\ Fits(Within(q), F[i], y)
    BY <1>2
  <2> HIDE DEF q, y
  <2> QED
    BY <2>1, SealedFrame
<1>4. i < Len(F)
  BY <1>1, <1>2, <1>3
<1> DEFINE T == {x \in 0 .. i - 1 : F[i - x].scope \in X}
<1>5. 0 \in T
  BY <1>1
<1>6. ASSUME NEW x \in 0 .. i - 1 - 1, x \in T PROVE x + 1 \in T
  <2> DEFINE a == i - x
             b == i - (x + 1)
             m == F[b]
             q == Caller(F, p, b)
             y == b = 1 /\ j
             z == a = 1 /\ j
  <2>1. a \in 1 .. Len(F) /\ b \in 1 .. Len(F) /\ a = b + 1 /\ a # 1 /\ a - 1 = b /\ b # Len(F) /\ x + 1 \in 0 .. i - 1
    BY <1>1
  <2>2. Caller(F, p, a) = m.pc
    BY <2>1 DEF Caller
  <2>3. F[a].scope \in X
    BY <1>6
  <2> HIDE DEF a, b
  <2>4. m.pc \in Tree /\ Fits(Within(m.pc), F[a], z) /\ z \in BOOLEAN
    BY <1>2, <2>1, <2>2
  <2>5. q \in Tree /\ Fits(Within(q), m, y) /\ y \in BOOLEAN
    BY <1>2, <2>1
  <2> HIDE DEF m, q, y, z
  <2>6. F[a].scope = In(m.pc)
    BY <2>4, FitsIn
  <2>7. m.scope \in X
    BY <2>3, <2>4, <2>5, <2>6, SealedCaller
  <2> QED
    BY <2>1, <2>7 DEF b, m
<1>7. 0 .. i - 1 \subseteq T
  <2>1. i - 1 \in Nat
    BY <1>1
  <2> HIDE DEF T
  <2> QED
    BY <1>5, <1>6, <2>1, Induction
<1>8. F[1].scope \in X
  <2>1. i - 1 \in 0 .. i - 1 /\ i - (i - 1) = 1
    BY <1>1
  <2>2. i - 1 \in T
    BY <1>7, <2>1
  <2> QED
    BY <2>1, <2>2
<1>9. p \in Tree /\ Fits(Within(p), F[1], j)
  BY StandsAt
<1>10. In(p) \in X /\ ~(Within(p) \in Tree /\ Code(Within(p)) \in Forks)
  <2>1. F[1].scope = In(p)
    BY <1>9, FitsIn
  <2> QED
    BY <1>8, <1>9, <2>1, SealedFrame
<1>11. Code(p) \notin {"event", "wait"}
  BY <1>9, <1>10, SealedIs
<1>12. Code(p) # "join"
  BY <1>9, <1>10, PlacedIs
<1> QED
  BY <1>3, <1>4, <1>9, <1>11, <1>12

(* k contexts of s have been left.                                         *)
UnwoundSoFar(s, k, g) ==
  /\ g \in HState /\ Owned(g) /\ SameLists(h, g) /\ SameRun(h, g) /\ SameEvents(h, g)
  /\ \A t \in SCB \ {s} : g.context[t] = h.context[t] /\ Frames(g, t) = Frames(h, t)
  /\ Len(g.context[s]) = Len(h.context[s]) - k
  /\ \A x \in 1 .. Len(h.context[s]) - k : Frames(g, s)[x] = Frames(h, s)[x + k]
  /\ Stands(Frames(g, s), Caller(Frames(h, s), h.pc[s], k + 1), FALSE, h.fork[s])

LEMMA UnwindsOne ==
  ASSUME program \in Programs, h \in HState, NEW s \in SCB, NEW k \in Nat, k + 1 < Len(h.context[s]),
         NEW g, UnwoundSoFar(s, k, g)
  PROVE  UnwoundSoFar(s, k + 1, exit_context(g, s)) /\ exit_context(g, s).free_context # <<>>
<1> DEFINE F == Frames(h, s)
           G == Frames(g, s)
           n == Len(h.context[s])
           u == exit_context(g, s)
           at == Caller(F, h.pc[s], k + 1)
<1>1. /\ g \in HState /\ Owned(g) /\ SameLists(h, g) /\ SameRun(h, g) /\ SameEvents(h, g)
      /\ \A t \in SCB \ {s} : g.context[t] = h.context[t] /\ Frames(g, t) = Frames(h, t)
      /\ Len(g.context[s]) = n - k
      /\ \A x \in 1 .. n - k : G[x] = F[x + k]
      /\ Stands(G, at, FALSE, h.fork[s])
  BY DEF UnwoundSoFar
<1>2. n \in Nat /\ Len(F) = n
  BY FramesIs
<1>3. G \in Seq(Frame) /\ Len(G) = n - k /\ (G = <<>> <=> g.context[s] = <<>>)
  BY <1>1, FramesIs
<1>4. g.context[s] \in Seq(CONTEXT)
  BY <1>1 DEF HState
<1> HIDE DEF F, G, n, u, at
<1>5. Len(G) > 1 /\ 1 \in 1 .. Len(G) /\ 1 # Len(G) /\ Len(G) \in Nat
  BY <1>2, <1>3 DEF n
<1>6. g.context[s] # <<>>
  BY <1>1, <1>3, <1>5, LongerIs
<1>7. /\ u \in HState /\ SameLists(g, u) /\ SameRun(g, u) /\ SameEvents(g, u)
      /\ u.free_context = <<Head(g.context[s])>> \o g.free_context
      /\ Owned(u) /\ u.context[s] = Tail(g.context[s]) /\ Frames(u, s) = Tail(G)
      /\ \A t \in SCB \ {s} : u.context[t] = g.context[t] /\ Frames(u, t) = Frames(g, t)
  BY <1>1, <1>6, Exits DEF u, G
<1>8. u.free_context # <<>>
  <2>1. g.free_context \in Seq(CONTEXT) /\ Head(g.context[s]) \in CONTEXT
    BY <1>1, <1>4, <1>6 DEF HState
  <2> QED
    BY <1>7, <2>1, PrependFacts
<1>9. G[1].pc # NULL /\ G[1].pc = Caller(F, h.pc[s], k + 1 + 1)
  <2>1. G[1].pc # NULL
    BY <1>1, <1>5 DEF Stands
  <2>2. 1 \in 1 .. n - k /\ k + 1 + 1 # 1 /\ k + 1 + 1 - 1 = 1 + k
    BY <1>3, <1>5
  <2>3. G[1] = F[1 + k]
    BY <1>1, <2>2
  <2> QED
    BY <2>1, <2>2, <2>3 DEF Caller
<1>10. Stands(Tail(G), Caller(F, h.pc[s], k + 1 + 1), FALSE, h.fork[s])
  <2>1. Stands(Tail(G), G[1].pc, FALSE, h.fork[s])
    <3>1. PICK j \in BOOLEAN : Stands(G, at, j, h.fork[s])
      BY <1>1
    <3> QED
      BY <1>3, <1>9, <3>1, StandsExit
  <2> QED
    BY <1>9, <2>1
<1>11. Len(u.context[s]) = n - (k + 1) /\ \A x \in 1 .. n - (k + 1) : Frames(u, s)[x] = F[x + (k + 1)]
  <2>1. Len(u.context[s]) = n - (k + 1)
    <3>1. Len(Tail(g.context[s])) = Len(g.context[s]) - 1
      BY <1>4, <1>6
    <3> QED
      BY <1>1, <1>2, <1>7, <3>1
  <2>2. ASSUME NEW x \in 1 .. n - (k + 1) PROVE Tail(G)[x] = F[x + (k + 1)]
    <3>1. x + 1 \in 1 .. n - k /\ x + 1 + k = x + (k + 1) /\ x \in 1 .. Len(G) - 1
      BY <1>2, <1>3
    <3>2. Tail(G)[x] = G[x + 1]
      BY <1>3, <1>5, <3>1
    <3> QED
      BY <1>1, <3>1, <3>2
  <2> QED
    BY <1>7, <2>1, <2>2
<1>12. SameLists(h, u) /\ SameRun(h, u) /\ SameEvents(h, u)
  BY <1>1, <1>7 DEF SameLists, SameRun, SameEvents
<1>13. \A t \in SCB \ {s} : u.context[t] = h.context[t] /\ Frames(u, t) = Frames(h, t)
  BY <1>1, <1>7
<1>14. UnwoundSoFar(s, k + 1, u)
  BY <1>7, <1>10, <1>11, <1>12, <1>13 DEF UnwoundSoFar, F, n
<1> QED
  BY <1>8, <1>14 DEF u

LEMMA UnwoundForgets ==
  ASSUME NEW s \in SCB, NEW k \in Nat, NEW g, UnwoundSoFar(s, k, g), g.free_context # <<>>
  PROVE  UnwoundSoFar(s, k, Forget(g))
<1> DEFINE u == Forget(g)
<1>1. g \in HState /\ Owned(g) /\ SameLists(h, g) /\ SameRun(h, g) /\ SameEvents(h, g)
  BY DEF UnwoundSoFar
<1>2. /\ u \in HState /\ SameLists(g, u) /\ SameRun(g, u) /\ SameEvents(g, u)
      /\ u.context = g.context /\ Owned(u) /\ (\A t \in SCB : Frames(u, t) = Frames(g, t))
  BY <1>1, Forgets
<1> HIDE DEF u
<1>3. SameLists(h, u) /\ SameRun(h, u) /\ SameEvents(h, u)
  BY <1>1, <1>2 DEF SameLists, SameRun, SameEvents
<1>4. UnwoundSoFar(s, k, u)
  BY <1>2, <1>3 DEF UnwoundSoFar
<1> QED
  BY <1>4 DEF u

(* All contexts of s up to the i-th have been left.                        *)
LEMMA UnwindIs ==
  ASSUME program \in Programs, h \in HState, Owned(h), NEW s \in SCB, NEW i \in 1 .. Len(h.context[s]),
         i < Len(h.context[s]), NEW c, c = h.context[s][i], h.member[c].scb = s,
         Stands(Frames(h, s), h.pc[s], FALSE, h.fork[s])
  PROVE  UnwoundSoFar(s, i, unwind_context(h, c))
<1> DEFINE n == i - 1
           S == HState
           Left(g) == Forget(exit_context(g, s))
           G == [k \in 0 .. n |-> {g \in S : UnwoundSoFar(s, k, g)}]
           next == [k \in 1 .. n |-> [g \in G[k - 1] |-> Left(g)]]
           base == h
           Step(f) == [k \in 0 .. n |-> IF k = 0 THEN base ELSE Left(f[k - 1])]
           left == CHOOSE f : f = Step(f)
<1>1. h.context[s] \in Seq(CONTEXT) /\ IsInjective(h.context[s]) /\ Len(h.context[s]) \in Nat
  BY DEF HState, Owned
<1>2. n \in Nat /\ n + 1 = i /\ i - 1 = n
  BY <1>1
<1>3. unwind_context(h, c) = exit_context(left[n], s)
  <2>1. Position(h.context[s], c) = i
    <3> DEFINE q == h.context[s]
               y == CHOOSE x \in 1 .. Len(q) : q[x] = c
    <3>1. DOMAIN q = 1 .. Len(q)
      BY <1>1
    <3>2. y \in 1 .. Len(q) /\ q[y] = c
      OBVIOUS
    <3>3. y = i
      BY <1>1, <3>1, <3>2 DEF IsInjective
    <3>4. Position(q, c) = y
      BY <3>1 DEF Position
    <3> QED
      BY <3>3, <3>4
  <2> QED
    BY <2>1 DEF unwind_context
<1>4. UnwoundSoFar(s, 0, base) /\ base \in S
  <2>1. Len(h.context[s]) = Len(h.context[s]) - 0
    BY <1>1
  <2>2. \A x \in 1 .. Len(h.context[s]) - 0 : Frames(base, s)[x] = Frames(h, s)[x + 0]
    BY <1>1
  <2>3. Caller(Frames(h, s), h.pc[s], 0 + 1) = h.pc[s]
    BY DEF Caller
  <2>4. SameLists(h, base) /\ SameRun(h, base) /\ SameEvents(h, base)
    BY DEF SameLists, SameRun, SameEvents
  <2> QED
    BY <2>1, <2>2, <2>3, <2>4 DEF UnwoundSoFar
<1>5. ASSUME NEW k \in 0 .. n, NEW g, UnwoundSoFar(s, k, g)
      PROVE  UnwoundSoFar(s, k + 1, exit_context(g, s)) /\ UnwoundSoFar(s, k + 1, Left(g)) /\ Left(g) \in S
  <2>1. k \in Nat /\ k + 1 \in Nat /\ k + 1 < Len(h.context[s])
    BY <1>1, <1>2
  <2>2. UnwoundSoFar(s, k + 1, exit_context(g, s)) /\ exit_context(g, s).free_context # <<>>
    BY <1>5, <2>1, UnwindsOne
  <2>3. UnwoundSoFar(s, k + 1, Left(g))
    BY <2>1, <2>2, UnwoundForgets
  <2> QED
    BY <2>2, <2>3 DEF UnwoundSoFar
<1> HIDE DEF Left, base
<1>6. ASSUME NEW k \in 1 .. n, NEW g, UnwoundSoFar(s, k - 1, g) PROVE UnwoundSoFar(s, k, Left(g)) /\ Left(g) \in S
  <2>1. k - 1 \in 0 .. n /\ k - 1 + 1 = k
    BY <1>2
  <2>2. UnwoundSoFar(s, k - 1 + 1, Left(g)) /\ Left(g) \in S
    BY <1>5, <1>6, <2>1
  <2> QED
    BY <2>1, <2>2
<1>7. PICK f : Follows(f, n, S, G, base, next)
  <2>1. G \in [0 .. n -> SUBSET S]
    OBVIOUS
  <2>2. base \in G[0]
    BY <1>2, <1>4
  <2>3. ASSUME NEW k \in 1 .. n PROVE next[k] \in [G[k - 1] -> G[k]]
    <3>1. k - 1 \in 0 .. n /\ k \in 0 .. n
      BY <1>2
    <3>2. G[k - 1] = {g \in S : UnwoundSoFar(s, k - 1, g)} /\ G[k] = {g \in S : UnwoundSoFar(s, k, g)}
      BY <3>1
    <3>3. next[k] = [g \in G[k - 1] |-> Left(g)]
      OBVIOUS
    <3> HIDE DEF G, next, n, S
    <3>4. \A g \in G[k - 1] : Left(g) \in G[k]
      BY <1>6, <3>2
    <3> QED
      BY <3>3, <3>4
  <2> HIDE DEF G, next, n, S, Step, left
  <2>4. Leads(n, G, next)
    BY <2>3 DEF Leads
  <2> QED
    BY <1>2, <2>1, <2>2, <2>4, Stepwise
<1>8. f = Step(f)
  <2>1. ASSUME NEW k \in 1 .. n PROVE f[k] = Left(f[k - 1])
    <3>1. k - 1 \in 0 .. n
      BY <1>2
    <3>2. next[k] = [g \in G[k - 1] |-> Left(g)]
      OBVIOUS
    <3> HIDE DEF next, n, S, G
    <3>3. f[k - 1] \in G[k - 1] /\ f[k] = next[k][f[k - 1]]
      BY <1>7, <3>1 DEF Follows
    <3> QED
      BY <3>2, <3>3
  <2> HIDE DEF next, n, S, G
  <2> QED
    BY <1>2, <1>7, <2>1 DEF Follows
<1>9. left = Step(left)
  <2>1. \E v : v = Step(v)
    BY <1>8
  <2> HIDE DEF Step
  <2> QED
    BY <2>1
<1> DEFINE T == {k \in 0 .. n : UnwoundSoFar(s, k, left[k])}
<1> HIDE DEF left
<1>10. left[0] = base /\ \A k \in 1 .. n : left[k] = Left(left[k - 1])
  <2>1. \A k \in 0 .. n : left[k] = IF k = 0 THEN base ELSE Left(left[k - 1])
    <3> HIDE DEF n
    <3> QED
      BY <1>9
  <2> HIDE DEF n
  <2> QED
    BY <1>2, <2>1
<1>11. 0 \in T
  <2> HIDE DEF n
  <2> QED
    BY <1>2, <1>4, <1>10
<1>12. ASSUME NEW k \in 0 .. n - 1, k \in T PROVE k + 1 \in T
  <2>1. k + 1 \in 1 .. n /\ k + 1 - 1 = k /\ k + 1 \in 0 .. n
    BY <1>2
  <2>2. UnwoundSoFar(s, k + 1 - 1, left[k + 1 - 1])
    BY <1>12, <2>1
  <2>3. left[k + 1] = Left(left[k + 1 - 1])
    <3> HIDE DEF n, T
    <3> QED
      BY <1>10, <2>1
  <2>4. UnwoundSoFar(s, k + 1, left[k + 1])
    <3> HIDE DEF n, T, S
    <3> QED
      BY <1>6, <2>1, <2>2, <2>3
  <2> QED
    BY <2>1, <2>4
<1>13. 0 .. n \subseteq T
  <2> HIDE DEF T, n
  <2> QED
    BY <1>2, <1>11, <1>12, Induction
<1>14. UnwoundSoFar(s, n, left[n]) /\ n \in 0 .. n
  <2> HIDE DEF n
  <2> QED
    BY <1>2, <1>13
<1>15. UnwoundSoFar(s, n + 1, exit_context(left[n], s))
  <2> HIDE DEF n
  <2> QED
    BY <1>5, <1>14
<1> QED
  BY <1>2, <1>3, <1>15

(* Every block that is disabled is in a set that is sealed.                *)
DisablesSpare == \A p \in Programs : \A s \in DOMAIN p.text : Is(p, s, {"disable"}) => Spared(p, p.text[s].block)

LEMMA DisableKeeps ==
  ASSUME IInv, DisablesSpare, Disable
  PROVE  IInv'
<1> DEFINE s == Readylist
           n == Stmt(pc).chain
           b == Stmt(pc).block
           u == Sent(h, s, n)
<1>1. Executing("disable") /\ "disable" \notin {"none", "nonblocking"} /\ "disable" \notin Waits
  BY DEF Disable, Waits
<1>2. /\ program \in Programs /\ scope = NULL /\ walk = <<>> /\ pc \in Tree /\ Code(pc) = "disable"
      /\ s \in SCB /\ h.readylist # <<>> /\ h.list[s] = "READY"
      /\ h \in HState /\ Threaded(h) /\ Owned(h) /\ Agree(h, Place(h, pc))
      /\ Frames(h, s) \in Seq(Frame) /\ Stands(Frames(h, s), pc, FALSE, h.fork[s])
      /\ h.mode[s] # "WAIT"
  BY <1>1, Executes
<1>3. h' = u /\ scope' = b /\ program' = program /\ pc' = pc /\ walk' = walk /\ calls' = calls
      /\ returning' = returning /\ fault' = fault
  BY DEF Disable, Sent
<1>4. n \in Tree /\ Within(n) = Within(pc) /\ b \in Scopes
  BY <1>2, PlacedIs
<1>5. Spared(program, b) /\ b # NULL
  <2>1. Is(program, pc, {"disable"}) /\ pc \in DOMAIN program.text
    BY <1>2 DEF Is, Tree, Code, Stmt
  <2>2. NULL \notin Scopes
    BY ContextsAssumption DEF Scopes, Blocks
  <2> QED
    BY <1>2, <1>4, <2>1, <2>2 DEF DisablesSpare, Stmt
<1>6. n \in Statements
  BY <1>4 DEF Statements, Tree
<1>7. s = Head(h.readylist)
  BY DEF Readylist
<1> HIDE DEF s, n, b
<1>8. /\ u \in HState /\ SameLists(h, u) /\ SameStacks(h, u) /\ SameEvents(h, u)
      /\ u.fork = h.fork /\ u.fork_count = h.fork_count /\ u.mode = h.mode
      /\ u.pc[s] = n /\ \A t \in SCB \ {s} : u.pc[t] = h.pc[t]
  BY <1>2, <1>6, SentIs
<1> HIDE DEF u
<1>9. Threaded(u) /\ u.list = h.list /\ u.readylist = h.readylist
  BY <1>2, <1>8 DEF Threaded, SameLists
<1>10. Owned(u) /\ (\A r : Frames(u, r) = Frames(h, r)) /\ u.context = h.context
  BY <1>2, <1>8, SameStacksOwned DEF SameStacks
<1>11. Settled(u, u.pc, s)
  <2>1. Stands(Frames(u, s), u.pc[s], FALSE, u.fork[s])
    <3>1. Stands(Frames(h, s), n, FALSE, h.fork[s])
      BY <1>2, <1>4, StandsMoves
    <3> QED
      BY <1>8, <1>10, <3>1
  <2>2. Joining(u, s) = FALSE
    BY <1>2, <1>9 DEF Joining
  <2> QED
    BY <1>2, <1>8, <1>9, <2>1, <2>2 DEF Settled, Pends
<1>12. Agree(u, u.pc)
  <2>1. \A t \in SCB \ {s} : SameProcess(h, u, t) /\ u.pc[t] = Place(h, pc)[t]
    BY <1>7, <1>8, <1>9, <1>10 DEF SameProcess, Place
  <2>2. h.list[s] \notin {"FREE", "EVENT"} /\ u.list[s] \notin {"FREE", "EVENT"}
    BY <1>2, <1>9
  <2> QED
    BY <1>2, <1>8, <1>9, <1>10, <1>11, <2>1, <2>2, OneMoves
<1>13. Agree(h, Standing)'
  <2>1. scope' # NULL
    BY <1>3, <1>5
  <2>2. Standing' = u.pc
    BY <1>3, <2>1 DEF Standing
  <2>3. Agree(h', Standing')
    BY <1>3, <1>12, <2>2
  <2> QED
    BY <1>3, <2>3, Carried
<1> QED
  BY <1>2, <1>3, <1>4, <1>5, <1>13 DEF IInv, Scopes, Tree, Spared

(* What becomes of the process that a disable has found in the block.      *)
LEMMA ConcludeIs ==
  ASSUME program \in Programs, Agree(h, h.pc), NEW s \in SCB, NEW i \in Nat, NEW g, UnwoundSoFar(s, i, g),
         NEW ret \in Tree, ret = Caller(Frames(h, s), h.pc[s], i + 1), h.list[s] \notin {"FREE", "EVENT"},
         NEW first, first = Sent(PutFirst(MadeRun(g, s), s), s, ret),
         NEW u, u = first \/ u = PutLast(first, s)
  PROVE  Agree(u, u.pc) /\ u.list[s] = "READY" /\ u.pc[s] = ret /\ \A t \in SCB \ {s} : SameProcess(h, u, t)
<1> DEFINE r == MadeRun(g, s)
           w == PutFirst(r, s)
<1>1. h \in HState /\ Threaded(h) /\ h.fork \in [SCB -> SCB \cup {NULL}]
  BY DEF Agree, HState
<1>2. /\ g \in HState /\ Owned(g) /\ SameLists(h, g) /\ SameRun(h, g) /\ SameEvents(h, g)
      /\ \A t \in SCB \ {s} : g.context[t] = h.context[t] /\ Frames(g, t) = Frames(h, t)
      /\ Stands(Frames(g, s), ret, FALSE, h.fork[s])
  BY DEF UnwoundSoFar
<1>3. Threaded(g) /\ g.list = h.list
  BY <1>1, <1>2 DEF Threaded, SameLists
<1>4. /\ r \in HState /\ SameLists(g, r) /\ SameStacks(g, r) /\ SameEvents(g, r)
      /\ r.pc = g.pc /\ r.fork = g.fork /\ r.fork_count = g.fork_count
      /\ r.mode[s] = "RUN" /\ \A t \in SCB \ {s} : r.mode[t] = g.mode[t]
  BY <1>2, MadeRunIs
<1> HIDE DEF r
<1>5. Threaded(r) /\ Owned(r) /\ r.list = h.list /\ (\A t : Frames(r, t) = Frames(g, t)) /\ r.context = g.context
  BY <1>2, <1>3, <1>4, SameStacksOwned DEF Threaded, SameLists, SameStacks
<1>6. /\ w \in HState /\ Threaded(w) /\ SameRest(r, w) /\ w.readylist # <<>>
      /\ w.list[s] = "READY" /\ \A t \in SCB \ {s} : w.list[t] = r.list[t]
  BY <1>4, <1>5, PutsFirst
<1>7. first = Sent(w, s, ret) /\ ret \in Statements
  BY DEF r, Statements, Tree
<1> HIDE DEF w
<1>8. /\ first \in HState /\ SameLists(w, first) /\ SameStacks(w, first) /\ SameEvents(w, first)
      /\ first.fork = w.fork /\ first.fork_count = w.fork_count /\ first.mode = w.mode
      /\ first.pc[s] = ret /\ \A t \in SCB \ {s} : first.pc[t] = w.pc[t]
  BY <1>6, <1>7, SentIs
<1>9. Threaded(first) /\ first.list = w.list
  BY <1>6, <1>8 DEF Threaded, SameLists
<1>10. /\ u \in HState /\ Threaded(u) /\ SameRest(first, u)
       /\ u.list[s] = "READY" /\ \A t \in SCB \ {s} : u.list[t] = first.list[t]
  <2>1. CASE u = first
    BY <1>6, <1>8, <1>9, <2>1 DEF SameRest, SameRun, SameEvents, SameStacks
  <2>2. CASE u = PutLast(first, s)
    BY <1>8, <1>9, <2>2, PutsLast
  <2> QED
    BY <2>1, <2>2
<1>11. SameStacks(g, u) /\ SameEvents(h, u) /\ u.fork = h.fork /\ u.fork_count = h.fork_count
  <2>1. SameStacks(g, u)
    BY <1>4, <1>6, <1>8, <1>10 DEF SameRest, SameStacks
  <2>2. SameEvents(h, u)
    BY <1>2, <1>4, <1>6, <1>8, <1>10 DEF SameRest, SameEvents
  <2> QED
    BY <1>2, <1>4, <1>6, <1>8, <1>10, <2>1, <2>2 DEF SameRest, SameRun
<1>12. /\ u.pc[s] = ret /\ u.mode[s] = "RUN"
       /\ \A t \in SCB \ {s} : u.pc[t] = h.pc[t] /\ u.mode[t] = h.mode[t] /\ u.list[t] = h.list[t]
  BY <1>2, <1>4, <1>5, <1>6, <1>8, <1>9, <1>10 DEF SameRest, SameRun
<1>13. Owned(u) /\ (\A t : Frames(u, t) = Frames(g, t)) /\ u.context = g.context
  BY <1>2, <1>11, SameStacksOwned DEF SameStacks
<1>14. Settled(u, u.pc, s)
  <2>1. Stands(Frames(u, s), u.pc[s], FALSE, u.fork[s])
    BY <1>2, <1>11, <1>12, <1>13
  <2>2. Joining(u, s) = FALSE
    BY <1>10 DEF Joining
  <2> QED
    BY <1>10, <1>12, <2>1, <2>2 DEF Settled, Pends
<1>15. \A t \in SCB \ {s} : SameProcess(h, u, t) /\ u.pc[t] = h.pc[t]
  BY <1>2, <1>11, <1>12, <1>13 DEF SameProcess
<1>16. u.list[s] \notin {"FREE", "EVENT"}
  BY <1>10
<1> QED
  BY <1>10, <1>11, <1>12, <1>13, <1>14, <1>15, <1>16, OneMoves

(* The process of a context, and nobody else, goes on where that returns.  *)
SentOn(c) ==
  LET s == h.member[c].scb
  IN /\ h'.list[s] = "READY" /\ h'.pc[s] = h.member[c].pc /\ \A t \in SCB \ {s} : SameProcess(h, h', t)

(* The context that a disable has found, and its process.                  *)
LEMMA VictimIs ==
  ASSUME IInv, DisableContext
  PROVE  LET c == Victim
             s == h.member[c].scb
         IN /\ scope # NULL /\ ~fault /\ calls = <<>> /\ scope \in Scopes /\ Spared(program, scope)
            /\ walk = <<>> /\ pc \in Tree /\ program \in Programs /\ Agree(h, h.pc) /\ h \in HState /\ Owned(h)
            /\ h.member[c].scope = scope /\ s \in SCB /\ c \in Range(h.context[s])
            /\ h.list[s] # "FREE" /\ Joining(h, s) \in BOOLEAN
            /\ Pends(h, h.pc, s) \/ Stands(Frames(h, s), h.pc[s], Joining(h, s), h.fork[s])
            /\ Settled(h, h.pc, s)
<1> DEFINE c == Victim
           s == h.member[c].scb
<1>1. /\ scope # NULL /\ ~fault /\ calls = <<>> /\ scope \in Scopes /\ Spared(program, scope) /\ walk = <<>> /\ pc \in Tree
      /\ program \in Programs /\ Agree(h, h.pc)
  <2>1. Disabling
    BY DEF DisableContext
  <2> QED
    BY <2>1 DEF Disabling, IInv, Standing
<1>2. h \in HState /\ Owned(h)
  BY <1>1 DEF Agree
<1>3. h.context_list[scope] \in Seq(CONTEXT) /\ h.context_list[scope] # <<>> /\ c = Head(h.context_list[scope])
  <2>1. Victim # NULL
    BY DEF DisableContext
  <2> QED
    BY <1>1, <1>2, <2>1 DEF Victim, HState
<1>4. c \in CONTEXT /\ c \in Range(h.context_list[scope])
  <2>1. IsInjective(h.context_list[scope])
    BY <1>1, <1>2 DEF Owned
  <2> QED
    BY <1>3, <2>1, TailFacts
<1>5. h.member[c].scope = scope /\ s \in SCB /\ c \in Range(h.context[s])
  <2>1. h.member[c].scope = scope /\ Used(h, c)
    BY <1>1, <1>2, <1>4 DEF Owned
  <2>2. PICK t \in SCB : c \in Range(h.context[t])
    BY <2>1 DEF Used
  <2>3. h.member[c].scb = t
    BY <1>2, <2>2 DEF Owned
  <2> QED
    BY <2>1, <2>2, <2>3
<1>6. h.context[s] # <<>>
  BY <1>5, EmptyFacts
<1>7. Settled(h, h.pc, s)
  BY <1>1, <1>5 DEF Agree
<1>8. h.list[s] # "FREE" /\ Joining(h, s) \in BOOLEAN
  BY <1>6, <1>7 DEF Settled, Joining
<1>9. Pends(h, h.pc, s) \/ Stands(Frames(h, s), h.pc[s], Joining(h, s), h.fork[s])
  BY <1>7, <1>8 DEF Settled
<1> QED
  BY <1>1, <1>2, <1>5, <1>7, <1>8, <1>9

(* disable_context does not know what to do with an assignment that has    *)
(* still to store.                                                         *)
LEMMA PendingVictim ==
  ASSUME IInv, DisableContext, Pends(h, h.pc, h.member[Victim].scb)
  PROVE  Fail
<1> DEFINE c == Victim
           s == h.member[c].scb
<1>1. program \in Programs /\ h \in HState /\ Owned(h) /\ s \in SCB /\ c \in Range(h.context[s])
      /\ h.list[s] # "FREE" /\ Settled(h, h.pc, s)
  BY VictimIs
<1>2. Code(h.pc[s]) = "nonblocking"
  BY DEF Pends
<1> HIDE DEF c, s
<1>3. h.fork[s] = NULL /\ Frames(h, s) = Alone(h.pc[s], s)
  BY <1>1 DEF Settled, c, s
<1>4. Len(Frames(h, s)) = 1 /\ Frames(h, s)[1].pc = NULL
  BY <1>3 DEF Alone
<1>5. Len(h.context[s]) = 1 /\ h.context[s] \in Seq(CONTEXT) /\ h.member[h.context[s][1]].pc = NULL
  <2>1. h.context[s] \in Seq(CONTEXT)
    BY <1>1 DEF HState
  <2>2. Len(Frames(h, s)) = Len(h.context[s]) /\ \A x \in 1 .. Len(h.context[s]) : Frames(h, s)[x] = h.member[h.context[s][x]]
    BY <1>1, FramesIs
  <2> QED
    BY <1>4, <2>1, <2>2
<1>6. h.member[c].pc = NULL
  <2>1. PICK x \in 1 .. Len(h.context[s]) : h.context[s][x] = c
    BY <1>1, <1>5, RangeIs, SMTT(30)
  <2> QED
    BY <1>5, <2>1
<1>7. ~CanConclude(c, TRUE, h.member[c].pc)
  BY <1>3, <1>6 DEF CanConclude, s
<1> QED
  BY <1>2, <1>7 DEF DisableContext, c, s

(* The process stays where it is, and all others too: or it has failed.    *)
LEMMA DisableContextKeeps ==
  ASSUME IInv, DisableContext
  PROVE  /\ IInv'
         /\ \A t \in SCB : Outside(t) => /\ h'.pc[t] = h.pc[t] /\ h'.list[t] = h.list[t] /\ h'.mode[t] = h.mode[t]
                                         /\ Stack(h', t) = Stack(h, t)
         /\ Fail \/ SentOn(Victim)
<1> DEFINE c == Victim
           s == h.member[c].scb
           F == Frames(h, s)
           ret == h.member[c].pc
           me == s = Readylist
           g == unwind_context(h, c)
<1>1. /\ scope # NULL /\ ~fault /\ calls = <<>> /\ scope \in Scopes /\ Spared(program, scope) /\ walk = <<>> /\ pc \in Tree
      /\ program \in Programs /\ Agree(h, h.pc)
  BY VictimIs
<1>2. h \in HState /\ Owned(h)
  BY <1>1 DEF Agree
<1>3. h.member[c].scope = scope /\ s \in SCB /\ c \in Range(h.context[s])
  BY VictimIs
<1> DEFINE n == Len(h.context[s])
<1>4. n \in Nat /\ F \in Seq(Frame) /\ Len(F) = n /\ h.context[s] \in Seq(CONTEXT)
      /\ (\A x \in 1 .. n : F[x] = h.member[h.context[s][x]]) /\ (F = <<>> <=> h.context[s] = <<>>)
  <2> HIDE DEF c, s
  <2>1. h.context[s] \in Seq(CONTEXT)
    BY <1>2, <1>3 DEF HState
  <2>2. /\ F \in Seq(Frame) /\ Len(F) = Len(h.context[s]) /\ Len(h.context[s]) \in Nat
        /\ \A x \in 1 .. Len(h.context[s]) : F[x] = h.member[h.context[s][x]] /\ h.context[s][x] \in CONTEXT
        /\ F = <<>> <=> h.context[s] = <<>>
    BY <1>2, <1>3, FramesIs
  <2> QED
    BY <2>1, <2>2
<1>5. PICK i \in 1 .. n : h.context[s][i] = c
  BY <1>3, <1>4, RangeIs, SMTT(30)
<1>6. F[i] = h.member[c] /\ h.context[s] # <<>>
  BY <1>4, <1>5
<1>7. /\ h.list[s] # "FREE" /\ Joining(h, s) \in BOOLEAN
      /\ Pends(h, h.pc, s) \/ Stands(F, h.pc[s], Joining(h, s), h.fork[s])
      /\ h.list[s] = "EVENT" => Code(h.pc[s]) \in {"event", "wait", "join"}
  <2>1. /\ h.list[s] # "FREE" /\ Joining(h, s) \in BOOLEAN /\ Settled(h, h.pc, s)
        /\ Pends(h, h.pc, s) \/ Stands(F, h.pc[s], Joining(h, s), h.fork[s])
    BY VictimIs
  <2>2. h.list[s] = "EVENT" => Code(h.pc[s]) \in {"event", "wait", "join"}
    BY <2>1 DEF Settled
  <2> QED
    BY <2>1, <2>2
<1>15. SUFFICES ASSUME ~Fail
                PROVE  /\ IInv'
                       /\ \A t \in SCB : Outside(t) => /\ h'.pc[t] = h.pc[t] /\ h'.list[t] = h.list[t] /\ h'.mode[t] = h.mode[t]
                                                       /\ Stack(h', t) = Stack(h, t)
                       /\ Fail \/ SentOn(Victim)
  BY Fails DEF Fail
<1>17. Stands(F, h.pc[s], Joining(h, s), h.fork[s])
  BY <1>7, <1>15, PendingVictim
<1>8. PICK X \in SUBSET Scopes : scope \in X /\ Sealed(program, X)
  BY <1>1 DEF Spared, Scopes
<1>9. F[i].pc \in Tree /\ i < n /\ Code(h.pc[s]) \notin {"event", "wait", "join"}
  <2>1. i \in 1 .. Len(F) /\ F[i].scope \in X
    BY <1>3, <1>4, <1>5, <1>6, <1>8
  <2> DEFINE j == Joining(h, s)
  <2> HIDE DEF j, F
  <2>2. Stands(F, h.pc[s], j, h.fork[s]) /\ j \in BOOLEAN
    BY <1>7, <1>17 DEF j
  <2> QED
    BY <1>1, <1>4, <1>8, <2>1, <2>2, SealedStands, SMTT(30)
<1>10. h.list[s] \notin {"FREE", "EVENT"} /\ Joining(h, s) = FALSE
  BY <1>7, <1>9 DEF Joining
<1>11. Fail \/ (Conclude(g, c, me, ret) /\ UNCHANGED calls)
  BY <1>9 DEF DisableContext
<1>12. ret \in Tree /\ ret # NULL
  <2>1. NULL \notin Tree
    BY <1>1, TreeIs
  <2> QED
    BY <1>6, <1>9, <2>1
<1>13. UnwoundSoFar(s, i, g)
  <2>1. Stands(F, h.pc[s], FALSE, h.fork[s])
    BY <1>10, <1>17
  <2>2. i \in 1 .. Len(h.context[s]) /\ i < Len(h.context[s]) /\ c = h.context[s][i] /\ h.member[c].scb = s
    BY <1>5, <1>9
  <2> HIDE DEF c, s, n
  <2> QED
    BY <1>1, <1>2, <1>3, <2>1, <2>2, UnwindIs
<1>14. ret = Caller(F, h.pc[s], i + 1) /\ i \in Nat
  <2>1. i \in Nat /\ i + 1 # 1 /\ i + 1 - 1 = i
    BY <1>4, <1>5
  <2> QED
    BY <1>6, <2>1 DEF Caller
<1>16. CASE Conclude(g, c, me, ret) /\ UNCHANGED calls
  <2> DEFINE first == Sent(PutFirst(MadeRun(g, s), s), s, ret)
  <2>1. /\ h' = first \/ h' = PutLast(first, s)
        /\ returning' = returning \cup {s} \/ returning' = returning \ {s}
        /\ program' = program /\ pc' = pc /\ walk' = walk /\ scope' = scope /\ fault' = fault /\ calls' = calls
    BY <1>12, <1>16 DEF Conclude, Sent, MadeRun
  <2>2. h.list[s] \notin {"FREE", "EVENT"} /\ ret = Caller(Frames(h, s), h.pc[s], i + 1)
    BY <1>10, <1>14
  <2> HIDE DEF c, s, ret, g, first
  <2>3. Agree(h', h'.pc) /\ h'.list[s] = "READY" /\ h'.pc[s] = ret /\ \A t \in SCB \ {s} : SameProcess(h, h', t)
    <3>1. PICK u : u = h'
      OBVIOUS
    <3>2. u = first \/ u = PutLast(first, s)
      BY <2>1, <3>1
    <3>3. first = Sent(PutFirst(MadeRun(g, s), s), s, ret)
      BY DEF first
    <3>4. Agree(u, u.pc) /\ u.list[s] = "READY" /\ u.pc[s] = ret /\ \A t \in SCB \ {s} : SameProcess(h, u, t)
      BY <1>1, <1>3, <1>12, <1>13, <1>14, <2>2, <3>2, <3>3, ConcludeIs
    <3> QED
      BY <3>1, <3>4
  <2>4. Standing' = h'.pc
    BY <1>1, <2>1 DEF Standing
  <2>5. Agree(h, Standing)'
    BY <2>1, <2>3, <2>4, Carried
  <2>6. IInv'
    BY <1>1, <1>3, <2>1, <2>5 DEF IInv, Scopes, Tree, Spared
  <2>7. ASSUME NEW t \in SCB, Outside(t) PROVE t # s
    BY <1>3, <2>7 DEF Outside, Stack
  <2>8. SentOn(Victim)
    BY <2>3 DEF SentOn, c, s, ret
  <2> QED
    BY <2>3, <2>6, <2>7, <2>8 DEF SameProcess, Stack
<1> QED
  BY <1>11, <1>15, <1>16

LEMMA ResumeIs ==
  ASSUME program \in Programs, NEW u, Agree(u, u.pc)
  PROVE  /\ Place(u, Resume(u)) = u.pc /\ Resume(u) \in Tree \cup {IDLE}
         /\ Resume(u) = IDLE <=> u.readylist = <<>>
<1> DEFINE n == Resume(u)
<1>1. u \in HState /\ Threaded(u)
  BY DEF Agree
<1>2. u.readylist \in Seq(SCB) /\ IsInjective(u.readylist) /\ u.pc \in [SCB -> Statements]
  BY <1>1 DEF HState, Threaded
<1>3. CASE u.readylist = <<>>
  BY <1>2, <1>3 DEF Resume, Place
<1>4. CASE u.readylist # <<>>
  <2> DEFINE s == Head(u.readylist)
  <2>1. s \in SCB /\ s \in Range(u.readylist)
    BY <1>2, <1>4, TailFacts
  <2>2. n = u.pc[s]
    BY <1>4 DEF Resume
  <2>3. Place(u, n) = u.pc
    BY <1>2, <1>4, <2>2 DEF Place
  <2>4. Settled(u, u.pc, s) /\ u.list[s] = "READY"
    BY <1>1, <2>1 DEF Agree, Threaded
  <2>5. n \in Tree
    BY <1>1, <2>1, <2>2, <2>4, SettledAt
  <2>6. n # IDLE
    BY <2>5, TreeIs
  <2> QED
    BY <1>4, <2>3, <2>5, <2>6
<1> QED
  BY <1>3, <1>4

LEMMA EndDisableKeeps ==
  ASSUME IInv, EndDisable
  PROVE  IInv' /\ h' = h
<1>1. /\ scope # NULL /\ scope' = NULL /\ pc' = Resume(h) /\ program' = program /\ h' = h /\ walk' = walk
      /\ calls' = calls /\ returning' = returning /\ fault' = fault
  BY DEF EndDisable, Disabling
<1>2. program \in Programs /\ Agree(h, h.pc) /\ walk = <<>>
  BY <1>1 DEF IInv, Standing
<1>3. Place(h, Resume(h)) = h.pc /\ Resume(h) \in Tree \cup {IDLE} /\ (Resume(h) = IDLE <=> h.readylist = <<>>)
  BY <1>2, ResumeIs
<1>4. Standing' = Place(h', pc')
  BY <1>1 DEF Standing, Place
<1>5. Agree(h', Standing')
  BY <1>1, <1>2, <1>3, <1>4
<1>6. Agree(h, Standing)'
  BY <1>1, <1>5, Carried
<1> QED
  BY <1>1, <1>2, <1>3, <1>6 DEF IInv, Tree

(* A disable leaves all others alone, and nothing else is a step meanwhile. *)
Bystanders ==
  Disabling => \A s \in SCB : Outside(s) =>
    /\ h'.pc[s] = h.pc[s] /\ h'.list[s] = h.list[s] /\ h'.mode[s] = h.mode[s]
    /\ Stack(h', s) = Stack(h, s)

LEMMA StepKeeps ==
  ASSUME IInv, DisablesSpare, [Next]_vars
  PROVE  IInv' /\ Bystanders
<1>1. \A code : Executing(code) => ~Disabling
  BY DEF Executing, Disabling
<1>2. CASE UNCHANGED vars
  BY <1>2, FinishedKeeps DEF vars, Bystanders, Stack
<1>3. CASE Plain
  BY <1>1, <1>3, PlainKeeps DEF Bystanders, Plain
<1>4. CASE Begin
  BY <1>1, <1>4, BeginKeeps DEF Bystanders, Begin
<1>5. CASE End
  BY <1>1, <1>5, EndKeeps DEF Bystanders, End
<1>6. CASE Fork
  BY <1>1, <1>6, ForkKeeps DEF Bystanders, Fork
<1>7. CASE Join
  BY <1>1, <1>7, JoinKeeps DEF Bystanders, Join
<1>8. CASE Delay
  BY <1>1, <1>8, DelayKeeps DEF Bystanders, Delay
<1>9. CASE Event
  BY <1>1, <1>9, EventKeeps DEF Bystanders, Event
<1>10. ASSUME NEW holds \in BOOLEAN, Wait(holds) PROVE IInv' /\ Bystanders
  BY <1>1, <1>10, WaitKeeps DEF Bystanders, Wait
<1>11. CASE Arrow
  BY <1>1, <1>11, ArrowKeeps DEF Bystanders, Arrow
<1>12. CASE NotifyNext
  <2>1. ~Disabling
    BY <1>12 DEF IInv, NotifyNext, Disabling
  <2> QED
    BY <1>12, <2>1, NotifyNextKeeps DEF Bystanders
<1>13. CASE Task
  BY <1>1, <1>13, TaskKeeps DEF Bystanders, Task
<1>14. CASE EndTask
  BY <1>1, <1>14, EndTaskKeeps DEF Bystanders, EndTask
<1>15. CASE Dump
  BY <1>1, <1>15, DumpKeeps DEF Bystanders, Dump
<1>16. CASE Disable
  BY <1>1, <1>16, DisableKeeps DEF Bystanders, Disable
<1>17. CASE DisableContext
  BY <1>17, DisableContextKeeps DEF Bystanders
<1>18. CASE LeaveLoop
  BY <1>18 DEF LeaveLoop, IInv
<1>19. CASE EndDisable
  BY <1>19, EndDisableKeeps DEF Bystanders, Stack
<1>20. CASE AdvanceTime
  <2>1. ~Disabling
    <3>1. program \in Programs
      BY DEF IInv
    <3>2. IDLE \notin Tree
      BY <3>1, TreeIs
    <3> QED
      BY <1>20, <3>2 DEF IInv, AdvanceTime, Disabling
  <2> QED
    BY <1>20, <2>1, AdvanceTimeKeeps DEF Bystanders
<1>21. CASE Finished
  BY <1>2, <1>21 DEF Finished
<1>22. CASE NonBlocking
  BY <1>1, <1>22, NonBlockingKeeps DEF Bystanders, NonBlocking
<1> QED
  BY <1>22, <1>2, <1>3, <1>4, <1>5, <1>6, <1>7, <1>8, <1>9, <1>10, <1>11, <1>12, <1>13, <1>14, <1>15, <1>16, <1>17,
     <1>18, <1>19, <1>20, <1>21 DEF Next

-----------------------------------------------------------------------------
(* What follows from the invariant.                                        *)

LEMMA ConcatInjective ==
  ASSUME NEW S, NEW a \in Seq(S), NEW b \in Seq(S), IsInjective(a), IsInjective(b), Range(a) \cap Range(b) = {}
  PROVE  a \o b \in Seq(S) /\ IsInjective(a \o b) /\ Range(a \o b) = Range(a) \cup Range(b)
<1> DEFINE m == Len(a)
           n == Len(b)
           q == a \o b
<1>1. /\ m \in Nat /\ n \in Nat /\ q \in Seq(S) /\ Len(q) = m + n
      /\ \A i \in 1 .. m + n : q[i] = IF i <= m THEN a[i] ELSE b[i - m]
  OBVIOUS
<1>2. /\ \A x : x \in Range(a) <=> \E i \in 1 .. m : a[i] = x
      /\ \A x : x \in Range(b) <=> \E i \in 1 .. n : b[i] = x
  BY RangeIs
<1>3. DOMAIN q = 1 .. m + n /\ DOMAIN a = 1 .. m /\ DOMAIN b = 1 .. n /\ Range(q) = {q[i] : i \in 1 .. m + n}
  <2>0. q \in Seq(S)
    BY <1>1
  <2> HIDE DEF q
  <2>1. Range(q) = {q[i] : i \in 1 .. Len(q)}
    BY <2>0, RangeIs
  <2>2. DOMAIN q = 1 .. Len(q)
    BY <2>0
  <2>3. DOMAIN a = 1 .. m /\ DOMAIN b = 1 .. n
    OBVIOUS
  <2> QED
    BY <1>1, <2>1, <2>2, <2>3
<1> HIDE DEF q, m, n
<1>4. ASSUME NEW i \in 1 .. m + n, NEW j \in 1 .. m + n, q[i] = q[j] PROVE i = j
  <2>1. CASE i <= m /\ j <= m
    <3>1. i \in 1 .. m /\ j \in 1 .. m /\ a[i] = a[j]
      BY <1>1, <1>4, <2>1
    <3> QED
      BY <1>3, <3>1 DEF IsInjective
  <2>2. CASE i > m /\ j > m
    <3>1. i - m \in 1 .. n /\ j - m \in 1 .. n /\ b[i - m] = b[j - m]
      BY <1>1, <1>4, <2>2
    <3>2. i - m = j - m
      BY <1>3, <3>1 DEF IsInjective
    <3> QED
      BY <1>1, <3>2
  <2>3. ASSUME NEW x \in 1 .. m + n, NEW y \in 1 .. m + n, x <= m, y > m PROVE q[x] # q[y]
    <3>1. x \in 1 .. m /\ q[x] = a[x] /\ y - m \in 1 .. n /\ q[y] = b[y - m]
      BY <1>1, <2>3
    <3>2. q[x] \in Range(a) /\ q[y] \in Range(b)
      BY <1>2, <3>1
    <3> QED
      BY <3>2
  <2>4. (i <= m \/ i > m) /\ (j <= m \/ j > m)
    BY <1>1
  <2> QED
    BY <1>4, <2>1, <2>2, <2>3, <2>4
<1>5. IsInjective(q)
  BY <1>3, <1>4 DEF IsInjective
<1>6. ASSUME NEW x PROVE x \in Range(q) <=> x \in Range(a) \/ x \in Range(b)
  <2>1. ASSUME x \in Range(q) PROVE x \in Range(a) \/ x \in Range(b)
    <3>1. PICK i \in 1 .. m + n : q[i] = x
      BY <1>3, <2>1
    <3>2. CASE i <= m
      <4>1. i \in 1 .. m /\ a[i] = x
        BY <1>1, <3>1, <3>2
      <4> QED
        BY <1>2, <4>1
    <3>3. CASE i > m
      <4>1. i - m \in 1 .. n /\ b[i - m] = x
        BY <1>1, <3>1, <3>3
      <4> QED
        BY <1>2, <4>1
    <3> QED
      BY <1>1, <3>2, <3>3
  <2>2. ASSUME x \in Range(a) PROVE x \in Range(q)
    <3>1. PICK i \in 1 .. m : a[i] = x
      BY <1>2, <2>2
    <3>2. i \in 1 .. m + n /\ q[i] = x
      BY <1>1, <3>1
    <3> QED
      BY <1>3, <3>2
  <2>3. ASSUME x \in Range(b) PROVE x \in Range(q)
    <3>1. PICK i \in 1 .. n : b[i] = x
      BY <1>2, <2>3
    <3>2. m + i \in 1 .. m + n /\ m + i - m = i /\ ~(m + i <= m)
      BY <1>1
    <3>3. q[m + i] = x
      BY <1>1, <3>1, <3>2
    <3> QED
      BY <1>3, <3>2, <3>3
  <2> QED
    BY <2>1, <2>2, <2>3
<1> QED
  BY <1>1, <1>5, <1>6 DEF q

LEMMA ProcessesAre ==
  ASSUME h \in HState, Threaded(h)
  PROVE  \A s \in SCB : (s \in Processes <=> h.list[s] # "FREE") /\ (AtJoin(s) <=> Joining(h, s))
<1>1. h.freelist \in Seq(SCB)
  BY DEF HState
<1>2. \A s : Contains(h.freelist, s) <=> s \in Range(h.freelist)
  BY <1>1, RangeIs
<1>3. \A s \in SCB : s \in Processes <=> h.list[s] # "FREE"
  BY <1>2 DEF Processes, Threaded
<1> QED
  BY <1>3 DEF AtJoin, Joining

LEMMA TypesAre ==
  ASSUME IInv
  PROVE  TypeOK
<1>1. /\ program \in Programs /\ calls = <<>> /\ returning \subseteq SCB /\ fault \in BOOLEAN
      /\ h \in HState /\ Threaded(h) /\ Forking(h)
      /\ walk \in Seq(Tree) /\ scope \in Scopes \cup {NULL} /\ pc \in Tree \cup {IDLE}
  BY DEF IInv, Agree
<1>2. /\ h.readylist \in Seq(SCB) /\ h.timelist \in Seq(SCB) /\ h.freelist \in Seq(SCB)
      /\ h.list \in [SCB -> {"READY", "TIME", "EVENT", "FREE", "NOLIST"}] /\ h.pc \in [SCB -> Statements]
      /\ h.mode \in [SCB -> {"RUN", "WAIT"}] /\ h.fork \in [SCB -> SCB \cup {NULL}] /\ h.fork_count \in [SCB -> Int]
      /\ h.here \in [SCB -> SCB \cup {NULL}] /\ h.context \in [SCB -> Seq(CONTEXT)] /\ h.member \in [CONTEXT -> Frame]
      /\ h.waiter \in [Tree -> SCB \cup {NULL}] /\ h.stray \in SCB \cup {NULL}
  BY <1>1 DEF HState
<1>3. IsInjective(h.readylist \o h.timelist \o h.freelist)
  <2>1. /\ Range(h.readylist) \subseteq SCB /\ Range(h.timelist) \subseteq SCB /\ Range(h.freelist) \subseteq SCB
    BY <1>2, RangeIs
  <2>2. /\ Range(h.readylist) \cap Range(h.timelist) = {} /\ Range(h.readylist) \cap Range(h.freelist) = {}
        /\ Range(h.timelist) \cap Range(h.freelist) = {}
        /\ IsInjective(h.readylist) /\ IsInjective(h.timelist) /\ IsInjective(h.freelist)
    BY <1>1, <2>1 DEF Threaded
  <2> DEFINE q == h.readylist \o h.timelist
  <2>3. q \in Seq(SCB) /\ IsInjective(q) /\ Range(q) = Range(h.readylist) \cup Range(h.timelist)
    BY <1>2, <2>2, ConcatInjective
  <2>4. q = h.readylist \o h.timelist
    OBVIOUS
  <2> HIDE DEF q
  <2>5. Range(q) \cap Range(h.freelist) = {}
    BY <2>2, <2>3
  <2>6. IsInjective(q \o h.freelist)
    BY <1>2, <2>2, <2>3, <2>5, ConcatInjective
  <2> QED
    BY <2>4, <2>6
<1>4. h.list \in [SCB -> {"READY", "TIME", "EVENT", "FREE"}]
  BY <1>1, <1>2 DEF Threaded
<1>5. h.fork_count \in [SCB -> 0 .. Cardinality(SCB)]
  BY <1>1, <1>2 DEF Forking
<1>6. IsInjective(calls) /\ Range(calls) \subseteq CONTEXT
  BY <1>1, EmptyFacts
<1>7. Range(walk) \subseteq Statements
  <2>1. Range(walk) \subseteq Tree
    BY <1>1, RangeIs
  <2> QED
    BY <2>1 DEF Statements, Tree
<1>8. \A c \in CONTEXT : h.member[c].scb \in SCB \cup {NULL} /\ h.member[c].scope \in Scopes /\ h.member[c].pc \in Statements
  <2>1. \A c \in CONTEXT : h.member[c] \in Frame
    BY <1>2
  <2> QED
    BY <2>1 DEF Frame
<1>9. pc \in Statements \cup {IDLE} /\ h.waiter \in [DOMAIN program.text -> SCB \cup {NULL}]
  BY <1>1, <1>2 DEF Statements, Tree
<1> QED
  BY <1>1, <1>2, <1>3, <1>4, <1>5, <1>6, <1>7, <1>8, <1>9 DEF TypeOK

LEMMA OwnedAre ==
  ASSUME IInv
  PROVE  ContextsOwned
<1>1. h \in HState /\ Threaded(h) /\ Owned(h) /\ \A s \in SCB : Settled(h, Standing, s)
  BY DEF IInv, Agree
<1>2. /\ \A s \in SCB : h.context[s] \in Seq(CONTEXT) /\ Range(h.context[s]) \subseteq CONTEXT
      /\ \A b \in Scopes : h.context_list[b] \in Seq(CONTEXT) /\ Range(h.context_list[b]) \subseteq CONTEXT
      /\ h.free_context \in Seq(CONTEXT) /\ Range(h.free_context) \subseteq CONTEXT
  <2>1. /\ \A s \in SCB : h.context[s] \in Seq(CONTEXT)
        /\ \A b \in Scopes : h.context_list[b] \in Seq(CONTEXT)
        /\ h.free_context \in Seq(CONTEXT)
    BY <1>1 DEF HState
  <2> QED
    BY <2>1, RangeIs
<1>3. ASSUME NEW s \in SCB, NEW c \in Range(Stack(h, s)) PROVE h.member[c].scb = s /\ s \in Processes
  <2>1. h.context[s] # <<>>
    BY <1>3, EmptyFacts DEF Stack
  <2>2. h.list[s] # "FREE"
    BY <1>1, <2>1 DEF Settled, Pends
  <2> QED
    BY <1>1, <1>3, <2>2, ProcessesAre DEF Owned, Stack
<1>4. ASSUME NEW b \in Scopes
      PROVE  /\ IsInjective(h.context_list[b])
             /\ Range(h.context_list[b]) = {c \in UNION {Range(Stack(h, s)) : s \in SCB} : h.member[c].scope = b}
  <2>1. \A c : c \in UNION {Range(Stack(h, s)) : s \in SCB} <=> Used(h, c)
    BY DEF Used, Stack
  <2>2. \A c : Used(h, c) => c \in CONTEXT
    BY <1>2 DEF Used
  <2> QED
    BY <1>1, <1>2, <2>1, <2>2 DEF Owned
<1>5. IsInjective(h.free_context) /\ Range(h.free_context) \cap Live(h) = {}
  <2>1. Live(h) = {c \in CONTEXT : Used(h, c)}
    BY <1>1, LiveIs
  <2> QED
    BY <1>1, <2>1 DEF Owned
<1> QED
  BY <1>3, <1>4, <1>5 DEF ContextsOwned

(* The stack of a process that stands somewhere.                           *)
LEMMA StandsMatches ==
  ASSUME program \in Programs, h \in HState, NEW s \in SCB, NEW at,
         Stands(Frames(h, s), at, Joining(h, s), h.fork[s])
  PROVE  LET stack == Stack(h, s)
         IN /\ stack # <<>> /\ In(at) = h.member[stack[1]].scope
            /\ \A i \in DOMAIN stack :
                 IF i = Len(stack) THEN h.member[stack[i]].pc = NULL
                 ELSE /\ h.member[stack[i]].pc # NULL
                      /\ In(h.member[stack[i]].pc) = h.member[stack[i + 1]].scope
<1>7. PICK j \in BOOLEAN : Stands(Frames(h, s), at, j, h.fork[s])
  BY DEF Joining
<1> DEFINE F == Frames(h, s)
           n == Len(h.context[s])
<1>8. /\ F \in Seq(Frame) /\ Len(F) = n /\ n \in Nat
      /\ \A i \in 1 .. n : F[i] = h.member[h.context[s][i]]
  BY FramesIs
<1>9. DOMAIN h.context[s] = 1 .. n /\ Stack(h, s) = h.context[s] /\ h.context[s] \in Seq(CONTEXT)
  BY DEF HState, Stack
<1>10. /\ F # <<>> /\ n > 0
       /\ \A i \in 1 .. n : /\ Caller(F, at, i) \in Tree
                            /\ Fits(Within(Caller(F, at, i)), F[i], i = 1 /\ j)
                            /\ i = n <=> F[i].pc = NULL
  BY <1>7, <1>8, StandsAt DEF Stands
<1> HIDE DEF F, n
<1>11. ASSUME NEW i \in 1 .. n PROVE F[i].scope = In(Caller(F, at, i))
  <2>1. PICK b \in BOOLEAN : Fits(Within(Caller(F, at, i)), F[i], b)
    BY <1>10
  <2> QED
    BY <1>10, <2>1, FitsIn
<1>12. 1 \in 1 .. n
  BY <1>8, <1>10
<1>13. In(at) = h.member[h.context[s][1]].scope
  BY <1>8, <1>11, <1>12 DEF Caller
<1>14. ASSUME NEW i \in 1 .. n, i # n PROVE In(F[i].pc) = F[i + 1].scope /\ F[i].pc # NULL
  <2>1. i + 1 \in 1 .. n /\ i + 1 # 1 /\ (i + 1) - 1 = i
    BY <1>8, <1>14
  <2>2. Caller(F, at, i + 1) = F[i].pc
    BY <2>1 DEF Caller
  <2>3. F[i + 1].scope = In(Caller(F, at, i + 1))
    BY <1>11, <2>1
  <2> QED
    BY <1>10, <1>14, <2>2, <2>3
<1>15. ASSUME NEW i \in 1 .. n
       PROVE  IF i = n THEN h.member[h.context[s][i]].pc = NULL
              ELSE /\ h.member[h.context[s][i]].pc # NULL
                   /\ In(h.member[h.context[s][i]].pc) = h.member[h.context[s][i + 1]].scope
  <2>1. i # n => i + 1 \in 1 .. n
    BY <1>8
  <2> QED
    BY <1>8, <1>10, <1>14, <2>1
<1>16. n = Len(h.context[s])
  BY DEF n
<1>17. h.context[s] # <<>>
  BY <1>9, <1>10, <1>16
<1> QED
  BY <1>9, <1>13, <1>15, <1>16, <1>17

LEMMA StacksAre ==
  ASSUME IInv
  PROVE  StackMatches
<1>1. SUFFICES ASSUME Quiet, NEW s \in Processes
               PROVE  LET stack == Stack(h, s)
                      IN /\ stack # <<>> /\ In(At(s)) = h.member[stack[1]].scope
                         /\ \A i \in DOMAIN stack :
                              IF i = Len(stack) THEN h.member[stack[i]].pc = NULL
                              ELSE /\ h.member[stack[i]].pc # NULL
                                   /\ In(h.member[stack[i]].pc) = h.member[stack[i + 1]].scope
  BY DEF StackMatches
<1>2. program \in Programs /\ h \in HState /\ Threaded(h) /\ s \in SCB
  BY DEF IInv, Agree, Processes
<1>3. Settled(h, Place(h, pc), s)
  BY <1>1, <1>2 DEF IInv, Agree, Standing, Quiet
<1>4. Place(h, pc)[s] = At(s)
  BY <1>2 DEF Place, At, Readylist
<1>5. h.list[s] # "FREE"
  BY <1>1, <1>2, ProcessesAre
<1>19. CASE Pends(h, Place(h, pc), s)
  <2>1. Frames(h, s) = Alone(At(s), s)
    BY <1>3, <1>4, <1>5, <1>19 DEF Settled
  <2>2. Len(Frames(h, s)) = 1 /\ Frames(h, s)[1].scope = In(At(s)) /\ Frames(h, s)[1].pc = NULL
    BY <2>1 DEF Alone
  <2>3. h.context[s] \in Seq(CONTEXT)
    BY <1>2 DEF HState
  <2>4. Len(h.context[s]) = 1 /\ h.member[h.context[s][1]] = Frames(h, s)[1]
    <3>1. Len(Frames(h, s)) = Len(h.context[s]) /\ \A x \in 1 .. Len(h.context[s]) : Frames(h, s)[x] = h.member[h.context[s][x]]
      BY <1>2, FramesIs
    <3>2. Len(h.context[s]) = 1
      BY <2>2, <3>1
    <3> QED
      BY <3>1, <3>2
  <2>5. h.context[s] # <<>> /\ DOMAIN h.context[s] = {1}
    BY <2>3, <2>4
  <2> QED
    BY <2>2, <2>4, <2>5 DEF Stack
<1>18. CASE ~Pends(h, Place(h, pc), s)
  <2>1. Stands(Frames(h, s), At(s), Joining(h, s), h.fork[s])
    BY <1>3, <1>4, <1>5, <1>18 DEF Settled
  <2> QED
    BY <1>2, <2>1, StandsMatches
<1> QED
  BY <1>18, <1>19

LEMMA ForksAre ==
  ASSUME IInv
  PROVE  ForkCountExact
<1>1. h \in HState /\ Threaded(h) /\ Forking(h)
  BY DEF IInv, Agree
<1>2. h.fork \in [SCB -> SCB \cup {NULL}] /\ NULL \notin SCB
  BY <1>1, ContextsAssumption DEF HState
<1>3. \A s \in SCB : (s \in Processes <=> h.list[s] # "FREE") /\ (AtJoin(s) <=> Joining(h, s))
  BY <1>1, ProcessesAre
<1>4. Processes \subseteq SCB
  BY DEF Processes
<1>5. ASSUME NEW f \in SCB, AtJoin(f)
      PROVE  h.fork_count[f] > 0 /\ h.fork_count[f] = Cardinality({s \in Processes : h.fork[s] = f})
  <2>1. Arms(h, f) = {s \in Processes : h.fork[s] = f}
    BY <1>3, <1>4 DEF Arms
  <2>2. h.fork_count[f] > 0 /\ h.fork_count[f] = Cardinality(Arms(h, f))
    BY <1>1, <1>3, <1>5 DEF Forking
  <2> QED
    BY <2>1, <2>2
<1>6. ASSUME NEW s \in Processes, h.fork[s] # NULL PROVE AtJoin(h.fork[s])
  BY <1>1, <1>2, <1>3, <1>4, <1>6 DEF Forking
<1> QED
  BY <1>5, <1>6 DEF ForkCountExact

LEMMA WaitersAre ==
  ASSUME IInv
  PROVE  WaitersThreaded
<1>1. SUFFICES ASSUME NEW s \in Processes, h.list[s] = "EVENT", Code(h.pc[s]) \in {"event", "wait"}
               PROVE  /\ Contains(h.event_chain[Stmt(h.pc[s]).event], h.pc[s])
                      /\ Reached(h.pc[s], s)
  BY DEF WaitersThreaded
<1> DEFINE m == h.pc[s]
           q == h.event_chain[Stmt(m).event]
<1>2. program \in Programs /\ h \in HState /\ Waiters(h) /\ s \in SCB
  BY DEF IInv, Agree, Processes
<1>3. m \in Tree /\ Code(m) \in {"event", "wait"}
  BY <1>1 DEF Code, Tree
<1>4. Stmt(m).event \in Events
  BY <1>2, <1>3, PlacedIs
<1>5. q \in Seq(Tree)
  BY <1>2, <1>4 DEF HState
<1>6. s \in WaitingAt(h, m)
  BY <1>1, <1>2 DEF WaitingAt
<1>7. Marked(h, m)
  BY <1>2, <1>3 DEF Waiters
<1>8. m \in Range(q)
  BY <1>6, <1>7 DEF Marked
<1>9. Contains(q, m)
  BY <1>5, <1>8, RangeIs
<1>10. PICK Q : Queue(h, m, Q)
  BY <1>7, <1>8 DEF Marked
<1>11. /\ Q \in Seq(SCB) /\ s \in Range(Q) /\ Q[1] = h.waiter[m] /\ Range(Q) = WaitingAt(h, m)
       /\ \A i \in 1 .. Len(Q) : h.here[Q[i]] = IF i = Len(Q) THEN NULL ELSE Q[i + 1]
  BY <1>6, <1>10 DEF Queue
<1>12. PICK i \in 1 .. Len(Q) : Q[i] = s
  BY <1>11, RangeIs
<1>13. CASE i = 1
  BY <1>9, <1>11, <1>12, <1>13 DEF Reached
<1>14. CASE i # 1
  <2>1. i - 1 \in 1 .. Len(Q) /\ i - 1 # Len(Q) /\ (i - 1) + 1 = i
    BY <1>11, <1>14
  <2>2. h.here[Q[i - 1]] = s
    BY <1>11, <1>12, <2>1
  <2>3. Q[i - 1] \in Range(Q)
    BY <1>11, <2>1, RangeIs
  <2>4. Q[i - 1] \in SCB /\ h.pc[Q[i - 1]] = m
    BY <1>11, <2>3 DEF WaitingAt
  <2> QED
    BY <1>9, <2>2, <2>4 DEF Reached
<1> QED
  BY <1>9, <1>13, <1>14

LEMMA ConsistentAre ==
  ASSUME IInv
  PROVE  ProcessesConsistent
BY TypesAre, OwnedAre, StacksAre, ForksAre, WaitersAre DEF ProcessesConsistent

-----------------------------------------------------------------------------
(* The theorems about programs that disable.                               *)

(* In every program whose disables are spared, lists, stacks, forks and    *)
(* markers agree about every process: disable, FreeSCB and the recycling   *)
(* of contexts (exec.cc) never leave a context with the wrong process, a   *)
(* fork waiting for arms that are gone, or a waiter no event can reach.    *)
THEOREM ProcessesStayConsistent ==
  ASSUME DisablesSpare
  PROVE  Spec => []ProcessesConsistent
<1>1. Init => IInv
  BY InitKeeps
<1>2. IInv /\ [Next]_vars => IInv'
  BY StepKeeps
<1>3. IInv => ProcessesConsistent
  BY ConsistentAre
<1> QED
  BY <1>1, <1>2, <1>3, PTL DEF Spec

(* In such a program disable_context leaves every process that is not in   *)
(* the disabled block where it stands, on its list, in its mode and with   *)
(* its stack (exec.cc, DISABLE_STMT).                                      *)
THEOREM BystandersStay ==
  ASSUME DisablesSpare
  PROVE  Spec => BystandersKept
<1>1. Init => IInv
  BY InitKeeps
<1>2. IInv /\ [Next]_vars => IInv'
  BY StepKeeps
<1>3. IInv /\ [Next]_vars => [Bystanders]_vars
  BY StepKeeps
<1>4. IInv /\ [Next]_vars => [Disabling => \A s \in SCB : Outside(s) =>
         /\ h'.pc[s] = h.pc[s] /\ h'.list[s] = h.list[s] /\ h'.mode[s] = h.mode[s]
         /\ Stack(h', s) = Stack(h, s)]_vars
  BY <1>3 DEF Bystanders
<1> QED
  BY <1>1, <1>2, <1>4, PTL DEF Spec, BystandersKept

-----------------------------------------------------------------------------
(* Disables that cannot fail.  A block is calm if nobody who stands in it  *)
(* waits but for a delay, enters another block, forks, disables or assigns *)
(* without blocking.  Then a process in it is either the one that executes *)
(* or in a delay: for one that is ready at any other statement, and for a  *)
(* pending assignment, disable_context has no case.                        *)

Calm(p, b) ==
  /\ b # TOP
  /\ \A s \in DOMAIN p.text : /\ Is(p, s, Forks) => p.text[s].block # b
                              /\ BlockOf(p, s) = b => Is(p, s, {"plain", "delay", "arrow", "end", "task_block"})
DisablesCalm == \A p \in Programs : \A s \in DOMAIN p.text : Is(p, s, {"disable"}) => Calm(p, p.text[s].block)

(* Whoever does not wait stands in no calm block, but for the one who      *)
(* executes, and even he while he disables.                                *)
Alert(g, t) == g.list[t] # "FREE" /\ g.mode[t] = "RUN" => ~Calm(program, In(g.pc[t]))
Executor(g, t) == g.readylist # <<>> /\ t = Head(g.readylist)
AllAlert(g, disabled) == \A t \in SCB : (disabled = NULL /\ Executor(g, t)) \/ Alert(g, t)

CalmInv == IInv /\ ~fault /\ AllAlert(h, scope) /\ (scope # NULL => Calm(program, scope))

LEMMA CalmIs ==
  ASSUME program \in Programs, NEW b, Calm(program, b)
  PROVE  /\ b # TOP
         /\ \A s \in Tree : /\ Code(s) \in Forks => Stmt(s).block # b
                            /\ In(s) = b => Code(s) \in {"plain", "delay", "arrow", "end", "task_block"}
BY TreeIs DEF Calm, Is, Tree, Code, Stmt, In

LEMMA CalmIsSpared ==
  ASSUME DisablesCalm
  PROVE  DisablesSpare
<1>1. ASSUME NEW p \in Programs, NEW s \in DOMAIN p.text, Is(p, s, {"disable"}) PROVE Spared(p, p.text[s].block)
  <2> DEFINE b == p.text[s].block
  <2>1. Calm(p, b)
    BY <1>1 DEF DisablesCalm
  <2>2. b \in Blocks(p)
    <3>1. WellFormed(p)
      BY ProgramsAssumption
    <3>2. Placed(p, s)
      BY <3>1 DEF WellFormed
    <3>3. b # NULL
      BY <1>1, <3>2 DEF Placed, Is
    <3> QED
      BY <3>3 DEF Blocks
  <2>3. Sealed(p, {b})
    BY <2>1 DEF Calm, Sealed, Is, Forks
  <2> HIDE DEF b
  <2>4. {b} \in SUBSET Blocks(p) /\ b \in {b}
    BY <2>2
  <2> QED
    BY <2>3, <2>4 DEF Spared, b
<1> QED
  BY <1>1 DEF DisablesSpare

LEMMA AlertCarried ==
  ASSUME program' = program, AllAlert(h', scope')
  PROVE  AllAlert(h, scope)'
<1>1. \A x : Calm(program, In(x))' <=> Calm(program, In(x))
  BY DEF In
<1> QED
  BY <1>1 DEF AllAlert, Alert, Executor

(* Nobody else has moved.                                                  *)
LEMMA AlertStays ==
  ASSUME NEW g, NEW u, AllAlert(g, NULL),
         \A t \in SCB : ~Executor(u, t) =>
           \/ u.list[t] = "FREE" \/ u.mode[t] = "WAIT" \/ ~Calm(program, In(u.pc[t]))
           \/ ~Executor(g, t) /\ g.list[t] # "FREE" /\ u.pc[t] = g.pc[t] /\ u.mode[t] = g.mode[t]
  PROVE  AllAlert(u, NULL)
BY DEF AllAlert, Alert

(* The one who executes goes on.                                           *)
LEMMA AlertGoesOn ==
  ASSUME NEW g, NEW u, AllAlert(g, NULL), SameLists(g, u), u.pc = g.pc,
         \A t \in SCB : ~Executor(g, t) => u.mode[t] = g.mode[t]
  PROVE  AllAlert(u, NULL)
BY DEF AllAlert, Alert, Executor, SameLists

(* The one who executes waits, or is over.                                 *)
LEMMA AlertSuspends ==
  ASSUME NEW g \in HState, NEW u, AllAlert(g, NULL), g.readylist # <<>>,
         \A t \in SCB \ {Head(g.readylist)} : u.pc[t] = g.pc[t] /\ u.mode[t] = g.mode[t] /\ u.list[t] = g.list[t],
         u.list[Head(g.readylist)] = "FREE" \/ u.mode[Head(g.readylist)] = "WAIT"
  PROVE  AllAlert(u, NULL)
BY DEF AllAlert, Alert, Executor

LEMMA DisableCalm ==
  ASSUME IInv, AllAlert(h, scope), ~fault, DisablesCalm, Disable
  PROVE  AllAlert(h, scope)' /\ fault' = fault /\ Calm(program, scope)'
<1> DEFINE s == Readylist
           n == Stmt(pc).chain
           b == Stmt(pc).block
           u == Sent(h, s, n)
<1>1. Executing("disable") /\ "disable" \notin {"none", "nonblocking"}
  BY DEF Disable
<1>2. /\ program \in Programs /\ scope = NULL /\ pc \in Tree /\ Code(pc) = "disable"
      /\ s \in SCB /\ h.readylist # <<>> /\ h \in HState
  BY <1>1, Executes
<1>3. h' = u /\ scope' = b /\ program' = program /\ fault' = fault
  BY DEF Disable, Sent
<1>4. n \in Tree /\ Within(n) = Within(pc)
  BY <1>2, PlacedIs
<1>5. Calm(program, b)
  <2>1. Is(program, pc, {"disable"}) /\ pc \in DOMAIN program.text
    BY <1>2 DEF Is, Tree, Code, Stmt
  <2> QED
    BY <1>2, <2>1 DEF DisablesCalm, Stmt
<1>6. n \in Statements /\ s = Head(h.readylist)
  BY <1>4 DEF Statements, Tree, Readylist
<1>7. ~Calm(program, In(n))
  <2>1. In(n) = In(pc)
    BY <1>2, <1>4, TreeIs
  <2> QED
    BY <1>2, <2>1, CalmIs
<1> HIDE DEF s, n, b
<1>8. /\ SameLists(h, u) /\ u.mode = h.mode /\ u.pc[s] = n /\ \A t \in SCB \ {s} : u.pc[t] = h.pc[t]
  BY <1>2, <1>6, SentIs
<1> HIDE DEF u
<1>9. AllAlert(u, b)
  BY <1>2, <1>6, <1>7, <1>8 DEF AllAlert, Alert, Executor, SameLists
<1> QED
  BY <1>3, <1>5, <1>9, AlertCarried

(* What is to be shown of every step.                                      *)
CalmStep == AllAlert(h, scope)' /\ ~fault' /\ (scope # NULL => Calm(program, scope))'

LEMMA CalmContinues ==
  ASSUME ~fault, scope = NULL, NEW u, NEW n, AllAlert(u, NULL),
         h' = u, program' = program, scope' = scope, fault' = fault
  PROVE  CalmStep
<1>1. AllAlert(h', scope')
  OBVIOUS
<1>2. AllAlert(h, scope)'
  BY <1>1, AlertCarried
<1> QED
  BY <1>2 DEF CalmStep

LEMMA ContextsCalm ==
  ASSUME CalmInv, Begin \/ End \/ Task \/ EndTask
  PROVE  CalmStep
<1> DEFINE s == Readylist
<1>1. IInv /\ ~fault /\ AllAlert(h, scope)
  BY DEF CalmInv
<1>2. PICK code \in {"begin", "end", "task", "task_block"} : Executing(code)
  BY DEF Begin, End, Task, EndTask
<1>3. /\ program \in Programs /\ scope = NULL /\ pc \in Tree /\ Code(pc) = code /\ s \in SCB
      /\ h \in HState /\ Owned(h) /\ AllAlert(h, NULL) /\ s = Head(h.readylist)
  <2>1. code \notin {"none", "nonblocking"}
    BY <1>2
  <2> QED
    BY <1>1, <1>2, <2>1, Executes DEF Readylist
<1>4. fault' = fault /\ program' = program /\ scope' = scope
  <2>1. End => fault' = fault
    BY <1>1, EndKeeps
  <2>2. EndTask => fault' = fault
    BY <1>1, EndTaskKeeps
  <2> QED
    BY <2>1, <2>2 DEF Begin, End, Task, EndTask, Continue, Fail
<1>5. ASSUME NEW u, SameLists(h, u), SameRun(h, u), h' = u PROVE CalmStep
  <2>1. AllAlert(u, NULL)
    BY <1>3, <1>5, AlertGoesOn DEF SameRun
  <2> QED
    BY <1>1, <1>3, <1>4, <1>5, <2>1, CalmContinues
<1>6. ASSUME CanMake(h, 1), NEW b \in Scopes, NEW r \in Statements, h' = enter_context(h, s, b, r) PROVE CalmStep
  <2> DEFINE u == enter_context(h, s, b, r)
  <2> HIDE DEF s
  <2>1. SameLists(h, u) /\ SameRun(h, u)
    <3>1. 1 \in Nat /\ 1 > 0 /\ CanMake(h, 1)
      BY <1>6
    <3> QED
      BY <1>3, <3>1, Enters
  <2> HIDE DEF u
  <2>2. h' = u
    BY <1>6 DEF u
  <2> QED
    BY <1>5, <2>1, <2>2
<1>7. ASSUME h.context[s] # <<>>, h' = exit_context(h, s) \/ h' = Forget(exit_context(h, s)) PROVE CalmStep
  <2> DEFINE v == exit_context(h, s)
             u == Forget(v)
  <2> HIDE DEF s
  <2>1. v \in HState /\ SameLists(h, v) /\ SameRun(h, v) /\ Owned(v) /\ v.free_context # <<>>
    <3>1. /\ v \in HState /\ SameLists(h, v) /\ SameRun(h, v) /\ Owned(v)
          /\ v.free_context = <<Head(h.context[s])>> \o h.free_context
      BY <1>3, <1>7, Exits
    <3>2. Head(h.context[s]) \in CONTEXT /\ h.free_context \in Seq(CONTEXT)
      BY <1>3, <1>7, ExitIs DEF HState
    <3> QED
      BY <3>1, <3>2, PrependFacts
  <2> HIDE DEF v
  <2>2. SameLists(v, u) /\ SameRun(v, u)
    BY <2>1, Forgets
  <2>3. h' = v \/ h' = u
    BY <1>7 DEF v, u
  <2> HIDE DEF u
  <2>4. SameLists(h, u) /\ SameRun(h, u)
    BY <2>1, <2>2 DEF SameLists, SameRun
  <2> QED
    BY <1>5, <2>1, <2>3, <2>4
<1>8. CASE Begin
  <2>1. Stmt(pc).block \in Scopes /\ Stmt(pc).chain \in Statements
    <3>1. Code(pc) = "begin"
      BY <1>8 DEF Begin, Executing
    <3> QED
      BY <1>3, <3>1, PlacedIs DEF Statements, Tree
  <2> QED
    BY <1>6, <1>8, <2>1 DEF Begin, Continue
<1>9. CASE End
  BY <1>1, <1>4, <1>7, <1>9 DEF End, Continue, Fail
<1>10. CASE Task
  <2>1. Stmt(pc).block \in Scopes /\ pc \in Statements
    <3>1. Code(pc) = "task"
      BY <1>10 DEF Task, Executing
    <3> QED
      BY <1>3, <3>1, PlacedIs DEF Statements, Tree
  <2>2. CASE CameFromDisable
    <3> DEFINE u == Forget(h)
    <3>1. h' = u /\ h.free_context # <<>>
      BY <1>10, <2>2 DEF Task, CameFromDisable
    <3>2. SameLists(h, u) /\ SameRun(h, u)
      BY <1>3, <3>1, Forgets
    <3> HIDE DEF u
    <3> QED
      BY <1>5, <3>1, <3>2
  <2>3. CASE ~CameFromDisable
    BY <1>6, <1>10, <2>1, <2>3 DEF Task
  <2> QED
    BY <2>2, <2>3
<1>11. CASE EndTask
  BY <1>1, <1>4, <1>7, <1>11 DEF EndTask, Continue, Fail
<1> QED
  BY <1>8, <1>9, <1>10, <1>11

LEMMA DelayCalm ==
  ASSUME CalmInv, Delay
  PROVE  CalmStep
<1> DEFINE s == Readylist
           g == Waiting(h)
           u == Suspended(g, "TIME")
           v == Running(h)
<1>1. IInv /\ ~fault /\ AllAlert(h, scope) /\ Executing("delay") /\ "delay" \notin {"none", "nonblocking"}
  BY DEF CalmInv, Delay
<1>2. /\ scope = NULL /\ pc \in Tree /\ s \in SCB
      /\ h \in HState /\ Threaded(h) /\ h.readylist # <<>> /\ AllAlert(h, NULL) /\ s = Head(h.readylist)
  BY <1>1, Executes DEF Readylist
<1>3. (h' = u \/ h' = v) /\ program' = program /\ scope' = scope /\ fault' = fault
  BY DEF Delay, Dispatch, Continue
<1>4. SameLists(h, v) /\ v.pc = h.pc /\ \A t \in SCB \ {s} : v.mode[t] = h.mode[t]
  BY <1>2, RunningIs
<1>5. /\ g \in HState /\ SameLists(h, g) /\ g.mode[s] = "WAIT"
      /\ \A t \in SCB \ {s} : g.mode[t] = h.mode[t] /\ g.pc[t] = h.pc[t]
  BY <1>2, WaitingIs DEF Statements, Tree
<1> HIDE DEF s, g, v, u
<1>6. Threaded(g) /\ g.readylist = h.readylist /\ g.list = h.list
  BY <1>2, <1>5 DEF Threaded, SameLists
<1>7. SameRun(g, u) /\ \A t \in SCB \ {s} : u.list[t] = g.list[t]
  BY <1>2, <1>5, <1>6, Suspends DEF u, SameRest
<1>8. AllAlert(u, NULL)
  <2>1. \A t \in SCB \ {s} : u.pc[t] = h.pc[t] /\ u.mode[t] = h.mode[t] /\ u.list[t] = h.list[t]
    BY <1>5, <1>6, <1>7 DEF SameRun
  <2>2. u.mode[s] = "WAIT"
    BY <1>5, <1>7 DEF SameRun
  <2> QED
    BY <1>2, <2>1, <2>2, AlertSuspends
<1>9. AllAlert(v, NULL)
  BY <1>2, <1>4, AlertGoesOn DEF Executor
<1> QED
  BY <1>1, <1>2, <1>3, <1>8, <1>9, CalmContinues

LEMMA EventCalm ==
  ASSUME CalmInv, Event \/ \E holds \in BOOLEAN : Wait(holds)
  PROVE  CalmStep
<1> DEFINE s == Readylist
           g == Waiting(h)
           w == WaitOnEvent(g, s, pc)
           u == Suspended(w, "EVENT")
           v == Running(h)
<1>0. PICK code \in {"event", "wait"} : Executing(code)
  BY DEF Event, Wait
<1>1. IInv /\ ~fault /\ AllAlert(h, scope) /\ code \notin {"none", "nonblocking"}
  BY <1>0 DEF CalmInv
<1>2. /\ program \in Programs /\ scope = NULL /\ pc \in Tree /\ Code(pc) = code /\ s \in SCB /\ h.list[s] = "READY"
      /\ h \in HState /\ Threaded(h) /\ h.readylist # <<>> /\ AllAlert(h, NULL) /\ s = Head(h.readylist) /\ Waiters(h)
  BY <1>0, <1>1, Executes DEF Readylist, Agree
<1>3. (h' = u \/ h' = v) /\ program' = program /\ scope' = scope /\ fault' = fault
  BY DEF Event, Wait, WaitOnEventAll, Dispatch, Continue
<1>4. SameLists(h, v) /\ v.pc = h.pc /\ \A t \in SCB \ {s} : v.mode[t] = h.mode[t]
  BY <1>2, RunningIs
<1>5. /\ g \in HState /\ SameLists(h, g) /\ SameEvents(h, g) /\ g.mode[s] = "WAIT"
      /\ \A t \in SCB \ {s} : g.mode[t] = h.mode[t] /\ g.pc[t] = h.pc[t]
  BY <1>2, WaitingIs DEF Statements, Tree
<1> HIDE DEF s, g, v, w, u
<1>6. Code(pc) \in {"event", "wait"} /\ Stmt(pc).event \in Events
  BY <1>2, PlacedIs
<1>7. pc \in Range(g.event_chain[Stmt(pc).event]) => g.waiter[pc] # s
  <2>1. Marked(h, pc)
    BY <1>2, <1>6 DEF Waiters
  <2>2. ASSUME NEW Q, Queue(h, pc, Q) PROVE h.waiter[pc] # s
    <3>1. Q[1] \in WaitingAt(h, pc)
      BY <2>2, TailFacts DEF Queue
    <3> QED
      BY <1>2, <2>2, <3>1 DEF Queue, WaitingAt
  <2> QED
    BY <1>5, <2>1, <2>2 DEF Marked, SameEvents
<1>8. w \in HState /\ SameLists(g, w) /\ SameRun(g, w)
  BY <1>2, <1>5, <1>6, <1>7, WaitOnEventIs DEF w
<1>9. Threaded(w) /\ w.readylist = h.readylist /\ w.list = h.list
  BY <1>2, <1>5, <1>8 DEF Threaded, SameLists
<1>10. SameRun(w, u) /\ \A t \in SCB \ {s} : u.list[t] = w.list[t]
  BY <1>2, <1>8, <1>9, Suspends DEF u, SameRest
<1>11. AllAlert(u, NULL)
  <2>1. \A t \in SCB \ {s} : u.pc[t] = h.pc[t] /\ u.mode[t] = h.mode[t] /\ u.list[t] = h.list[t]
    BY <1>5, <1>8, <1>9, <1>10 DEF SameRun
  <2>2. u.mode[s] = "WAIT"
    BY <1>5, <1>8, <1>10 DEF SameRun
  <2> QED
    BY <1>2, <2>1, <2>2, AlertSuspends
<1>12. AllAlert(v, NULL)
  BY <1>2, <1>4, AlertGoesOn DEF Executor
<1> QED
  BY <1>1, <1>2, <1>3, <1>11, <1>12, CalmContinues

LEMMA DumpCalm ==
  ASSUME CalmInv, Dump
  PROVE  CalmStep
<1> DEFINE s == Readylist
           u == Dumped(h)
<1>1. IInv /\ ~fault /\ AllAlert(h, scope) /\ Executing("dump") /\ "dump" \notin {"none", "nonblocking"}
  BY DEF CalmInv, Dump
<1>2. /\ program \in Programs /\ scope = NULL /\ pc \in Tree /\ Code(pc) = "dump" /\ s \in SCB
      /\ h \in HState /\ Threaded(h) /\ Owned(h) /\ h.readylist # <<>> /\ AllAlert(h, NULL) /\ s = Head(h.readylist)
      /\ Frames(h, s) \in Seq(Frame) /\ Stands(Frames(h, s), pc, FALSE, h.fork[s])
  BY <1>1, Executes DEF Readylist
<1>3. h' = u /\ program' = program /\ scope' = scope /\ fault' = fault
  BY DEF Dump, Dispatch, Continue
<1>4. Len(Frames(h, s)) <= 1
  <2>1. Within(pc) = TOP
    BY <1>2, PlacedIs
  <2>2. PICK j \in BOOLEAN : Stands(Frames(h, s), pc, j, h.fork[s])
    BY <1>2
  <2>3. Len(Frames(h, s)) = 1
    BY <1>2, <2>1, <2>2, TopStands
  <2> QED
    BY <2>3
<1> HIDE DEF s, u
<1>5. SameRun(h, u) /\ u.list[s] = "FREE" /\ \A t \in SCB \ {s} : u.list[t] = h.list[t]
  BY <1>2, <1>4, Dumps, ZenonT(30) DEF u
<1>6. AllAlert(u, NULL)
  BY <1>2, <1>5, AlertSuspends DEF SameRun
<1> QED
  BY <1>1, <1>2, <1>3, <1>6, CalmContinues

LEMMA NonBlockingCalm ==
  ASSUME CalmInv, NonBlocking
  PROVE  CalmStep
<1> DEFINE s == Readylist
           u == Pending(h, pc)
           v == Dumped(exit_context(Running(h), s))
<1>1. IInv /\ ~fault /\ AllAlert(h, scope) /\ Executing("nonblocking") /\ "nonblocking" # "none"
  BY DEF CalmInv, NonBlocking
<1>2. /\ program \in Programs /\ scope = NULL /\ Code(pc) = "nonblocking" /\ s \in SCB
      /\ h \in HState /\ h.readylist # <<>> /\ AllAlert(h, NULL) /\ s = Head(h.readylist)
      /\ Settled(h, Place(h, pc), s) /\ Place(h, pc)[s] = pc /\ h.list[s] = "READY" /\ Frames(h, s) \in Seq(Frame)
      /\ h.mode[s] \in {"RUN", "WAIT"}
  BY <1>1, ExecutesAny DEF Readylist, HState
<1>3. h.context[s] # <<>>
  <2>1. Frames(h, s) # <<>>
    <3>1. Alone(pc, s) # <<>>
      BY DEF Alone
    <3> QED
      BY <1>2, <3>1 DEF Settled, Stands
  <2> QED
    BY <1>2, <2>1, FramesIs
<1>4. CASE h.mode[s] = "WAIT"
  <2>1. h' = v /\ program' = program /\ scope' = scope /\ fault' = fault
    BY <1>3, <1>4 DEF NonBlocking, Dispatch, Continue
  <2>2. /\ v.list[s] = "FREE"
        /\ \A t \in SCB \ {s} : v.list[t] = h.list[t] /\ v.mode[t] = h.mode[t] /\ v.pc[t] = h.pc[t]
    BY <1>1, <1>3, <1>4, PendingEnds
  <2> HIDE DEF s, v
  <2>3. AllAlert(v, NULL)
    BY <1>2, <2>2, AlertSuspends
  <2> QED
    BY <1>1, <1>2, <2>1, <2>3, CalmContinues
<1>5. CASE h.mode[s] = "RUN"
  <2>1. /\ h.freelist # <<>> /\ CanMake(h, 1)
        /\ h' = u /\ program' = program /\ scope' = scope /\ fault' = fault
    BY <1>3, <1>5 DEF NonBlocking, Continue
  <2> DEFINE t == Head(h.freelist)
  <2>2. /\ u.readylist = h.readylist /\ t \in SCB /\ u.mode[t] = "WAIT"
        /\ \A r \in SCB \ {t} : u.list[r] = h.list[r] /\ u.mode[r] = h.mode[r] /\ u.pc[r] = h.pc[r]
    BY <1>1, <1>3, <1>5, <2>1, PendingIs
  <2> HIDE DEF s, u, t
  <2>3. AllAlert(u, NULL)
    BY <1>2, <2>2, AlertStays DEF Executor
  <2> QED
    BY <1>1, <1>2, <2>1, <2>3, CalmContinues
<1> QED
  BY <1>2, <1>4, <1>5

LEMMA JoinCalm ==
  ASSUME CalmInv, Join
  PROVE  CalmStep
<1> DEFINE s == Readylist
           f == h.fork[s]
           over == Over(Counted(h, f), s, f)
           g == Counted(h, f)
           v == exit_context(g, s)
           left == Dumped(v)
<1>1. IInv /\ ~fault /\ AllAlert(h, scope) /\ Executing("join") /\ "join" \notin {"none", "nonblocking"}
  BY DEF CalmInv, Join
<1>2. /\ program \in Programs /\ scope = NULL /\ pc \in Tree /\ s \in SCB
      /\ h \in HState /\ Threaded(h) /\ Owned(h) /\ h.readylist # <<>> /\ AllAlert(h, NULL) /\ s = Head(h.readylist)
      /\ Frames(h, s) \in Seq(Frame)
  BY <1>1, Executes DEF Readylist
<1>3. /\ h.mode[s] = "RUN" /\ h.context[s] # <<>> /\ f # NULL /\ h.fork_count[f] > 0 /\ h.context[f] # <<>>
      /\ f \in SCB /\ f # s /\ Len(Frames(h, s)) = 1
  BY <1>1, JoinIs
<1>4. /\ h' = IF LastArm(f) THEN over ELSE left
      /\ program' = program /\ scope' = scope /\ fault' = fault
  BY <1>3 DEF Join, Over, Mother, MadeRun, Counted, Dispatch, Continue
<1>5. f = h.fork[Readylist] /\ s = Readylist
  OBVIOUS
<1> HIDE DEF s, f, over, g, v, left
<1>6. CASE LastArm(f)
  <2>1. /\ over.pc = h.pc /\ over.readylist # <<>> /\ Head(over.readylist) = f /\ over.list[s] = "FREE"
        /\ \A t \in SCB \ {s, f} : SameProcess(h, over, t)
    BY <1>1, <1>5, <1>6, OverIs DEF over
  <2>2. ASSUME NEW t \in SCB, ~Executor(over, t)
        PROVE  \/ over.list[t] = "FREE" \/ over.mode[t] = "WAIT" \/ ~Calm(program, In(over.pc[t]))
               \/ ~Executor(h, t) /\ h.list[t] # "FREE" /\ over.pc[t] = h.pc[t] /\ over.mode[t] = h.mode[t]
    BY <1>2, <2>1, <2>2 DEF SameProcess, Executor
  <2>3. AllAlert(over, NULL)
    BY <1>2, <2>2, AlertStays
  <2> QED
    BY <1>1, <1>2, <1>4, <1>6, <2>3, CalmContinues
<1>7. CASE ~LastArm(f)
  <2>1. /\ g \in HState /\ SameLists(h, g) /\ SameStacks(h, g) /\ g.pc = h.pc /\ g.mode = h.mode
    BY <1>2, <1>3, CountedIs DEF g
  <2>2. Threaded(g) /\ Owned(g) /\ g.context = h.context /\ \A t : Frames(g, t) = Frames(h, t)
    BY <1>2, <2>1, SameStacksOwned DEF Threaded, SameLists, SameStacks
  <2>3. /\ v \in HState /\ SameLists(g, v) /\ SameRun(g, v) /\ Owned(v) /\ Frames(v, s) = Tail(Frames(h, s))
    <3>1. g.context[s] # <<>>
      BY <1>3, <2>2
    <3>2. /\ v \in HState /\ SameLists(g, v) /\ SameRun(g, v) /\ Owned(v) /\ Frames(v, s) = Tail(Frames(g, s))
      BY <1>2, <2>1, <2>2, <3>1, Exits DEF v
    <3> QED
      BY <2>2, <3>2
  <2>4. Len(Frames(v, s)) <= 1
    <3>1. PICK F, G : F = Frames(h, s) /\ G = Frames(v, s)
      OBVIOUS
    <3>2. F \in Seq(Frame) /\ Len(F) = 1 /\ G = Tail(F)
      BY <1>2, <1>3, <2>3, <3>1
    <3>3. Len(G) <= 1
      BY <3>2
    <3> QED
      BY <3>1, <3>3
  <2>5. Threaded(v) /\ v.readylist = h.readylist /\ v.list = h.list /\ v.pc = h.pc /\ v.mode = h.mode
    BY <1>2, <2>1, <2>3 DEF Threaded, SameLists, SameRun
  <2>6. SameRun(v, left) /\ left.list[s] = "FREE" /\ \A t \in SCB \ {s} : left.list[t] = v.list[t]
    BY <1>2, <2>3, <2>4, <2>5, Dumps DEF left
  <2>7. AllAlert(left, NULL)
    BY <1>2, <2>5, <2>6, AlertSuspends DEF SameRun
  <2> QED
    BY <1>1, <1>2, <1>4, <1>7, <2>7, CalmContinues
<1> QED
  BY <1>6, <1>7

LEMMA ForkCalm ==
  ASSUME CalmInv, Fork
  PROVE  CalmStep
<1> DEFINE n == Len(Stmt(pc).arms)
           built[i \in 0 .. n] == IF i = 0 THEN Forked ELSE Thread(built[i - 1], i)
           s == Readylist
           g == built[n]
           a == Parked(g, Readylist, Stmt(pc).chain)
           go == Suspended(a, "EVENT")
           r == Head(go.readylist)
           u == Sent(go, r, NULL)
<1>1. IInv /\ ~fault /\ AllAlert(h, scope)
  BY DEF CalmInv
<1>2. PICK code \in Forks : Executing(code)
  BY DEF Fork, Forks
<1>3. code \notin {"none", "nonblocking"} /\ Code(pc) \in Forks
  BY <1>2 DEF Forks, Executing
<1>4. /\ program \in Programs /\ scope = NULL /\ pc \in Tree /\ s \in SCB
      /\ h \in HState /\ h.readylist # <<>> /\ AllAlert(h, NULL) /\ s = Head(h.readylist)
  BY <1>1, <1>2, <1>3, Executes DEF Readylist
<1>5. Len(h.freelist) >= Len(Stmt(pc).arms) /\ CanMake(h, Len(Stmt(pc).arms) + 1)
  BY DEF Fork
<1>6. h' = u /\ program' = program /\ scope' = scope /\ fault' = fault
  BY DEF Fork, Forked, Uncounted, Thread, Ranged, Parked, Sent, Continue
<1>7. ForkedSoFar(n, g)
  <2> HIDE DEF g
  <2>1. ForkedSoFar(Len(Stmt(pc).arms), built[Len(Stmt(pc).arms)])
    BY <1>1, <1>2, <1>3, <1>5, ForkedIs
  <2> QED
    BY <2>1 DEF g
<1>8. /\ g \in HState /\ Threaded(g) /\ g.readylist # <<>> /\ Head(g.readylist) = s
      /\ \A t \in Made(g) : g.pc[t] \in Tree /\ Within(g.pc[t]) = pc
      /\ \A t \in SCB \ {s} : t \notin Made(g) => SameProcess(h, g, t)
  BY <1>7 DEF ForkedSoFar
<1> HIDE DEF g
<1>9. Stmt(pc).chain \in Statements
  BY <1>4, TreeIs
<1>10. Agree(go, go.pc) /\ go.readylist # <<>>
  <2>1. ForkedSoFar(Len(Stmt(pc).arms), g)
    BY <1>7
  <2> HIDE DEF go, n
  <2> QED
    BY <1>1, <1>2, <1>3, <2>1, ForkAgrees DEF go
<1>11. /\ a \in HState /\ SameLists(g, a) /\ a.mode[s] = "WAIT" /\ \A t \in SCB \ {s} : a.mode[t] = g.mode[t] /\ a.pc[t] = g.pc[t]
  BY <1>4, <1>8, <1>9, ParkedIs
<1> HIDE DEF a, n, s
<1>12. Threaded(a) /\ a.readylist = g.readylist /\ a.list = g.list
  BY <1>8, <1>11 DEF Threaded, SameLists
<1>13. SameRun(a, go) /\ \A t \in SCB \ {s} : go.list[t] = a.list[t]
  BY <1>8, <1>11, <1>12, Suspends DEF SameRest
<1> HIDE DEF go
<1>14. go \in HState /\ r \in SCB
  <2>1. go \in HState /\ go.readylist \in Seq(SCB) /\ IsInjective(go.readylist)
    BY <1>10 DEF Agree, Threaded, HState
  <2> QED
    BY <1>10, <2>1, TailFacts
<1>15. Executor(go, r)
  BY <1>10 DEF Executor
<1> HIDE DEF r
<1>16. SameLists(go, u) /\ u.mode = go.mode /\ \A t \in SCB \ {r} : u.pc[t] = go.pc[t]
  <2>1. NULL \in Statements
    BY DEF Statements
  <2> QED
    BY <1>14, <2>1, SentIs
<1> HIDE DEF u
<1>17. ASSUME NEW t \in SCB, ~Executor(u, t)
       PROVE  \/ u.list[t] = "FREE" \/ u.mode[t] = "WAIT" \/ ~Calm(program, In(u.pc[t]))
              \/ ~Executor(h, t) /\ h.list[t] # "FREE" /\ u.pc[t] = h.pc[t] /\ u.mode[t] = h.mode[t]
  <2>1. t # r
    BY <1>15, <1>16, <1>17 DEF Executor, SameLists
  <2>2. CASE t = s
    BY <1>11, <1>13, <1>16, <2>2 DEF SameRun
  <2>3. CASE t # s
    <3>1. u.pc[t] = g.pc[t] /\ u.mode[t] = g.mode[t] /\ u.list[t] = g.list[t]
      BY <1>11, <1>12, <1>13, <1>16, <2>1, <2>3 DEF SameRun, SameLists
    <3>2. CASE t \in Made(g)
      <4>1. In(g.pc[t]) = Stmt(pc).block
        BY <1>4, <1>8, <3>2, TreeIs
      <4> QED
        BY <1>3, <1>4, <3>1, <4>1, CalmIs
    <3>3. CASE t \notin Made(g)
      BY <1>4, <1>8, <2>3, <3>1, <3>3 DEF SameProcess, Executor
    <3> QED
      BY <3>2, <3>3
  <2> QED
    BY <2>2, <2>3
<1>18. AllAlert(u, NULL)
  BY <1>4, <1>17, AlertStays
<1> QED
  BY <1>1, <1>4, <1>6, <1>18, CalmContinues

LEMMA NotifyNextCalm ==
  ASSUME CalmInv, NotifyNext
  PROVE  CalmStep
<1> DEFINE m == Head(walk)
           v == Woken(h, m)
           u == Notified(h, m)
<1>1. /\ walk # <<>> /\ program' = program /\ scope' = scope /\ fault' = fault /\ (h' = h \/ h' = u)
      /\ IInv /\ ~fault /\ AllAlert(h, scope)
  BY DEF NotifyNext, CalmInv
<1>2. program \in Programs /\ walk \in Seq(Tree) /\ IsInjective(walk) /\ pc # IDLE /\ scope = NULL
  BY <1>1 DEF IInv
<1>3. PICK e \in Events : Range(walk) \subseteq Range(h.event_chain[e])
  BY <1>1 DEF IInv
<1>4. Agree(h, Place(h, pc)) /\ h.readylist # <<>> /\ AllAlert(h, NULL)
  BY <1>1, <1>2 DEF IInv, Standing
<1>5. h \in HState /\ Threaded(h) /\ Waiters(h)
  BY <1>4 DEF Agree
<1>6. m \in Range(walk) /\ m \in Range(h.event_chain[e])
  BY <1>1, <1>2, <1>3, TailFacts
<1>7. Code(m) \in {"event", "wait"} /\ Stmt(m).event = e /\ m \in Tree /\ IsInjective(h.event_chain[e])
  <2>1. h.event_chain[e] \in Seq(Tree)
    BY <1>5 DEF HState
  <2> QED
    BY <1>5, <1>6, <2>1, RangeIs DEF Waiters
<1> HIDE DEF m
<1>8. PICK Q : Queue(h, m, Q)
  BY <1>5, <1>6, <1>7 DEF Waiters, Marked
<1>9. u = event_undo(v, m)
  BY DEF Notified
<1>10. /\ v \in HState /\ SameRun(h, v) /\ v.event_chain = h.event_chain
       /\ v.readylist # <<>> /\ Head(v.readylist) = Head(h.readylist)
       /\ \A t \in WaitingAt(h, m) : v.list[t] = "READY"
       /\ \A t \in SCB \ WaitingAt(h, m) : v.list[t] = h.list[t]
  BY <1>4, <1>5, <1>8, WokenIs
<1> HIDE DEF v, u
<1>11. SameLists(v, u) /\ SameRun(v, u)
  BY <1>7, <1>9, <1>10, UndoIs
<1>12. AllAlert(u, NULL)
  <2>1. ASSUME NEW t \in SCB, ~Executor(u, t)
        PROVE  \/ u.list[t] = "FREE"
               \/ ~Executor(h, t) /\ h.list[t] # "FREE" /\ u.pc[t] = h.pc[t] /\ u.mode[t] = h.mode[t]
    <3>1. ~Executor(h, t) /\ u.pc[t] = h.pc[t] /\ u.mode[t] = h.mode[t] /\ u.list[t] = v.list[t]
      BY <1>10, <1>11, <2>1 DEF Executor, SameLists, SameRun
    <3>2. h.list[t] = "FREE" => v.list[t] = "FREE"
      BY <1>10 DEF WaitingAt
    <3> QED
      BY <3>1, <3>2
  <2> QED
    BY <1>4, <2>1, AlertStays
<1> QED
  BY <1>1, <1>2, <1>4, <1>12, CalmContinues

LEMMA AdvanceTimeCalm ==
  ASSUME CalmInv, AdvanceTime
  PROVE  CalmStep
<1>1. PICK now \in SUBSET Range(h.timelist) : Dispatch(Advanced(h, now))
  BY DEF AdvanceTime, Advanced
<1> DEFINE u == Advanced(h, now)
<1>2. /\ program \in Programs /\ IInv /\ ~fault /\ AllAlert(h, scope) /\ pc = IDLE
  BY DEF CalmInv, IInv, AdvanceTime
<1>3. scope = NULL /\ h.readylist = <<>> /\ AllAlert(h, NULL) /\ h \in HState /\ Threaded(h)
  <2>1. IDLE \notin Tree
    BY <1>2, TreeIs
  <2> QED
    BY <1>2, <2>1 DEF IInv, Agree
<1>4. /\ SameRest(h, u)
      /\ \A t \in SCB : u.list[t] = IF t \in now THEN "READY" ELSE h.list[t]
      /\ \A t \in now : t \in SCB /\ h.list[t] = "TIME"
  BY <1>3, AdvancedIs
<1>5. h' = u /\ program' = program /\ scope' = scope /\ fault' = fault
  BY <1>1 DEF Dispatch, Continue
<1> HIDE DEF u
<1>6. AllAlert(u, NULL)
  <2>1. \A t \in SCB : ~Executor(h, t)
    BY <1>3 DEF Executor
  <2>2. ASSUME NEW t \in SCB
        PROVE  \/ u.list[t] = "FREE"
               \/ ~Executor(h, t) /\ h.list[t] # "FREE" /\ u.pc[t] = h.pc[t] /\ u.mode[t] = h.mode[t]
    BY <1>4, <2>1 DEF SameRest, SameRun
  <2> QED
    BY <1>3, <2>2, AlertStays
<1> QED
  BY <1>2, <1>3, <1>5, <1>6, CalmContinues

(* A process in a calm block that a disable meets is in a delay, and is    *)
(* sent to a statement that is in no calm block.                           *)
LEMMA CalmVictim ==
  ASSUME CalmInv, DisableContext
  PROVE  LET c == Victim
             s == h.member[c].scb
         IN /\ Code(h.pc[s]) = "delay"
            /\ CanUnwind(h, c) /\ h.member[c].pc # NULL /\ ~Calm(program, In(h.member[c].pc))
<1> DEFINE c == Victim
           s == h.member[c].scb
           at == h.pc[s]
<1>1. /\ scope # NULL /\ program \in Programs /\ h \in HState /\ h.member[c].scope = scope /\ s \in SCB
      /\ c \in Range(h.context[s]) /\ h.list[s] # "FREE" /\ Settled(h, h.pc, s)
      /\ Pends(h, h.pc, s) \/ Stands(Frames(h, s), at, Joining(h, s), h.fork[s])
      /\ Joining(h, s) \in BOOLEAN
  <2>1. IInv
    BY DEF CalmInv
  <2> QED
    BY <2>1, VictimIs
<1>2. Calm(program, scope) /\ AllAlert(h, scope)
  BY <1>1 DEF CalmInv
<1> HIDE DEF c, s, at
<1>16. ~Pends(h, h.pc, s)
  <2> SUFFICES ASSUME Pends(h, h.pc, s) PROVE FALSE
    OBVIOUS
  <2>1. at \in Tree /\ Frames(h, s) = Alone(at, s) /\ Code(at) = "nonblocking"
    BY <1>1 DEF Settled, Pends, at
  <2>2. Len(Frames(h, s)) = 1 /\ Frames(h, s)[1].scope = In(at)
    BY <2>1 DEF Alone
  <2>3. h.context[s] \in Seq(CONTEXT)
    BY <1>1 DEF HState
  <2>4. Len(Frames(h, s)) = Len(h.context[s]) /\ \A x \in 1 .. Len(h.context[s]) : Frames(h, s)[x] = h.member[h.context[s][x]]
    BY <1>1, FramesIs
  <2>5. PICK x \in 1 .. Len(h.context[s]) : h.context[s][x] = c
    BY <1>1, <2>3, RangeIs, SMTT(30)
  <2>6. h.member[c].scope = In(at)
    BY <2>2, <2>4, <2>5
  <2> QED
    BY <1>1, <1>2, <2>1, <2>6, CalmIs
<1>3. PICK j \in BOOLEAN : Stands(Frames(h, s), at, j, h.fork[s])
  BY <1>1, <1>16
<1> DEFINE F == Frames(h, s)
           n == Len(h.context[s])
<1>4. /\ F \in Seq(Frame) /\ Len(F) = n /\ n \in Nat /\ \A i \in 1 .. n : F[i] = h.member[h.context[s][i]]
  BY <1>1, FramesIs
<1>5. \A i \in 1 .. n : /\ Caller(F, at, i) \in Tree
                        /\ Fits(Within(Caller(F, at, i)), F[i], i = 1 /\ j)
  BY <1>3, <1>4 DEF Stands
<1>6. h.context[s] \in Seq(CONTEXT) /\ TOP \notin Tree /\ NULL \notin Tree
  <2>1. h.context[s] \in Seq(CONTEXT)
    BY <1>1 DEF HState
  <2> QED
    BY <1>1, <2>1, TreeIs
<1>7. PICK i \in 1 .. n : h.context[s][i] = c
  BY <1>1, <1>6, RangeIs
<1>8. F[i] = h.member[c] /\ F[i].scope = scope
  BY <1>1, <1>4, <1>7
<1> HIDE DEF F, n
<1> DEFINE p == Caller(F, at, i)
<1>9. PICK k \in BOOLEAN : Fits(Within(p), F[i], k)
  BY <1>5
<1>10. p \in Tree /\ In(p) = scope
  BY <1>1, <1>5, <1>8, <1>9, FitsIn
<1> HIDE DEF p
<1>11. F[i].pc # NULL /\ ~Calm(program, In(F[i].pc))
  <2>1. Within(p) # TOP
    BY <1>1, <1>2, <1>8, <1>9, <1>6, CalmIs DEF Fits
  <2>2. ~(Within(p) \in Tree /\ Code(Within(p)) \in Forks)
    BY <1>1, <1>2, <1>8, <1>9, <1>6, CalmIs, TaskBlocksApart DEF Fits
  <2>3. CASE Within(p) \in Tree /\ Code(Within(p)) = "begin" /\ F[i].pc = Stmt(Within(p)).chain
    <3>1. F[i].pc \in Tree /\ Within(F[i].pc) = Within(Within(p))
      BY <1>1, <2>3, PlacedIs
    <3>2. In(F[i].pc) = In(Within(p))
      BY <1>1, <2>3, <3>1, TreeIs
    <3> QED
      BY <1>1, <1>6, <2>3, <3>1, <3>2, CalmIs
  <2>4. CASE F[i].pc \in Tree /\ Code(F[i].pc) = "task"
    BY <1>1, <1>6, <2>4, CalmIs
  <2> QED
    BY <1>9, <2>1, <2>2, <2>3, <2>4 DEF Fits
<1>12. i = 1
  <2>1. SUFFICES ASSUME i # 1 PROVE FALSE
    OBVIOUS
  <2>2. i - 1 \in 1 .. n /\ p = F[i - 1].pc
    BY <1>4, <1>7, <2>1 DEF p, Caller
  <2> DEFINE q == Caller(F, at, i - 1)
  <2>3. PICK b \in BOOLEAN : Fits(Within(q), F[i - 1], b)
    BY <1>5, <2>2
  <2>4. q \in Tree
    BY <1>5, <2>2
  <2> HIDE DEF q
  <2>5. Code(p) \in {"plain", "delay", "arrow", "end", "task_block"}
    BY <1>1, <1>2, <1>10, CalmIs
  <2>6. CASE Within(q) \in Tree /\ Code(Within(q)) = "begin" /\ p = Stmt(Within(q)).chain
    <3>1. In(Within(q)) = In(p)
      <4>1. Within(p) = Within(Within(q))
        BY <1>1, <2>6, PlacedIs
      <4> QED
        BY <1>1, <1>10, <2>6, <4>1, TreeIs
    <3> QED
      BY <1>1, <1>2, <1>10, <2>6, <3>1, CalmIs
  <2>7. CASE Within(q) \in Tree /\ Code(Within(q)) \in Forks /\ p = PastJoin(Within(q))
    <3>1. In(Within(q)) = In(p)
      <4>1. Within(p) = Within(Within(q))
        BY <1>1, <2>7, PlacedIs
      <4> QED
        BY <1>1, <1>10, <2>7, <4>1, TreeIs
    <3>2. Code(Within(q)) \notin {"plain", "delay", "arrow", "end", "task_block"}
      BY <2>7 DEF Forks
    <3> QED
      BY <1>1, <1>2, <1>10, <2>7, <3>1, <3>2, CalmIs
  <2>8. CASE Code(p) = "task"
    BY <2>5, <2>8
  <2>9. p # NULL
    BY <1>6, <1>10
  <2> QED
    BY <2>2, <2>3, <2>6, <2>7, <2>8, <2>9 DEF Fits
<1>13. In(at) = scope /\ Code(at) \in {"plain", "delay", "arrow", "end", "task_block"}
  <2>1. p = at
    BY <1>12 DEF p, Caller
  <2> QED
    BY <1>1, <1>2, <1>10, <2>1, CalmIs
<1>14. Code(at) = "delay"
  <2>1. h.mode[s] # "RUN"
    BY <1>1, <1>2, <1>13 DEF AllAlert, Alert, at
  <2>2. h.mode[s] \in {"RUN", "WAIT"} /\ h.list[s] \in {"READY", "TIME", "EVENT", "FREE", "NOLIST"}
    BY <1>1 DEF HState
  <2>3. CASE h.list[s] = "READY"
    BY <1>1, <1>13, <2>1, <2>2, <2>3 DEF Settled, Pends, at, Waits
  <2>4. CASE h.list[s] \in {"TIME", "EVENT"}
    BY <1>1, <1>13, <2>4 DEF Settled, Pends, at
  <2>5. h.list[s] # "NOLIST"
    BY <1>1 DEF CalmInv, IInv, Agree, Threaded
  <2> QED
    BY <1>1, <2>2, <2>3, <2>4, <2>5
<1>15. CanUnwind(h, c)
  <2>1. Contains(h.context[s], c)
    BY <1>1, <1>6, RangeIs
  <2> QED
    BY <2>1 DEF CanUnwind, s
<1> QED
  BY <1>8, <1>11, <1>14, <1>15 DEF c, s, at

LEMMA DisableContextCalm ==
  ASSUME CalmInv, DisableContext
  PROVE  CalmStep
<1> DEFINE c == Victim
           s == h.member[c].scb
           ret == h.member[c].pc
           me == s = Readylist
           g == unwind_context(h, c)
<1>1. IInv /\ ~fault /\ AllAlert(h, scope) /\ Calm(program, scope) /\ scope # NULL
  BY DEF CalmInv, DisableContext, Disabling
<1>2. Code(h.pc[s]) = "delay" /\ CanUnwind(h, c) /\ ret # NULL /\ ~Calm(program, In(ret))
  BY CalmVictim
<1>3. \E x : Conclude(x, c, me, ret) /\ UNCHANGED calls
  <2>1. CanConclude(c, me, ret)
    BY <1>2 DEF CanConclude
  <2> QED
    BY <1>2, <2>1 DEF DisableContext
<1>4. program' = program /\ scope' = scope /\ fault' = fault
  BY <1>3 DEF Conclude
<1>5. SentOn(c) /\ s \in SCB
  <2>1. SentOn(Victim) \/ Fail
    BY <1>1, DisableContextKeeps
  <2>2. ~Fail
    BY <1>1, <1>4 DEF Fail
  <2> QED
    BY <1>1, <2>1, <2>2, VictimIs
<1> HIDE DEF c, g
<1>6. h'.pc[s] = ret /\ \A t \in SCB \ {s} : SameProcess(h, h', t)
  BY <1>5 DEF SentOn
<1> HIDE DEF s, ret
<1>7. AllAlert(h', scope')
  <2>1. \A t \in SCB : Alert(h, t)
    BY <1>1 DEF AllAlert
  <2>2. ASSUME NEW t \in SCB PROVE Alert(h', t)
    <3>1. CASE t = s
      BY <1>2, <1>6, <3>1 DEF Alert
    <3>2. CASE t # s
      BY <1>6, <2>1, <3>2 DEF Alert, SameProcess
    <3> QED
      BY <3>1, <3>2
  <2> QED
    BY <2>2 DEF AllAlert
<1>8. AllAlert(h, scope)'
  BY <1>4, <1>7, AlertCarried
<1> QED
  BY <1>1, <1>4, <1>8 DEF CalmStep

LEMMA EndDisableCalm ==
  ASSUME CalmInv, EndDisable
  PROVE  CalmStep
<1>1. AllAlert(h, NULL) /\ ~fault
  BY DEF CalmInv, AllAlert, EndDisable, Disabling
<1>2. h' = h /\ scope' = NULL /\ program' = program /\ fault' = fault
  BY DEF EndDisable
<1>3. AllAlert(h', scope')
  BY <1>1, <1>2
<1>4. AllAlert(h, scope)'
  BY <1>2, <1>3, AlertCarried
<1> QED
  BY <1>1, <1>2, <1>4 DEF CalmStep

LEMMA InitCalm ==
  ASSUME Init
  PROVE  CalmInv
<1>1. IInv /\ program \in Programs /\ h = Built(program.initial) /\ scope = NULL /\ ~fault
  BY InitKeeps DEF Init
<1>2. \A t \in SCB : h.list[t] = "FREE" \/ (h.pc[t] \in Tree /\ Within(h.pc[t]) = TOP)
  <2>1. BuiltSoFar(Len(program.initial), h)
    BY <1>1, BuiltIs
  <2> QED
    BY <2>1 DEF BuiltSoFar
<1>3. \A t \in SCB : Alert(h, t)
  <2>1. TOP \notin Tree
    BY <1>1, TreeIs
  <2>2. \A x \in Tree : Within(x) = TOP => In(x) = TOP
    BY <1>1, <2>1, TreeIs
  <2> QED
    BY <1>1, <1>2, <2>2, CalmIs DEF Alert
<1> QED
  BY <1>1, <1>3 DEF CalmInv, AllAlert

LEMMA CalmKeeps ==
  ASSUME CalmInv, DisablesCalm, [Next]_vars
  PROVE  CalmInv'
<1>1. IInv /\ ~fault /\ AllAlert(h, scope) /\ (scope # NULL => Calm(program, scope)) /\ calls = <<>>
  BY DEF CalmInv, IInv
<1>2. IInv'
  BY <1>1, CalmIsSpared, StepKeeps
<1>3. CASE UNCHANGED vars
  <2>1. AllAlert(h', scope')
    BY <1>1, <1>3 DEF vars
  <2>2. AllAlert(h, scope)'
    BY <1>3, <2>1, AlertCarried DEF vars
  <2> QED
    BY <1>1, <1>2, <1>3, <2>2 DEF CalmInv, vars
<1>4. CASE CalmStep
  BY <1>2, <1>4 DEF CalmStep, CalmInv
<1>5. CASE Plain \/ Arrow
  <2>1. scope = NULL /\ h' = h /\ program' = program /\ scope' = scope /\ fault' = fault
    BY <1>5 DEF Plain, Arrow, Executing, Continue
  <2>2. AllAlert(h, NULL)
    BY <1>1, <2>1
  <2> QED
    BY <1>1, <1>4, <2>1, <2>2, CalmContinues
<1>6. CASE Disable
  <2>1. AllAlert(h, scope)' /\ fault' = fault /\ Calm(program, scope)'
    BY <1>1, <1>6, DisableCalm
  <2> QED
    BY <1>1, <1>2, <2>1 DEF CalmInv
<1>7. ~LeaveLoop
  BY <1>1 DEF LeaveLoop
<1>8. CASE Finished
  BY <1>3, <1>8 DEF Finished
<1> QED
  BY <1>3, <1>4, <1>5, <1>6, <1>7, <1>8, ContextsCalm, DelayCalm, EventCalm, DumpCalm, NonBlockingCalm, JoinCalm, ForkCalm,
     NotifyNextCalm, AdvanceTimeCalm, DisableContextCalm, EndDisableCalm DEF Next

(* In every program that disables calm blocks only, and so in every one    *)
(* that disables nothing, the code never reads a context that is not       *)
(* there, disable never meets a process in a state it does not know, and   *)
(* no process is left without a statement (exec.cc: exit_context,          *)
(* disable_context, JOIN_STMT).                                            *)
THEOREM NothingFails ==
  ASSUME DisablesCalm
  PROVE  Spec => []NoFault
<1>1. Init => CalmInv
  BY InitCalm
<1>2. CalmInv /\ [Next]_vars => CalmInv'
  BY CalmKeeps
<1>3. CalmInv => NoFault
  <2>1. SUFFICES ASSUME CalmInv PROVE NoFault
    OBVIOUS
  <2>2. program \in Programs /\ ~fault /\ (scope = NULL => pc \in Tree \cup {IDLE})
    BY <2>1 DEF CalmInv, IInv
  <2>3. NULL \notin Tree /\ NULL # IDLE
    BY <2>2, TreeIs, ContextsAssumption
  <2> QED
    BY <2>2, <2>3 DEF NoFault
<1> QED
  BY <1>1, <1>2, <1>3, PTL DEF Spec
=============================================================================
