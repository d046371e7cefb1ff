---------------------------- MODULE Strobe_proofs ----------------------------
(***************************************************************************)
(* The strobe queues stay sound and implement the passes, for any number   *)
(* of nodes, statements and user tasks.  The pointers are read as three    *)
(* sequences of nodes, one for each queue and one for the free list.       *)
(***************************************************************************)
EXTENDS Strobe, Lemmas

Place == Queue \cup {"free"}
Start(m, w) == IF w = "free" THEN m.free ELSE m.head[w]

Memory == [ free : NODE \cup {NULL}, allocated : SUBSET NODE,
            pc : [NODE -> PC \cup {NULL}], next : [NODE -> NODE \cup {NULL}],
            head : [Queue -> NODE \cup {NULL}], tail : [Queue -> NODE \cup {NULL}] ]

(* The sequences q are what the pointers of m lead through.                *)
Once(q) ==
  \A w, x \in Place : \A i \in 1 .. Len(q[w]), j \in 1 .. Len(q[x]) : q[w][i] = q[x][j] => w = x /\ i = j
Linked(m, q) ==
  \A w \in Place :
    /\ Start(m, w) = IF Len(q[w]) = 0 THEN NULL ELSE q[w][1]
    /\ \A i \in 1 .. Len(q[w]) : m.next[q[w][i]] = IF i = Len(q[w]) THEN NULL ELSE q[w][i + 1]
Ended(m, q) == \A w \in Queue : m.tail[w] = IF Len(q[w]) = 0 THEN NULL ELSE q[w][Len(q[w])]
Kept(m, q) == \A n \in NODE : n \in m.allocated <=> \E w \in Place : \E i \in 1 .. Len(q[w]) : q[w][i] = n
Threaded(m, q) == q \in [Place -> Seq(NODE)] /\ Once(q) /\ Linked(m, q) /\ Ended(m, q) /\ Kept(m, q)

-----------------------------------------------------------------------------
LEMMA PlaceFacts ==
  ASSUME NEW m \in Memory, NEW q, Threaded(m, q), NEW w \in Place
  PROVE  /\ q[w] \in Seq(NODE) /\ Len(q[w]) \in Nat /\ DOMAIN q[w] = 1 .. Len(q[w])
         /\ \A i \in 1 .. Len(q[w]) : q[w][i] \in NODE
         /\ Start(m, w) \in NODE \cup {NULL}
<1>1. q[w] \in Seq(NODE)
  BY DEF Threaded
<1>2. Start(m, w) \in NODE \cup {NULL}
  BY DEF Start, Memory, Place
<1> QED
  BY <1>1, <1>2, LenProperties

(* A sequence without repetition is no longer than there are nodes.        *)
LEMMA NotLonger ==
  ASSUME NEW seq \in Seq(NODE), Distinct(seq)
  PROVE  Len(seq) <= Cardinality(NODE) /\ Cardinality(NODE) \in Nat
<1>1. IsFiniteSet(NODE) /\ Cardinality(NODE) \in Nat
  BY StrobeAssumption, FS_CardinalityType
<1>2. Len(seq) \in Nat /\ seq \in [1 .. Len(seq) -> NODE]
  BY LenProperties
<1>3. IsFiniteSet(1 .. Len(seq)) /\ Cardinality(1 .. Len(seq)) = Len(seq)
  BY <1>2, FS_Interval
<1>4. seq \in Injection(1 .. Len(seq), NODE)
  BY <1>2 DEF Injection, IsInjective, Distinct
<1>5. Cardinality(1 .. Len(seq)) <= Cardinality(NODE)
  BY <1>1, <1>3, <1>4, FS_Injection
<1> QED
  BY <1>1, <1>3, <1>5

(* Reading a list from its start gives the sequence.                       *)
Hops(m, n, size, at) ==
  at = [k \in 1 .. size |-> IF k = 1 THEN n ELSE LET p == at[k - 1] IN IF p = NULL THEN NULL ELSE m.next[p]]
LEMMA ChainIs ==
  ASSUME NEW m \in Memory, NEW q, Threaded(m, q), NEW w \in Place
  PROVE  Chain(m, Start(m, w)) = q[w]
<1> DEFINE n == Start(m, w)
           size == Cardinality(NODE)
           len == Len(q[w])
           seen == [k \in 1 .. size |-> IF k <= len THEN q[w][k] ELSE NULL]
<1>1. /\ q[w] \in Seq(NODE) /\ len \in Nat /\ DOMAIN q[w] = 1 .. len
      /\ \A i \in 1 .. len : q[w][i] \in NODE
  BY PlaceFacts
<1>2. len <= size /\ size \in Nat
  <2>1. Distinct(q[w])
    BY DEF Distinct, Threaded, Once
  <2> QED
    BY <1>1, <2>1, NotLonger
<1>3. /\ n = IF len = 0 THEN NULL ELSE q[w][1]
      /\ \A i \in 1 .. len : m.next[q[w][i]] = IF i = len THEN NULL ELSE q[w][i + 1]
  BY DEF Threaded, Linked
<1>4. NULL \notin NODE
  BY StrobeAssumption
<1> HIDE DEF n, size, len
<1>5. Hops(m, n, size, seen)
  <2>1. ASSUME NEW k \in 1 .. size
        PROVE  seen[k] = IF k = 1 THEN n ELSE LET p == seen[k - 1] IN IF p = NULL THEN NULL ELSE m.next[p]
    <3>1. CASE k = 1
      BY <1>1, <1>2, <1>3, <3>1
    <3>2. CASE k # 1 /\ k - 1 > len
      BY <1>1, <1>2, <3>2
    <3>3. CASE k # 1 /\ k - 1 <= len
      <4>1. k - 1 \in 1 .. len /\ k - 1 \in 1 .. size /\ (k - 1) + 1 = k
        BY <1>1, <1>2, <3>3
      <4>2. seen[k - 1] = q[w][k - 1] /\ seen[k - 1] # NULL
        BY <1>1, <1>4, <4>1
      <4>3. m.next[q[w][k - 1]] = IF k - 1 = len THEN NULL ELSE q[w][k]
        BY <1>3, <4>1
      <4> QED
        BY <1>1, <1>2, <3>3, <4>1, <4>2, <4>3
    <3> QED
      BY <1>1, <1>2, <3>1, <3>2, <3>3
  <2> QED
    BY <2>1 DEF Hops
<1>6. ASSUME NEW at, Hops(m, n, size, at) PROVE at = seen
  <2> DEFINE T == {k \in Nat : k \in 1 .. size => at[k] = seen[k]}
  <2>1. 0 \in T
    OBVIOUS
  <2>2. ASSUME NEW k \in 0 .. size - 1, k \in T PROVE k + 1 \in T
    <3>1. k + 1 \in 1 .. size /\ k + 1 \in Nat
      BY <1>2
    <3>2. at[k + 1] = IF k + 1 = 1 THEN n ELSE LET p == at[k] IN IF p = NULL THEN NULL ELSE m.next[p]
      BY <1>2, <1>6, <3>1 DEF Hops
    <3>3. seen[k + 1] = IF k + 1 = 1 THEN n ELSE LET p == seen[k] IN IF p = NULL THEN NULL ELSE m.next[p]
      <4> HIDE DEF seen
      <4> QED
        BY <1>2, <1>5, <3>1 DEF Hops
    <3>4. k + 1 # 1 => at[k] = seen[k]
      BY <1>2, <2>2
    <3>5. at[k + 1] = seen[k + 1]
      <4> HIDE DEF seen
      <4> QED
        BY <3>2, <3>3, <3>4
    <3> QED
      BY <3>1, <3>5
  <2>3. 0 .. size \subseteq T
    <3> HIDE DEF T
    <3>1. \A k \in 0 .. size - 1 : k \in T => k + 1 \in T
      BY <2>2
    <3> QED
      BY <1>2, <2>1, <3>1, Induction
  <2>4. ASSUME NEW k \in 1 .. size PROVE at[k] = seen[k]
    <3>1. k \in 0 .. size
      BY <1>2
    <3>2. k \in T
      BY <2>3, <3>1
    <3> QED
      BY <3>2
  <2>5. at = [k \in 1 .. size |-> at[k]]
    BY <1>6 DEF Hops
  <2>6. seen = [k \in 1 .. size |-> seen[k]]
    OBVIOUS
  <2> QED
    <3> HIDE DEF seen
    <3> QED
      BY <2>4, <2>5, <2>6
<1> DEFINE at == CHOOSE at : Hops(m, n, size, at)
<1>7. at = seen
  <2> HIDE DEF seen
  <2> QED
    BY <1>5, <1>6
<1>8. Chain(m, n) = [k \in 1 .. Cardinality({k \in 1 .. size : at[k] # NULL}) |-> at[k]]
  BY DEF Chain, Hops, size
<1>9. {k \in 1 .. size : at[k] # NULL} = 1 .. len
  <2> HIDE DEF at
  <2> QED
    BY <1>1, <1>2, <1>4, <1>7
<1>10. Cardinality(1 .. len) = len
  BY <1>1, FS_Interval
<1>11. Chain(m, n) = [k \in 1 .. len |-> at[k]]
  <2> HIDE DEF at
  <2> QED
    BY <1>8, <1>9, <1>10
<1>12. Chain(m, n) = [k \in 1 .. len |-> q[w][k]]
  <2> HIDE DEF at
  <2> QED
    BY <1>1, <1>2, <1>7, <1>11
<1> QED
  BY <1>1, <1>12 DEF n

-----------------------------------------------------------------------------
(* enqueue_strobe: node n, from the free list or new, is the last of its   *)
(* queue.                                                                  *)
Enqueued(m, q, v, u, w, p) ==
  \E n \in NODE :
    /\ u[w] = Append(q[w], n) /\ \A x \in Queue \ {w} : u[x] = q[x]
    /\ \A x \in Queue : \A i \in 1 .. Len(q[x]) : q[x][i] # n
    /\ v.pc = [m.pc EXCEPT ![n] = p]

LEMMA EnqueueThreads ==
  ASSUME NEW m \in Memory, NEW q, Threaded(m, q), NEW w \in Queue, NEW p \in PC \cup {NULL},
         m.free # NULL \/ m.allocated # NODE
  PROVE  LET v == enqueue_strobe(m, w, p)
         IN v \in Memory /\ \E u : Threaded(v, u) /\ Enqueued(m, q, v, u, w, p)
<1> DEFINE n == IF m.free # NULL THEN m.free ELSE CHOOSE n \in NODE \ m.allocated : TRUE
           v == enqueue_strobe(m, w, p)
           len == Len(q[w])
           rest == IF Len(q["free"]) = 0 THEN <<>> ELSE Tail(q["free"])
           u == [x \in Place |-> IF x = w THEN Append(q[w], n) ELSE IF x = "free" THEN rest ELSE q[x]]
           last == m.tail[w]
           next == [m.next EXCEPT ![n] = NULL]
<1>1. /\ \A x \in Place : /\ q[x] \in Seq(NODE) /\ Len(q[x]) \in Nat
                           /\ \A i \in 1 .. Len(q[x]) : q[x][i] \in NODE
      /\ w \in Place /\ w # "free" /\ "free" \in Place
  BY PlaceFacts DEF Place, Queue
<1>2. NULL \notin NODE
  BY StrobeAssumption
<1>3. n \in NODE /\ \A x \in Queue : \A i \in 1 .. Len(q[x]) : q[x][i] # n
  <2>1. CASE m.free # NULL
    <3>1. Len(q["free"]) > 0 /\ q["free"][1] = n /\ 1 \in 1 .. Len(q["free"])
      BY <1>1, <2>1 DEF Threaded, Linked, Start
    <3>2. ASSUME NEW x \in Queue, NEW i \in 1 .. Len(q[x]), q[x][i] = n PROVE FALSE
      <4>1. x \in Place /\ x # "free"
        BY DEF Place, Queue
      <4> QED
        BY <1>1, <3>1, <3>2, <4>1 DEF Threaded, Once
    <3> QED
      BY <1>1, <3>1, <3>2
  <2>2. CASE m.free = NULL
    <3>1. n \in NODE \ m.allocated
      BY <2>2 DEF Memory
    <3> QED
      BY <3>1 DEF Threaded, Kept, Place
  <2> QED
    BY <2>1, <2>2
<1>4. /\ m.free = NULL <=> Len(q["free"]) = 0
      /\ m.free = NULL => n \notin m.allocated
      /\ m.free # NULL => n = q["free"][1] /\ n \in m.allocated
  <2>1. m.free = IF Len(q["free"]) = 0 THEN NULL ELSE q["free"][1]
    BY <1>1 DEF Threaded, Linked, Start
  <2>2. Len(q["free"]) > 0 => q["free"][1] \in NODE /\ q["free"][1] \in m.allocated
    <3>1. Len(q["free"]) > 0 => 1 \in 1 .. Len(q["free"])
      BY <1>1
    <3> QED
      BY <1>1, <3>1 DEF Threaded, Kept
  <2>3. m.free = NULL => n \in NODE \ m.allocated
    BY DEF Memory
  <2> QED
    BY <1>1, <1>2, <2>1, <2>2, <2>3
<1> HIDE DEF n
<1>5. /\ rest \in Seq(NODE)
      /\ Len(rest) = IF Len(q["free"]) = 0 THEN 0 ELSE Len(q["free"]) - 1
      /\ \A i \in 1 .. Len(rest) : rest[i] = q["free"][i + 1] /\ i + 1 \in 1 .. Len(q["free"])
  <2>1. CASE Len(q["free"]) = 0
    BY <2>1
  <2>2. CASE Len(q["free"]) # 0
    <3>1. q["free"] # <<>> /\ rest = Tail(q["free"])
      BY <1>1, <2>2
    <3> QED
      BY <1>1, <2>2, <3>1, HeadTailProperties
  <2> QED
    BY <2>1, <2>2
<1>6. /\ Append(q[w], n) \in Seq(NODE) /\ Len(Append(q[w], n)) = len + 1
      /\ \A i \in 1 .. len : Append(q[w], n)[i] = q[w][i]
      /\ Append(q[w], n)[len + 1] = n
  BY <1>1, <1>3, AppendProperties
<1> HIDE DEF rest
<1>7. u \in [Place -> Seq(NODE)]
  BY <1>1, <1>5, <1>6
<1>8. /\ Len(u[w]) = len + 1 /\ u[w][len + 1] = n
      /\ \A x \in Queue \ {w} : Len(u[x]) = Len(q[x]) /\ u[x] = q[x]
      /\ \A i \in 1 .. len : u[w][i] = q[w][i]
      /\ Len(u["free"]) = IF Len(q["free"]) = 0 THEN 0 ELSE Len(q["free"]) - 1
      /\ \A i \in 1 .. Len(u["free"]) : u["free"][i] = q["free"][i + 1] /\ i + 1 \in 1 .. Len(q["free"])
      /\ u[w] = Append(q[w], n)
  <2>1. u[w] = Append(q[w], n) /\ u["free"] = rest
    BY <1>1
  <2>2. \A x \in Queue \ {w} : x # "free" /\ x \in Place
    BY DEF Place, Queue
  <2>3. \A x \in Queue \ {w} : u[x] = q[x]
    BY <2>2
  <2> HIDE DEF u
  <2> QED
    BY <1>1, <1>5, <1>6, <2>1, <2>3
<1> HIDE DEF u
<1> DEFINE from(x, i) == IF x = "free" THEN i + 1 ELSE i
(* Each of the others has been there.                                      *)
<1>9. ASSUME NEW x \in Place, NEW i \in 1 .. Len(u[x]), ~(x = w /\ i = len + 1)
      PROVE  /\ from(x, i) \in 1 .. Len(q[x]) /\ u[x][i] = q[x][from(x, i)] /\ u[x][i] # n
             /\ u[x][i] \in NODE
  <2>1. CASE x = "free"
    <3>1. from(x, i) \in 1 .. Len(q[x]) /\ u[x][i] = q[x][from(x, i)] /\ from(x, i) # 1
      BY <1>1, <1>8, <2>1
    <3>2. Len(q["free"]) # 0 /\ 1 \in 1 .. Len(q["free"])
      BY <1>1, <1>8, <2>1
    <3>3. q[x][from(x, i)] # q["free"][1]
      BY <1>1, <2>1, <3>1, <3>2 DEF Threaded, Once
    <3> QED
      BY <1>1, <1>4, <2>1, <3>1, <3>2, <3>3
  <2>2. CASE x = w
    <3>1. i \in 1 .. len /\ from(x, i) = i
      BY <1>1, <1>8, <1>9, <2>2
    <3> QED
      BY <1>1, <1>3, <1>8, <2>2, <3>1, SMTT(30)
  <2>3. CASE x \in Queue \ {w}
    BY <1>1, <1>3, <1>8, <2>3 DEF Queue
  <2> QED
    BY <2>1, <2>2, <2>3 DEF Place
<1>10. Once(u)
  <2> SUFFICES ASSUME NEW x \in Place, NEW y \in Place, NEW i \in 1 .. Len(u[x]), NEW j \in 1 .. Len(u[y]),
                      u[x][i] = u[y][j]
               PROVE  x = y /\ i = j
    BY DEF Once
  <2>1. CASE (x = w /\ i = len + 1) \/ (y = w /\ j = len + 1)
    BY <1>8, <1>9, <2>1
  <2>2. CASE ~(x = w /\ i = len + 1) /\ ~(y = w /\ j = len + 1)
    <3>1. x = y /\ from(x, i) = from(y, j)
      <4>1. /\ from(x, i) \in 1 .. Len(q[x]) /\ u[x][i] = q[x][from(x, i)]
            /\ from(y, j) \in 1 .. Len(q[y]) /\ u[y][j] = q[y][from(y, j)]
        BY <1>9, <2>2
      <4>2. \A k \in 1 .. Len(q[x]), l \in 1 .. Len(q[y]) : q[x][k] = q[y][l] => x = y /\ k = l
        BY DEF Threaded, Once
      <4> HIDE DEF from
      <4> QED
        BY <4>1, <4>2
    <3> QED
      BY <1>1, <1>7, <3>1
  <2> QED
    BY <2>1, <2>2
<1>11. /\ v.free = IF m.free = NULL THEN NULL ELSE m.next[n]
       /\ v.allocated = m.allocated \cup {n}
       /\ v.pc = [m.pc EXCEPT ![n] = p]
       /\ v.next = IF last = NULL THEN next ELSE [next EXCEPT ![last] = n]
       /\ v.head = IF last = NULL THEN [m.head EXCEPT ![w] = n] ELSE m.head
       /\ v.tail = [m.tail EXCEPT ![w] = n]
       /\ v \in [free : {v.free}, allocated : {v.allocated}, pc : {v.pc}, next : {v.next},
                 head : {v.head}, tail : {v.tail}]
  BY DEF enqueue_strobe, Memory, n
<1>12. /\ m.free \in NODE \cup {NULL} /\ m.allocated \subseteq NODE
       /\ m.pc \in [NODE -> PC \cup {NULL}] /\ m.next \in [NODE -> NODE \cup {NULL}]
       /\ m.head \in [Queue -> NODE \cup {NULL}] /\ m.tail \in [Queue -> NODE \cup {NULL}]
  BY DEF Memory
<1>13. last = IF len = 0 THEN NULL ELSE q[w][len]
  BY DEF Threaded, Ended
<1> HIDE DEF v
<1>14. v \in Memory
  <2>1. last \in NODE \cup {NULL}
    BY <1>12
  <2>2. next \in [NODE -> NODE \cup {NULL}]
    BY <1>12
  <2>3. v.next \in [NODE -> NODE \cup {NULL}]
    BY <1>3, <1>11, <2>1, <2>2
  <2>4. v.free \in NODE \cup {NULL} /\ v.allocated \subseteq NODE
    BY <1>3, <1>11, <1>12
  <2>5. v.pc \in [NODE -> PC \cup {NULL}]
    BY <1>3, <1>11, <1>12
  <2>6. v.head \in [Queue -> NODE \cup {NULL}] /\ v.tail \in [Queue -> NODE \cup {NULL}]
    BY <1>3, <1>11, <1>12
  <2> QED
    BY <1>11, <2>3, <2>4, <2>5, <2>6 DEF Memory
(* Of every node but the last of the queue next is kept.                   *)
<1>15. /\ v.next[n] = NULL
       /\ len > 0 => v.next[q[w][len]] = n
       /\ \A e \in NODE : e # n /\ (len > 0 => e # q[w][len]) => v.next[e] = m.next[e]
  <2>1. len > 0 => q[w][len] \in NODE /\ q[w][len] # n /\ len \in 1 .. len
    BY <1>1, <1>3
  <2> QED
    BY <1>1, <1>2, <1>3, <1>11, <1>12, <1>13, <2>1
<1>16. ASSUME NEW x \in Place
       PROVE  Start(v, x) = IF Len(u[x]) = 0 THEN NULL ELSE u[x][1]
  <2>1. Start(m, x) = IF Len(q[x]) = 0 THEN NULL ELSE q[x][1]
    BY DEF Threaded, Linked
  <2>2. CASE x = "free"
    <3>1. Start(v, x) = IF Len(q[x]) = 0 THEN NULL ELSE m.next[q[x][1]]
      BY <1>4, <1>11, <2>2 DEF Start
    <3>2. Len(q[x]) # 0 => m.next[q[x][1]] = IF Len(q[x]) = 1 THEN NULL ELSE q[x][2]
      <4>1. Len(q[x]) # 0 => 1 \in 1 .. Len(q[x])
        BY <1>1
      <4>2. \A i \in 1 .. Len(q[x]) : m.next[q[x][i]] = IF i = Len(q[x]) THEN NULL ELSE q[x][i + 1]
        BY DEF Threaded, Linked
      <4>3. Len(q[x]) # 0 => m.next[q[x][1]] = IF 1 = Len(q[x]) THEN NULL ELSE q[x][1 + 1]
        BY <4>1, <4>2
      <4> QED
        BY <4>3
    <3>3. PICK a \in Nat, b \in Nat : /\ a = Len(q[x]) /\ b = Len(u[x])
                                      /\ b = IF a = 0 THEN 0 ELSE a - 1
                                      /\ a > 1 => u[x][1] = q[x][2]
      <4>1. Len(q["free"]) > 1 => 1 \in 1 .. Len(u["free"])
        BY <1>1, <1>8
      <4>2. Len(u["free"]) \in Nat /\ Len(q["free"]) \in Nat
        BY <1>1, <1>8
      <4>3. Len(q["free"]) > 1 => u["free"][1] = q["free"][1 + 1]
        BY <1>8, <4>1
      <4>4. Len(u["free"]) = IF Len(q["free"]) = 0 THEN 0 ELSE Len(q["free"]) - 1
        BY <1>8
      <4>5. 1 + 1 = 2
        OBVIOUS
      <4> HIDE DEF u
      <4>6. Len(q["free"]) > 1 => u["free"][1] = q["free"][2]
        BY <4>3, <4>5
      <4> QED
        BY <2>2, <4>2, <4>4, <4>6
    <3>4. CASE a = 0
      BY <3>1, <3>2, <3>3, <3>4
    <3>5. CASE a = 1
      BY <3>1, <3>2, <3>3, <3>5
    <3>6. CASE a > 1
      <4>1. a # 0 /\ a # 1 /\ b # 0
        BY <3>3, <3>6
      <4>2. Start(v, x) = m.next[q[x][1]]
        BY <3>1, <3>3, <4>1
      <4>3. m.next[q[x][1]] = q[x][2]
        BY <3>2, <3>3, <4>1
      <4> QED
        BY <3>3, <3>6, <4>1, <4>2, <4>3
    <3> QED
      BY <3>4, <3>5, <3>6
  <2>3. CASE x = w
    BY <1>1, <1>2, <1>8, <1>11, <1>12, <1>13, <2>1, <2>3, SMTT(30) DEF Start
  <2>4. CASE x \in Queue \ {w}
    BY <1>1, <1>8, <1>11, <1>12, <2>1, <2>4 DEF Start
  <2> QED
    BY <2>2, <2>3, <2>4 DEF Place
<1>17. ASSUME NEW x \in Place, NEW i \in 1 .. Len(u[x])
       PROVE  v.next[u[x][i]] = IF i = Len(u[x]) THEN NULL ELSE u[x][i + 1]
  <2>1. CASE x = w /\ i = len + 1
    BY <1>1, <1>8, <1>15, <2>1
  <2>2. CASE x = w /\ i = len
    BY <1>1, <1>8, <1>15, <2>2
  <2>3. CASE ~(x = w /\ i \in {len, len + 1})
    <3>1. from(x, i) \in 1 .. Len(q[x]) /\ u[x][i] = q[x][from(x, i)] /\ u[x][i] # n /\ u[x][i] \in NODE
      BY <1>9, <2>3
    <3>2. len > 0 => u[x][i] # q[w][len]
      <4>1. len > 0 => len \in 1 .. Len(q[w])
        BY <1>1
      <4>2. ~(x = w /\ from(x, i) = len)
        BY <1>1, <2>3
      <4> QED
        BY <1>1, <3>1, <4>1, <4>2 DEF Threaded, Once
    <3>3. v.next[u[x][i]] = m.next[q[x][from(x, i)]]
      BY <1>15, <3>1, <3>2
    <3>4. v.next[u[x][i]] = IF from(x, i) = Len(q[x]) THEN NULL ELSE q[x][from(x, i) + 1]
      BY <3>1, <3>3 DEF Threaded, Linked
    <3>5. from(x, i) = Len(q[x]) <=> i = Len(u[x])
      BY <1>1, <1>7, <1>8, <2>3 DEF Place
    <3>6. i # Len(u[x]) => u[x][i + 1] = q[x][from(x, i) + 1]
      <4>1. i # Len(u[x]) => i + 1 \in 1 .. Len(u[x]) /\ ~(x = w /\ i + 1 = len + 1) /\ from(x, i + 1) = from(x, i) + 1
        BY <1>1, <1>7, <2>3
      <4> QED
        BY <1>9, <4>1
    <3> QED
      BY <3>4, <3>5, <3>6
  <2> QED
    BY <2>1, <2>2, <2>3
<1>18. Linked(v, u)
  BY <1>16, <1>17 DEF Linked
<1>19. Ended(v, u)
  <2> SUFFICES ASSUME NEW x \in Queue PROVE v.tail[x] = IF Len(u[x]) = 0 THEN NULL ELSE u[x][Len(u[x])]
    BY DEF Ended
  <2>1. CASE x = w
    BY <1>1, <1>8, <1>11, <1>12, <2>1
  <2>2. CASE x # w
    <3>1. m.tail[x] = IF Len(q[x]) = 0 THEN NULL ELSE q[x][Len(q[x])]
      BY DEF Threaded, Ended
    <3> QED
      BY <1>8, <1>11, <1>12, <2>2, <3>1
  <2> QED
    BY <2>1, <2>2
<1>20. Kept(v, u)
  <2> SUFFICES ASSUME NEW e \in NODE
               PROVE  e \in v.allocated <=> \E x \in Place : \E i \in 1 .. Len(u[x]) : u[x][i] = e
    BY DEF Kept
  <2>1. ASSUME NEW x \in Place, NEW i \in 1 .. Len(u[x]), u[x][i] = e PROVE e \in v.allocated
    <3>1. CASE x = w /\ i = len + 1
      BY <1>8, <1>11, <2>1, <3>1
    <3>2. CASE ~(x = w /\ i = len + 1)
      <4>1. from(x, i) \in 1 .. Len(q[x]) /\ e = q[x][from(x, i)]
        BY <1>9, <2>1, <3>2
      <4>2. e \in m.allocated
        BY <4>1 DEF Threaded, Kept
      <4> QED
        BY <1>11, <4>2
    <3> QED
      BY <3>1, <3>2
  <2>2. ASSUME e \in m.allocated, e # n PROVE \E x \in Place : \E i \in 1 .. Len(u[x]) : u[x][i] = e
    <3>1. PICK x \in Place : \E i \in 1 .. Len(q[x]) : q[x][i] = e
      BY <2>2 DEF Threaded, Kept
    <3>2. PICK i \in 1 .. Len(q[x]) : q[x][i] = e
      BY <3>1
    <3>3. CASE x = "free"
      <4>1. Len(q["free"]) # 0
        BY <1>1, <3>2, <3>3
      <4>2. i # 1
        BY <1>4, <2>2, <3>2, <3>3, <4>1
      <4>3. i - 1 \in 1 .. Len(u["free"]) /\ (i - 1) + 1 = i
        BY <1>1, <1>8, <3>3, <4>1, <4>2
      <4>4. u["free"][i - 1] = q["free"][(i - 1) + 1]
        BY <1>8, <4>3
      <4> QED
        BY <1>1, <3>2, <3>3, <4>3, <4>4
    <3>4. CASE x \in Queue
      <4>1. ASSUME x = w PROVE i \in 1 .. Len(u[x]) /\ u[x][i] = e
        <5>1. i \in 1 .. len /\ len \in Nat
          BY <1>1, <3>2, <4>1
        <5>2. u[w][i] = q[w][i]
          BY <1>8, <5>1
        <5>3. i \in 1 .. len + 1
          BY <5>1
        <5> QED
          BY <1>8, <3>2, <4>1, <5>2, <5>3
      <4>2. ASSUME x # w PROVE i \in 1 .. Len(u[x]) /\ u[x][i] = e
        BY <1>8, <3>2, <3>4, <4>2
      <4> QED
        BY <3>4, <4>1, <4>2
    <3> QED
      BY <3>3, <3>4 DEF Place
  <2>3. len + 1 \in 1 .. Len(u[w]) /\ u[w][len + 1] = n
    BY <1>1, <1>8
  <2> QED
    BY <1>1, <1>11, <2>1, <2>2, <2>3
<1>21. Enqueued(m, q, v, u, w, p)
  <2>1. u[w] = Append(q[w], n) /\ \A x \in Queue \ {w} : u[x] = q[x]
    BY <1>8
  <2>2. v.pc = [m.pc EXCEPT ![n] = p]
    BY <1>11
  <2> QED
    BY <1>3, <2>1, <2>2 DEF Enqueued
<1>22. Threaded(v, u)
  BY <1>7, <1>10, <1>18, <1>19, <1>20 DEF Threaded
<1> QED
  BY <1>14, <1>21, <1>22 DEF v

-----------------------------------------------------------------------------
(* remove_strobe: the k-th node leaves its queue and is the first of the   *)
(* free list.                                                              *)
Removed(q, u, w, k) == u[w] = RemoveAt(q[w], k) /\ \A x \in Queue \ {w} : u[x] = q[x]

LEMMA RemoveThreads ==
  ASSUME NEW m \in Memory, NEW q, Threaded(m, q), NEW w \in Queue, NEW k \in 1 .. Len(q[w])
  PROVE  LET v == remove_strobe(m, w, q[w][k])
         IN v \in Memory /\ v.pc = m.pc /\ \E u : Threaded(v, u) /\ Removed(q, u, w, k)
<1> DEFINE n == q[w][k]
           v == remove_strobe(m, w, q[w][k])
           u == [x \in Place |-> IF x = w THEN RemoveAt(q[w], k)
                                 ELSE IF x = "free" THEN InsertAt(q["free"], 1, n) ELSE q[x]]
           next == [m.next EXCEPT ![n] = m.free]
<1>1. /\ \A x \in Place : /\ q[x] \in Seq(NODE) /\ Len(q[x]) \in Nat
                           /\ \A i \in 1 .. Len(q[x]) : q[x][i] \in NODE
      /\ w \in Place /\ w # "free" /\ "free" \in Place
  BY PlaceFacts DEF Place, Queue
<1>2. PICK len \in Nat : len = Len(q[w])
  BY <1>1
<1>3. PICK lenf \in Nat : lenf = Len(q["free"])
  BY <1>1
<1>4. n \in NODE /\ NULL \notin NODE /\ k \in 1 .. len
  BY <1>1, <1>2, StrobeAssumption
<1>5. \A x, y \in Place : \A i \in 1 .. Len(q[x]), j \in 1 .. Len(q[y]) : q[x][i] = q[y][j] => x = y /\ i = j
  BY DEF Threaded, Once
<1>6. \A x \in Place : \A i \in 1 .. Len(q[x]) : m.next[q[x][i]] = IF i = Len(q[x]) THEN NULL ELSE q[x][i + 1]
  BY DEF Threaded, Linked
<1>7. /\ Len(u[w]) = len - 1 /\ u[w] = RemoveAt(q[w], k)
      /\ \A i \in 1 .. len - 1 : u[w][i] = IF i < k THEN q[w][i] ELSE q[w][i + 1]
      /\ Len(u["free"]) = lenf + 1 /\ u["free"][1] = n
      /\ \A i \in 2 .. lenf + 1 : u["free"][i] = q["free"][i - 1]
      /\ \A x \in Queue \ {w} : u[x] = q[x]
      /\ u \in [Place -> Seq(NODE)]
  <2>1. /\ RemoveAt(q[w], k) \in Seq(NODE) /\ Len(RemoveAt(q[w], k)) = Len(q[w]) - 1
        /\ \A i \in 1 .. Len(q[w]) - 1 : RemoveAt(q[w], k)[i] = IF i < k THEN q[w][i] ELSE q[w][i + 1]
    BY <1>1, RemoveAtFacts
  <2>2. InsertAt(q["free"], 1, n) \in Seq(NODE) /\ Widened(q["free"], InsertAt(q["free"], 1, n), 1, n)
    <3>1. 1 \in 1 .. Len(q["free"]) + 1 /\ q["free"] \in Seq(NODE)
      BY <1>1
    <3> QED
      BY <1>4, <3>1, InsertAtFacts
  <2>3. u[w] = RemoveAt(q[w], k) /\ u["free"] = InsertAt(q["free"], 1, n)
    BY <1>1
  <2>4. \A x \in Queue \ {w} : x \in Place /\ x # "free"
    BY DEF Place, Queue
  <2>5. \A x \in Queue \ {w} : u[x] = q[x]
    BY <2>4
  <2>6. u \in [Place -> Seq(NODE)]
    BY <1>1, <2>1, <2>2
  <2> HIDE DEF u, n
  <2>7. /\ Len(u["free"]) = lenf + 1 /\ u["free"][1] = n
        /\ \A i \in 2 .. lenf + 1 : u["free"][i] = q["free"][i - 1]
    <3>1. Widened(q["free"], u["free"], 1, n)
      BY <2>2, <2>3
    <3> QED
      BY <1>3, <3>1 DEF Widened
  <2> QED
    BY <1>2, <2>1, <2>3, <2>5, <2>6, <2>7
<1> HIDE DEF u
(* remove_strobe finds the node where it is.                               *)
<1>8. /\ v.free = n /\ v.allocated = m.allocated /\ v.pc = m.pc
      /\ v.next = IF k = 1 THEN next ELSE [next EXCEPT ![q[w][k - 1]] = m.next[n]]
      /\ v.head = IF k = 1 THEN [m.head EXCEPT ![w] = m.next[n]] ELSE m.head
      /\ v.tail = IF k = 1 THEN [m.tail EXCEPT ![w] = IF m.next[n] = NULL THEN NULL ELSE m.tail[w]]
                  ELSE [m.tail EXCEPT ![w] = IF m.tail[w] = n THEN q[w][k - 1] ELSE m.tail[w]]
      /\ v \in [free : {v.free}, allocated : {v.allocated}, pc : {v.pc}, next : {v.next},
                head : {v.head}, tail : {v.tail}]
  <2>1. Nodes(m, w) = q[w]
    BY <1>1, ChainIs DEF Nodes, Start
  <2>2. DOMAIN q[w] = 1 .. Len(q[w])
    BY <1>1, PlaceFacts
  <2>3. PositionOf(q[w], n) = k
    <3>1. \A i \in DOMAIN q[w] : q[w][i] = n => i = k
      BY <1>1, <1>5, <2>2
    <3> HIDE DEF n
    <3>2. k \in DOMAIN q[w] /\ q[w][k] = n
      BY <2>2 DEF n
    <3> QED
      BY <3>1, <3>2 DEF PositionOf
  <2>4. n \in Range(q[w])
    BY <2>2 DEF Range
  <2>5. v = LET freed == [m EXCEPT !.next[n] = m.free, !.free = n]
            IN IF k = 1
                 THEN [freed EXCEPT !.head[w] = m.next[n],
                                    !.tail[w] = IF m.next[n] = NULL THEN NULL ELSE @]
               ELSE [freed EXCEPT !.next[q[w][k - 1]] = m.next[n],
                                  !.tail[w] = IF @ = n THEN q[w][k - 1] ELSE @]
    <3> HIDE DEF n
    <3>1. v = remove_strobe(m, w, n)
      BY DEF n
    <3> HIDE DEF v
    <3> QED
      BY <2>1, <2>3, <2>4, <3>1 DEF remove_strobe
  <2> HIDE DEF v, n
  <2>6. CASE k = 1
    BY <2>5, <2>6 DEF Memory
  <2>7. CASE k # 1
    BY <2>5, <2>7 DEF Memory
  <2> QED
    BY <2>6, <2>7
<1> HIDE DEF v
<1>9. /\ m.free \in NODE \cup {NULL} /\ m.allocated \subseteq NODE
      /\ m.pc \in [NODE -> PC \cup {NULL}] /\ m.next \in [NODE -> NODE \cup {NULL}]
      /\ m.head \in [Queue -> NODE \cup {NULL}] /\ m.tail \in [Queue -> NODE \cup {NULL}]
  BY DEF Memory
<1>10. /\ m.next[n] = IF k = len THEN NULL ELSE q[w][k + 1]
       /\ m.next[n] \in NODE \cup {NULL}
       /\ k # 1 => k - 1 \in 1 .. len /\ q[w][k - 1] \in NODE /\ q[w][k - 1] # n
       /\ k # len => q[w][k + 1] \in NODE
       /\ m.tail[w] = q[w][len] /\ len \in 1 .. len
  <2>1. m.next[n] = IF k = len THEN NULL ELSE q[w][k + 1]
    BY <1>1, <1>2, <1>6
  <2>2. k # 1 => k - 1 \in 1 .. len /\ k - 1 # k
    BY <1>4
  <2>3. k # 1 => q[w][k - 1] \in NODE /\ q[w][k - 1] # n
    BY <1>1, <1>2, <1>5, <2>2
  <2>4. k # len => k + 1 \in 1 .. len
    BY <1>4
  <2>5. m.tail[w] = q[w][len] /\ len \in 1 .. len
    BY <1>2, <1>4 DEF Threaded, Ended
  <2> QED
    BY <1>1, <1>2, <1>4, <1>9, <2>1, <2>2, <2>3, <2>4, <2>5
<1>11. v \in Memory
  <2>1. next \in [NODE -> NODE \cup {NULL}]
    BY <1>4, <1>9
  <2>2. v.next \in [NODE -> NODE \cup {NULL}]
    BY <1>4, <1>8, <1>10, <2>1
  <2>3. v.head \in [Queue -> NODE \cup {NULL}]
    BY <1>8, <1>9, <1>10
  <2>4. v.tail \in [Queue -> NODE \cup {NULL}]
    <3>1. m.tail[w] \in NODE \cup {NULL}
      BY <1>9
    <3>2. CASE k = 1
      BY <1>8, <1>9, <3>1, <3>2
    <3>3. CASE k # 1
      BY <1>8, <1>9, <1>10, <3>1, <3>3
    <3> QED
      BY <3>2, <3>3
  <2> QED
    BY <1>4, <1>8, <1>9, <2>2, <2>3, <2>4 DEF Memory
<1>12. /\ v.next[n] = m.free
       /\ k # 1 => v.next[q[w][k - 1]] = m.next[n]
       /\ \A e \in NODE : e # n /\ (k # 1 => e # q[w][k - 1]) => v.next[e] = m.next[e]
  BY <1>4, <1>8, <1>9, <1>10
(* Where every node has been before.                                       *)
<1> DEFINE place(x, i) == IF x = "free" /\ i = 1 THEN w ELSE x
           from(x, i) == IF x = "free" THEN IF i = 1 THEN k ELSE i - 1
                         ELSE IF x = w /\ i >= k THEN i + 1 ELSE i
<1>13. ASSUME NEW x \in Place, NEW i \in 1 .. Len(u[x])
       PROVE  place(x, i) \in Place /\ from(x, i) \in 1 .. Len(q[place(x, i)]) /\ u[x][i] = q[place(x, i)][from(x, i)]
  <2>1. CASE x = "free" /\ i = 1
    BY <1>1, <1>7, <2>1
  <2>2. CASE x = "free" /\ i # 1
    <3>1. i \in 2 .. lenf + 1 /\ i - 1 \in 1 .. lenf
      BY <1>7, <2>2
    <3> QED
      BY <1>1, <1>3, <1>7, <2>2, <3>1
  <2>3. CASE x = w
    <3>1. i \in 1 .. len - 1 /\ i \in 1 .. len /\ i + 1 \in 1 .. len
      BY <1>7, <2>3
    <3> QED
      BY <1>1, <1>2, <1>4, <1>7, <2>3, <3>1
  <2>4. CASE x \in Queue \ {w}
    BY <1>1, <1>7, <2>4 DEF Queue
  <2> QED
    BY <2>1, <2>2, <2>3, <2>4 DEF Place
<1>14. Once(u)
  <2> SUFFICES ASSUME NEW x \in Place, NEW y \in Place, NEW i \in 1 .. Len(u[x]), NEW j \in 1 .. Len(u[y]),
                      u[x][i] = u[y][j]
               PROVE  x = y /\ i = j
    BY DEF Once
  <2>1. place(x, i) = place(y, j) /\ from(x, i) = from(y, j)
    <3>1. /\ place(x, i) \in Place /\ from(x, i) \in 1 .. Len(q[place(x, i)]) /\ u[x][i] = q[place(x, i)][from(x, i)]
          /\ place(y, j) \in Place /\ from(y, j) \in 1 .. Len(q[place(y, j)]) /\ u[y][j] = q[place(y, j)][from(y, j)]
      BY <1>13
    <3> HIDE DEF place, from
    <3>2. \A a, b \in Place : \A c \in 1 .. Len(q[a]), d \in 1 .. Len(q[b]) :
            q[a][c] = u[x][i] /\ q[b][d] = u[y][j] => a = b /\ c = d
      BY <1>5
    <3> QED
      BY <3>1, <3>2, ZenonT(30)
  <2>2. i \in Int /\ j \in Int /\ i >= 1 /\ j >= 1
    BY <1>1, <1>7
  <2> QED
    BY <1>1, <1>4, <2>1, <2>2
<1>15. Linked(v, u)
  <2> SUFFICES ASSUME NEW x \in Place
               PROVE  /\ Start(v, x) = IF Len(u[x]) = 0 THEN NULL ELSE u[x][1]
                      /\ \A i \in 1 .. Len(u[x]) : v.next[u[x][i]] = IF i = Len(u[x]) THEN NULL ELSE u[x][i + 1]
    BY DEF Linked
  <2>1. Start(m, x) = IF Len(q[x]) = 0 THEN NULL ELSE q[x][1]
    BY DEF Threaded, Linked
  <2>2. Start(v, x) = IF Len(u[x]) = 0 THEN NULL ELSE u[x][1]
    <3>1. CASE x = "free"
      BY <1>7, <1>8, <3>1 DEF Start
    <3>2. CASE x = w /\ k = 1
      <4>1. Start(v, x) = IF len = 1 THEN NULL ELSE q[w][2]
        BY <1>1, <1>8, <1>9, <1>10, <3>2 DEF Start
      <4>2. len > 1 => u[w][1] = q[w][1 + 1]
        <5>1. len > 1 => 1 \in 1 .. len - 1 /\ ~(1 < k)
          BY <3>2
        <5> QED
          BY <1>7, <5>1
      <4>3. CASE len = 1
        BY <1>7, <3>2, <4>1, <4>3
      <4>4. CASE len > 1
        BY <1>7, <3>2, <4>1, <4>2, <4>4
      <4> QED
        BY <1>10, <4>3, <4>4
    <3>3. CASE x = w /\ k # 1
      <4>1. Start(v, x) = q[w][1] /\ len > 1
        BY <1>1, <1>2, <1>4, <1>8, <2>1, <3>3 DEF Start
      <4>2. 1 \in 1 .. len - 1 /\ 1 < k
        BY <1>4, <3>3, <4>1
      <4>3. u[w][1] = q[w][1]
        BY <1>7, <4>2
      <4>4. Len(u[w]) # 0
        BY <1>7, <4>1
      <4> QED
        BY <3>3, <4>1, <4>3, <4>4
    <3>4. CASE x \in Queue \ {w}
      BY <1>1, <1>7, <1>8, <1>9, <1>10, <2>1, <3>4 DEF Start, Queue
    <3> QED
      BY <3>1, <3>2, <3>3, <3>4 DEF Place
  <2>3. ASSUME NEW i \in 1 .. Len(u[x])
        PROVE  v.next[u[x][i]] = IF i = Len(u[x]) THEN NULL ELSE u[x][i + 1]
    <3>1. CASE x = "free" /\ i = 1
      <4>1. m.free = IF lenf = 0 THEN NULL ELSE q["free"][1]
        BY <1>3, <2>1, <3>1 DEF Start
      <4>2. lenf # 0 => u["free"][2] = q["free"][2 - 1]
        BY <1>3, <1>7
      <4>3. v.next[u[x][i]] = m.free
        BY <1>7, <1>12, <3>1
      <4>4. Len(u[x]) = lenf + 1
        BY <1>7, <3>1
      <4> QED
        BY <3>1, <4>1, <4>2, <4>3, <4>4
    <3>2. CASE x = w /\ i = k - 1
      <4>1. k # 1 /\ i < k /\ u[w][i] = q[w][k - 1] /\ Len(u[w]) = len - 1
        BY <1>4, <1>7, <3>2
      <4>2. v.next[u[x][i]] = IF k = len THEN NULL ELSE q[w][k + 1]
        BY <1>10, <1>12, <3>2, <4>1
      <4>3. k # len => k \in 1 .. len - 1
        BY <1>4
      <4>4. k # len => u[w][i + 1] = q[w][k + 1]
        BY <1>4, <1>7, <3>2, <4>3
      <4>5. k = len <=> i = Len(u[w])
        BY <1>4, <3>2, <4>1
      <4> QED
        BY <3>2, <4>2, <4>4, <4>5
    <3>3. CASE ~(x = "free" /\ i = 1) /\ ~(x = w /\ i = k - 1)
      <4>1. PICK j \in 1 .. Len(q[x]) :
              /\ u[x][i] = q[x][j]
              /\ j = IF x = "free" THEN i - 1 ELSE IF x = w /\ i >= k THEN i + 1 ELSE i
        BY <1>13, <3>3
      <4>2. ~(x = w /\ j \in {k, k - 1})
        BY <1>1, <1>4, <3>3, <4>1
      <4>3. q[x][j] \in NODE /\ q[x][j] # n
        BY <1>1, <1>5, <4>2
      <4>4. k # 1 => q[x][j] # q[w][k - 1]
        BY <1>1, <1>2, <1>5, <1>10, <4>2
      <4>5. v.next[u[x][i]] = IF j = Len(q[x]) THEN NULL ELSE q[x][j + 1]
        <5>1. v.next[q[x][j]] = m.next[q[x][j]]
          BY <1>12, <4>3, <4>4
        <5>2. m.next[q[x][j]] = IF j = Len(q[x]) THEN NULL ELSE q[x][j + 1]
          BY <1>6, <4>1
        <5>3. u[x][i] = q[x][j]
          BY <4>1
        <5> QED
          BY <5>1, <5>2, <5>3
      <4>6. i \in Nat /\ j \in Nat /\ Len(u[x]) \in Nat
        <5>1. u[x] \in Seq(NODE)
          BY <1>7
        <5>2. Len(u[x]) \in Nat
          BY <5>1, LenProperties
        <5> QED
          BY <1>1, <4>1, <5>2
      <4>7. j = Len(q[x]) <=> i = Len(u[x])
        <5>1. CASE x = "free"
          BY <1>3, <1>7, <4>1, <4>6, <5>1
        <5>2. CASE x = w
          BY <1>1, <1>2, <1>4, <1>7, <3>3, <4>1, <4>6, <5>2
        <5>3. CASE x \in Queue \ {w}
          BY <1>1, <1>7, <4>1, <5>3 DEF Queue
        <5> QED
          BY <5>1, <5>2, <5>3 DEF Place
      <4>8. ASSUME i # Len(u[x]) PROVE u[x][i + 1] = q[x][j + 1]
        <5>1. i + 1 \in 1 .. Len(u[x])
          BY <4>6, <4>8
        <5>2. i + 1 # 1
          BY <4>6
        <5>3. u[x][i + 1] = q[x][from(x, i + 1)]
          BY <1>13, <5>1, <5>2
        <5>4. from(x, i + 1) = j + 1
          BY <1>1, <1>4, <3>3, <4>1, <4>6
        <5> QED
          BY <5>3, <5>4
      <4> QED
        BY <4>5, <4>7, <4>8
    <3> QED
      BY <3>1, <3>2, <3>3
  <2> QED
    BY <2>2, <2>3
<1>16. Ended(v, u)
  <2> SUFFICES ASSUME NEW x \in Queue PROVE v.tail[x] = IF Len(u[x]) = 0 THEN NULL ELSE u[x][Len(u[x])]
    BY DEF Ended
  <2>1. CASE x # w
    <3>1. m.tail[x] = IF Len(q[x]) = 0 THEN NULL ELSE q[x][Len(q[x])]
      BY DEF Threaded, Ended
    <3> QED
      BY <1>7, <1>8, <1>9, <2>1, <3>1
  <2>2. CASE x = w /\ len = 1
    <3>1. k = 1 /\ m.next[n] = NULL /\ Len(u[x]) = 0
      BY <1>4, <1>7, <1>10, <2>2
    <3> QED
      BY <1>8, <1>9, <2>2, <3>1
  <2>3. CASE x = w /\ len # 1
    <3>1. len - 1 \in 1 .. len - 1 /\ Len(u[x]) = len - 1
      BY <1>7, <1>10, <2>3
    <3>2. u[w][len - 1] = IF k = len THEN q[w][len - 1] ELSE q[w][(len - 1) + 1]
      BY <1>4, <1>7, <3>1
    <3>3. k # len => q[w][len] # n
      BY <1>1, <1>2, <1>4, <1>5, <1>10
    <3>4. k = 1 => m.next[n] # NULL
      BY <1>4, <1>10, <2>3
    <3>5. v.tail[w] = IF k = len THEN q[w][len - 1] ELSE q[w][len]
      <4>1. CASE k = 1
        BY <1>8, <1>9, <1>10, <2>3, <3>4, <4>1
      <4>2. CASE k # 1 /\ k = len
        BY <1>8, <1>9, <1>10, <4>2
      <4>3. CASE k # 1 /\ k # len
        BY <1>8, <1>9, <1>10, <3>3, <4>3
      <4> QED
        BY <4>1, <4>2, <4>3
    <3>6. (len - 1) + 1 = len /\ Len(u[x]) # 0
      BY <3>1
    <3> QED
      BY <2>3, <3>1, <3>2, <3>5, <3>6
  <2> QED
    BY <2>1, <2>2, <2>3
<1>17. Kept(v, u)
  <2> SUFFICES ASSUME NEW e \in NODE
               PROVE  e \in v.allocated <=> \E x \in Place : \E i \in 1 .. Len(u[x]) : u[x][i] = e
    BY DEF Kept
  <2>1. e \in v.allocated <=> \E x \in Place : \E i \in 1 .. Len(q[x]) : q[x][i] = e
    BY <1>8 DEF Threaded, Kept
  <2>2. ASSUME NEW x \in Place, NEW i \in 1 .. Len(u[x]), u[x][i] = e
        PROVE  \E y \in Place : \E j \in 1 .. Len(q[y]) : q[y][j] = e
    BY <1>13, <2>2
  <2>3. ASSUME NEW y \in Place, NEW j \in 1 .. Len(q[y]), q[y][j] = e
        PROVE  \E x \in Place : \E i \in 1 .. Len(u[x]) : u[x][i] = e
    <3>1. CASE y = "free"
      <4>1. j + 1 \in 2 .. lenf + 1 /\ j + 1 \in 1 .. Len(u["free"]) /\ (j + 1) - 1 = j
        BY <1>1, <1>3, <1>7, <3>1
      <4>2. u["free"][j + 1] = e
        BY <1>7, <2>3, <3>1, <4>1
      <4> QED
        BY <1>1, <4>1, <4>2
    <3>2. CASE y = w /\ j = k
      <4>1. 1 \in 1 .. Len(u["free"]) /\ u["free"][1] = e
        BY <1>7, <2>3, <3>2
      <4> QED
        BY <1>1, <4>1
    <3>3. CASE y = w /\ j < k
      <4>1. j \in 1 .. len - 1
        BY <1>2, <1>4, <3>3
      <4> QED
        BY <1>1, <1>7, <2>3, <3>3, <4>1
    <3>4. CASE y = w /\ j > k
      <4>1. j - 1 \in 1 .. len - 1 /\ ~(j - 1 < k) /\ (j - 1) + 1 = j
        BY <1>2, <1>4, <3>4
      <4>2. u[w][j - 1] = e
        BY <1>7, <2>3, <3>4, <4>1
      <4> QED
        BY <1>1, <1>7, <4>1, <4>2
    <3>5. CASE y \in Queue \ {w}
      BY <1>7, <2>3, <3>5
    <3> QED
      BY <1>2, <1>4, <3>1, <3>2, <3>3, <3>4, <3>5 DEF Place
  <2> QED
    BY <2>1, <2>2, <2>3
<1>18. Threaded(v, u) /\ Removed(q, u, w, k) /\ v.pc = m.pc
  BY <1>7, <1>8, <1>14, <1>15, <1>16, <1>17 DEF Threaded, Removed
<1> QED
  BY <1>11, <1>18 DEF v

-----------------------------------------------------------------------------
(* The statements in the order of their nodes.                             *)
On(m, q) == [w \in Queue |-> [k \in 1 .. Len(q[w]) |-> m.pc[q[w][k]]]]
Single(on, node) ==
  \A i, j \in 1 .. Len(on) :
    /\ on[i] \in MONITOR => on[i] = node
    /\ on[i] \in MONITOR \cup {NULL} /\ on[i] = on[j] => i = j

LEMMA OnFacts ==
  ASSUME NEW m \in Memory, NEW q, Threaded(m, q), NEW w \in Queue
  PROVE  /\ On(m, q)[w] \in Seq(PC \cup {NULL}) /\ Len(On(m, q)[w]) = Len(q[w])
         /\ Len(q[w]) \in Nat /\ q[w] \in Seq(NODE)
         /\ \A i \in 1 .. Len(q[w]) : On(m, q)[w][i] = m.pc[q[w][i]] /\ q[w][i] \in NODE
<1>1. Len(q[w]) \in Nat /\ q[w] \in Seq(NODE) /\ \A i \in 1 .. Len(q[w]) : q[w][i] \in NODE
  BY PlaceFacts DEF Place
<1>2. m.pc \in [NODE -> PC \cup {NULL}]
  BY DEF Memory
<1>3. On(m, q)[w] = [k \in 1 .. Len(q[w]) |-> m.pc[q[w][k]]]
  BY DEF On
<1>4. On(m, q)[w] \in [1 .. Len(q[w]) -> PC \cup {NULL}]
  BY <1>1, <1>2, <1>3
<1>5. On(m, q)[w] \in Seq(PC \cup {NULL})
  BY <1>1, <1>4
<1>6. Len(On(m, q)[w]) = Len(q[w])
  BY <1>1, <1>4, <1>5, LenProperties
<1> QED
  BY <1>1, <1>3, <1>5, <1>6

Read(m) == [w \in Queue |-> LET list == Nodes(m, w) IN [k \in DOMAIN list |-> m.pc[list[k]]]]
LEMMA ReadIs ==
  ASSUME NEW m \in Memory, NEW q, Threaded(m, q)
  PROVE  Read(m) = On(m, q)
<1>1. ASSUME NEW w \in Queue PROVE Nodes(m, w) = q[w] /\ DOMAIN q[w] = 1 .. Len(q[w])
  <2>1. w \in Place /\ Start(m, w) = m.head[w]
    BY DEF Place, Queue, Start
  <2> QED
    BY <2>1, ChainIs, PlaceFacts DEF Nodes
<1> QED
  BY <1>1 DEF Read, On

LEMMA OnQueueIs ==
  ASSUME NEW m \in Memory, NEW q, Threaded(m, q), NEW w \in Queue, NEW p
  PROVE  OnQueue(m, w, p) <=> \E i \in 1 .. Len(q[w]) : m.pc[q[w][i]] = p
<1>1. Nodes(m, w) = q[w] /\ DOMAIN q[w] = 1 .. Len(q[w])
  <2>1. w \in Place /\ Start(m, w) = m.head[w]
    BY DEF Place, Queue, Start
  <2> QED
    BY <2>1, ChainIs, PlaceFacts DEF Nodes
<1>2. Range(q[w]) = {q[w][i] : i \in 1 .. Len(q[w])}
  BY <1>1 DEF Range
<1> QED
  BY <1>1, <1>2 DEF OnQueue

Stays(q, u) == \A x \in Queue : \A i \in 1 .. Len(q[x]) : i \in 1 .. Len(u[x]) /\ u[x][i] = q[x][i]

(* Of monitors, only the present one may be queued, and only once.         *)
MayQueue(m, q, w, p, node) ==
  w = "final" /\ p \in MONITOR \cup {NULL} =>
    (p \in MONITOR => p = node) /\ \A i \in 1 .. Len(q["final"]) : m.pc[q["final"][i]] # p

LEMMA EnqueueSound ==
  ASSUME NEW m \in Memory, NEW q, Threaded(m, q), NEW w \in Queue, NEW p \in PC \cup {NULL},
         m.free # NULL \/ m.allocated # NODE,
         NEW node, Single(On(m, q)["final"], node), MayQueue(m, q, w, p, node)
  PROVE  LET v == enqueue_strobe(m, w, p)
         IN /\ v \in Memory
            /\ \E u : /\ Threaded(v, u) /\ Single(On(v, u)["final"], node) /\ Stays(q, u)
                      /\ On(v, u) = [On(m, q) EXCEPT ![w] = Append(@, p)]
<1> DEFINE v == enqueue_strobe(m, w, p)
<1>1. v \in Memory /\ \E u : Threaded(v, u) /\ Enqueued(m, q, v, u, w, p)
  BY EnqueueThreads
<1>2. PICK u : Threaded(v, u) /\ Enqueued(m, q, v, u, w, p)
  BY <1>1
<1> HIDE DEF v
<1>3. PICK n \in NODE :
        /\ u[w] = Append(q[w], n) /\ \A x \in Queue \ {w} : u[x] = q[x]
        /\ \A x \in Queue : \A i \in 1 .. Len(q[x]) : q[x][i] # n
        /\ v.pc = [m.pc EXCEPT ![n] = p]
  BY <1>2 DEF Enqueued
<1>4. /\ m.pc \in [NODE -> PC \cup {NULL}]
      /\ \A x \in Queue : /\ Len(q[x]) \in Nat /\ q[x] \in Seq(NODE)
                           /\ \A i \in 1 .. Len(q[x]) : q[x][i] \in NODE
  BY OnFacts DEF Memory
<1>5. PICK len \in Nat : len = Len(q[w])
  BY <1>4
<1>6. /\ Len(u[w]) = len + 1 /\ u[w][len + 1] = n /\ \A i \in 1 .. len : u[w][i] = q[w][i]
  BY <1>3, <1>4, <1>5, AppendProperties
<1>7. v.pc[n] = p /\ \A e \in NODE : e # n => v.pc[e] = m.pc[e]
  BY <1>3, <1>4
<1>8. Stays(q, u)
  BY <1>3, <1>5, <1>6, SMTT(30) DEF Stays
<1>9. ASSUME NEW x \in Queue, x # w PROVE On(v, u)[x] = On(m, q)[x]
  <2>1. \A i \in 1 .. Len(q[x]) : v.pc[q[x][i]] = m.pc[q[x][i]]
    BY <1>3, <1>4, <1>7
  <2>2. u[x] = q[x]
    BY <1>3, <1>9
  <2> QED
    BY <2>1, <2>2 DEF On
<1>10. On(v, u)[w] = Append(On(m, q)[w], p)
  <2>1. /\ On(v, u)[w] \in Seq(PC \cup {NULL}) /\ Len(On(v, u)[w]) = len + 1
        /\ \A i \in 1 .. len + 1 : On(v, u)[w][i] = v.pc[u[w][i]]
    BY <1>1, <1>2, <1>6, OnFacts
  <2>2. /\ On(m, q)[w] \in Seq(PC \cup {NULL}) /\ Len(On(m, q)[w]) = len
        /\ \A i \in 1 .. len : On(m, q)[w][i] = m.pc[q[w][i]]
    BY <1>5, OnFacts
  <2>3. /\ Append(On(m, q)[w], p) \in Seq(PC \cup {NULL}) /\ Len(Append(On(m, q)[w], p)) = len + 1
        /\ \A i \in 1 .. len : Append(On(m, q)[w], p)[i] = On(m, q)[w][i]
        /\ Append(On(m, q)[w], p)[len + 1] = p
    BY <2>2, AppendProperties
  <2>4. ASSUME NEW i \in 1 .. len + 1 PROVE On(v, u)[w][i] = Append(On(m, q)[w], p)[i]
    <3>1. CASE i = len + 1
      BY <1>6, <1>7, <2>1, <2>3, <3>1
    <3>2. CASE i # len + 1
      <4>1. i \in 1 .. len
        BY <3>2
      <4>2. v.pc[u[w][i]] = m.pc[q[w][i]]
        BY <1>3, <1>4, <1>5, <1>6, <1>7, <4>1
      <4> QED
        BY <2>1, <2>2, <2>3, <4>1, <4>2
    <3> QED
      BY <3>1, <3>2
  <2> QED
    BY <2>1, <2>3, <2>4, SeqEqual
<1>11. On(v, u) = [On(m, q) EXCEPT ![w] = Append(@, p)]
  BY <1>9, <1>10 DEF On
<1>12. Single(On(v, u)["final"], node)
  <2>1. CASE w # "final"
    BY <1>9, <2>1 DEF Queue
  <2>2. CASE w = "final"
    <3> DEFINE on == On(m, q)["final"]
               new == On(v, u)["final"]
    <3>1. /\ Len(on) = len /\ Len(new) = len + 1 /\ on \in Seq(PC \cup {NULL})
          /\ \A i \in 1 .. len : new[i] = on[i]
          /\ new[len + 1] = p
          /\ p \in MONITOR \cup {NULL} => \A i \in 1 .. len : on[i] # p
          /\ p \in MONITOR => p = node
      <4>1. /\ on \in Seq(PC \cup {NULL}) /\ Len(on) = len
            /\ \A i \in 1 .. len : on[i] = m.pc[q["final"][i]]
        BY <1>5, <2>2, OnFacts
      <4>2. new = Append(on, p)
        BY <1>10, <2>2
      <4> HIDE DEF on, new
      <4>3. Len(new) = len + 1 /\ new[len + 1] = p /\ \A i \in 1 .. len : new[i] = on[i]
        BY <4>1, <4>2, AppendProperties
      <4> QED
        BY <1>5, <2>2, <4>1, <4>3 DEF MayQueue
    <3> HIDE DEF on, new
    <3>2. SUFFICES ASSUME NEW i \in 1 .. len + 1, NEW j \in 1 .. len + 1
                   PROVE  /\ new[i] \in MONITOR => new[i] = node
                          /\ new[i] \in MONITOR \cup {NULL} /\ new[i] = new[j] => i = j
      BY <3>1 DEF Single, new
    <3>3. Single(on, node)
      BY DEF on
    <3>4. i = len + 1 \/ i \in 1 .. len
      OBVIOUS
    <3>5. j = len + 1 \/ j \in 1 .. len
      OBVIOUS
    <3> QED
      BY <3>1, <3>3, <3>4, <3>5 DEF Single
  <2> QED
    BY <2>1, <2>2
<1> QED
  BY <1>1, <1>2, <1>8, <1>11, <1>12 DEF v

Shorter(m, q, v, u, w, k) == Removed(q, u, w, k) /\ On(v, u) = [On(m, q) EXCEPT ![w] = RemoveAt(@, k)]
LEMMA RemoveSound ==
  ASSUME NEW m \in Memory, NEW q, Threaded(m, q), NEW w \in Queue, NEW k \in 1 .. Len(q[w]),
         NEW node, Single(On(m, q)["final"], node)
  PROVE  LET v == remove_strobe(m, w, q[w][k])
         IN /\ v \in Memory
            /\ \E u : Threaded(v, u) /\ Single(On(v, u)["final"], node) /\ Shorter(m, q, v, u, w, k)
<1> DEFINE v == remove_strobe(m, w, q[w][k])
<1>1. v \in Memory /\ v.pc = m.pc /\ \E u : Threaded(v, u) /\ Removed(q, u, w, k)
  BY RemoveThreads
<1>2. PICK u : Threaded(v, u) /\ Removed(q, u, w, k)
  BY <1>1
<1> HIDE DEF v
<1>3. PICK len \in Nat : len = Len(q[w]) /\ q[w] \in Seq(NODE)
  BY OnFacts
<1>4. /\ Len(u[w]) = len - 1 /\ k \in 1 .. len
      /\ \A i \in 1 .. len - 1 : u[w][i] = IF i < k THEN q[w][i] ELSE q[w][i + 1]
  BY <1>2, <1>3, RemoveAtFacts, ZenonT(30) DEF Removed
<1>5. ASSUME NEW x \in Queue, x # w PROVE On(v, u)[x] = On(m, q)[x]
  <2>1. u[x] = q[x]
    BY <1>2, <1>5 DEF Removed
  <2> QED
    BY <1>1, <2>1 DEF On
<1>6. /\ On(m, q)[w] \in Seq(PC \cup {NULL}) /\ Len(On(m, q)[w]) = len
      /\ \A i \in 1 .. len : On(m, q)[w][i] = m.pc[q[w][i]]
  BY <1>3, OnFacts
<1>7. /\ On(v, u)[w] \in Seq(PC \cup {NULL}) /\ Len(On(v, u)[w]) = len - 1
      /\ \A i \in 1 .. len - 1 : On(v, u)[w][i] = IF i < k THEN On(m, q)[w][i] ELSE On(m, q)[w][i + 1]
  <2>1. /\ On(v, u)[w] \in Seq(PC \cup {NULL}) /\ Len(On(v, u)[w]) = len - 1
        /\ \A i \in 1 .. len - 1 : On(v, u)[w][i] = m.pc[u[w][i]]
    <3>1. /\ On(v, u)[w] \in Seq(PC \cup {NULL}) /\ Len(On(v, u)[w]) = Len(u[w])
          /\ \A i \in 1 .. Len(u[w]) : On(v, u)[w][i] = v.pc[u[w][i]]
      BY <1>1, <1>2, OnFacts
    <3> QED
      BY <1>1, <1>4, <3>1
  <2>2. ASSUME NEW i \in 1 .. len - 1
        PROVE  On(v, u)[w][i] = IF i < k THEN On(m, q)[w][i] ELSE On(m, q)[w][i + 1]
    <3>1. i \in 1 .. len /\ i + 1 \in 1 .. len
      OBVIOUS
    <3>2. On(v, u)[w][i] = m.pc[u[w][i]]
      BY <2>1
    <3>3. CASE i < k
      BY <1>4, <1>6, <3>1, <3>2, <3>3
    <3>4. CASE ~(i < k)
      BY <1>4, <1>6, <3>1, <3>2, <3>4
    <3> QED
      BY <3>3, <3>4
  <2> QED
    BY <2>1, <2>2
<1>8. On(v, u)[w] = RemoveAt(On(m, q)[w], k)
  <2>1. /\ RemoveAt(On(m, q)[w], k) \in Seq(PC \cup {NULL}) /\ Len(RemoveAt(On(m, q)[w], k)) = len - 1
        /\ \A i \in 1 .. len - 1 : RemoveAt(On(m, q)[w], k)[i] = IF i < k THEN On(m, q)[w][i] ELSE On(m, q)[w][i + 1]
    BY <1>4, <1>6, RemoveAtFacts
  <2> QED
    BY <1>7, <2>1, SeqEqual
<1>9. On(v, u) = [On(m, q) EXCEPT ![w] = RemoveAt(@, k)]
  BY <1>5, <1>8 DEF On
<1>10. Single(On(v, u)["final"], node)
  <2>1. CASE w # "final"
    BY <1>5, <2>1 DEF Queue
  <2>2. CASE w = "final"
    <3> DEFINE on == On(m, q)["final"]
               new == On(v, u)["final"]
    <3>1. /\ Len(on) = len /\ Len(new) = len - 1
          /\ \A i \in 1 .. len - 1 : new[i] = IF i < k THEN on[i] ELSE on[i + 1]
      BY <1>6, <1>7, <2>2
    <3>2. Single(on, node)
      OBVIOUS
    <3> HIDE DEF on, new
    <3>3. SUFFICES ASSUME NEW i \in 1 .. len - 1, NEW j \in 1 .. len - 1
                   PROVE  /\ new[i] \in MONITOR => new[i] = node
                          /\ new[i] \in MONITOR \cup {NULL} /\ new[i] = new[j] => i = j
      BY <3>1 DEF Single, new
    <3>4. PICK a \in 1 .. len : a = (IF i < k THEN i ELSE i + 1) /\ new[i] = on[a]
      BY <3>1
    <3>5. PICK b \in 1 .. len : b = (IF j < k THEN j ELSE j + 1) /\ new[j] = on[b]
      BY <3>1
    <3>6. a = b => i = j
      BY <1>4, <3>4, <3>5
    <3> QED
      BY <3>1, <3>2, <3>4, <3>5, <3>6 DEF Single
  <2> QED
    BY <2>1, <2>2
<1> QED
  BY <1>1, <1>2, <1>9, <1>10 DEF v, Shorter

LEMMA DequeueIs ==
  ASSUME NEW m \in Memory, NEW q, Threaded(m, q), NEW w \in Queue, NEW p
  PROVE  \/ dequeue_strobe(m, w, p) = m /\ \A i \in 1 .. Len(q[w]) : m.pc[q[w][i]] # p
         \/ \E k \in 1 .. Len(q[w]) :
              m.pc[q[w][k]] = p /\ dequeue_strobe(m, w, p) = remove_strobe(m, w, q[w][k])
<1> DEFINE list == Nodes(m, w)
           found == {n \in Range(list) : m.pc[n] = p}
           here == {k \in DOMAIN list : list[k] \in found}
<1>1. list = q[w] /\ DOMAIN q[w] = 1 .. Len(q[w]) /\ Len(q[w]) \in Nat
  <2>1. w \in Place /\ Start(m, w) = m.head[w]
    BY DEF Place, Queue, Start
  <2> QED
    BY <2>1, ChainIs, PlaceFacts DEF Nodes
<1>2. Range(list) = {list[i] : i \in DOMAIN list}
  BY DEF Range
<1>3. dequeue_strobe(m, w, p) = IF found = {} THEN m ELSE remove_strobe(m, w, list[Min(here)])
  BY DEF dequeue_strobe
<1> HIDE DEF list
<1>4. CASE found = {}
  BY <1>1, <1>2, <1>3, <1>4
<1>5. CASE found # {}
  <2>1. here \in SUBSET Nat /\ here # {}
    BY <1>1, <1>2, <1>5
  <2>2. Min(here) \in here
    <3> HIDE DEF here
    <3> QED
      BY <2>1, MinExists
  <2> DEFINE k == Min(here)
  <2>3. k \in 1 .. Len(q[w]) /\ m.pc[q[w][k]] = p
    <3>1. k \in here
      BY <2>2
    <3> HIDE DEF k
    <3> QED
      BY <1>1, <3>1
  <2>4. dequeue_strobe(m, w, p) = remove_strobe(m, w, q[w][k])
    BY <1>1, <1>3, <1>5
  <2> HIDE DEF k
  <2> QED
    BY <2>3, <2>4
<1> QED
  BY <1>4, <1>5

Without(on, new, w, p) ==
  \/ new = on
  \/ \E k \in 1 .. Len(on[w]) : on[w][k] = p /\ new = [on EXCEPT ![w] = RemoveAt(@, k)]

LEMMA DequeueSound ==
  ASSUME NEW m \in Memory, NEW q, Threaded(m, q), NEW p \in MONITOR \cup {NULL},
         NEW node, Single(On(m, q)["final"], node)
  PROVE  LET v == dequeue_strobe(m, "final", p)
         IN /\ v \in Memory
            /\ \E u : /\ Threaded(v, u) /\ Single(On(v, u)["final"], node)
                      /\ Without(On(m, q), On(v, u), "final", p)
                      /\ \A i \in 1 .. Len(On(v, u)["final"]) : On(v, u)["final"][i] # p
<1> DEFINE v == dequeue_strobe(m, "final", p)
<1>1. "final" \in Queue
  BY DEF Queue
<1>2. PICK len \in Nat : /\ len = Len(q["final"]) /\ Len(On(m, q)["final"]) = len
                         /\ \A i \in 1 .. len : On(m, q)["final"][i] = m.pc[q["final"][i]]
                         /\ On(m, q)["final"] \in Seq(PC \cup {NULL})
  BY <1>1, OnFacts
<1>3. \/ v = m /\ \A i \in 1 .. Len(q["final"]) : m.pc[q["final"][i]] # p
      \/ \E k \in 1 .. Len(q["final"]) : m.pc[q["final"][k]] = p /\ v = remove_strobe(m, "final", q["final"][k])
  BY <1>1, DequeueIs
<1> HIDE DEF v
<1>4. CASE v = m /\ \A i \in 1 .. Len(q["final"]) : m.pc[q["final"][i]] # p
  <2>1. \A i \in 1 .. Len(On(m, q)["final"]) : On(m, q)["final"][i] # p
    BY <1>2, <1>4
  <2>2. /\ v \in Memory /\ Threaded(v, q) /\ Single(On(v, q)["final"], node)
        /\ Without(On(m, q), On(v, q), "final", p)
        /\ \A i \in 1 .. Len(On(v, q)["final"]) : On(v, q)["final"][i] # p
    BY <1>4, <2>1 DEF Without
  <2> QED
    BY <2>2 DEF v
<1>5. ASSUME NEW k \in 1 .. Len(q["final"]), m.pc[q["final"][k]] = p, v = remove_strobe(m, "final", q["final"][k])
      PROVE  /\ v \in Memory
             /\ \E u : /\ Threaded(v, u) /\ Single(On(v, u)["final"], node)
                       /\ Without(On(m, q), On(v, u), "final", p)
                       /\ \A i \in 1 .. Len(On(v, u)["final"]) : On(v, u)["final"][i] # p
  <2>1. v \in Memory /\ \E u : Threaded(v, u) /\ Single(On(v, u)["final"], node) /\ Shorter(m, q, v, u, "final", k)
    BY <1>1, <1>5, RemoveSound
  <2>2. PICK u : /\ Threaded(v, u) /\ Single(On(v, u)["final"], node)
                 /\ On(v, u) = [On(m, q) EXCEPT !["final"] = RemoveAt(@, k)]
    BY <2>1 DEF Shorter
  <2>3. k \in 1 .. len /\ On(m, q)["final"][k] = p
    BY <1>2, <1>5
  <2>4. Without(On(m, q), On(v, u), "final", p)
    BY <1>2, <2>2, <2>3 DEF Without
  <2>5. On(v, u)["final"] = RemoveAt(On(m, q)["final"], k)
    BY <1>1, <2>2 DEF On
  <2>6. /\ Len(On(v, u)["final"]) = len - 1
        /\ \A i \in 1 .. len - 1 :
             On(v, u)["final"][i] = IF i < k THEN On(m, q)["final"][i] ELSE On(m, q)["final"][i + 1]
    <3> DEFINE on == On(m, q)["final"]
    <3>1. on \in Seq(PC \cup {NULL}) /\ k \in 1 .. Len(on) /\ Len(on) = len
      BY <1>2, <2>3
    <3> HIDE DEF on
    <3>2. /\ Len(RemoveAt(on, k)) = len - 1
          /\ \A i \in 1 .. len - 1 : RemoveAt(on, k)[i] = IF i < k THEN on[i] ELSE on[i + 1]
      BY <3>1, RemoveAtFacts
    <3> QED
      BY <2>5, <3>2 DEF on
  <2>7. ASSUME NEW i \in 1 .. len - 1, On(v, u)["final"][i] = p PROVE FALSE
    <3>1. PICK a \in 1 .. len : a = (IF i < k THEN i ELSE i + 1) /\ On(v, u)["final"][i] = On(m, q)["final"][a]
      BY <2>6
    <3>2. a = k
      BY <1>2, <2>3, <2>7, <3>1 DEF Single
    <3> QED
      BY <2>3, <3>1, <3>2
  <2> QED
    BY <2>1, <2>2, <2>4, <2>6, <2>7
<1>6. CASE \E k \in 1 .. Len(q["final"]) : m.pc[q["final"][k]] = p /\ v = remove_strobe(m, "final", q["final"][k])
  <2>1. PICK k \in 1 .. Len(q["final"]) :
          m.pc[q["final"][k]] = p /\ v = remove_strobe(m, "final", q["final"][k])
    BY <1>6
  <2>2. /\ v \in Memory
        /\ \E u : /\ Threaded(v, u) /\ Single(On(v, u)["final"], node)
                  /\ Without(On(m, q), On(v, u), "final", p)
                  /\ \A i \in 1 .. Len(On(v, u)["final"]) : On(v, u)["final"][i] # p
    BY <1>5, <2>1
  <2> QED
    BY <2>2 DEF v
<1> QED
  BY <1>3, <1>4, <1>6

-----------------------------------------------------------------------------
(* While a pass runs its fence is on the queue, until the node that was    *)
(* the fence executes.                                                     *)
Phases ==
  /\ executing = <<>> \/ \E p \in PC \cup {NULL} : executing = <<p>>
  /\ pass \in Queue \cup {NULL} /\ s \in NODE \cup {NULL} /\ active_strobe \in NODE \cup {NULL}
  /\ fence \in [Queue -> NODE \cup {NULL}] /\ \A w \in Queue : fence[w] # NULL <=> pass = w
  /\ executing = <<>> => s = NULL
  /\ pass = NULL => executing = <<>>
  /\ monitor_info \in [enable : BOOLEAN, node : MONITOR \cup {NULL}]
Fenced(q) == pass # NULL /\ s # fence[pass] => \E k \in 1 .. Len(q[pass]) : q[pass][k] = fence[pass]
Sound(q) == Threaded(mem, q) /\ Single(On(mem, q)["final"], monitor_info.node) /\ Fenced(q)
QInv == mem \in Memory /\ Phases /\ \E q : Sound(q)

LeftIn(m, ps, f) == LET list == Nodes(m, ps) IN Max({0} \cup {k \in DOMAIN list : list[k] = f})
LEMMA LeftIs ==
  ASSUME NEW m \in Memory, NEW q, Threaded(m, q), NEW w \in Queue, NEW k \in 1 .. Len(q[w]), NEW f, q[w][k] = f
  PROVE  LeftIn(m, w, f) = k
<1>1. Nodes(m, w) = q[w] /\ DOMAIN q[w] = 1 .. Len(q[w]) /\ Len(q[w]) \in Nat /\ w \in Place
  <2>1. w \in Place /\ Start(m, w) = m.head[w]
    BY DEF Place, Queue, Start
  <2> QED
    BY <2>1, ChainIs, PlaceFacts DEF Nodes
<1>2. {i \in DOMAIN q[w] : q[w][i] = f} = {k}
  BY <1>1 DEF Threaded, Once
<1>3. LeftIn(m, w, f) = Max({0} \cup {k})
  BY <1>1, <1>2 DEF LeftIn
<1>4. Max({0} \cup {k}) = k
  BY <1>1 DEF Max
<1> QED
  BY <1>3, <1>4

LEMMA QueuesInit == Init => QInv
<1> SUFFICES ASSUME Init PROVE QInv
  OBVIOUS
<1> DEFINE q == [w \in Place |-> <<>>]
<1>1. mem \in Memory
  BY DEF Init, Memory
<1>2. Phases
  BY StrobeAssumption DEF Init, Phases
<1>3. \A w \in Place : Len(q[w]) = 0 /\ q[w] \in Seq(NODE)
  OBVIOUS
<1>4. Threaded(mem, q)
  <2> HIDE DEF q
  <2>1. Once(q)
    BY <1>3 DEF Once
  <2>2. Linked(mem, q)
    BY <1>3 DEF Linked, Start, Init, Place
  <2>3. Ended(mem, q)
    BY <1>3 DEF Ended, Init, Place
  <2>4. Kept(mem, q)
    BY <1>3 DEF Kept, Init
  <2>5. q \in [Place -> Seq(NODE)]
    BY <1>3 DEF q
  <2> QED
    BY <2>1, <2>2, <2>3, <2>4, <2>5 DEF Threaded
<1>5. Single(On(mem, q)["final"], monitor_info.node)
  <2>1. Len(On(mem, q)["final"]) = 0
    BY <1>1, <1>3, <1>4, OnFacts DEF Place, Queue
  <2> QED
    BY <2>1 DEF Single
<1>6. Fenced(q)
  BY DEF Init, Fenced
<1> QED
  BY <1>1, <1>2, <1>4, <1>5, <1>6 DEF QInv, Sound

-----------------------------------------------------------------------------
(* A change of the nodes outside check_strobe.                             *)
LEMMA Changed ==
  ASSUME QInv, NEW q, Sound(q), Keep, mem' \in Memory, NEW u, Threaded(mem', u),
         Single(On(mem', u)["final"], monitor_info'.node),
         monitor_info' \in [enable : BOOLEAN, node : MONITOR \cup {NULL}],
         pass # NULL => Stays(q, u)
  PROVE  /\ QInv'
         /\ waiting = On(mem, q) /\ waiting' = On(mem', u)
         /\ left' = left /\ pass' = pass /\ executing' = executing
<1>1. mem \in Memory /\ Phases /\ Threaded(mem, q) /\ Fenced(q)
  BY DEF QInv, Sound
<1>2. fence' = fence /\ active_strobe' = active_strobe /\ s' = s /\ executing' = executing /\ pass' = pass
  BY DEF Keep
<1>3. waiting = On(mem, q)
  BY <1>1, ReadIs DEF waiting, Read
<1>4. waiting' = On(mem', u)
  BY ReadIs DEF waiting, Read
<1>5. Phases'
  BY <1>1, <1>2 DEF Phases
<1>6. ASSUME pass # NULL, s # fence[pass]
      PROVE  (\E k \in 1 .. Len(u[pass]) : u[pass][k] = fence[pass]) /\ left' = left
  <2>1. PICK k \in 1 .. Len(q[pass]) : q[pass][k] = fence[pass]
    BY <1>1, <1>6 DEF Fenced
  <2>2. pass \in Queue
    BY <1>1, <1>6 DEF Phases
  <2>3. k \in 1 .. Len(u[pass]) /\ u[pass][k] = fence[pass]
    BY <1>6, <2>1, <2>2 DEF Stays
  <2>4. left = LeftIn(mem, pass, fence[pass])
    BY <1>6 DEF left, LeftIn
  <2>5. left' = LeftIn(mem', pass, fence[pass])
    BY <1>2, <1>6 DEF left, LeftIn
  <2>6. LeftIn(mem, pass, fence[pass]) = k
    BY <1>1, <2>1, <2>2, LeftIs
  <2>7. LeftIn(mem', pass, fence[pass]) = k
    BY <2>2, <2>3, LeftIs
  <2> QED
    BY <2>3, <2>4, <2>5, <2>6, <2>7
<1>7. ASSUME pass = NULL \/ s = fence[pass] PROVE left' = left
  BY <1>2, <1>7 DEF left
<1>8. Sound(u)'
  <2>1. Fenced(u)'
    BY <1>2, <1>6 DEF Fenced
  <2>2. Threaded(mem, u)' /\ Single(On(mem, u)["final"], monitor_info.node)'
    BY DEF Threaded, Once, Linked, Start, Ended, Kept, Single, On
  <2> QED
    BY <2>1, <2>2 DEF Sound
<1>9. QInv'
  BY <1>5, <1>8 DEF QInv
<1> QED
  BY <1>2, <1>3, <1>4, <1>6, <1>7, <1>9

LEMMA OnlyThere ==
  ASSUME NEW S, NEW f, f = [x \in S |-> f[x]], NEW w \in S, NEW y, NEW g, g = [f EXCEPT ![w] = y], g # f
  PROVE  g[w] = y /\ g[w] # f[w]
<1>1. g = [x \in S |-> IF x = w THEN y ELSE f[x]]
  OBVIOUS
<1>2. y # f[w]
  BY <1>1
<1> QED
  BY <1>1, <1>2

(* What enqueueing is to the passes.                                       *)
LEMMA EnqueuePasses ==
  ASSUME NEW w \in Queue, NEW p \in PC \cup {NULL}, waiting[w] \in Seq(PC \cup {NULL}),
         waiting' = [waiting EXCEPT ![w] = Append(@, p)], w \in DOMAIN waiting,
         left' = left, pass' = pass, executing' = executing
  PROVE  Passes!Next
<1>1. waiting'[w] = Append(waiting[w], p)
  OBVIOUS
<1>2. waiting'[w] # waiting[w]
  BY <1>1, AppendProperties
<1>3. Passes!Enqueue(w, p)
  BY DEF Passes!Enqueue
<1> QED
  BY <1>2, <1>3 DEF Passes!Next, Passes!Request, Passes!Queue, Queue

SameMonitor == /\ monitor_info' \in [enable : BOOLEAN, node : MONITOR \cup {NULL}]
               /\ monitor_info'.node = monitor_info.node
LEMMA EnqueueStep ==
  ASSUME QInv, NEW w \in Queue, NEW p \in STROBE \cup INSTANCE_PLI \cup MONITOR \cup {NULL}, CanEnqueue(mem, w),
         mem' = enqueue_strobe(mem, w, p), Keep, SameMonitor,
         p \in MONITOR \cup {NULL} => w = "final" /\ p = monitor_info.node /\ ~OnQueue(mem, w, p)
  PROVE  QInv' /\ Passes!Next
<1>1. PICK q : Sound(q)
  BY DEF QInv
<1>2. mem \in Memory /\ Threaded(mem, q) /\ Single(On(mem, q)["final"], monitor_info.node)
  BY <1>1 DEF QInv, Sound
<1>3. p \in PC \cup {NULL} /\ (mem.free # NULL \/ mem.allocated # NODE)
  BY DEF PC, CanEnqueue
<1>4. MayQueue(mem, q, w, p, monitor_info.node)
  BY <1>2, OnQueueIs DEF MayQueue
<1>5. /\ mem' \in Memory
      /\ \E u : /\ Threaded(mem', u) /\ Single(On(mem', u)["final"], monitor_info.node) /\ Stays(q, u)
                /\ On(mem', u) = [On(mem, q) EXCEPT ![w] = Append(@, p)]
  BY <1>2, <1>3, <1>4, EnqueueSound
<1>6. PICK u : /\ Threaded(mem', u) /\ Single(On(mem', u)["final"], monitor_info.node) /\ Stays(q, u)
               /\ On(mem', u) = [On(mem, q) EXCEPT ![w] = Append(@, p)]
  BY <1>5
<1>7. monitor_info' \in [enable : BOOLEAN, node : MONITOR \cup {NULL}] /\ monitor_info'.node = monitor_info.node
  BY DEF SameMonitor
<1>8. /\ QInv' /\ waiting = On(mem, q) /\ waiting' = On(mem', u)
      /\ left' = left /\ pass' = pass /\ executing' = executing
  BY <1>1, <1>5, <1>6, <1>7, Changed
<1>9. waiting[w] \in Seq(PC \cup {NULL}) /\ w \in DOMAIN waiting
  BY <1>2, <1>8, OnFacts DEF On
<1> QED
  BY <1>3, <1>6, <1>8, <1>9, EnqueuePasses

LEMMA NothingStep ==
  ASSUME QInv, mem' = mem, Keep, SameMonitor
  PROVE  QInv' /\ UNCHANGED Passes!passes
<1>1. PICK q : Sound(q)
  BY DEF QInv
<1>2. /\ mem \in Memory /\ Threaded(mem, q) /\ Single(On(mem, q)["final"], monitor_info.node)
      /\ monitor_info' \in [enable : BOOLEAN, node : MONITOR \cup {NULL}] /\ monitor_info'.node = monitor_info.node
  BY <1>1 DEF QInv, Sound, SameMonitor
<1>3. Stays(q, q)
  BY DEF Stays
<1>4. /\ QInv' /\ waiting = On(mem, q) /\ waiting' = On(mem', q)
      /\ left' = left /\ pass' = pass /\ executing' = executing
  BY <1>1, <1>2, <1>3, Changed
<1> QED
  BY <1>4 DEF Passes!passes

LEMMA TickleStep ==
  ASSUME QInv, NEW w \in Queue, NEW p \in INSTANCE_PLI \cup MONITOR \cup {NULL}, CanEnqueue(mem, w),
         mem' = tickle_monitor(mem, w, p), Keep, SameMonitor,
         p \in MONITOR \cup {NULL} => w = "final" /\ p = monitor_info.node
  PROVE  QInv' /\ (Passes!Next \/ UNCHANGED Passes!passes)
<1>1. CASE OnQueue(mem, w, p)
  BY <1>1, NothingStep DEF tickle_monitor
<1>2. CASE ~OnQueue(mem, w, p)
  BY <1>2, EnqueueStep DEF tickle_monitor
<1> QED
  BY <1>1, <1>2

(* Once the present monitor is off the queue, no monitor is on it.         *)
LEMMA NoMonitor ==
  ASSUME NEW on, NEW node \in MONITOR \cup {NULL}, Single(on, node),
         node \in MONITOR => \A i \in 1 .. Len(on) : on[i] # node
  PROVE  (\A i \in 1 .. Len(on) : on[i] \notin MONITOR) /\ \A p : Single(on, p)
<1>1. NULL \notin MONITOR
  BY StrobeAssumption DEF PC
<1>2. \A i \in 1 .. Len(on) : on[i] \notin MONITOR
  BY <1>1 DEF Single
<1> QED
  BY <1>2 DEF Single

LEMMA MonitorOffStep ==
  ASSUME QInv, MonitorOff
  PROVE  QInv' /\ (Passes!Next \/ UNCHANGED Passes!passes)
<1> DEFINE p == monitor_info.node
<1>1. PICK q : Sound(q)
  BY DEF QInv
<1>2. /\ mem \in Memory /\ Threaded(mem, q) /\ Single(On(mem, q)["final"], p)
      /\ monitor_info \in [enable : BOOLEAN, node : MONITOR \cup {NULL}]
      /\ p \in MONITOR \cup {NULL} /\ pass = NULL
  BY <1>1 DEF QInv, Sound, Phases, MonitorOff, Running
<1>3. /\ mem' \in Memory
      /\ \E u : /\ Threaded(mem', u) /\ Single(On(mem', u)["final"], p)
                /\ Without(On(mem, q), On(mem', u), "final", p)
  BY <1>2, DequeueSound DEF MonitorOff
<1>4. PICK u : /\ Threaded(mem', u) /\ Single(On(mem', u)["final"], p)
               /\ Without(On(mem, q), On(mem', u), "final", p)
  BY <1>3
<1>5. monitor_info' \in [enable : BOOLEAN, node : MONITOR \cup {NULL}] /\ monitor_info'.node = p
  BY <1>2 DEF MonitorOff
<1>6. /\ QInv' /\ waiting = On(mem, q) /\ waiting' = On(mem', u)
      /\ left' = left /\ pass' = pass /\ executing' = executing
  BY <1>1, <1>2, <1>3, <1>4, <1>5, Changed DEF MonitorOff
<1>7. CASE waiting' = waiting
  BY <1>6, <1>7 DEF Passes!passes
<1>8. CASE waiting' # waiting
  <2>1. PICK k \in 1 .. Len(waiting["final"]) : waiting' = [waiting EXCEPT !["final"] = RemoveAt(@, k)]
    BY <1>4, <1>6, <1>8 DEF Without
  <2>2. waiting["final"] \in Seq(PC \cup {NULL}) /\ "final" \in Queue /\ DOMAIN waiting = Queue
    BY <1>2, <1>6, OnFacts DEF On, Queue
  <2>3. k \in DOMAIN waiting["final"]
    BY <2>1, <2>2
  <2>4. waiting'["final"] # waiting["final"]
    <3>1. waiting = [w \in Queue |-> waiting[w]]
      BY <1>6 DEF On
    <3> QED
      BY <1>8, <2>1, <2>2, <3>1, OnlyThere
  <2>5. Passes!Dequeue("final", k)
    BY <1>2, <1>6, <2>1 DEF Passes!Dequeue, RemoveAt, Passes!RemoveAt
  <2> QED
    BY <1>6, <2>2, <2>3, <2>4, <2>5 DEF Passes!Next, Passes!Request, Passes!Queue, Queue
<1> QED
  BY <1>6, <1>7, <1>8

LEMMA MonitorTaskStep ==
  ASSUME QInv, NEW p \in MONITOR, MonitorTask(p)
  PROVE  QInv' /\ (Passes!Next \/ UNCHANGED Passes!passes)
<1> DEFINE node == monitor_info.node
           m == IF node = NULL THEN mem ELSE dequeue_strobe(mem, "final", node)
<1>1. PICK q : Sound(q)
  BY DEF QInv
<1>2. /\ mem \in Memory /\ Threaded(mem, q) /\ Single(On(mem, q)["final"], node)
      /\ monitor_info \in [enable : BOOLEAN, node : MONITOR \cup {NULL}]
      /\ node \in MONITOR \cup {NULL} /\ pass = NULL /\ p # NULL /\ p \in PC \cup {NULL}
      /\ "final" \in Queue
  BY <1>1, StrobeAssumption DEF QInv, Sound, Phases, MonitorTask, Running, PC, Queue
<1>3. /\ CanEnqueue(m, "final") /\ mem' = enqueue_strobe(m, "final", p)
      /\ monitor_info' = [monitor_info EXCEPT !.node = p] /\ Keep
  BY DEF MonitorTask
<1> HIDE DEF node
<1>4. /\ m \in Memory
      /\ \E u : /\ Threaded(m, u) /\ Single(On(m, u)["final"], node)
                /\ Without(On(mem, q), On(m, u), "final", node)
                /\ node \in MONITOR => \A i \in 1 .. Len(On(m, u)["final"]) : On(m, u)["final"][i] # node
  <2>1. CASE node = NULL
    <3>1. m = mem /\ node \notin MONITOR /\ Without(On(mem, q), On(mem, q), "final", node)
      BY <2>1, StrobeAssumption DEF Without, PC
    <3> QED
      BY <1>2, <3>1
  <2>2. CASE node # NULL
    <3>1. m = dequeue_strobe(mem, "final", node)
      BY <2>2
    <3> HIDE DEF m
    <3> QED
      BY <1>2, <3>1, DequeueSound, SMTT(30)
  <2> QED
    BY <2>1, <2>2
<1> HIDE DEF m
<1>5. PICK r : /\ Threaded(m, r) /\ Single(On(m, r)["final"], node)
               /\ Without(On(mem, q), On(m, r), "final", node)
               /\ node \in MONITOR => \A i \in 1 .. Len(On(m, r)["final"]) : On(m, r)["final"][i] # node
  BY <1>4
<1>6. (\A i \in 1 .. Len(On(m, r)["final"]) : On(m, r)["final"][i] \notin MONITOR) /\ Single(On(m, r)["final"], p)
  BY <1>2, <1>5, NoMonitor
<1>7. MayQueue(m, r, "final", p, p)
  <2>1. /\ Len(On(m, r)["final"]) = Len(r["final"])
        /\ \A i \in 1 .. Len(r["final"]) : On(m, r)["final"][i] = m.pc[r["final"][i]]
    BY <1>2, <1>4, <1>5, OnFacts
  <2> QED
    BY <1>6, <2>1 DEF MayQueue
<1>8. m.free # NULL \/ m.allocated # NODE
  BY <1>3 DEF CanEnqueue
<1>9. /\ mem' \in Memory
      /\ \E u : /\ Threaded(mem', u) /\ Single(On(mem', u)["final"], p)
                /\ On(mem', u) = [On(m, r) EXCEPT !["final"] = Append(@, p)]
  BY <1>2, <1>3, <1>4, <1>5, <1>6, <1>7, <1>8, EnqueueSound
<1>10. PICK u : /\ Threaded(mem', u) /\ Single(On(mem', u)["final"], p)
                /\ On(mem', u) = [On(m, r) EXCEPT !["final"] = Append(@, p)]
  BY <1>9
<1>11. monitor_info' \in [enable : BOOLEAN, node : MONITOR \cup {NULL}] /\ monitor_info'.node = p
  BY <1>2, <1>3
<1>12. /\ QInv' /\ waiting = On(mem, q) /\ waiting' = On(mem', u)
       /\ left' = left /\ pass' = pass /\ executing' = executing
  BY <1>1, <1>2, <1>3, <1>9, <1>10, <1>11, Changed
<1>13. waiting["final"] \in Seq(PC \cup {NULL}) /\ DOMAIN waiting = Queue
  BY <1>2, <1>12, OnFacts DEF On
<1>14. CASE On(m, r) = On(mem, q)
  BY <1>2, <1>10, <1>12, <1>13, <1>14, EnqueuePasses
<1>15. CASE On(m, r) # On(mem, q)
  <2>1. PICK k \in 1 .. Len(waiting["final"]) : On(m, r) = [waiting EXCEPT !["final"] = RemoveAt(@, k)]
    BY <1>5, <1>12, <1>15 DEF Without
  <2>2. waiting' = [waiting EXCEPT !["final"] = Append(RemoveAt(@, k), p)]
    BY <1>2, <1>10, <1>12, <1>13, <2>1
  <2>3. k \in DOMAIN waiting["final"]
    BY <1>13, <2>1
  <2>4. Passes!Replace("final", k, p)
    BY <1>2, <1>12, <2>2 DEF Passes!Replace, RemoveAt, Passes!RemoveAt
  <2>5. CASE waiting' = waiting
    BY <1>12, <2>5 DEF Passes!passes
  <2>6. CASE waiting' # waiting
    <3>1. waiting'["final"] # waiting["final"]
      <4>1. waiting = [w \in Queue |-> waiting[w]]
        BY <1>12 DEF On
      <4> QED
        BY <1>2, <2>2, <2>6, <4>1, OnlyThere
    <3> QED
      BY <1>2, <1>12, <2>3, <2>4, <3>1 DEF Passes!Next, Passes!Request, Passes!Queue, Queue
  <2> QED
    BY <1>12, <2>5, <2>6
<1> QED
  BY <1>12, <1>14, <1>15

-----------------------------------------------------------------------------
(* check_strobe.                                                           *)
LEMMA LeftNow ==
  ASSUME QInv, NEW q, Sound(q)
  PROVE  /\ pass = NULL \/ s = fence[pass] => left = 0
         /\ pass # NULL /\ s # fence[pass] =>
              /\ pass \in Queue
              /\ \E k \in 1 .. Len(q[pass]) : q[pass][k] = fence[pass] /\ left = k
<1>1. pass = NULL \/ s = fence[pass] => left = 0
  BY DEF left
<1>2. ASSUME pass # NULL, s # fence[pass]
      PROVE  pass \in Queue /\ \E k \in 1 .. Len(q[pass]) : q[pass][k] = fence[pass] /\ left = k
  <2>1. pass \in Queue /\ mem \in Memory /\ Threaded(mem, q)
    BY <1>2 DEF QInv, Phases, Sound
  <2>2. PICK k \in 1 .. Len(q[pass]) : q[pass][k] = fence[pass]
    BY <1>2 DEF Sound, Fenced
  <2>3. left = LeftIn(mem, pass, fence[pass])
    BY <1>2 DEF left, LeftIn
  <2>4. left = k
    BY <2>1, <2>2, <2>3, LeftIs
  <2> QED
    BY <2>1, <2>2, <2>4
<1> QED
  BY <1>1, <1>2

LEMMA SoundNext ==
  ASSUME NEW q, Threaded(mem', q), Single(On(mem', q)["final"], monitor_info'.node), Fenced(q)'
  PROVE  Sound(q)'
<1>1. Threaded(mem, q)' /\ Single(On(mem, q)["final"], monitor_info.node)'
  BY DEF Threaded, Once, Linked, Start, Ended, Kept, Single, On
<1> QED
  BY <1>1 DEF Sound

LEMMA BeginStep ==
  ASSUME QInv, NEW w \in Queue, BeginPass(w)
  PROVE  QInv' /\ (Passes!Next \/ UNCHANGED Passes!passes)
<1>1. PICK q : Sound(q)
  BY DEF QInv
<1>2. mem \in Memory /\ Phases /\ Threaded(mem, q)
  BY <1>1 DEF QInv, Sound
<1>3. /\ pass = NULL /\ executing = <<>> /\ s = NULL /\ NULL \notin Queue /\ NULL \notin NODE
      /\ fence' = [fence EXCEPT ![w] = mem.tail[w]]
      /\ pass' = IF mem.head[w] = NULL THEN NULL ELSE w
      /\ mem' = mem /\ active_strobe' = active_strobe /\ s' = s
      /\ executing' = executing /\ monitor_info' = monitor_info
  BY <1>2, StrobeAssumption DEF BeginPass, Running, Fence, Phases
<1>4. /\ w \in Place /\ Start(mem, w) = mem.head[w]
      /\ Len(q[w]) \in Nat /\ \A i \in 1 .. Len(q[w]) : q[w][i] \in NODE
  BY <1>2, PlaceFacts DEF Place, Queue, Start
<1>5. /\ mem.head[w] = IF Len(q[w]) = 0 THEN NULL ELSE q[w][1]
      /\ mem.tail[w] = IF Len(q[w]) = 0 THEN NULL ELSE q[w][Len(q[w])]
  BY <1>2, <1>4 DEF Threaded, Linked, Ended
<1>6. PICK len \in Nat : len = Len(q[w])
  BY <1>4
<1>7. mem.head[w] = NULL <=> len = 0
  <2>1. len # 0 => 1 \in 1 .. len
    OBVIOUS
  <2> QED
    BY <1>3, <1>4, <1>5, <1>6, <2>1
<1>8. /\ mem.tail[w] = NULL <=> len = 0
      /\ len # 0 => mem.tail[w] = q[w][len] /\ len \in 1 .. Len(q[w])
      /\ mem.tail[w] \in NODE \cup {NULL}
  <2>1. len # 0 => len \in 1 .. len
    OBVIOUS
  <2> QED
    BY <1>3, <1>4, <1>5, <1>6, <2>1
<1>9. Phases'
  <2>1. /\ fence \in [Queue -> NODE \cup {NULL}] /\ \A x \in Queue : fence[x] = NULL
    BY <1>2, <1>3 DEF Phases
  <2>2. fence' \in [Queue -> NODE \cup {NULL}]
    BY <1>3, <1>8, <2>1
  <2>3. \A x \in Queue : fence'[x] # NULL <=> pass' = x
    BY <1>3, <1>7, <1>8, <2>1
  <2>4. pass' \in Queue \cup {NULL}
    BY <1>3
  <2> QED
    BY <1>2, <1>3, <2>2, <2>3, <2>4 DEF Phases
<1>10. pass' # NULL => pass' = w /\ len # 0 /\ fence'[w] = q[w][len] /\ fence'[w] # s'
  <2>1. fence'[w] = mem.tail[w]
    BY <1>2, <1>3 DEF Phases
  <2> QED
    BY <1>3, <1>7, <1>8, <2>1
<1>11. Sound(q)'
  <2>1. Fenced(q)'
    <3>1. pass' # NULL => len \in 1 .. Len(q[w]) /\ q[w][len] = fence'[w] /\ pass' = w
      BY <1>6, <1>8, <1>10
    <3> QED
      BY <3>1 DEF Fenced
  <2>2. Threaded(mem', q) /\ Single(On(mem', q)["final"], monitor_info'.node)
    BY <1>1, <1>3 DEF Sound
  <2> QED
    BY <2>1, <2>2, SoundNext
<1>12. QInv'
  BY <1>2, <1>3, <1>9, <1>11 DEF QInv
<1>13. waiting' = waiting /\ waiting = On(mem, q)
  <2>1. waiting = On(mem, q)
    BY <1>2, ReadIs DEF waiting, Read
  <2>2. mem' \in Memory /\ Threaded(mem', q)
    BY <1>2, <1>3
  <2>3. waiting' = On(mem', q)
    BY <2>2, ReadIs DEF waiting, Read
  <2> QED
    BY <1>3, <2>1, <2>3
<1>14. left = 0
  BY <1>3 DEF left
<1>15. CASE pass' = NULL
  <2>1. left' = 0
    BY <1>15 DEF left
  <2> QED
    BY <1>3, <1>12, <1>13, <1>14, <1>15, <2>1 DEF Passes!passes
<1>16. CASE pass' # NULL
  <2>1. left' = LeftIn(mem', w, fence'[w])
    BY <1>10, <1>16 DEF left, LeftIn
  <2>2. left' = len
    BY <1>2, <1>3, <1>8, <1>10, <1>16, <2>1, LeftIs
  <2>3. Len(waiting[w]) = len
    BY <1>2, <1>6, <1>13, OnFacts
  <2>4. waiting[w] # <<>>
    BY <1>10, <1>16, <2>3
  <2>5. Passes!Begin(w)
    BY <1>3, <1>10, <1>13, <1>16, <2>2, <2>3, <2>4 DEF Passes!Begin
  <2> QED
    BY <1>12, <2>5 DEF Passes!Next, Passes!Queue, Queue
<1> QED
  BY <1>15, <1>16

LEMMA RunStep ==
  ASSUME QInv, RunStrobe
  PROVE  QInv' /\ Passes!Next
<1>1. PICK q : Sound(q)
  BY DEF QInv
<1>2. mem \in Memory /\ Phases /\ Threaded(mem, q) /\ Single(On(mem, q)["final"], monitor_info.node)
  BY <1>1 DEF QInv, Sound
<1> DEFINE n == mem.head[pass]
<1>3. /\ pass # NULL /\ pass \in Queue /\ executing = <<>> /\ s = NULL
      /\ s' = n /\ active_strobe' = n /\ executing' = <<mem.pc[n]>>
      /\ mem' = remove_strobe(mem, pass, n)
      /\ fence' = fence /\ pass' = pass /\ monitor_info' = monitor_info
      /\ fence[pass] \in NODE /\ NULL \notin NODE
  BY <1>2, StrobeAssumption DEF RunStrobe, Phases
<1>4. PICK k \in 1 .. Len(q[pass]) : q[pass][k] = fence[pass] /\ left = k
  BY <1>1, <1>3, LeftNow
<1>5. PICK len \in Nat : len = Len(q[pass]) /\ k \in 1 .. len /\ 1 \in 1 .. len /\ q[pass] \in Seq(NODE)
  <2>1. Len(q[pass]) \in Nat /\ q[pass] \in Seq(NODE)
    BY <1>2, <1>3, OnFacts
  <2> QED
    BY <1>4, <2>1
<1>6. n = q[pass][1] /\ n \in NODE
  <2>1. pass \in Place /\ Start(mem, pass) = mem.head[pass] /\ \A i \in 1 .. len : q[pass][i] \in NODE
    BY <1>2, <1>3, <1>5, PlaceFacts DEF Place, Queue, Start
  <2>2. Start(mem, pass) = q[pass][1]
    BY <1>2, <1>5, <2>1 DEF Threaded, Linked
  <2> QED
    BY <1>5, <2>1, <2>2
<1> HIDE DEF n
<1>7. /\ mem' \in Memory
      /\ \E u : /\ Threaded(mem', u) /\ Single(On(mem', u)["final"], monitor_info.node)
                /\ Shorter(mem, q, mem', u, pass, 1)
  <2>1. q[pass][1] = n /\ 1 \in 1 .. Len(q[pass]) /\ mem' = remove_strobe(mem, pass, q[pass][1])
    BY <1>3, <1>5, <1>6
  <2> QED
    BY <1>2, <1>3, <2>1, RemoveSound
<1>8. PICK u : /\ Threaded(mem', u) /\ Single(On(mem', u)["final"], monitor_info.node)
               /\ Removed(q, u, pass, 1)
               /\ On(mem', u) = [On(mem, q) EXCEPT ![pass] = RemoveAt(@, 1)]
  BY <1>7 DEF Shorter
<1>9. Len(u[pass]) = len - 1 /\ \A i \in 1 .. len - 1 : u[pass][i] = q[pass][i + 1]
  <2>1. u[pass] = RemoveAt(q[pass], 1)
    BY <1>8 DEF Removed
  <2>2. /\ Len(RemoveAt(q[pass], 1)) = len - 1
        /\ \A i \in 1 .. len - 1 :
             RemoveAt(q[pass], 1)[i] = IF i < 1 THEN q[pass][i] ELSE q[pass][i + 1]
    BY <1>5, RemoveAtFacts
  <2>3. \A i \in 1 .. len - 1 : ~(i < 1)
    BY <1>5
  <2> QED
    BY <2>1, <2>2, <2>3
<1>10. k = 1 <=> n = fence[pass]
  <2>1. q[pass][1] = q[pass][k] => 1 = k
    BY <1>2, <1>3, <1>5 DEF Threaded, Once, Place
  <2> QED
    BY <1>4, <1>6, <2>1
<1>11. k # 1 => k - 1 \in 1 .. Len(u[pass]) /\ u[pass][k - 1] = fence[pass]
  <2>1. k # 1 => k - 1 \in 1 .. len - 1 /\ (k - 1) + 1 = k
    BY <1>5
  <2> QED
    BY <1>4, <1>9, <2>1
<1>12. Phases'
  <2>1. mem.pc[n] \in PC \cup {NULL}
    BY <1>2, <1>6 DEF Memory
  <2>2. executing' # <<>>
    BY <1>3
  <2> QED
    BY <1>2, <1>3, <1>6, <2>1, <2>2 DEF Phases
<1>13. Sound(u)'
  <2>1. Fenced(u)'
    BY <1>3, <1>10, <1>11 DEF Fenced
  <2> QED
    BY <1>3, <1>8, <2>1, SoundNext
<1>14. QInv'
  BY <1>7, <1>12, <1>13 DEF QInv
<1>15. waiting = On(mem, q) /\ waiting' = On(mem', u)
  BY <1>2, <1>7, <1>8, ReadIs DEF waiting, Read
<1>16. /\ waiting[pass] \in Seq(PC \cup {NULL}) /\ Len(waiting[pass]) = len
       /\ waiting[pass][1] = mem.pc[n]
  BY <1>2, <1>3, <1>5, <1>6, <1>15, OnFacts
<1>17. RemoveAt(waiting[pass], 1) = Tail(waiting[pass])
  BY <1>5, <1>16 DEF RemoveAt
<1>18. left' = k - 1
  <2>1. CASE k = 1
    BY <1>3, <1>10, <2>1 DEF left
  <2>2. CASE k # 1
    <3>1. left' = LeftIn(mem', pass, fence[pass])
      BY <1>3, <1>10, <2>2 DEF left, LeftIn
    <3> QED
      BY <1>3, <1>7, <1>8, <1>11, <2>2, <3>1, LeftIs
  <2> QED
    BY <2>1, <2>2
<1>19. Passes!RunFirst
  <2>1. waiting' = [waiting EXCEPT ![pass] = Tail(@)]
    BY <1>8, <1>15, <1>17
  <2>2. left > 0 /\ left' = left - 1
    BY <1>4, <1>5, <1>18
  <2> QED
    BY <1>3, <1>16, <2>1, <2>2 DEF Passes!RunFirst
<1> QED
  BY <1>14, <1>19 DEF Passes!Next

LEMMA DoneStep ==
  ASSUME QInv, StrobeDone
  PROVE  QInv' /\ Passes!Next
<1>1. PICK q : Sound(q)
  BY DEF QInv
<1>2. mem \in Memory /\ Phases /\ Threaded(mem, q) /\ Single(On(mem, q)["final"], monitor_info.node)
  BY <1>1 DEF QInv, Sound
<1>3. /\ executing # <<>> /\ pass # NULL /\ pass \in Queue
      /\ executing' = <<>> /\ active_strobe' = NULL /\ s' = NULL
      /\ mem' = mem /\ monitor_info' = monitor_info
      /\ fence[pass] \in NODE /\ NULL \notin NODE
  BY <1>2, StrobeAssumption DEF StrobeDone, Executing, Phases
<1>4. waiting' = waiting
  <2>1. mem' \in Memory /\ Threaded(mem', q)
    BY <1>2, <1>3
  <2>2. waiting' = On(mem', q) /\ waiting = On(mem, q)
    BY <1>2, <2>1, ReadIs DEF waiting, Read
  <2> QED
    BY <1>3, <2>2
<1>5. Threaded(mem', q) /\ Single(On(mem', q)["final"], monitor_info'.node)
  BY <1>2, <1>3
<1>6. CASE s = fence[pass]
  <2>1. pass' = NULL /\ fence' = [fence EXCEPT ![pass] = NULL]
    BY <1>6 DEF StrobeDone, AtFence, Unfenced
  <2>2. left = 0 /\ left' = 0
    <3>1. left' = 0
      BY <2>1 DEF left
    <3> QED
      BY <1>1, <1>6, <3>1, LeftNow
  <2>3. Phases'
    <3>1. \A x \in Queue : fence[x] # NULL => x = pass
      BY <1>2, <1>3 DEF Phases
    <3>2. fence' \in [Queue -> NODE \cup {NULL}] /\ \A x \in Queue : fence'[x] = NULL
      BY <1>2, <1>3, <2>1, <3>1 DEF Phases
    <3> QED
      BY <1>2, <1>3, <2>1, <3>2, StrobeAssumption DEF Phases
  <2>4. Fenced(q)'
    BY <2>1 DEF Fenced
  <2>5. Passes!Done
    BY <1>3, <1>4, <2>1, <2>2 DEF Passes!Done
  <2> QED
    BY <1>2, <1>3, <1>5, <2>3, <2>4, <2>5, SoundNext DEF QInv, Passes!Next
<1>7. CASE s # fence[pass]
  <2>1. PICK k \in 1 .. Len(q[pass]) : q[pass][k] = fence[pass] /\ left = k
    BY <1>1, <1>3, <1>7, LeftNow
  <2>2. mem.head[pass] # NULL
    <3>1. pass \in Place /\ Start(mem, pass) = mem.head[pass] /\ Len(q[pass]) \in Nat
          /\ \A i \in 1 .. Len(q[pass]) : q[pass][i] \in NODE
      BY <1>2, <1>3, PlaceFacts DEF Place, Queue, Start
    <3>2. Len(q[pass]) # 0 /\ 1 \in 1 .. Len(q[pass])
      BY <2>1, <3>1
    <3>3. Start(mem, pass) = q[pass][1]
      BY <1>2, <3>1, <3>2 DEF Threaded, Linked
    <3> QED
      BY <1>3, <3>1, <3>2, <3>3
  <2>3. pass' = pass /\ fence' = fence
    BY <1>7, <2>2 DEF StrobeDone, AtFence
  <2>4. left' = left
    <3>1. left' = LeftIn(mem, pass, fence[pass])
      BY <1>3, <2>3, SMTT(30) DEF left, LeftIn, Nodes, Chain
    <3> QED
      BY <1>2, <1>3, <2>1, <3>1, LeftIs
  <2>5. Phases'
    BY <1>2, <1>3, <2>3 DEF Phases
  <2>6. Fenced(q)'
    BY <1>1, <1>7, <2>3 DEF Sound, Fenced
  <2>7. left # 0
    BY <2>1
  <2>8. Passes!Done
    BY <1>3, <1>4, <2>3, <2>4, <2>7 DEF Passes!Done
  <2> QED
    BY <1>2, <1>3, <1>5, <2>5, <2>6, <2>8, SoundNext DEF QInv, Passes!Next
<1> QED
  BY <1>6, <1>7

-----------------------------------------------------------------------------
LEMMA NextStep ==
  ASSUME QInv, [Next]_vars
  PROVE  QInv' /\ [Passes!Next]_Passes!passes
<1>3. /\ monitor_info.node \in MONITOR \cup {NULL} /\ "final" \in Queue
      /\ monitor_info \in [enable : BOOLEAN, node : MONITOR \cup {NULL}]
  BY DEF QInv, Phases, Queue
<1>1. ASSUME NEW p \in STROBE, StrobeTask(p)
      PROVE  QInv' /\ Passes!Next
  <2>1. p \notin MONITOR \cup {NULL} /\ "final" \in Queue
    BY StrobeAssumption DEF PC, Queue
  <2> QED
    BY <1>1, <1>3, <2>1, EnqueueStep DEF StrobeTask, SameMonitor
<1>2. ASSUME NEW w \in Queue, NEW p \in INSTANCE_PLI, Synchronize(w, p)
      PROVE  QInv' /\ (Passes!Next \/ UNCHANGED Passes!passes)
  <2>1. p \notin MONITOR \cup {NULL}
    BY StrobeAssumption DEF PC
  <2> QED
    BY <1>2, <1>3, <2>1, TickleStep DEF Synchronize, SameMonitor
<1>4. ASSUME Change
      PROVE  QInv' /\ (Passes!Next \/ UNCHANGED Passes!passes)
  BY <1>3, <1>4, TickleStep DEF Change, SameMonitor
<1>5. ASSUME MonitorOn
      PROVE  QInv' /\ (Passes!Next \/ UNCHANGED Passes!passes)
  <2>1. /\ mem' = tickle_monitor(mem, "final", monitor_info.node) /\ CanEnqueue(mem, "final") /\ Keep
        /\ monitor_info' = [monitor_info EXCEPT !.enable = TRUE]
    BY <1>5 DEF MonitorOn
  <2> QED
    BY <1>3, <2>1, TickleStep DEF SameMonitor
<1>6. ASSUME UNCHANGED vars
      PROVE  QInv' /\ UNCHANGED Passes!passes
  BY <1>3, <1>6, NothingStep DEF vars, Keep, SameMonitor
<1>7. Crashed => UNCHANGED vars
  BY DEF Crashed
<1>8. ASSUME Next PROVE QInv' /\ (Passes!Next \/ UNCHANGED Passes!passes)
  BY <1>1, <1>2, <1>4, <1>5, <1>6, <1>7, <1>8, MonitorTaskStep, MonitorOffStep, BeginStep, RunStep, DoneStep DEF Next
<1> QED
  BY <1>6, <1>8

LEMMA PassesInit == Init => Passes!Init
<1> SUFFICES ASSUME Init PROVE Passes!Init
  OBVIOUS
<1>1. QInv
  BY QueuesInit
<1>2. PICK q : Sound(q)
  BY <1>1 DEF QInv
<1>3. mem \in Memory /\ Threaded(mem, q)
  BY <1>1, <1>2 DEF QInv, Sound
<1>4. waiting = On(mem, q)
  BY <1>3, ReadIs DEF waiting, Read
<1>5. ASSUME NEW w \in Queue PROVE waiting[w] = <<>>
  <2>1. w \in Place /\ Start(mem, w) = NULL
    BY DEF Init, Place, Queue, Start
  <2>2. Len(q[w]) \in Nat /\ \A i \in 1 .. Len(q[w]) : q[w][i] \in NODE
    BY <1>3, <2>1, PlaceFacts
  <2>3. Len(q[w]) = 0
    <3>1. Len(q[w]) # 0 => 1 \in 1 .. Len(q[w]) /\ Start(mem, w) = q[w][1]
      BY <1>3, <2>1, <2>2 DEF Threaded, Linked
    <3> QED
      BY <2>1, <2>2, <3>1, StrobeAssumption
  <2>4. waiting[w] \in Seq(PC \cup {NULL}) /\ Len(waiting[w]) = 0
    BY <1>3, <1>4, <2>3, OnFacts
  <2> QED
    BY <2>4
<1>6. waiting = [w \in Queue |-> waiting[w]]
  BY <1>4 DEF On
<1>7. waiting = [w \in Queue |-> <<>>]
  BY <1>5, <1>6
<1>8. left = 0 /\ pass = NULL /\ executing = <<>>
  BY DEF Init, left
<1> QED
  BY <1>7, <1>8 DEF Passes!Init, Passes!Queue, Queue

All(a, b, c) == a \o b \o c
Joined(S, a, b, c, la, lb, lc, lab) ==
  /\ All(a, b, c) \in Seq(S) /\ Len(All(a, b, c)) = lab + lc
  /\ Len(a) = la /\ Len(b) = lb /\ Len(c) = lc /\ lab = la + lb
  /\ \A i \in 1 .. la : All(a, b, c)[i] = a[i]
  /\ \A i \in la + 1 .. lab : All(a, b, c)[i] = b[i - la]
  /\ \A i \in lab + 1 .. lab + lc : All(a, b, c)[i] = c[i - lab]
Apart(a, b, la, lb) == \A i \in 1 .. la, j \in 1 .. lb : a[i] # b[j]
Covered(S, a, b, c, la, lb, lc) ==
  \A n : n \in S <=> \/ (\E i \in 1 .. la : a[i] = n)
                    \/ (\E i \in 1 .. lb : b[i] = n)
                    \/ (\E i \in 1 .. lc : c[i] = n)

LEMMA ThreeLists ==
  ASSUME NEW S, NEW a \in Seq(S), NEW b \in Seq(S), NEW c \in Seq(S),
         NEW la \in Nat, NEW lb \in Nat, NEW lc \in Nat, NEW lab \in Nat,
         Len(a) = la, Len(b) = lb, Len(c) = lc, lab = la + lb
  PROVE  Joined(S, a, b, c, la, lb, lc, lab)
<1> DEFINE ab == a \o b
           all == ab \o c
<1>1. ab \in Seq(S)
  OBVIOUS
<1>2. Len(ab) = lab
  OBVIOUS
<1>3. \A i \in 1 .. la : ab[i] = a[i]
  OBVIOUS
<1>4. \A i \in la + 1 .. lab : ab[i] = b[i - la]
  OBVIOUS
<1> HIDE DEF ab
<1>5. all \in Seq(S)
  BY <1>1
<1>6. Len(all) = lab + lc
  <2>1. ab \in Seq(S) /\ c \in Seq(S)
    BY <1>1
  <2>2. Len(all) = Len(ab) + Len(c)
    BY <2>1, ConcatProperties
  <2> QED
    BY <1>2, <2>2
<1>7. \A i \in 1 .. lab : all[i] = ab[i]
  BY <1>1, <1>2
<1>8. \A i \in lab + 1 .. lab + lc : all[i] = c[i - lab]
  BY <1>1, <1>2
<1>12. All(a, b, c) = all
  BY DEF All, ab
<1> HIDE DEF all
<1>9. (\A i \in 1 .. la : i \in 1 .. lab) /\ \A i \in la + 1 .. lab : i \in 1 .. lab
  OBVIOUS
<1>10. \A i \in 1 .. la : all[i] = a[i]
  BY <1>3, <1>7, <1>9
<1>11. \A i \in la + 1 .. lab : all[i] = b[i - la]
  BY <1>4, <1>7, <1>9
<1> QED
  BY <1>5, <1>6, <1>8, <1>10, <1>11, <1>12 DEF Joined

(* Every allocated node is on one of the lists, once.                      *)
LEMMA OnceEach ==
  ASSUME NEW a \in Seq(NODE), NEW b \in Seq(NODE), NEW c \in Seq(NODE), NEW S,
         NEW la \in Nat, NEW lb \in Nat, NEW lc \in Nat, NEW lab \in Nat,
         Joined(NODE, a, b, c, la, lb, lc, lab), Covered(S, a, b, c, la, lb, lc),
         Distinct(a), Distinct(b), Distinct(c), Apart(a, b, la, lb), Apart(a, c, la, lc), Apart(b, c, lb, lc)
  PROVE  Range(All(a, b, c)) = S /\ Len(All(a, b, c)) = Cardinality(S)
<1> DEFINE all == All(a, b, c)
<1>1. /\ lab = la + lb
      /\ \A i, j \in 1 .. la : a[i] = a[j] => i = j
      /\ \A i, j \in 1 .. lb : b[i] = b[j] => i = j
      /\ \A i, j \in 1 .. lc : c[i] = c[j] => i = j
      /\ \A i \in 1 .. la, j \in 1 .. lb : a[i] # b[j]
      /\ \A i \in 1 .. la, j \in 1 .. lc : a[i] # c[j]
      /\ \A i \in 1 .. lb, j \in 1 .. lc : b[i] # c[j]
  BY DEF Distinct, Apart, Joined
<1>2. \A n : n \in S <=> \/ (\E i \in 1 .. la : a[i] = n)
                        \/ (\E i \in 1 .. lb : b[i] = n)
                        \/ (\E i \in 1 .. lc : c[i] = n)
  BY DEF Covered
<1>4. /\ all \in Seq(NODE) /\ Len(all) = lab + lc
      /\ \A i \in 1 .. la : all[i] = a[i]
      /\ \A i \in la + 1 .. lab : all[i] = b[i - la]
      /\ \A i \in lab + 1 .. lab + lc : all[i] = c[i - lab]
  BY DEF Joined
<1>0. lab = la + lb
  BY <1>1
<1> HIDE DEF all
<1>5. /\ \A i \in 1 .. la : all[i] = a[i]
      /\ \A i \in 1 .. lb : all[la + i] = b[i]
      /\ \A i \in 1 .. lc : all[lab + i] = c[i]
  <2>1. ASSUME NEW i \in 1 .. la PROVE all[i] = a[i]
    BY <1>4
  <2>2. ASSUME NEW i \in 1 .. lb PROVE all[la + i] = b[i]
    <3>1. la + i \in la + 1 .. lab /\ la + i \in 1 .. lab /\ (la + i) - la = i
      BY <1>1
    <3> QED
      BY <1>4, <3>1
  <2>3. ASSUME NEW i \in 1 .. lc PROVE all[lab + i] = c[i]
    <3>1. lab + i \in lab + 1 .. lab + lc /\ (lab + i) - lab = i
      BY <1>1
    <3> QED
      BY <1>4, <3>1
  <2> QED
    BY <2>1, <2>2, <2>3
<1> DEFINE From(i) == \/ i \in 1 .. la
                     \/ (\E j \in 1 .. lb : i = la + j)
                     \/ (\E j \in 1 .. lc : i = lab + j)
<1>6. ASSUME NEW i \in 1 .. lab + lc PROVE From(i)
  <2>1. CASE i <= la
    BY <2>1
  <2>2. CASE i > la /\ i <= lab
    <3>1. i - la \in 1 .. lb /\ i = la + (i - la)
      BY <1>0, <2>2
    <3> QED
      BY <3>1
  <2>3. CASE i > lab
    <3>1. i - lab \in 1 .. lc /\ i = lab + (i - lab)
      BY <2>3
    <3> QED
      BY <3>1
  <2> QED
    BY <1>1, <2>1, <2>2, <2>3
<1>7. ASSUME NEW i \in 1 .. lab + lc, NEW j \in 1 .. lab + lc, all[i] = all[j]
      PROVE  i = j
  <2>1. From(i) /\ From(j)
    BY <1>6
  <2>2. ASSUME NEW k \in 1 .. la, NEW l \in 1 .. la, all[k] = all[l]
        PROVE  k = l
    <3>1. all[k] = a[k]
      BY <1>5
    <3>2. all[l] = a[l]
      BY <1>5
    <3> QED
      BY <1>1, <2>2, <3>1, <3>2
  <2>3. ASSUME NEW k \in 1 .. lb, NEW l \in 1 .. lb, all[la + k] = all[la + l]
        PROVE  k = l
    <3>1. all[la + k] = b[k]
      BY <1>5
    <3>2. all[la + l] = b[l]
      BY <1>5
    <3> QED
      BY <1>1, <2>3, <3>1, <3>2
  <2>4. ASSUME NEW k \in 1 .. lc, NEW l \in 1 .. lc, all[lab + k] = all[lab + l]
        PROVE  k = l
    <3>1. all[lab + k] = c[k]
      BY <1>5
    <3>2. all[lab + l] = c[l]
      BY <1>5
    <3> QED
      BY <1>1, <2>4, <3>1, <3>2
  <2>5. ASSUME NEW k \in 1 .. la, NEW l \in 1 .. lb, all[k] = all[la + l]
        PROVE  FALSE
    <3>1. all[k] = a[k]
      BY <1>5
    <3>2. all[la + l] = b[l]
      BY <1>5
    <3> QED
      BY <1>1, <2>5, <3>1, <3>2
  <2>6. ASSUME NEW k \in 1 .. la, NEW l \in 1 .. lc, all[k] = all[lab + l]
        PROVE  FALSE
    <3>1. all[k] = a[k]
      BY <1>5
    <3>2. all[lab + l] = c[l]
      BY <1>5
    <3> QED
      BY <1>1, <2>6, <3>1, <3>2
  <2>7. ASSUME NEW k \in 1 .. lb, NEW l \in 1 .. lc, all[la + k] = all[lab + l]
        PROVE  FALSE
    <3>1. all[la + k] = b[k]
      BY <1>5
    <3>2. all[lab + l] = c[l]
      BY <1>5
    <3> QED
      BY <1>1, <2>7, <3>1, <3>2
  <2>8. CASE i \in 1 .. la
    BY <1>7, <2>1, <2>2, <2>5, <2>6, <2>8
  <2>9. CASE \E k \in 1 .. lb : i = la + k
    <3>1. PICK k \in 1 .. lb : i = la + k
      BY <2>9
    <3> QED
      BY <1>7, <2>1, <2>3, <2>5, <2>7, <3>1
  <2>10. CASE \E k \in 1 .. lc : i = lab + k
    <3>1. PICK k \in 1 .. lc : i = lab + k
      BY <2>10
    <3> QED
      BY <1>7, <2>1, <2>4, <2>6, <2>7, <3>1
  <2> QED
    BY <2>1, <2>8, <2>9, <2>10
<1>8. DOMAIN all = 1 .. lab + lc /\ lab + lc \in Nat
  BY <1>1, <1>4, LenProperties
<1>9. Range(all) = S
  <2>1. ASSUME NEW n \in Range(all) PROVE n \in S
    <3>1. PICK i \in 1 .. lab + lc : n = all[i]
      BY <1>8 DEF Range
    <3>2. From(i)
      BY <1>6
    <3> QED
      BY <1>0, <1>2, <1>5, <3>1, <3>2, ZenonT(30)
  <2>2. ASSUME NEW n \in S PROVE n \in Range(all)
    <3>1. CASE \E i \in 1 .. la : a[i] = n
      <4>1. PICK i \in 1 .. la : a[i] = n
        BY <3>1
      <4>2. i \in 1 .. lab + lc /\ all[i] = n
        BY <1>0, <1>5, <4>1
      <4> QED
        BY <1>8, <4>2 DEF Range
    <3>2. CASE \E i \in 1 .. lb : b[i] = n
      <4>1. PICK i \in 1 .. lb : b[i] = n
        BY <3>2
      <4>2. all[la + i] = n
        BY <1>5, <4>1
      <4>3. la + i \in 1 .. lab + lc
        BY <1>0
      <4> QED
        BY <1>8, <4>2, <4>3 DEF Range
    <3>3. CASE \E i \in 1 .. lc : c[i] = n
      <4>1. PICK i \in 1 .. lc : c[i] = n
        BY <3>3
      <4>2. lab + i \in 1 .. lab + lc /\ all[lab + i] = n
        BY <1>0, <1>5, <4>1
      <4> QED
        BY <1>8, <4>2 DEF Range
    <3> QED
      BY <1>2, <3>1, <3>2, <3>3
  <2> QED
    BY <2>1, <2>2
<1>10. Cardinality(S) = lab + lc
  <2>1. all \in Bijection(1 .. lab + lc, S)
    <3>1. all \in [1 .. lab + lc -> S]
      <4>1. all = [i \in 1 .. lab + lc |-> all[i]]
        BY <1>4, <1>8
      <4>2. \A i \in 1 .. lab + lc : all[i] \in S
        BY <1>8, <1>9 DEF Range
      <4> QED
        BY <4>1, <4>2
    <3>2. \A n \in S : \E i \in 1 .. lab + lc : all[i] = n
      BY <1>8, <1>9 DEF Range
    <3> QED
      BY <1>7, <3>1, <3>2 DEF Bijection, Injection, IsInjective, Surjection
  <2> QED
    BY <1>8, <2>1, FS_CountingElements DEF ExistsBijection
<1> QED
  BY <1>1, <1>4, <1>9, <1>10 DEF all

LEMMA QueuesFollow == QInv => QueuesSound
<1> SUFFICES ASSUME QInv PROVE QueuesSound
  OBVIOUS
<1>1. PICK q : Sound(q)
  BY DEF QInv
<1>2. mem \in Memory /\ Phases /\ Threaded(mem, q) /\ Single(On(mem, q)["final"], monitor_info.node)
  BY <1>1 DEF QInv, Sound
<1>3. TypeOK
  <2>1. mem \in [ free : NODE \cup {NULL}, allocated : SUBSET NODE,
                 pc : [NODE -> PC \cup {NULL}], next : [NODE -> NODE \cup {NULL}],
                 head : [Queue -> NODE \cup {NULL}], tail : [Queue -> NODE \cup {NULL}] ]
    BY <1>2 DEF Memory
  <2>2. Len(executing) <= 1 /\ Range(executing) \subseteq PC \cup {NULL}
    <3>1. CASE executing = <<>>
      BY <3>1 DEF Range
    <3>2. CASE executing # <<>>
      <4>1. PICK p \in PC \cup {NULL} : executing = <<p>>
        BY <1>2, <3>2 DEF Phases
      <4>2. Len(executing) = 1 /\ DOMAIN executing = {1} /\ executing[1] = p
        BY <4>1
      <4> QED
        BY <4>2 DEF Range
    <3> QED
      BY <3>1, <3>2
  <2> QED
    BY <1>2, <2>1, <2>2 DEF TypeOK, Phases
<1>4. /\ Nodes(mem, "idle") = q["idle"] /\ Nodes(mem, "final") = q["final"] /\ Chain(mem, mem.free) = q["free"]
      /\ "idle" \in Place /\ "final" \in Place /\ "free" \in Place
      /\ "idle" \in Queue /\ "final" \in Queue /\ "free" \notin Queue
  BY <1>2, ChainIs DEF Nodes, Start, Place, Queue
<1>5. NodesOnce
  <2>1. PICK a \in Seq(NODE) : a = q["idle"]
    BY <1>2, <1>4, PlaceFacts
  <2>2. PICK b \in Seq(NODE) : b = q["final"]
    BY <1>2, <1>4, PlaceFacts
  <2>3. PICK c \in Seq(NODE) : c = q["free"]
    BY <1>2, <1>4, PlaceFacts
  <2>4. PICK la \in Nat : la = Len(a)
    BY LenProperties
  <2>5. PICK lb \in Nat : lb = Len(b)
    BY LenProperties
  <2>6. PICK lc \in Nat : lc = Len(c)
    BY LenProperties
  <2>7. PICK lab \in Nat : lab = la + lb
    OBVIOUS
  <2>8. Joined(NODE, a, b, c, la, lb, lc, lab)
    BY <2>4, <2>5, <2>6, <2>7, ThreeLists
  <2>9. /\ Distinct(a) /\ Distinct(b) /\ Distinct(c)
        /\ Apart(a, b, la, lb) /\ Apart(a, c, la, lc) /\ Apart(b, c, lb, lc)
    <3>1. ASSUME NEW w \in Place PROVE Distinct(q[w])
      BY <1>2 DEF Threaded, Once, Distinct
    <3>2. ASSUME NEW w \in Place, NEW x \in Place, w # x PROVE Apart(q[w], q[x], Len(q[w]), Len(q[x]))
      BY <1>2, <3>2 DEF Threaded, Once, Apart
    <3>3. "idle" # "final" /\ "idle" # "free" /\ "final" # "free"
      OBVIOUS
    <3> QED
      BY <1>4, <2>1, <2>2, <2>3, <2>4, <2>5, <2>6, <3>1, <3>2, <3>3
  <2>10. Covered(mem.allocated, a, b, c, la, lb, lc)
    <3>1. ASSUME NEW n \in mem.allocated
          PROVE  \/ (\E i \in 1 .. la : a[i] = n)
                 \/ (\E i \in 1 .. lb : b[i] = n)
                 \/ (\E i \in 1 .. lc : c[i] = n)
      <4>1. n \in NODE
        BY <1>2 DEF Memory
      <4>2. PICK w \in Place : \E i \in 1 .. Len(q[w]) : q[w][i] = n
        BY <1>2, <4>1 DEF Threaded, Kept
      <4> QED
        BY <2>1, <2>2, <2>3, <2>4, <2>5, <2>6, <4>2 DEF Place, Queue
    <3>2. ASSUME NEW w \in Place, NEW i \in 1 .. Len(q[w]) PROVE q[w][i] \in mem.allocated
      <4>1. q[w][i] \in NODE
        BY <1>2, PlaceFacts
      <4> QED
        BY <1>2, <4>1 DEF Threaded, Kept
    <3> QED
      BY <1>4, <2>1, <2>2, <2>3, <2>4, <2>5, <2>6, <3>1, <3>2 DEF Covered
  <2>11. Range(a \o b \o c) = mem.allocated /\ Len(a \o b \o c) = Cardinality(mem.allocated)
    <3>1. Range(All(a, b, c)) = mem.allocated /\ Len(All(a, b, c)) = Cardinality(mem.allocated)
      BY <2>8, <2>9, <2>10, OnceEach
    <3> QED
      BY <3>1 DEF All
  <2>12. ASSUME NEW w \in Queue, Nodes(mem, w) = q[w]
         PROVE  mem.tail[w] = IF Nodes(mem, w) = <<>> THEN NULL ELSE Last(Nodes(mem, w))
    <3>1. mem.tail[w] = IF Len(q[w]) = 0 THEN NULL ELSE q[w][Len(q[w])]
      BY <1>2 DEF Threaded, Ended
    <3>2. q[w] \in Seq(NODE)
      BY <1>2, OnFacts
    <3>3. Len(q[w]) = 0 <=> q[w] = <<>>
      BY <3>2, EmptySeq
    <3> QED
      BY <2>12, <3>1, <3>3 DEF Last
  <2> QED
    BY <1>4, <2>1, <2>2, <2>3, <2>11, <2>12 DEF NodesOnce
<1>6. OneMonitor
  <2>1. SUFFICES ASSUME NEW i \in DOMAIN q["final"], NEW j \in DOMAIN q["final"]
                 PROVE  LET p == mem.pc[q["final"][i]]
                            r == mem.pc[q["final"][j]]
                        IN (p \in MONITOR => p = monitor_info.node) /\ (p \in MONITOR /\ p = r => i = j)
    BY <1>4 DEF OneMonitor
  <2>2. i \in 1 .. Len(q["final"]) /\ j \in 1 .. Len(q["final"])
    BY <1>2, <1>4, PlaceFacts
  <2>3. /\ Len(On(mem, q)["final"]) = Len(q["final"])
        /\ On(mem, q)["final"][i] = mem.pc[q["final"][i]]
        /\ On(mem, q)["final"][j] = mem.pc[q["final"][j]]
    BY <1>2, <1>4, <2>2, OnFacts
  <2> QED
    BY <1>2, <2>2, <2>3 DEF Single
<1> QED
  BY <1>3, <1>5, <1>6 DEF QueuesSound

(* No node is lost, none is free while it is queued, tail is the last of   *)
(* its queue, and no monitor is queued but the last and only once, however *)
(* often a pass runs and whatever its statements queue.                    *)
THEOREM QueuesStaySound == Spec => []QueuesSound
<1>1. Init => QInv
  BY QueuesInit
<1>2. QInv /\ [Next]_vars => QInv'
  BY NextStep
<1>3. QInv => QueuesSound
  BY QueuesFollow
<1> QED
  BY <1>1, <1>2, <1>3, PTL DEF Spec

(* The queues implement the passes: check_strobe runs what was queued when *)
(* the pass began, once, in order, and nothing that was queued after.      *)
THEOREM PassesImplemented == Spec => NextPass
<1>1. Init => QInv /\ Passes!Init
  BY QueuesInit, PassesInit
<1>2. QInv /\ [Next]_vars => QInv' /\ [Passes!Next]_Passes!passes
  BY NextStep
<1> QED
  BY <1>1, <1>2, PTL DEF Spec, NextPass, Passes!Spec
=============================================================================
