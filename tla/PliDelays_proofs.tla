--------------------------- MODULE PliDelays_proofs ---------------------------
(***************************************************************************)
(* The gate queue is sound and implements the agenda, for any number of    *)
(* gates and nodes and any width of a word; no delay of a user task is     *)
(* lost, and tf_getnextlongtime tells the time that comes next.  The       *)
(* pointers of nsched.cc are read as a sequence of nodes, a sequence of    *)
(* gates for each node and the sequence of all gates in the order in which *)
(* they fire.                                                              *)
(***************************************************************************)
EXTENDS PliDelays, Lemmas

-----------------------------------------------------------------------------
(* Times: the macros of vtypes.h compare and add numbers.                  *)
LEMMA ValueIsNat ==
  ASSUME NEW t \in Time64
  PROVE  Value(t) \in Nat /\ t.timeh \in Nat /\ t.timel \in Nat /\ t.timeh < W /\ t.timel < W
<1>1. t.timeh \in 0 .. W - 1 /\ t.timel \in 0 .. W - 1 /\ W \in Nat
  BY WordAssumption DEF Time64, Word
<1>2. t.timeh \in Nat /\ t.timel \in Nat /\ t.timeh < W /\ t.timel < W
  BY <1>1
<1>3. t.timeh * W \in Nat
  BY <1>1, <1>2
<1> QED
  BY <1>2, <1>3 DEF Value

(* A product with W, of the smaller of two numbers, leaves room for W more.*)
LEMMA Scales ==
  ASSUME NEW a \in Nat, NEW b \in Nat, a < b
  PROVE  a * W + W <= b * W /\ a * W \in Nat /\ b * W \in Nat
<1>1. W \in Nat
  BY WordAssumption
<1>2. (b - (a + 1)) * W >= 0 /\ b - (a + 1) \in Nat
  <2>1. b - (a + 1) \in Nat
    OBVIOUS
  <2>2. \A n \in Nat : n * W >= 0
    BY <1>1
  <2> QED
    BY <2>1, <2>2
<1>3. (b - (a + 1)) * W = b * W - (a * W + W)
  BY <1>1
<1>4. a * W \in Nat /\ b * W \in Nat
  BY <1>1
<1> QED
  BY <1>1, <1>2, <1>3, <1>4

(* CMPTIME64 compares as numbers do, and equal numbers are equal times.    *)
LEMMA CompareIsOrder ==
  ASSUME NEW t \in Time64, NEW u \in Time64
  PROVE  /\ CMPTIME64(t, u) = IF Value(t) < Value(u) THEN -1 ELSE IF Value(t) = Value(u) THEN 0 ELSE 1
         /\ Value(t) = Value(u) => t = u
<1>1. /\ t.timeh \in Nat /\ t.timel \in Nat /\ t.timeh < W /\ t.timel < W
      /\ u.timeh \in Nat /\ u.timel \in Nat /\ u.timeh < W /\ u.timel < W
      /\ W \in Nat
  BY ValueIsNat, WordAssumption
<1>2. t.timeh < u.timeh => Value(t) < Value(u)
  <2>1. t.timeh < u.timeh => t.timeh * W + W <= u.timeh * W /\ t.timeh * W \in Nat /\ u.timeh * W \in Nat
    BY <1>1, Scales
  <2> DEFINE a == t.timeh * W
             b == u.timeh * W
  <2>2. Value(t) = a + t.timel /\ Value(u) = b + u.timel
    BY DEF Value
  <2> HIDE DEF a, b
  <2> QED
    BY <1>1, <2>1, <2>2 DEF a, b
<1>3. u.timeh < t.timeh => Value(u) < Value(t)
  <2>1. u.timeh < t.timeh => u.timeh * W + W <= t.timeh * W /\ t.timeh * W \in Nat /\ u.timeh * W \in Nat
    BY <1>1, Scales
  <2> DEFINE a == t.timeh * W
             b == u.timeh * W
  <2>2. Value(t) = a + t.timel /\ Value(u) = b + u.timel
    BY DEF Value
  <2> HIDE DEF a, b
  <2> QED
    BY <1>1, <2>1, <2>2 DEF a, b
<1>4. t.timeh = u.timeh =>
        /\ Value(t) < Value(u) <=> t.timel < u.timel
        /\ Value(t) = Value(u) <=> t.timel = u.timel
  <2> DEFINE a == t.timeh * W
  <2>1. a \in Nat
    BY <1>1
  <2>2. t.timeh = u.timeh => Value(t) = a + t.timel /\ Value(u) = a + u.timel
    BY DEF Value
  <2> HIDE DEF a
  <2> QED
    BY <1>1, <2>1, <2>2
<1>5. Value(t) \in Nat /\ Value(u) \in Nat
  BY ValueIsNat
<1>6. Value(t) = Value(u) => t = u
  <2>1. Value(t) = Value(u) => t.timeh = u.timeh /\ t.timel = u.timel
    BY <1>1, <1>2, <1>3, <1>4, <1>5
  <2> QED
    BY <2>1 DEF Time64
<1> QED
  BY <1>1, <1>2, <1>3, <1>4, <1>5, <1>6 DEF CMPTIME64

(* A sum that fits is what the macros calculate.                           *)
LEMMA AddIsSum6432 ==
  ASSUME NEW t \in Time64, NEW d \in Word, Value(t) + d <= W * W - 1
  PROVE  ADDTIME6432(t, d) \in Time64 /\ Value(ADDTIME6432(t, d)) = Value(t) + d
<1> DEFINE u == ADDTIME6432(t, d)
           h == t.timeh
           l == t.timel
<1>1. /\ h \in Nat /\ l \in Nat /\ h < W /\ l < W /\ d \in Nat /\ d < W /\ W \in Nat /\ W > 1
      /\ h * W \in Nat
  BY ValueIsNat, WordAssumption DEF Word
<1>2. /\ u.timeh = IF l > W - 1 - d THEN Wrapped(h + 1) ELSE h
      /\ u.timel = IF l + d < W THEN l + d ELSE l + d - W
  <2>1. /\ u.timeh = IF l > Complement(d) THEN Wrapped(h + 1) ELSE h
        /\ u.timel = Wrapped(l + d)
    BY DEF ADDTIME6432
  <2> HIDE DEF u, h, l
  <2>2. Complement(d) = W - 1 - d
    BY DEF Complement
  <2>3. Wrapped(l + d) = IF l + d < W THEN l + d ELSE l + d - W
    BY <1>1 DEF Wrapped
  <2> QED
    BY <2>1, <2>2, <2>3
<1>3. l > W - 1 - d <=> l + d >= W
  BY <1>1
<1>4. CASE l + d < W
  <2>1. u.timeh = h /\ u.timel = l + d
    BY <1>1, <1>2, <1>3, <1>4
  <2>2. u \in Time64
    BY <1>1, <1>4, <2>1 DEF ADDTIME6432, Time64, Word
  <2>3. Value(u) = h * W + (l + d) /\ Value(t) = h * W + l
    BY <2>1 DEF Value
  <2> QED
    BY <1>1, <2>2, <2>3
<1>5. CASE l + d >= W
  <2>1. h + 1 < W
    <3>1. SUFFICES ASSUME h + 1 >= W PROVE FALSE
      BY <1>1
    <3>2. h = W - 1
      BY <1>1, <3>1
    <3>3. Value(t) = (W - 1) * W + l
      BY <3>2 DEF Value
    <3>4. (W - 1) * W = W * W - W /\ W * W \in Nat
      BY <1>1
    <3> DEFINE ww == W * W
    <3> HIDE DEF ww
    <3>5. Value(t) = ww - W + l /\ ww \in Nat /\ Value(t) + d <= ww - 1
      BY <3>3, <3>4 DEF ww
    <3> QED
      BY <1>1, <1>5, <3>5
  <2>2. u.timeh = h + 1 /\ u.timel = l + d - W
    BY <1>1, <1>2, <1>3, <1>5, <2>1 DEF Wrapped
  <2>3. u \in Time64
    BY <1>1, <1>5, <2>1, <2>2 DEF ADDTIME6432, Time64, Word
  <2>4. Value(u) = (h + 1) * W + (l + d - W) /\ Value(t) = h * W + l
    BY <2>2 DEF Value
  <2>5. (h + 1) * W = h * W + W
    BY <1>1
  <2> QED
    BY <1>1, <2>3, <2>4, <2>5
<1> QED
  BY <1>1, <1>4, <1>5

-----------------------------------------------------------------------------
(* Rings: p leads from each entry of s to the next, and from the last to   *)
(* the first; q leads back.                                                *)
After(i, n) == IF i = n THEN 1 ELSE i + 1
IsRing(p, q, s) ==
  /\ Distinct(s)
  /\ \A i \in 1 .. Len(s) : p[s[i]] = s[After(i, Len(s))] /\ q[s[After(i, Len(s))]] = s[i]

(* A list without repetition is no longer than the set it is of.           *)
LEMMA NotLonger ==
  ASSUME NEW S, IsFiniteSet(S), NEW s \in Seq(S), Distinct(s)
  PROVE  Len(s) <= Cardinality(S) /\ Cardinality(S) \in Nat
<1>1. Cardinality(S) \in Nat
  BY FS_CardinalityType
<1>2. Len(s) \in Nat /\ s \in [1 .. Len(s) -> S]
  BY LenProperties
<1>3. IsFiniteSet(1 .. Len(s)) /\ Cardinality(1 .. Len(s)) = Len(s)
  BY <1>2, FS_Interval
<1>4. s \in Injection(1 .. Len(s), S)
  BY <1>2 DEF Injection, IsInjective, Distinct
<1>5. Cardinality(1 .. Len(s)) <= Cardinality(S)
  BY <1>3, <1>4, FS_Injection
<1> QED
  BY <1>1, <1>3, <1>5

(* Following a ring from its first entry gives the sequence.               *)
Around(p, first, size, at) == at = [k \in 0 .. size |-> IF k = 0 THEN first ELSE p[at[k - 1]]]
(* The walk along the pointers of a ring visits its entries, once each.    *)
LEMMA CircleIs ==
  ASSUME NEW S, IsFiniteSet(S), NEW p, DOMAIN p = S, NEW q, NEW s \in Seq(S), NEW n \in Nat,
         n = Len(s), n > 0, IsRing(p, q, s)
  PROVE  Circle(p, s[1]) = s
<1> DEFINE size == Cardinality(S)
           V == {s[i] : i \in 1 .. n}
           h == [k \in 1 .. size |-> [v \in V |-> p[v]]]
<1>1. /\ n <= size /\ size \in Nat
      /\ \A i \in 1 .. n : s[i] \in S /\ p[s[i]] = s[After(i, n)]
      /\ s = [i \in 1 .. n |-> s[i]]
      /\ \A i, j \in 1 .. n : s[i] = s[j] => i = j
  BY NotLonger, LenProperties DEF IsRing, Distinct
<1>2. 1 \in 1 .. n /\ s[1] \in V
  OBVIOUS
<1>3. \A v \in V : p[v] \in V
  <2> SUFFICES ASSUME NEW i \in 1 .. n PROVE p[s[i]] \in V
    OBVIOUS
  <2>1. After(i, n) \in 1 .. n
    BY DEF After
  <2>2. s[After(i, n)] \in V
    BY <2>1
  <2> QED
    BY <1>1, <2>2
<1>4. \E f : Iterates(f, size, V, s[1], h)
  <2>1. h \in [1 .. size -> [V -> V]]
    BY <1>3
  <2> HIDE DEF h, V, size
  <2> QED
    BY <1>1, <1>2, <2>1, Iteration
<1>5. \E f : Around(p, s[1], size, f)
  <2>1. PICK f : Iterates(f, size, V, s[1], h)
    BY <1>4
  <2>2. f \in [0 .. size -> V] /\ f[0] = s[1] /\ \A k \in 1 .. size : f[k] = h[k][f[k - 1]]
    BY <2>1 DEF Iterates
  <2>3. ASSUME NEW k \in 0 .. size PROVE f[k] = IF k = 0 THEN s[1] ELSE p[f[k - 1]]
    <3>1. CASE k = 0
      BY <2>2, <3>1
    <3>2. CASE k # 0
      <4>1. k \in 1 .. size /\ k - 1 \in 0 .. size
        BY <1>1, <3>2
      <4>2. f[k - 1] \in V /\ f[k] = h[k][f[k - 1]]
        BY <2>2, <4>1
      <4> HIDE DEF V
      <4> QED
        BY <3>2, <4>1, <4>2
    <3> QED
      BY <3>1, <3>2
  <2>4. f = [k \in 0 .. size |-> f[k]]
    BY <2>2
  <2>5. f = [k \in 0 .. size |-> IF k = 0 THEN s[1] ELSE p[f[k - 1]]]
    <3> HIDE DEF V, h, size
    <3> QED
      BY <2>3, <2>4
  <2> QED
    BY <2>5 DEF Around
<1> DEFINE at == CHOOSE at : Around(p, s[1], size, at)
<1>6. Around(p, s[1], size, at)
  <2> HIDE DEF size
  <2> QED
    BY <1>5
<1> HIDE DEF at, V, h
<1>7. /\ at[0] = s[1]
      /\ \A k \in 1 .. size : at[k] = p[at[k - 1]]
  <2> HIDE DEF size
  <2>1. at = [k \in 0 .. size |-> IF k = 0 THEN s[1] ELSE p[at[k - 1]]]
    BY <1>6 DEF Around
  <2>2. \A k \in 0 .. size : at[k] = IF k = 0 THEN s[1] ELSE p[at[k - 1]]
    BY <2>1
  <2>3. 0 \in 0 .. size /\ \A k \in 1 .. size : k \in 0 .. size /\ k # 0
    BY <1>1
  <2> QED
    BY <2>2, <2>3
<1> DEFINE T == {k \in Nat : at[k] = s[k + 1]}
<1>8. \A k \in 0 .. n - 1 : at[k] = s[k + 1]
  <2>1. 0 \in T
    BY <1>7
  <2>2. ASSUME NEW k \in 0 .. (n - 1) - 1, k \in T PROVE k + 1 \in T
    <3>1. k + 1 \in 1 .. size /\ k + 1 \in 1 .. n /\ k + 1 # n /\ (k + 1) - 1 = k /\ k + 1 \in Nat
      BY <1>1
    <3>2. at[k + 1] = p[s[k + 1]]
      BY <1>7, <2>2, <3>1
    <3>3. p[s[k + 1]] = s[(k + 1) + 1]
      BY <1>1, <3>1 DEF After
    <3> QED
      BY <3>1, <3>2, <3>3
  <2>3. 0 .. n - 1 \subseteq T
    <3>1. n - 1 \in Nat
      OBVIOUS
    <3> HIDE DEF T
    <3> QED
      BY <2>1, <2>2, <3>1, Induction
  <2> QED
    BY <2>3
<1> HIDE DEF T
<1>9. at[n] = s[1]
  <2>1. n \in 1 .. size /\ n - 1 \in 0 .. n - 1 /\ (n - 1) + 1 = n /\ n \in 1 .. n
    BY <1>1
  <2>2. at[n] = p[s[n]]
    BY <1>7, <1>8, <2>1
  <2> QED
    BY <1>1, <2>1, <2>2 DEF After
<1> DEFINE back == {k \in 1 .. size : at[k] = s[1]}
<1>10. Circle(p, s[1]) = [i \in 1 .. Min(back \cup {size}) |-> at[i - 1]]
  BY DEF Circle, Around, at, back, size
<1>11. Min(back \cup {size}) = n
  <2>1. n \in back
    BY <1>1, <1>9
  <2>2. \A k \in back : k >= n
    <3>1. ASSUME NEW k \in 1 .. size, at[k] = s[1], k < n PROVE FALSE
      <4>1. k + 1 \in 1 .. n /\ k \in 0 .. n - 1 /\ k + 1 # 1
        BY <1>1, <3>1
      <4>2. s[k + 1] = s[1]
        BY <1>8, <3>1, <4>1
      <4> QED
        BY <1>1, <1>2, <4>1, <4>2
    <3>2. \A k \in 1 .. size : ~(k < n) => k >= n
      BY <1>1
    <3> QED
      BY <3>1, <3>2
  <2>3. back \cup {size} \in SUBSET Nat /\ back \cup {size} # {}
    BY <1>1
  <2> DEFINE m == Min(back \cup {size})
  <2>4. m \in back \cup {size} /\ \A x \in back \cup {size} : m <= x
    <3> HIDE DEF back, size
    <3> QED
      BY <2>3, MinExists
  <2>5. m <= n /\ m >= n
    BY <1>1, <2>1, <2>2, <2>4
  <2>6. m \in Nat
    BY <2>3, <2>4
  <2> HIDE DEF m
  <2>7. m = n
    BY <2>5, <2>6
  <2> QED
    BY <2>7 DEF m
<1>12. Circle(p, s[1]) = [i \in 1 .. n |-> at[i - 1]]
  <2> HIDE DEF back
  <2> QED
    BY <1>10, <1>11
<1>13. \A i \in 1 .. n : at[i - 1] = s[i]
  <2> TAKE i \in 1 .. n
  <2>1. i - 1 \in 0 .. n - 1 /\ (i - 1) + 1 = i
    OBVIOUS
  <2> QED
    BY <1>8, <2>1
<1> QED
  BY <1>1, <1>12, <1>13

(* Places in a ring: what is before place k, and where an entry is when    *)
(* that of place k has gone or an entry has come in at place k.            *)
Before(k, n)  == IF k = 1 THEN n ELSE k - 1
Skip(k, i)    == IF i < k THEN i ELSE i + 1
Unskip(k, i)  == IF i < k THEN i ELSE i - 1
At(k, n)      == IF k > n THEN 1 ELSE k

(* The place after and the place before on a ring undo each other.         *)
LEMMA AfterFacts ==
  ASSUME NEW n \in Nat, NEW i \in 1 .. n
  PROVE  /\ After(i, n) \in 1 .. n /\ Before(i, n) \in 1 .. n
         /\ After(Before(i, n), n) = i /\ Before(After(i, n), n) = i
         /\ \A j \in 1 .. n : After(i, n) = After(j, n) => i = j
BY DEF After, Before

(* The place after, on a ring that has lost its place k.                   *)
LEMMA AfterSkip ==
  ASSUME NEW n \in Nat, n > 1, NEW k \in 1 .. n, NEW i \in 1 .. n - 1
  PROVE  /\ Skip(k, i) \in 1 .. n /\ Skip(k, i) # k
         /\ Skip(k, After(i, n - 1)) =
              IF Skip(k, i) = Before(k, n) THEN After(k, n) ELSE After(Skip(k, i), n)
         /\ \A j \in 1 .. n - 1 : Skip(k, i) = Skip(k, j) => i = j
BY DEF After, Before, Skip

(* Where entry i, at j before, and the one after it, a, are beside place k. *)
Unskips(n, k, i, a, j, c) ==
  /\ i # k => j \in 1 .. n
  /\ i # k /\ a # k => Unskip(k, a) = After(j, n) /\ j # Before(c, n)
  /\ a = k => i # k /\ j = Before(c, n)
  /\ i = k => a # k /\ Unskip(k, a) = c

(* The place after, on a ring that has got a new place k.                  *)
LEMMA AfterUnskip ==
  ASSUME NEW n \in Nat, n > 0, NEW k \in 1 .. n + 1, NEW i \in 1 .. n + 1
  PROVE  /\ i # k => Unskip(k, i) \in 1 .. n
         /\ i # k /\ After(i, n + 1) # k =>
              /\ Unskip(k, After(i, n + 1)) = After(Unskip(k, i), n)
              /\ Unskip(k, i) # Before(At(k, n), n)
         /\ After(i, n + 1) = k => i # k /\ Unskip(k, i) = Before(At(k, n), n)
         /\ i = k => After(i, n + 1) # k /\ Unskip(k, After(i, n + 1)) = At(k, n)
         /\ At(k, n) \in 1 .. n
         /\ \A j \in 1 .. n + 1 : i # k /\ j # k /\ Unskip(k, i) = Unskip(k, j) => i = j
BY DEF After, Before, Unskip, At

(* The same, with names for the places.                                    *)
LEMMA UnskipsAll ==
  ASSUME NEW n \in Nat, n > 0, NEW k \in 1 .. n + 1, NEW i \in 1 .. n + 1,
         NEW a, a = After(i, n + 1), NEW j, j = Unskip(k, i), NEW c, c = At(k, n)
  PROVE  Unskips(n, k, i, a, j, c)
BY DEF After, Before, Unskip, At, Unskips

(* The entry at place k leaves: the two beside it are linked.              *)
LEMMA RingWithout ==
  ASSUME NEW S, NEW s \in Seq(S), NEW n \in Nat, n = Len(s), n > 1, NEW k \in 1 .. n,
         NEW p, NEW q, IsRing(p, q, s), NEW p2, NEW q2,
         \A e \in S : e # s[k] /\ e # q[s[k]] => p2[e] = p[e],
         \A e \in S : e # s[k] /\ e # p[s[k]] => q2[e] = q[e],
         p2[q[s[k]]] = p[s[k]], q2[p[s[k]]] = q[s[k]]
  PROVE  IsRing(p2, q2, RemoveAt(s, k))
<1> DEFINE u == RemoveAt(s, k)
<1>1. /\ \A i \in 1 .. n : s[i] \in S /\ p[s[i]] = s[After(i, n)] /\ q[s[After(i, n)]] = s[i]
      /\ \A i, j \in 1 .. n : s[i] = s[j] => i = j
  BY LenProperties DEF IsRing, Distinct
<1>2. Len(u) = n - 1 /\ \A i \in 1 .. n - 1 : u[i] = s[Skip(k, i)]
  BY RemoveAtFacts DEF Skip
<1>3. p[s[k]] = s[After(k, n)] /\ q[s[k]] = s[Before(k, n)] /\ Before(k, n) \in 1 .. n /\ After(k, n) \in 1 .. n
  BY <1>1, AfterFacts, ZenonT(30)
<1> HIDE DEF u
<1>4. ASSUME NEW i \in 1 .. n - 1
      PROVE  p2[u[i]] = u[After(i, n - 1)] /\ q2[u[After(i, n - 1)]] = u[i]
  <2> DEFINE j == Skip(k, i)
             a == After(i, n - 1)
  <2>1. /\ a \in 1 .. n - 1 /\ j \in 1 .. n /\ j # k
        /\ Skip(k, a) = IF j = Before(k, n) THEN After(k, n) ELSE After(j, n)
    <3>1. n - 1 \in Nat
      OBVIOUS
    <3>2. a \in 1 .. n - 1
      BY <3>1, AfterFacts
    <3> QED
      BY <3>2, AfterSkip
  <2>2. u[i] = s[j] /\ u[a] = s[Skip(k, a)]
    BY <1>2, <2>1
  <2> HIDE DEF j, a
  <2>3. CASE j = Before(k, n)
    BY <1>3, <2>1, <2>2, <2>3 DEF a
  <2>4. CASE j # Before(k, n)
    <3>1. u[a] = s[After(j, n)] /\ After(j, n) \in 1 .. n
      BY <2>1, <2>2, <2>4, AfterFacts
    <3>2. s[j] # s[k] /\ s[j] # s[Before(k, n)] /\ s[j] \in S
      BY <1>1, <1>3, <2>1, <2>4
    <3>3. After(j, n) # k /\ After(j, n) # After(k, n)
      BY <2>1, <2>4, AfterFacts
    <3>4. s[After(j, n)] # s[k] /\ s[After(j, n)] # s[After(k, n)] /\ s[After(j, n)] \in S
      BY <1>1, <1>3, <3>1, <3>3
    <3>5. p2[s[j]] = p[s[j]] /\ q2[s[After(j, n)]] = q[s[After(j, n)]]
      BY <1>3, <3>2, <3>4
    <3>6. p[s[j]] = s[After(j, n)] /\ q[s[After(j, n)]] = s[j]
      BY <1>1, <2>1
    <3> QED
      BY <2>2, <3>1, <3>5, <3>6 DEF a
  <2> QED
    BY <2>3, <2>4
<1>5. ASSUME NEW i \in 1 .. n - 1, NEW j \in 1 .. n - 1, u[i] = u[j] PROVE i = j
  <2>1. Skip(k, i) \in 1 .. n /\ Skip(k, j) \in 1 .. n
    BY AfterSkip
  <2>2. Skip(k, i) = Skip(k, j)
    BY <1>1, <1>2, <1>5, <2>1, SMTT(30)
  <2> QED
    BY <2>2, AfterSkip
<1> QED
  BY <1>2, <1>4, <1>5 DEF IsRing, Distinct, u

(* x comes in at place k: it is linked before the entry that was there, or *)
(* before the first if it is to be the last.                               *)
LEMMA RingWith ==
  ASSUME NEW S, NEW s \in Seq(S), NEW n \in Nat, n = Len(s), n > 0, NEW k \in 1 .. n + 1,
         NEW x \in S, \A i \in 1 .. n : s[i] # x,
         NEW m, m = s[At(k, n)],
         NEW p, NEW q, IsRing(p, q, s), NEW p2, NEW q2,
         \A e \in S : e # x /\ e # q[m] => p2[e] = p[e],
         \A e \in S : e # x /\ e # m => q2[e] = q[e],
         p2[x] = m, q2[x] = q[m], p2[q[m]] = x, q2[m] = x
  PROVE  IsRing(p2, q2, InsertAt(s, k, x))
<1> DEFINE u == InsertAt(s, k, x)
           c == At(k, n)
<1>1. /\ \A i \in 1 .. n : s[i] \in S /\ p[s[i]] = s[After(i, n)] /\ q[s[After(i, n)]] = s[i]
      /\ \A i, j \in 1 .. n : s[i] = s[j] => i = j
  BY LenProperties DEF IsRing, Distinct
<1>2. Widened(s, u, k, x)
  BY InsertAtFacts
<1>3. Len(u) = n + 1 /\ \A i \in 1 .. n + 1 : u[i] = IF i = k THEN x ELSE s[Unskip(k, i)]
  BY <1>2 DEF Widened, Unskip
<1>4. c \in 1 .. n /\ Before(c, n) \in 1 .. n /\ m = s[c] /\ q[m] = s[Before(c, n)]
  <2>1. c \in 1 .. n
    BY DEF At
  <2>2. Before(c, n) \in 1 .. n /\ After(Before(c, n), n) = c
    BY <2>1, AfterFacts
  <2> HIDE DEF c
  <2>3. q[s[c]] = s[Before(c, n)]
    BY <1>1, <2>2
  <2> QED
    BY <2>1, <2>2, <2>3 DEF c
<1> HIDE DEF u, c
<1>5. ASSUME NEW i \in 1 .. n + 1
      PROVE  p2[u[i]] = u[After(i, n + 1)] /\ q2[u[After(i, n + 1)]] = u[i]
  <2> DEFINE a == After(i, n + 1)
             j == Unskip(k, i)
  <2>0. n + 1 \in Nat
    OBVIOUS
  <2>1. a \in 1 .. n + 1
    BY <2>0, AfterFacts
  <2>2. /\ i # k => j \in 1 .. n
        /\ i # k /\ a # k => Unskip(k, a) = After(j, n) /\ j # Before(c, n)
        /\ a = k => i # k /\ j = Before(c, n)
        /\ i = k => a # k /\ Unskip(k, a) = c
    <3>1. Unskips(n, k, i, a, j, c)
      BY UnskipsAll DEF c
    <3> QED
      BY <3>1 DEF Unskips
  <2>3. u[i] = IF i = k THEN x ELSE s[j]
    BY <1>3
  <2>4. u[a] = IF a = k THEN x ELSE s[Unskip(k, a)]
    BY <1>3, <2>1
  <2> HIDE DEF a, j
  <2>5. CASE i = k
    BY <1>4, <2>2, <2>3, <2>4, <2>5 DEF a
  <2>6. CASE a = k
    BY <1>4, <2>2, <2>3, <2>4, <2>6 DEF a
  <2>7. CASE i # k /\ a # k
    <3>1. j \in 1 .. n /\ u[i] = s[j] /\ u[a] = s[After(j, n)] /\ j # Before(c, n)
      BY <2>2, <2>3, <2>4, <2>7
    <3>2. After(j, n) \in 1 .. n /\ After(j, n) # c
      BY <1>4, <3>1, AfterFacts
    <3>3. s[j] # x /\ s[j] # q[m] /\ s[j] \in S /\ s[After(j, n)] # x /\ s[After(j, n)] # m /\ s[After(j, n)] \in S
      BY <1>1, <1>4, <3>1, <3>2
    <3>4. p2[s[j]] = p[s[j]] /\ q2[s[After(j, n)]] = q[s[After(j, n)]]
      BY <3>3
    <3>5. p[s[j]] = s[After(j, n)] /\ q[s[After(j, n)]] = s[j]
      BY <1>1, <3>1
    <3> QED
      BY <3>1, <3>4, <3>5 DEF a
  <2> QED
    BY <2>5, <2>6, <2>7
<1>6. ASSUME NEW i \in 1 .. n + 1, NEW j \in 1 .. n + 1, u[i] = u[j] PROVE i = j
  <2>1. (i # k => Unskip(k, i) \in 1 .. n) /\ (j # k => Unskip(k, j) \in 1 .. n)
    BY AfterUnskip
  <2>2. (i = k <=> j = k) /\ (i # k => Unskip(k, i) = Unskip(k, j))
    BY <1>1, <1>3, <1>6, <2>1
  <2>3. CASE i = k
    BY <2>2, <2>3
  <2>4. CASE i # k
    BY <2>2, <2>4, AfterUnskip
  <2> QED
    BY <2>3, <2>4
<1> QED
  BY <1>3, <1>5, <1>6 DEF IsRing, Distinct, u

(* One entry is a ring, and a ring stays one while its links do.           *)
LEMMA RingAlone ==
  ASSUME NEW x, NEW p, NEW q, p[x] = x, q[x] = x
  PROVE  IsRing(p, q, <<x>>)
BY DEF IsRing, Distinct, After

(* A ring whose pointers stay is a ring still.                             *)
LEMMA RingKept ==
  ASSUME NEW S, NEW s \in Seq(S), NEW p, NEW q, IsRing(p, q, s), NEW p2, NEW q2,
         \A i \in 1 .. Len(s) : p2[s[i]] = p[s[i]] /\ q2[s[i]] = q[s[i]]
  PROVE  IsRing(p2, q2, s)
<1>1. Len(s) \in Nat
  OBVIOUS
<1>2. \A i \in 1 .. Len(s) : After(i, Len(s)) \in 1 .. Len(s)
  BY <1>1, AfterFacts
<1> QED
  BY <1>2 DEF IsRing

-----------------------------------------------------------------------------
(* The pointers, and what they hold: the sequence L of the nodes and, for  *)
(* each node, the sequence of its gates.                                   *)
Heaps == [ gateList : NODE \cup {NULL}, nodeFreeList : NODE \cup {NULL},
           next : [NODE -> NODE \cup {NULL}], prev : [NODE -> NODE \cup {NULL}],
           timeIndex : [NODE -> Within], gate : [NODE -> GATE \cup {NULL}],
           GATE_NEXT : [GATE -> GATE \cup {NULL}], GATE_PREV : [GATE -> GATE \cup {NULL}],
           GATE_TIMEQ : [GATE -> NODE \cup {NULL}], allocated : SUBSET NODE ]
IsHeap(v) ==
  v \in [gateList : {v.gateList}, nodeFreeList : {v.nodeFreeList}, next : {v.next},
         prev : {v.prev}, timeIndex : {v.timeIndex}, gate : {v.gate},
         GATE_NEXT : {v.GATE_NEXT}, GATE_PREV : {v.GATE_PREV},
         GATE_TIMEQ : {v.GATE_TIMEQ}, allocated : {v.allocated}]

OnList(L, n)    == \E l \in 1 .. Len(L) : L[l] = n
OnRing(R, n, g) == \E x \in 1 .. Len(R[n]) : R[n][x] = g

NodesLinked(h, L) ==
  /\ h.gateList = IF Len(L) = 0 THEN NULL ELSE L[1]
  /\ IsRing(h.next, h.prev, L)
  /\ \A l \in 1 .. Len(L) : L[l] \in h.allocated
InOrder(h, L) ==
  \A i, j \in 1 .. Len(L) : i < j => Value(h.timeIndex[L[i]]) < Value(h.timeIndex[L[j]])
OneFree(h, L) ==
  h.nodeFreeList # NULL => /\ Len(L) = 0 /\ h.nodeFreeList \in h.allocated
                           /\ h.next[h.nodeFreeList] = NULL
RingAt(h, L, R, n) ==
  /\ OnList(L, n) <=> Len(R[n]) # 0
  /\ h.gate[n] = IF Len(R[n]) = 0 THEN NULL ELSE R[n][1]
  /\ IsRing(h.GATE_NEXT, h.GATE_PREV, R[n])
  /\ \A g \in GATE : h.GATE_TIMEQ[g] = n <=> OnRing(R, n, g)
GatesLinked(h, L, R) == \A n \in NODE : RingAt(h, L, R, n)

Holds(h, L, R) ==
  /\ L \in Seq(NODE) /\ R \in [NODE -> Seq(GATE)]
  /\ NodesLinked(h, L) /\ InOrder(h, L) /\ OneFree(h, L) /\ GatesLinked(h, L, R)

-----------------------------------------------------------------------------
Takes(h, v, g, t, n) ==
  /\ v.gateList = h.gateList /\ v.next = h.next /\ v.prev = h.prev
  /\ v.nodeFreeList = IF h.nodeFreeList = NULL THEN NULL ELSE h.next[n]
  /\ v.allocated = h.allocated \cup {n}
  /\ v.gate = [h.gate EXCEPT ![n] = g] /\ v.timeIndex = [h.timeIndex EXCEPT ![n] = t]
  /\ v.GATE_NEXT = [h.GATE_NEXT EXCEPT ![g] = g]
  /\ v.GATE_PREV = [h.GATE_PREV EXCEPT ![g] = g]
  /\ v.GATE_TIMEQ = [h.GATE_TIMEQ EXCEPT ![g] = n]
  /\ IsHeap(v)

(* The fields after a node is taken for a gate.                            *)
LEMMA TakeNodeFields ==
  ASSUME NEW h \in Heaps, NEW g, NEW t, NEW n, n = NewNode(h),
         NEW v, v = TakeNode(h, g, t)
  PROVE  Takes(h, v, g, t, n)
BY DEF TakeNode, Heaps, IsHeap, Takes

LeavesRing(h, v, g, n) ==
  /\ v.gateList = h.gateList /\ v.next = h.next /\ v.prev = h.prev
  /\ v.nodeFreeList = h.nodeFreeList
  /\ v.allocated = h.allocated
  /\ v.gate = [h.gate EXCEPT ![n] = IF @ = g THEN h.GATE_NEXT[g] ELSE @]
  /\ v.timeIndex = h.timeIndex
  /\ v.GATE_NEXT = [[h.GATE_NEXT EXCEPT ![h.GATE_PREV[g]] = h.GATE_NEXT[g]] EXCEPT ![g] = NULL]
  /\ v.GATE_PREV = [[h.GATE_PREV EXCEPT ![h.GATE_NEXT[g]] = h.GATE_PREV[g]] EXCEPT ![g] = NULL]
  /\ v.GATE_TIMEQ = [h.GATE_TIMEQ EXCEPT ![g] = NULL]
  /\ IsHeap(v)

(* The fields after a gate has left a ring with others.                    *)
LEMMA LeaveRingFields ==
  ASSUME NEW h \in Heaps, NEW g, NEW n,
         NEW v, v = UnsetGate(LeaveRing(h, g, n), g)
  PROVE  LeavesRing(h, v, g, n)
BY DEF UnsetGate, LeaveRing, Heaps, IsHeap, LeavesRing

LeavesList(h, v, g, n) ==
  /\ v.gateList = (IF h.gateList = n THEN h.next[n] ELSE h.gateList)
  /\ v.next = [[h.next EXCEPT ![h.prev[n]] = h.next[n]] EXCEPT ![n] = NULL]
  /\ v.prev = [[h.prev EXCEPT ![h.next[n]] = h.prev[n]] EXCEPT ![n] = NULL]
  /\ v.nodeFreeList = h.nodeFreeList
  /\ v.allocated = h.allocated
  /\ v.gate = [h.gate EXCEPT ![n] = NULL]
  /\ v.timeIndex = [h.timeIndex EXCEPT ![n] = Zero]
  /\ v.GATE_NEXT = [h.GATE_NEXT EXCEPT ![g] = NULL]
  /\ v.GATE_PREV = [h.GATE_PREV EXCEPT ![g] = NULL]
  /\ v.GATE_TIMEQ = [h.GATE_TIMEQ EXCEPT ![g] = NULL]
  /\ IsHeap(v)

(* The fields after the node of a gate has left the list.                  *)
LEMMA LeaveListFields ==
  ASSUME NEW h \in Heaps, NEW g, NEW n,
         NEW v, v = UnsetGate(UnsetNode(LeaveList(h, n), n), g)
  PROVE  LeavesList(h, v, g, n)
BY ZenonT(30) DEF UnsetGate, UnsetNode, LeaveList, Heaps, IsHeap, LeavesList

LeavesLast(h, v, g, n) ==
  /\ v.gateList = NULL
  /\ v.next = [[h.next EXCEPT ![n] = NULL] EXCEPT ![n] = h.nodeFreeList]
  /\ v.prev = [h.prev EXCEPT ![n] = NULL]
  /\ v.nodeFreeList = n
  /\ v.allocated = h.allocated
  /\ v.gate = [h.gate EXCEPT ![n] = NULL]
  /\ v.timeIndex = [h.timeIndex EXCEPT ![n] = Zero]
  /\ v.GATE_NEXT = [h.GATE_NEXT EXCEPT ![g] = NULL]
  /\ v.GATE_PREV = [h.GATE_PREV EXCEPT ![g] = NULL]
  /\ v.GATE_TIMEQ = [h.GATE_TIMEQ EXCEPT ![g] = NULL]
  /\ IsHeap(v)

(* The fields after the last gate has left.                                *)
LEMMA LeaveLastFields ==
  ASSUME NEW h \in Heaps, NEW g, NEW n,
         NEW v, v = UnsetGate([UnsetNode(h, n) EXCEPT !.gateList = NULL, !.next[n] = h.nodeFreeList, !.nodeFreeList = n], g)
  PROVE  LeavesLast(h, v, g, n)
BY DEF UnsetGate, UnsetNode, Heaps, IsHeap, LeavesLast

JoinsRing(h, v, g, n, first) ==
  /\ v.gateList = h.gateList /\ v.next = h.next /\ v.prev = h.prev
  /\ v.nodeFreeList = h.nodeFreeList
  /\ v.allocated = h.allocated
  /\ v.gate = h.gate /\ v.timeIndex = h.timeIndex
  /\ v.GATE_NEXT = [[h.GATE_NEXT EXCEPT ![g] = first] EXCEPT ![h.GATE_PREV[first]] = g]
  /\ v.GATE_PREV = [[h.GATE_PREV EXCEPT ![g] = h.GATE_PREV[first]] EXCEPT ![first] = g]
  /\ v.GATE_TIMEQ = [h.GATE_TIMEQ EXCEPT ![g] = n]
  /\ IsHeap(v)

(* The fields after a gate has joined a ring.                              *)
LEMMA JoinRingFields ==
  ASSUME NEW h \in Heaps, NEW g, NEW n, NEW first, first = h.gate[n],
         NEW v, v = JoinRing(h, g, n)
  PROVE  JoinsRing(h, v, g, n, first)
BY DEF JoinRing, Heaps, IsHeap, JoinsRing

IsLinked(h, v, n, m) ==
  /\ v.gateList = h.gateList
  /\ v.next = [[h.next EXCEPT ![n] = m] EXCEPT ![h.prev[m]] = n]
  /\ v.prev = [[h.prev EXCEPT ![n] = h.prev[m]] EXCEPT ![m] = n]
  /\ v.nodeFreeList = h.nodeFreeList
  /\ v.allocated = h.allocated
  /\ v.gate = h.gate /\ v.timeIndex = h.timeIndex
  /\ v.GATE_NEXT = h.GATE_NEXT /\ v.GATE_PREV = h.GATE_PREV
  /\ v.GATE_TIMEQ = h.GATE_TIMEQ
  /\ IsHeap(v)

(* The fields after a node is linked before another.                       *)
LEMMA LinkBeforeFields ==
  ASSUME NEW h, IsHeap(h), NEW n, NEW m,
         NEW v, v = LinkBefore(h, n, m)
  PROVE  IsLinked(h, v, n, m)
BY DEF LinkBefore, IsHeap, IsLinked

-----------------------------------------------------------------------------
(* The types of the fields.                                                *)
LEMMA HeapTypes ==
  ASSUME NEW h \in Heaps
  PROVE  /\ h.gateList \in NODE \cup {NULL} /\ h.nodeFreeList \in NODE \cup {NULL}
         /\ h.next \in [NODE -> NODE \cup {NULL}] /\ h.prev \in [NODE -> NODE \cup {NULL}]
         /\ h.timeIndex \in [NODE -> Within] /\ h.gate \in [NODE -> GATE \cup {NULL}]
         /\ h.GATE_NEXT \in [GATE -> GATE \cup {NULL}] /\ h.GATE_PREV \in [GATE -> GATE \cup {NULL}]
         /\ h.GATE_TIMEQ \in [GATE -> NODE \cup {NULL}] /\ h.allocated \subseteq NODE
BY DEF Heaps

(* Time zero is a time.                                                    *)
LEMMA ZeroWithin == Zero \in Within /\ Value(Zero) = 0
<1>1. 0 \in Word /\ W \in Nat /\ W > 1 /\ MaxTime \in Nat
  <2>1. W * W \in Nat /\ W \in Nat /\ W > 1
    BY WordAssumption
  <2> QED
    BY <2>1, QueueAssumption DEF Word
<1>2. Zero \in Time64 /\ Value(Zero) = 0
  BY <1>1 DEF Zero, Time64, Value
<1> QED
  BY <1>1, <1>2 DEF Within

(* What holds of the sequences, one entry at a time.                       *)
LEMMA ListFacts ==
  ASSUME NEW h, NEW L, NEW R, Holds(h, L, R)
  PROVE  /\ L \in Seq(NODE) /\ Len(L) \in Nat /\ Distinct(L)
         /\ \A l \in 1 .. Len(L) :
              /\ L[l] \in NODE /\ L[l] \in h.allocated
              /\ h.next[L[l]] = L[After(l, Len(L))] /\ h.prev[L[l]] = L[Before(l, Len(L))]
              /\ After(l, Len(L)) \in 1 .. Len(L) /\ Before(l, Len(L)) \in 1 .. Len(L)
<1>1. L \in Seq(NODE) /\ IsRing(h.next, h.prev, L) /\ \A l \in 1 .. Len(L) : L[l] \in h.allocated
  BY DEF Holds, NodesLinked
<1>2. Len(L) \in Nat /\ \A l \in 1 .. Len(L) : L[l] \in NODE
  BY <1>1, LenProperties
<1>3. \A l \in 1 .. Len(L) : /\ After(l, Len(L)) \in 1 .. Len(L) /\ Before(l, Len(L)) \in 1 .. Len(L)
                             /\ After(Before(l, Len(L)), Len(L)) = l
  BY <1>2, AfterFacts
<1> QED
  BY <1>1, <1>2, <1>3 DEF IsRing

(* What a ring says of its gates and their pointers.                       *)
LEMMA RingFacts ==
  ASSUME NEW h, NEW L, NEW R, Holds(h, L, R), NEW n \in NODE
  PROVE  /\ R[n] \in Seq(GATE) /\ Len(R[n]) \in Nat /\ Distinct(R[n])
         /\ \A x \in 1 .. Len(R[n]) :
              /\ R[n][x] \in GATE /\ h.GATE_TIMEQ[R[n][x]] = n
              /\ h.GATE_NEXT[R[n][x]] = R[n][After(x, Len(R[n]))]
              /\ h.GATE_PREV[R[n][x]] = R[n][Before(x, Len(R[n]))]
              /\ After(x, Len(R[n])) \in 1 .. Len(R[n]) /\ Before(x, Len(R[n])) \in 1 .. Len(R[n])
<1>1. R[n] \in Seq(GATE) /\ RingAt(h, L, R, n)
  BY DEF Holds, GatesLinked
<1>2. Len(R[n]) \in Nat /\ \A x \in 1 .. Len(R[n]) : R[n][x] \in GATE
  BY <1>1, LenProperties
<1>3. \A x \in 1 .. Len(R[n]) : /\ After(x, Len(R[n])) \in 1 .. Len(R[n])
                                /\ Before(x, Len(R[n])) \in 1 .. Len(R[n])
                                /\ After(Before(x, Len(R[n])), Len(R[n])) = x
  BY <1>2, AfterFacts
<1>4. \A x \in 1 .. Len(R[n]) : h.GATE_TIMEQ[R[n][x]] = n
  BY <1>1, <1>2 DEF RingAt, OnRing
<1>5. IsRing(h.GATE_NEXT, h.GATE_PREV, R[n])
  BY <1>1 DEF RingAt
<1> QED
  BY <1>1, <1>2, <1>3, <1>4, <1>5 DEF IsRing

(* What the list says of the node at a place.                              *)
LEMMA EntryOfList ==
  ASSUME NEW h, NEW L, NEW R, Holds(h, L, R), NEW l \in 1 .. Len(L), NEW n, n = L[l], NEW len, len = Len(L)
  PROVE  /\ n \in NODE /\ n \in h.allocated /\ len \in Nat /\ len >= 1
         /\ After(l, len) \in 1 .. len /\ h.next[n] = L[After(l, len)]
         /\ Before(l, len) \in 1 .. len /\ h.prev[n] = L[Before(l, len)]
         /\ \A k \in 1 .. len : L[k] = n => k = l
<1>1. /\ Len(L) \in Nat /\ Distinct(L)
      /\ \A i \in 1 .. Len(L) :
           /\ L[i] \in NODE /\ L[i] \in h.allocated
           /\ h.next[L[i]] = L[After(i, Len(L))] /\ h.prev[L[i]] = L[Before(i, Len(L))]
           /\ After(i, Len(L)) \in 1 .. Len(L) /\ Before(i, Len(L)) \in 1 .. Len(L)
  BY ListFacts
<1>2. \A k \in 1 .. len : L[k] = n => k = l
  BY <1>1 DEF Distinct
<1> QED
  BY <1>1, <1>2

(* What a ring says of the gate at a place.                                *)
LEMMA EntryOfRing ==
  ASSUME NEW h, NEW L, NEW R, Holds(h, L, R), NEW n \in NODE, NEW x \in 1 .. Len(R[n]), NEW g, g = R[n][x],
         NEW len, len = Len(R[n])
  PROVE  /\ g \in GATE /\ h.GATE_TIMEQ[g] = n /\ len \in Nat /\ len >= 1
         /\ After(x, len) \in 1 .. len /\ h.GATE_NEXT[g] = R[n][After(x, len)]
         /\ Before(x, len) \in 1 .. len /\ h.GATE_PREV[g] = R[n][Before(x, len)]
         /\ \A k \in 1 .. len : R[n][k] = g => k = x
<1>1. /\ Len(R[n]) \in Nat /\ Distinct(R[n])
      /\ \A i \in 1 .. Len(R[n]) :
           /\ R[n][i] \in GATE /\ h.GATE_TIMEQ[R[n][i]] = n
           /\ h.GATE_NEXT[R[n][i]] = R[n][After(i, Len(R[n]))]
           /\ h.GATE_PREV[R[n][i]] = R[n][Before(i, Len(R[n]))]
           /\ After(i, Len(R[n])) \in 1 .. Len(R[n]) /\ Before(i, Len(R[n])) \in 1 .. Len(R[n])
  BY RingFacts
<1>2. \A k \in 1 .. len : R[n][k] = g => k = x
  BY <1>1 DEF Distinct
<1> QED
  BY <1>1, <1>2

(* The ring of one node changes, in which g comes or goes.                 *)
LEMMA OneRingChanges ==
  ASSUME NEW h \in Heaps, NEW L, NEW R, Holds(h, L, R), NEW n \in NODE, NEW g \in GATE,
         NEW v \in Heaps, NEW L2, NEW R2,
         \A m \in NODE : m # n => R2[m] = R[m] /\ v.gate[m] = h.gate[m] /\ (OnList(L2, m) <=> OnList(L, m)),
         h.GATE_TIMEQ[g] \in {NULL, n}, v.GATE_TIMEQ[g] \in {NULL, n},
         \A u \in GATE : u # g => v.GATE_TIMEQ[u] = h.GATE_TIMEQ[u],
         \A u \in GATE : u # g /\ h.GATE_TIMEQ[u] # n =>
            v.GATE_NEXT[u] = h.GATE_NEXT[u] /\ v.GATE_PREV[u] = h.GATE_PREV[u],
         RingAt(v, L2, R2, n)
  PROVE  GatesLinked(v, L2, R2)
<1> SUFFICES ASSUME NEW m \in NODE, m # n PROVE RingAt(v, L2, R2, m)
  BY DEF GatesLinked
<1>1. RingAt(h, L, R, m) /\ R2[m] = R[m] /\ v.gate[m] = h.gate[m] /\ (OnList(L2, m) <=> OnList(L, m))
  BY DEF Holds, GatesLinked
<1>2. m # NULL
  BY QueueAssumption
<1>3. \A x \in 1 .. Len(R[m]) : R[m][x] \in GATE /\ h.GATE_TIMEQ[R[m][x]] = m /\ R[m][x] # g
  <2>1. \A x \in 1 .. Len(R[m]) : R[m][x] \in GATE /\ h.GATE_TIMEQ[R[m][x]] = m
    BY RingFacts
  <2>2. h.GATE_TIMEQ[g] # m
    BY <1>2
  <2> QED
    BY <2>1, <2>2
<1>4. \A x \in 1 .. Len(R[m]) : /\ v.GATE_NEXT[R[m][x]] = h.GATE_NEXT[R[m][x]]
                                /\ v.GATE_PREV[R[m][x]] = h.GATE_PREV[R[m][x]]
  BY <1>3
<1>5. IsRing(v.GATE_NEXT, v.GATE_PREV, R[m])
  <2>1. R[m] \in Seq(GATE) /\ IsRing(h.GATE_NEXT, h.GATE_PREV, R[m])
    BY <1>1, RingFacts DEF RingAt
  <2> QED
    BY <1>4, <2>1, RingKept
<1>6. ASSUME NEW u \in GATE PROVE v.GATE_TIMEQ[u] = m <=> OnRing(R2, m, u)
  <2>1. h.GATE_TIMEQ[u] = m <=> OnRing(R, m, u)
    BY <1>1 DEF RingAt
  <2>2. OnRing(R2, m, u) <=> OnRing(R, m, u)
    BY <1>1 DEF OnRing
  <2>3. u = g => v.GATE_TIMEQ[u] # m /\ h.GATE_TIMEQ[u] # m
    BY <1>2
  <2> QED
    BY <2>1, <2>2, <2>3
<1> QED
  BY <1>1, <1>5, <1>6 DEF RingAt

-----------------------------------------------------------------------------
(* RemoveGate takes g from its ring.                                       *)
Dropped(R, R2, n, x) == R2 = [R EXCEPT ![n] = RemoveAt(R[n], x)]
Left(h, v, R, R2, g) ==
  \E n \in NODE : \E x \in 1 .. Len(R[n]) :
    /\ R[n][x] = g
    /\ Dropped(R, R2, n, x)
    /\ v.GATE_TIMEQ = [h.GATE_TIMEQ EXCEPT ![g] = NULL]
    /\ \A m \in NODE : Len(R2[m]) # 0 => v.timeIndex[m] = h.timeIndex[m]

(* A gate that is scheduled is on the ring of its node, which is listed.   *)
LEMMA WhereGateIs ==
  ASSUME NEW h \in Heaps, NEW L, NEW R, Holds(h, L, R), NEW g \in GATE, h.GATE_TIMEQ[g] # NULL,
         NEW n, n = h.GATE_TIMEQ[g]
  PROVE  /\ n \in NODE
         /\ \E x \in 1 .. Len(R[n]) : R[n][x] = g
         /\ \E l \in 1 .. Len(L) : L[l] = n
<1>1. n \in NODE
  BY HeapTypes
<1>2. RingAt(h, L, R, n)
  BY <1>1 DEF Holds, GatesLinked
<1>3. \E x \in 1 .. Len(R[n]) : R[n][x] = g
  BY <1>2 DEF RingAt, OnRing
<1>4. Len(R[n]) # 0
  BY <1>1, <1>3, RingFacts
<1> QED
  BY <1>1, <1>2, <1>3, <1>4 DEF RingAt, OnList

(* A gate leaves a ring with others: list and rings stay closed.           *)
LEMMA LeaveRingHolds ==
  ASSUME NEW h \in Heaps, NEW L, NEW R, Holds(h, L, R), NEW g \in GATE, NEW n \in NODE,
         NEW x \in 1 .. Len(R[n]), R[n][x] = g, Len(R[n]) > 1,
         NEW v, v = UnsetGate(LeaveRing(h, g, n), g)
  PROVE  LET R2 == [R EXCEPT ![n] = RemoveAt(R[n], x)]
         IN v \in Heaps /\ Holds(v, L, R2) /\ Left(h, v, R, R2, g)
<1> DEFINE R2 == [R EXCEPT ![n] = RemoveAt(R[n], x)]
           len == Len(R[n])
           a == R[n][After(x, len)]
           b == R[n][Before(x, len)]
<1>1. /\ R[n] \in Seq(GATE) /\ len \in Nat /\ Distinct(R[n])
      /\ After(x, len) \in 1 .. len /\ Before(x, len) \in 1 .. len
      /\ h.GATE_TIMEQ[g] = n /\ h.GATE_NEXT[g] = a /\ h.GATE_PREV[g] = b
      /\ a \in GATE /\ b \in GATE /\ h.GATE_TIMEQ[a] = n /\ h.GATE_TIMEQ[b] = n
  <2>1. /\ R[n] \in Seq(GATE) /\ len \in Nat /\ Distinct(R[n])
        /\ \A i \in 1 .. len :
              /\ R[n][i] \in GATE /\ h.GATE_TIMEQ[R[n][i]] = n
              /\ h.GATE_NEXT[R[n][i]] = R[n][After(i, len)]
              /\ h.GATE_PREV[R[n][i]] = R[n][Before(i, len)]
              /\ After(i, len) \in 1 .. len /\ Before(i, len) \in 1 .. len
    BY RingFacts
  <2> HIDE DEF len
  <2> QED
    BY <2>1 DEF len
<1>2. a # g /\ b # g
  <2>1. After(x, len) # x /\ Before(x, len) # x
    BY <1>1 DEF After, Before
  <2> QED
    BY <1>1, <2>1 DEF Distinct
<1>3. /\ v.gateList = h.gateList /\ v.next = h.next /\ v.prev = h.prev
      /\ v.nodeFreeList = h.nodeFreeList /\ v.allocated = h.allocated
      /\ v.gate = [h.gate EXCEPT ![n] = IF @ = g THEN a ELSE @]
      /\ v.timeIndex = h.timeIndex
      /\ v.GATE_NEXT = [[h.GATE_NEXT EXCEPT ![b] = a] EXCEPT ![g] = NULL]
      /\ v.GATE_PREV = [[h.GATE_PREV EXCEPT ![a] = b] EXCEPT ![g] = NULL]
      /\ v.GATE_TIMEQ = [h.GATE_TIMEQ EXCEPT ![g] = NULL]
      /\ IsHeap(v)
  <2>0. LeavesRing(h, v, g, n)
    BY LeaveRingFields
  <2> HIDE DEF a, b
  <2>1. /\ v.gate = [h.gate EXCEPT ![n] = IF @ = g THEN h.GATE_NEXT[g] ELSE @]
        /\ v.GATE_NEXT = [[h.GATE_NEXT EXCEPT ![h.GATE_PREV[g]] = h.GATE_NEXT[g]] EXCEPT ![g] = NULL]
        /\ v.GATE_PREV = [[h.GATE_PREV EXCEPT ![h.GATE_NEXT[g]] = h.GATE_PREV[g]] EXCEPT ![g] = NULL]
    BY <2>0 DEF LeavesRing
  <2>2. /\ v.gateList = h.gateList /\ v.next = h.next /\ v.prev = h.prev
        /\ v.nodeFreeList = h.nodeFreeList /\ v.allocated = h.allocated
        /\ v.timeIndex = h.timeIndex
        /\ v.GATE_TIMEQ = [h.GATE_TIMEQ EXCEPT ![g] = NULL]
        /\ IsHeap(v)
    BY <2>0 DEF LeavesRing
  <2> QED
    BY <1>1, <2>1, <2>2
<1> HIDE DEF a, b
<1>4. v \in Heaps
  <2>1. /\ v.gate \in [NODE -> GATE \cup {NULL}]
        /\ v.GATE_NEXT \in [GATE -> GATE \cup {NULL}] /\ v.GATE_PREV \in [GATE -> GATE \cup {NULL}]
        /\ v.GATE_TIMEQ \in [GATE -> NODE \cup {NULL}]
    <3>1. h.gate \in [NODE -> GATE \cup {NULL}]
      BY HeapTypes
    <3>2. v.gate \in [NODE -> GATE \cup {NULL}]
      BY <1>1, <1>3, <3>1
    <3>3. h.GATE_NEXT \in [GATE -> GATE \cup {NULL}] /\ h.GATE_PREV \in [GATE -> GATE \cup {NULL}]
      BY HeapTypes
    <3>7. /\ v.GATE_NEXT = [[h.GATE_NEXT EXCEPT ![b] = a] EXCEPT ![g] = NULL]
          /\ v.GATE_PREV = [[h.GATE_PREV EXCEPT ![a] = b] EXCEPT ![g] = NULL]
          /\ a \in GATE /\ b \in GATE
      BY <1>1, <1>3
    <3>4. v.GATE_NEXT \in [GATE -> GATE \cup {NULL}]
      BY <3>3, <3>7
    <3>5. v.GATE_PREV \in [GATE -> GATE \cup {NULL}]
      BY <3>3, <3>7
    <3>6. v.GATE_TIMEQ \in [GATE -> NODE \cup {NULL}]
      BY <1>3, HeapTypes
    <3> QED
      BY <3>2, <3>4, <3>5, <3>6
  <2> QED
    BY <1>3, <2>1, HeapTypes DEF IsHeap, Heaps
<1>5. /\ RemoveAt(R[n], x) \in Seq(GATE) /\ Len(RemoveAt(R[n], x)) = len - 1
      /\ \A i \in 1 .. len - 1 : RemoveAt(R[n], x)[i] = R[n][Skip(x, i)]
  BY <1>1, RemoveAtFacts DEF Skip
<1>6. R2 \in [NODE -> Seq(GATE)] /\ R2[n] = RemoveAt(R[n], x) /\ \A m \in NODE : m # n => R2[m] = R[m]
  BY <1>5 DEF Holds
<1> HIDE DEF R2
<1>7. RingAt(v, L, R2, n)
  <2>1. RingAt(h, L, R, n)
    BY DEF Holds, GatesLinked
  <2>2. OnList(L, n) <=> Len(R2[n]) # 0
    BY <1>1, <1>5, <1>6, <2>1 DEF RingAt
  <2>3. v.gate[n] = R2[n][1]
    <3>1. h.gate[n] = R[n][1] /\ v.gate[n] = IF h.gate[n] = g THEN a ELSE h.gate[n]
      BY <1>1, <1>3, <2>1, HeapTypes DEF RingAt
    <3>2. 1 \in 1 .. len /\ (R[n][1] = g <=> x = 1)
      BY <1>1 DEF Distinct
    <3>3. 1 \in 1 .. len - 1
      BY <1>1
    <3>4. R2[n][1] = R[n][Skip(x, 1)]
      BY <1>5, <1>6, <3>3
    <3>5. Skip(x, 1) = IF x = 1 THEN After(x, len) ELSE 1
      BY <1>1 DEF Skip, After
    <3> QED
      BY <3>1, <3>2, <3>4, <3>5 DEF a
  <2>4. IsRing(v.GATE_NEXT, v.GATE_PREV, R2[n])
    <3>1. IsRing(h.GATE_NEXT, h.GATE_PREV, R[n])
      BY <2>1 DEF RingAt
    <3>2. \A e \in GATE : e # g /\ e # b => v.GATE_NEXT[e] = h.GATE_NEXT[e]
      BY <1>3, HeapTypes
    <3>3. \A e \in GATE : e # g /\ e # a => v.GATE_PREV[e] = h.GATE_PREV[e]
      BY <1>3, HeapTypes
    <3>4. v.GATE_NEXT[b] = a /\ v.GATE_PREV[a] = b
      BY <1>1, <1>2, <1>3, HeapTypes
    <3> DEFINE s == R[n]
               p == h.GATE_NEXT
               q == h.GATE_PREV
    <3>5. s \in Seq(GATE) /\ len = Len(s) /\ s[x] = g /\ IsRing(p, q, s) /\ p[s[x]] = a /\ q[s[x]] = b
      BY <1>1, <3>1
    <3>6. R2[n] = RemoveAt(s, x) /\ x \in 1 .. len /\ len \in Nat /\ len > 1
      BY <1>1, <1>6
    <3> HIDE DEF s, p, q, len
    <3>7. /\ \A e \in GATE : e # s[x] /\ e # q[s[x]] => v.GATE_NEXT[e] = p[e]
          /\ \A e \in GATE : e # s[x] /\ e # p[s[x]] => v.GATE_PREV[e] = q[e]
          /\ v.GATE_NEXT[q[s[x]]] = p[s[x]] /\ v.GATE_PREV[p[s[x]]] = q[s[x]]
      BY <3>2, <3>3, <3>4, <3>5 DEF p, q
    <3>8. IsRing(v.GATE_NEXT, v.GATE_PREV, RemoveAt(s, x))
      BY <3>5, <3>6, <3>7, RingWithout
    <3> QED
      BY <3>6, <3>8
  <2>5. ASSUME NEW u \in GATE PROVE v.GATE_TIMEQ[u] = n <=> OnRing(R2, n, u)
    <3>1. v.GATE_TIMEQ[u] = n <=> h.GATE_TIMEQ[u] = n /\ u # g
      BY <1>3, HeapTypes, QueueAssumption
    <3>2. h.GATE_TIMEQ[u] = n <=> \E i \in 1 .. len : R[n][i] = u
      BY <2>1 DEF RingAt, OnRing
    <3>3. ASSUME NEW i \in 1 .. len - 1, R2[n][i] = u PROVE h.GATE_TIMEQ[u] = n /\ u # g
      <4>1. Skip(x, i) \in 1 .. len /\ Skip(x, i) # x
        BY <1>1, AfterSkip
      <4>2. R[n][Skip(x, i)] = u
        BY <1>5, <1>6, <3>3
      <4> QED
        BY <1>1, <3>2, <4>1, <4>2 DEF Distinct
    <3>4. ASSUME NEW i \in 1 .. len, R[n][i] = u, u # g PROVE \E j \in 1 .. len - 1 : R2[n][j] = u
      <4>1. i # x
        BY <3>4
      <4>2. Unskip(x, i) \in 1 .. len - 1 /\ Skip(x, Unskip(x, i)) = i
        BY <1>1, <4>1 DEF Skip, Unskip
      <4> QED
        BY <1>5, <1>6, <3>4, <4>2
    <3>5. Len(R2[n]) = len - 1
      BY <1>5, <1>6
    <3> QED
      BY <3>1, <3>2, <3>3, <3>4, <3>5 DEF OnRing
  <2> QED
    BY <1>1, <1>5, <1>6, <2>2, <2>3, <2>4, <2>5 DEF RingAt
<1>8. GatesLinked(v, L, R2)
  <2>1. \A m \in NODE : m # n => v.gate[m] = h.gate[m]
    BY <1>3, HeapTypes
  <2>2. v.GATE_TIMEQ[g] = NULL /\ \A u \in GATE : u # g => v.GATE_TIMEQ[u] = h.GATE_TIMEQ[u]
    BY <1>3, HeapTypes
  <2>3. \A u \in GATE : u # g /\ h.GATE_TIMEQ[u] # n =>
            v.GATE_NEXT[u] = h.GATE_NEXT[u] /\ v.GATE_PREV[u] = h.GATE_PREV[u]
    BY <1>1, <1>3, HeapTypes
  <2> QED
    <3>1. \A m \in NODE : m # n => R2[m] = R[m] /\ v.gate[m] = h.gate[m] /\ (OnList(L, m) <=> OnList(L, m))
      BY <1>6, <2>1
    <3>2. h.GATE_TIMEQ[g] \in {NULL, n} /\ v.GATE_TIMEQ[g] \in {NULL, n}
      BY <1>1, <2>2
    <3> QED
      BY <1>4, <1>7, <2>2, <2>3, <3>1, <3>2, OneRingChanges
<1>9. Holds(v, L, R2)
  BY <1>3, <1>6, <1>8 DEF Holds, NodesLinked, InOrder, OneFree
<1>10. Left(h, v, R, R2, g)
  <2>1. R2 = [R EXCEPT ![n] = RemoveAt(R[n], x)]
    BY DEF R2
  <2> QED
    BY <1>3, <2>1 DEF Left, Dropped
<1> QED
  BY <1>4, <1>9, <1>10 DEF R2

(* A node that nobody uses has no ring.                                    *)
LEMMA NoRing ==
  ASSUME NEW v, NEW L, NEW R, NEW n, R[n] \in Seq(GATE), Len(R[n]) = 0, ~OnList(L, n), v.gate[n] = NULL,
         \A u \in GATE : v.GATE_TIMEQ[u] # n
  PROVE  RingAt(v, L, R, n)
BY DEF RingAt, OnRing, IsRing, Distinct

(* The ring of n has g alone, and goes with it.                            *)
Unsets(h, v, g, n) ==
  /\ v.GATE_TIMEQ = [h.GATE_TIMEQ EXCEPT ![g] = NULL]
  /\ v.gate = [h.gate EXCEPT ![n] = NULL]
  /\ v.GATE_NEXT = [h.GATE_NEXT EXCEPT ![g] = NULL]
  /\ v.GATE_PREV = [h.GATE_PREV EXCEPT ![g] = NULL]

Emptied(R, R2, n) ==
  /\ R2 \in [NODE -> Seq(GATE)] /\ Len(R2[n]) = 0
  /\ \A m \in NODE : m # n => R2[m] = R[m]

(* When the last gate of a ring leaves with its node, the others stay.     *)
LEMMA LastOfRing ==
  ASSUME NEW h \in Heaps, NEW L, NEW R, Holds(h, L, R), NEW g \in GATE, NEW n \in NODE,
         NEW x \in 1 .. Len(R[n]), R[n][x] = g, Len(R[n]) = 1,
         NEW v \in Heaps, NEW L2, NEW R2,
         Dropped(R, R2, n, x), Unsets(h, v, g, n),
         ~OnList(L2, n), \A m \in NODE : m # n => (OnList(L2, m) <=> OnList(L, m))
  PROVE  Emptied(R, R2, n) /\ GatesLinked(v, L2, R2)
<1>1. R[n] \in Seq(GATE) /\ h.GATE_TIMEQ[g] = n
  <2>1. R[n] \in Seq(GATE) /\ \A i \in 1 .. Len(R[n]) : h.GATE_TIMEQ[R[n][i]] = n
    BY RingFacts
  <2> QED
    BY <2>1
<1>2. RemoveAt(R[n], x) \in Seq(GATE) /\ Len(RemoveAt(R[n], x)) = 1 - 1
  BY <1>1, RemoveAtFacts
<1>3. R \in [NODE -> Seq(GATE)]
  BY DEF Holds
<1>4. R2 \in [NODE -> Seq(GATE)] /\ Len(R2[n]) = 0 /\ \A m \in NODE : m # n => R2[m] = R[m]
  BY <1>2, <1>3 DEF Dropped
<1>5. n # NULL
  BY QueueAssumption
<1>6. ASSUME NEW u \in GATE, v.GATE_TIMEQ[u] = n PROVE FALSE
  <2>1. u # g /\ h.GATE_TIMEQ[u] = n
    BY <1>5, <1>6, HeapTypes DEF Unsets
  <2>2. RingAt(h, L, R, n)
    BY DEF Holds, GatesLinked
  <2>3. PICK i \in 1 .. Len(R[n]) : R[n][i] = u
    BY <2>1, <2>2 DEF RingAt, OnRing
  <2>4. i = x
    BY <2>3
  <2> QED
    BY <2>1, <2>3, <2>4
<1>7. RingAt(v, L2, R2, n)
  <2>1. v.gate[n] = NULL
    BY HeapTypes DEF Unsets
  <2>2. R2[n] \in Seq(GATE)
    BY <1>4
  <2> QED
    BY <1>4, <1>6, <2>1, <2>2, NoRing
<1>8. GatesLinked(v, L2, R2)
  <2>1. \A m \in NODE : m # n => v.gate[m] = h.gate[m]
    BY HeapTypes DEF Unsets
  <2>2. v.GATE_TIMEQ[g] = NULL /\ \A u \in GATE : u # g => v.GATE_TIMEQ[u] = h.GATE_TIMEQ[u]
    BY HeapTypes DEF Unsets
  <2>3. \A u \in GATE : u # g /\ h.GATE_TIMEQ[u] # n =>
            v.GATE_NEXT[u] = h.GATE_NEXT[u] /\ v.GATE_PREV[u] = h.GATE_PREV[u]
    BY HeapTypes DEF Unsets
  <2> QED
    <3>1. \A m \in NODE : m # n => R2[m] = R[m] /\ v.gate[m] = h.gate[m] /\ (OnList(L2, m) <=> OnList(L, m))
      BY <1>4, <2>1
    <3>2. h.GATE_TIMEQ[g] \in {NULL, n} /\ v.GATE_TIMEQ[g] \in {NULL, n}
      BY <1>1, <2>2
    <3> QED
      BY <1>7, <2>2, <2>3, <3>1, <3>2, OneRingChanges
<1> QED
  BY <1>4, <1>8 DEF Emptied

(* The last gate of a node leaves with its node: all stay closed.          *)
LEMMA LeaveListHolds ==
  ASSUME NEW h \in Heaps, NEW L, NEW R, Holds(h, L, R), NEW g \in GATE, NEW n \in NODE,
         NEW x \in 1 .. Len(R[n]), R[n][x] = g, Len(R[n]) = 1,
         NEW l \in 1 .. Len(L), L[l] = n, Len(L) > 1,
         NEW v, v = UnsetGate(UnsetNode(LeaveList(h, n), n), g)
  PROVE  LET R2 == [R EXCEPT ![n] = RemoveAt(R[n], x)]
         IN v \in Heaps /\ Holds(v, RemoveAt(L, l), R2) /\ Left(h, v, R, R2, g)
<1> DEFINE R2 == [R EXCEPT ![n] = RemoveAt(R[n], x)]
           L2 == RemoveAt(L, l)
           len == Len(L)
           a == L[After(l, len)]
           b == L[Before(l, len)]
<1>1. /\ L \in Seq(NODE) /\ len \in Nat /\ Distinct(L)
      /\ \A i \in 1 .. len : L[i] \in NODE /\ L[i] \in h.allocated
      /\ After(l, len) \in 1 .. len /\ Before(l, len) \in 1 .. len
      /\ h.next[n] = a /\ h.prev[n] = b
      /\ a \in NODE /\ b \in NODE
  <2>1. /\ L \in Seq(NODE) /\ len \in Nat /\ Distinct(L)
        /\ \A i \in 1 .. len :
              /\ L[i] \in NODE /\ L[i] \in h.allocated
              /\ h.next[L[i]] = L[After(i, len)] /\ h.prev[L[i]] = L[Before(i, len)]
              /\ After(i, len) \in 1 .. len /\ Before(i, len) \in 1 .. len
    BY ListFacts
  <2> HIDE DEF len
  <2> QED
    BY <2>1 DEF len
<1>2. a # n /\ b # n
  <2>1. After(l, len) # l /\ Before(l, len) # l
    BY <1>1 DEF After, Before
  <2> QED
    BY <1>1, <2>1 DEF Distinct
<1>3. LeavesList(h, v, g, n)
  BY LeaveListFields
<1> HIDE DEF a, b
<1>4. /\ v.gateList = (IF h.gateList = n THEN a ELSE h.gateList)
      /\ v.next = [[h.next EXCEPT ![b] = a] EXCEPT ![n] = NULL]
      /\ v.prev = [[h.prev EXCEPT ![a] = b] EXCEPT ![n] = NULL]
      /\ v.nodeFreeList = h.nodeFreeList /\ v.allocated = h.allocated
      /\ v.gate = [h.gate EXCEPT ![n] = NULL]
      /\ v.timeIndex = [h.timeIndex EXCEPT ![n] = Zero]
      /\ v.GATE_NEXT = [h.GATE_NEXT EXCEPT ![g] = NULL]
      /\ v.GATE_PREV = [h.GATE_PREV EXCEPT ![g] = NULL]
      /\ v.GATE_TIMEQ = [h.GATE_TIMEQ EXCEPT ![g] = NULL]
      /\ IsHeap(v)
  BY <1>1, <1>3 DEF LeavesList
<1>5. v \in Heaps
  <2>0. h.next \in [NODE -> NODE \cup {NULL}] /\ h.prev \in [NODE -> NODE \cup {NULL}]
    BY HeapTypes
  <2>1. v.next \in [NODE -> NODE \cup {NULL}]
    BY <1>1, <1>4, <2>0
  <2>2. v.prev \in [NODE -> NODE \cup {NULL}]
    BY <1>1, <1>4, <2>0
  <2>3. v.gate \in [NODE -> GATE \cup {NULL}] /\ v.timeIndex \in [NODE -> Within]
    BY <1>4, HeapTypes, ZeroWithin
  <2>4. v.GATE_NEXT \in [GATE -> GATE \cup {NULL}] /\ v.GATE_PREV \in [GATE -> GATE \cup {NULL}]
    BY <1>4, HeapTypes
  <2>5. v.GATE_TIMEQ \in [GATE -> NODE \cup {NULL}]
    BY <1>4, HeapTypes
  <2>6. v.gateList \in NODE \cup {NULL}
    BY <1>1, <1>4, HeapTypes
  <2> QED
    BY <1>4, <2>1, <2>2, <2>3, <2>4, <2>5, <2>6, HeapTypes DEF IsHeap, Heaps
<1>6. /\ L2 \in Seq(NODE) /\ Len(L2) = len - 1
      /\ \A i \in 1 .. len - 1 : L2[i] = L[Skip(l, i)] /\ Skip(l, i) \in 1 .. len /\ Skip(l, i) # l
  <2>1. /\ L2 \in Seq(NODE) /\ Len(L2) = len - 1
        /\ \A i \in 1 .. len - 1 : L2[i] = L[Skip(l, i)]
    BY <1>1, RemoveAtFacts DEF Skip
  <2> QED
    BY <1>1, <2>1, AfterSkip
<1> HIDE DEF L2
<1>7. ~OnList(L2, n) /\ \A m \in NODE : m # n => (OnList(L2, m) <=> OnList(L, m))
  <2>1. ASSUME NEW i \in 1 .. len - 1 PROVE L2[i] # n
    BY <1>1, <1>6, SMTT(30) DEF Distinct
  <2>2. ASSUME NEW m \in NODE, NEW i \in 1 .. len, L[i] = m, m # n PROVE \E j \in 1 .. len - 1 : L2[j] = m
    <3>1. i # l
      BY <2>2
    <3>2. Unskip(l, i) \in 1 .. len - 1 /\ Skip(l, Unskip(l, i)) = i
      BY <1>1, <3>1 DEF Skip, Unskip
    <3> QED
      BY <1>6, <2>2, <3>2
  <2>3. \A i \in 1 .. len - 1 : \E j \in 1 .. len : L2[i] = L[j]
    BY <1>6
  <2> QED
    BY <1>6, <2>1, <2>2, <2>3 DEF OnList
<1>8. /\ R2 \in [NODE -> Seq(GATE)] /\ Len(R2[n]) = 0 /\ \A m \in NODE : m # n => R2[m] = R[m]
      /\ GatesLinked(v, L2, R2)
  <2> DEFINE S == R2
  <2>1. Dropped(R, S, n, x) /\ Unsets(h, v, g, n)
    BY <1>4 DEF Dropped, Unsets
  <2> HIDE DEF S
  <2> DEFINE K == L2
  <2>2. ~OnList(K, n) /\ \A m \in NODE : m # n => (OnList(K, m) <=> OnList(L, m))
    BY <1>7
  <2>3. R[n][x] = g /\ Len(R[n]) = 1 /\ x \in 1 .. Len(R[n]) /\ Holds(h, L, R)
    OBVIOUS
  <2> HIDE DEF K
  <2>4. Emptied(R, S, n) /\ GatesLinked(v, K, S)
    BY <1>5, <2>1, <2>2, <2>3, LastOfRing
  <2> QED
    BY <2>4 DEF S, K, Emptied
<1>9. NodesLinked(v, L2)
  <2>1. NodesLinked(h, L)
    BY DEF Holds
  <2>2. v.gateList = L2[1]
    <3>1. h.gateList = L[1] /\ 1 \in 1 .. len /\ (L[1] = n <=> l = 1)
      BY <1>1, <2>1 DEF NodesLinked, Distinct
    <3>2. 1 \in 1 .. len - 1
      BY <1>1
    <3>3. L2[1] = L[Skip(l, 1)]
      BY <1>6, <3>2
    <3>4. Skip(l, 1) = IF l = 1 THEN After(l, len) ELSE 1
      BY <1>1 DEF Skip, After
    <3> QED
      BY <1>4, <3>1, <3>3, <3>4 DEF a
  <2>3. IsRing(v.next, v.prev, L2)
    <3> DEFINE p == h.next
               q == h.prev
    <3>1. IsRing(p, q, L) /\ p[L[l]] = a /\ q[L[l]] = b /\ len = Len(L)
      BY <1>1, <2>1 DEF NodesLinked
    <3>2. \A e \in NODE : e # n /\ e # b => v.next[e] = p[e]
      BY <1>4, HeapTypes
    <3>3. \A e \in NODE : e # n /\ e # a => v.prev[e] = q[e]
      BY <1>4, HeapTypes
    <3>4. v.next[b] = a /\ v.prev[a] = b
      BY <1>1, <1>2, <1>4, HeapTypes
    <3> HIDE DEF p, q, len
    <3>5. /\ \A e \in NODE : e # L[l] /\ e # q[L[l]] => v.next[e] = p[e]
          /\ \A e \in NODE : e # L[l] /\ e # p[L[l]] => v.prev[e] = q[e]
          /\ v.next[q[L[l]]] = p[L[l]] /\ v.prev[p[L[l]]] = q[L[l]]
      BY <3>1, <3>2, <3>3, <3>4
    <3>6. l \in 1 .. len /\ len > 1
      BY DEF len
    <3>7. IsRing(v.next, v.prev, RemoveAt(L, l))
      BY <1>1, <3>1, <3>5, <3>6, RingWithout
    <3> QED
      BY <3>7 DEF L2
  <2>4. ASSUME NEW i \in 1 .. Len(L2) PROVE L2[i] \in v.allocated
    <3>1. i \in 1 .. len - 1
      BY <1>6
    <3>2. L2[i] = L[Skip(l, i)] /\ Skip(l, i) \in 1 .. len
      BY <1>6, <3>1
    <3> QED
      BY <1>1, <1>4, <3>2
  <2>5. Len(L2) # 0
    BY <1>1, <1>6
  <2> QED
    BY <2>2, <2>3, <2>4, <2>5 DEF NodesLinked
<1>10. InOrder(v, L2)
  <2> SUFFICES ASSUME NEW i \in 1 .. len - 1, NEW j \in 1 .. len - 1, i < j
               PROVE  Value(v.timeIndex[L2[i]]) < Value(v.timeIndex[L2[j]])
    BY <1>6 DEF InOrder
  <2>1. Skip(l, i) < Skip(l, j)
    BY <1>1 DEF Skip
  <2>2. Value(h.timeIndex[L2[i]]) < Value(h.timeIndex[L2[j]])
    BY <1>6, <2>1 DEF Holds, InOrder
  <2>3. L2[i] \in NODE /\ L2[j] \in NODE /\ L2[i] # n /\ L2[j] # n
    <3>1. \A c \in 1 .. len : c # l => L[c] # n
      BY <1>1 DEF Distinct
    <3> QED
      BY <1>1, <1>6, <3>1
  <2> QED
    BY <1>4, <2>2, <2>3, HeapTypes
<1>11. OneFree(v, L2)
  BY <1>1, <1>4 DEF Holds, OneFree
<1>12. Holds(v, L2, R2)
  BY <1>6, <1>8, <1>9, <1>10, <1>11 DEF Holds
<1>13. Left(h, v, R, R2, g)
  <2>1. Dropped(R, R2, n, x)
    BY DEF Dropped
  <2> HIDE DEF R2
  <2>2. \A m \in NODE : Len(R2[m]) # 0 => v.timeIndex[m] = h.timeIndex[m]
    BY <1>4, <1>8, HeapTypes
  <2> QED
    BY <1>4, <2>1, <2>2 DEF Left
<1> QED
  BY <1>5, <1>12, <1>13 DEF R2, L2

(* The last gate of all leaves: nothing is listed.                         *)
LEMMA LeaveLastHolds ==
  ASSUME NEW h \in Heaps, NEW L, NEW R, Holds(h, L, R), NEW g \in GATE, NEW n \in NODE,
         NEW x \in 1 .. Len(R[n]), R[n][x] = g, Len(R[n]) = 1,
         NEW l \in 1 .. Len(L), L[l] = n, Len(L) = 1,
         NEW v, v = UnsetGate([UnsetNode(h, n) EXCEPT !.gateList = NULL,
                                 !.next[n] = h.nodeFreeList, !.nodeFreeList = n], g)
  PROVE  LET R2 == [R EXCEPT ![n] = RemoveAt(R[n], x)]
         IN v \in Heaps /\ Holds(v, <<>>, R2) /\ Left(h, v, R, R2, g)
<1> DEFINE R2 == [R EXCEPT ![n] = RemoveAt(R[n], x)]
<1>1. L[1] = n /\ n \in h.allocated /\ \A i \in 1 .. Len(L) : i = 1
  <2>1. n \in h.allocated
    BY EntryOfList
  <2> QED
    BY <2>1
<1>2. h.nodeFreeList = NULL
  BY DEF Holds, OneFree
<1>3. LeavesLast(h, v, g, n)
  BY LeaveLastFields
<1>4. /\ v.gateList = NULL
      /\ v.next = [[h.next EXCEPT ![n] = NULL] EXCEPT ![n] = NULL]
      /\ v.prev = [h.prev EXCEPT ![n] = NULL]
      /\ v.nodeFreeList = n /\ v.allocated = h.allocated
      /\ v.gate = [h.gate EXCEPT ![n] = NULL]
      /\ v.timeIndex = [h.timeIndex EXCEPT ![n] = Zero]
      /\ v.GATE_NEXT = [h.GATE_NEXT EXCEPT ![g] = NULL]
      /\ v.GATE_PREV = [h.GATE_PREV EXCEPT ![g] = NULL]
      /\ v.GATE_TIMEQ = [h.GATE_TIMEQ EXCEPT ![g] = NULL]
      /\ IsHeap(v)
  BY <1>2, <1>3 DEF LeavesLast
<1>5. v \in Heaps
  <2>1. v.next \in [NODE -> NODE \cup {NULL}] /\ v.prev \in [NODE -> NODE \cup {NULL}]
    BY <1>4, HeapTypes
  <2>2. v.gate \in [NODE -> GATE \cup {NULL}] /\ v.timeIndex \in [NODE -> Within]
    BY <1>4, HeapTypes, ZeroWithin
  <2>3. v.GATE_NEXT \in [GATE -> GATE \cup {NULL}] /\ v.GATE_PREV \in [GATE -> GATE \cup {NULL}]
    BY <1>4, HeapTypes
  <2>4. v.GATE_TIMEQ \in [GATE -> NODE \cup {NULL}]
    BY <1>4, HeapTypes
  <2> QED
    BY <1>4, <2>1, <2>2, <2>3, <2>4, HeapTypes DEF IsHeap, Heaps
<1>6. Emptied(R, R2, n) /\ GatesLinked(v, <<>>, R2)
  <2> DEFINE S == R2
             K == <<>>
  <2>1. Dropped(R, S, n, x) /\ Unsets(h, v, g, n)
    BY <1>4 DEF Dropped, Unsets
  <2>2. ~OnList(K, n) /\ \A m \in NODE : m # n => (OnList(K, m) <=> OnList(L, m))
    BY <1>1 DEF OnList
  <2>3. R[n][x] = g /\ Len(R[n]) = 1 /\ x \in 1 .. Len(R[n]) /\ Holds(h, L, R)
    OBVIOUS
  <2> HIDE DEF S, K
  <2>4. Emptied(R, S, n) /\ GatesLinked(v, K, S)
    BY <1>5, <2>1, <2>2, <2>3, LastOfRing
  <2> QED
    BY <2>4 DEF S, K
<1>7. NodesLinked(v, <<>>) /\ InOrder(v, <<>>)
  BY <1>4 DEF NodesLinked, InOrder, IsRing, Distinct
<1>8. OneFree(v, <<>>)
  <2>1. v.next[n] = NULL
    BY <1>4, HeapTypes
  <2> QED
    BY <1>1, <1>4, <2>1 DEF OneFree
<1>9. Holds(v, <<>>, R2)
  BY <1>6, <1>7, <1>8 DEF Holds, Emptied
<1>10. Left(h, v, R, R2, g)
  <2>1. Dropped(R, R2, n, x)
    BY DEF Dropped
  <2> HIDE DEF R2
  <2>2. ASSUME NEW m \in NODE, Len(R2[m]) # 0 PROVE v.timeIndex[m] = h.timeIndex[m]
    <3>1. m # n
      BY <1>6, <2>2 DEF Emptied
    <3> QED
      BY <1>4, <3>1, HeapTypes
  <2> QED
    BY <1>4, <2>1, <2>2 DEF Left
<1> QED
  BY <1>5, <1>9, <1>10

(* A scheduled gate is taken from its ring, and the node from the list     *)
(* when the ring had no other gate.                                        *)
LEMMA RemoveHolds ==
  ASSUME NEW h \in Heaps, NEW L, NEW R, Holds(h, L, R), NEW g \in GATE, h.GATE_TIMEQ[g] # NULL,
         NEW v, v = RemoveGate(h, g)
  PROVE  v \in Heaps /\ \E L2, R2 : Holds(v, L2, R2) /\ Left(h, v, R, R2, g)
<1> DEFINE n == h.GATE_TIMEQ[g]
<1>1. PICK x \in 1 .. Len(R[n]) : R[n][x] = g
  BY WhereGateIs
<1>2. PICK l \in 1 .. Len(L) : L[l] = n
  BY WhereGateIs
<1>3. n \in NODE
  BY WhereGateIs
<1> HIDE DEF n
<1> DEFINE R2 == [R EXCEPT ![n] = RemoveAt(R[n], x)]
<1> DEFINE c == Len(R[n])
           d == Len(L)
<1>4. c \in Nat /\ c >= 1 /\ (h.GATE_NEXT[g] # g <=> c > 1)
  <2>1. /\ c \in Nat /\ c >= 1 /\ After(x, c) \in 1 .. c /\ h.GATE_NEXT[g] = R[n][After(x, c)]
        /\ \A k \in 1 .. c : R[n][k] = g => k = x
    BY <1>1, <1>3, EntryOfRing
  <2>2. h.GATE_NEXT[g] = g <=> After(x, c) = x
    BY <1>1, <2>1
  <2>3. x \in 1 .. c
    OBVIOUS
  <2> HIDE DEF c
  <2>4. After(x, c) = x <=> c = 1
    BY <2>1, <2>3 DEF After
  <2> QED
    BY <2>1, <2>2, <2>4
<1>8. d \in Nat /\ d >= 1 /\ (h.next[n] # n <=> d > 1)
  <2>1. /\ d \in Nat /\ d >= 1 /\ After(l, d) \in 1 .. d /\ h.next[n] = L[After(l, d)]
        /\ \A k \in 1 .. d : L[k] = n => k = l
    BY <1>2, EntryOfList
  <2>2. h.next[n] = n <=> After(l, d) = l
    BY <1>2, <2>1
  <2>3. l \in 1 .. d
    OBVIOUS
  <2> HIDE DEF d
  <2>4. After(l, d) = l <=> d = 1
    BY <2>1, <2>3 DEF After
  <2> QED
    BY <2>1, <2>2, <2>4
<1> HIDE DEF c, d, R2
<1>5. CASE c > 1
  <2>1. v = UnsetGate(LeaveRing(h, g, n), g)
    BY <1>4, <1>8, <1>5 DEF RemoveGate, n
  <2>2. v \in Heaps /\ Holds(v, L, R2) /\ Left(h, v, R, R2, g)
    BY <1>1, <1>3, <1>5, <1>4, <2>1, LeaveRingHolds DEF c, R2
  <2> QED
    BY <2>2
<1>6. CASE ~(c > 1) /\ d > 1
  <2>1. v = UnsetGate(UnsetNode(LeaveList(h, n), n), g)
    BY <1>4, <1>8, <1>6 DEF RemoveGate, n
  <2>2. c = 1
    BY <1>4, <1>8, <1>6
  <2>3. v \in Heaps /\ Holds(v, RemoveAt(L, l), R2) /\ Left(h, v, R, R2, g)
    BY <1>1, <1>2, <1>3, <1>6, <2>1, <2>2, LeaveListHolds DEF c, d, R2
  <2> QED
    BY <2>3
<1>7. CASE ~(c > 1) /\ ~(d > 1)
  <2>1. v = UnsetGate([UnsetNode(h, n) EXCEPT !.gateList = NULL,
                                 !.next[n] = h.nodeFreeList, !.nodeFreeList = n], g)
    BY <1>4, <1>8, <1>7 DEF RemoveGate, n
  <2>2. c = 1 /\ d = 1
    BY <1>4, <1>8, <1>7
  <2>3. v \in Heaps /\ Holds(v, <<>>, R2) /\ Left(h, v, R, R2, g)
    BY <1>1, <1>2, <1>3, <2>1, <2>2, LeaveLastHolds DEF c, d, R2
  <2> QED
    BY <2>3
<1> QED
  BY <1>5, <1>6, <1>7

-----------------------------------------------------------------------------
(* Insert puts g behind the gates of a ring, which may be a new one.       *)
Added(R, R2, n, g) == R2 = [R EXCEPT ![n] = Append(R[n], g)]
Came(h, v, R, R2, g, t) ==
  \E n \in NODE :
    /\ Added(R, R2, n, g)
    /\ v.GATE_TIMEQ = [h.GATE_TIMEQ EXCEPT ![g] = n]
    /\ v.timeIndex[n] = t
    /\ \A m \in NODE : Len(R[m]) # 0 => v.timeIndex[m] = h.timeIndex[m]

Sets(h, v, g, n) ==
  /\ v.GATE_TIMEQ = [h.GATE_TIMEQ EXCEPT ![g] = n]
  /\ v.gate = [h.gate EXCEPT ![n] = g]
  /\ v.GATE_NEXT = [h.GATE_NEXT EXCEPT ![g] = g]
  /\ v.GATE_PREV = [h.GATE_PREV EXCEPT ![g] = g]
Filled(R, R2, n, g) ==
  /\ R2 \in [NODE -> Seq(GATE)] /\ R2[n] = Append(R[n], g)
  /\ \A m \in NODE : m # n => R2[m] = R[m]

(* A new ring of one gate, told by its entries.                            *)
LEMMA FilledBy ==
  ASSUME NEW R \in [NODE -> Seq(GATE)], NEW R2, NEW n \in NODE, NEW g \in GATE, Added(R, R2, n, g)
  PROVE  Filled(R, R2, n, g)
<1>1. Append(R[n], g) \in Seq(GATE)
  OBVIOUS
<1> QED
  BY <1>1 DEF Added, Filled

(* A node without gates takes g.                                           *)
LEMMA FirstOfRing ==
  ASSUME NEW h \in Heaps, NEW L, NEW R, Holds(h, L, R), NEW g \in GATE, h.GATE_TIMEQ[g] = NULL,
         NEW n \in NODE, Len(R[n]) = 0,
         NEW v \in Heaps, NEW L2, NEW R2, Filled(R, R2, n, g), Sets(h, v, g, n),
         OnList(L2, n), \A m \in NODE : m # n => (OnList(L2, m) <=> OnList(L, m))
  PROVE  GatesLinked(v, L2, R2)
<1>1. R[n] \in Seq(GATE) /\ RingAt(h, L, R, n)
  BY DEF Holds, GatesLinked
<1>2. R2[n] = Append(R[n], g) /\ \A m \in NODE : m # n => R2[m] = R[m]
  BY DEF Filled
<1>3. R2[n] = <<g>>
  <2>1. R[n] = <<>>
    BY <1>1
  <2> QED
    BY <1>2, <2>1
<1>4. Len(R2[n]) = 1 /\ R2[n][1] = g /\ \A i \in 1 .. Len(R2[n]) : R2[n][i] = g
  BY <1>3
<1>5. n # NULL
  BY QueueAssumption
<1>6. RingAt(v, L2, R2, n)
  <2>1. v.gate[n] = g /\ v.GATE_NEXT[g] = g /\ v.GATE_PREV[g] = g
    BY HeapTypes DEF Sets
  <2>2. IsRing(v.GATE_NEXT, v.GATE_PREV, R2[n])
    BY <1>3, <2>1, RingAlone
  <2>3. ASSUME NEW u \in GATE PROVE v.GATE_TIMEQ[u] = n <=> u = g
    <3>1. h.GATE_TIMEQ[u] # n
      <4>1. ~OnRing(R, n, u)
        BY DEF OnRing
      <4> QED
        BY <1>1, <4>1 DEF RingAt
    <3> QED
      BY <3>1, HeapTypes DEF Sets
  <2>4. \A u : OnRing(R2, n, u) <=> u = g
    BY <1>4 DEF OnRing
  <2> QED
    BY <1>4, <2>1, <2>2, <2>3, <2>4 DEF RingAt
<1>7. \A m \in NODE : m # n => R2[m] = R[m] /\ v.gate[m] = h.gate[m] /\ (OnList(L2, m) <=> OnList(L, m))
  BY <1>2, HeapTypes DEF Sets
<1>8. /\ v.GATE_TIMEQ[g] \in {NULL, n} /\ h.GATE_TIMEQ[g] \in {NULL, n}
      /\ \A u \in GATE : u # g => v.GATE_TIMEQ[u] = h.GATE_TIMEQ[u]
  BY HeapTypes DEF Sets
<1>9. \A u \in GATE : u # g /\ h.GATE_TIMEQ[u] # n =>
            v.GATE_NEXT[u] = h.GATE_NEXT[u] /\ v.GATE_PREV[u] = h.GATE_PREV[u]
  BY HeapTypes DEF Sets
<1> QED
  BY <1>6, <1>7, <1>8, <1>9, OneRingChanges

(* TakeNode: the node is one that is not on the list.                      *)
LEMMA TakeHolds ==
  ASSUME NEW h \in Heaps, NEW L, NEW R, Holds(h, L, R), NEW g \in GATE, NEW t \in Within,
         CanAllocate(h), NEW n, n = NewNode(h), NEW u, u = TakeNode(h, g, t)
  PROVE  /\ n \in NODE /\ ~OnList(L, n) /\ Len(R[n]) = 0
         /\ u \in Heaps /\ Takes(h, u, g, t, n) /\ u.nodeFreeList = NULL
<1>1. n \in NODE /\ ~OnList(L, n)
  <2>1. CASE h.nodeFreeList # NULL
    <3>1. n \in NODE
      BY <2>1, HeapTypes DEF NewNode
    <3>2. Len(L) = 0
      BY <2>1 DEF Holds, OneFree
    <3> QED
      BY <3>1, <3>2 DEF OnList
  <2>2. CASE h.nodeFreeList = NULL
    <3>1. h.allocated # NODE /\ h.allocated \subseteq NODE
      BY <2>2, HeapTypes DEF CanAllocate
    <3>2. \E e : e \in NODE \ h.allocated
      BY <3>1
    <3>3. n \in NODE \ h.allocated
      BY <2>2, <3>2 DEF NewNode
    <3>4. \A l \in 1 .. Len(L) : L[l] \in h.allocated
      BY DEF Holds, NodesLinked
    <3> QED
      BY <3>3, <3>4 DEF OnList
  <2> QED
    BY <2>1, <2>2
<1>2. Len(R[n]) = 0
  BY <1>1 DEF Holds, GatesLinked, RingAt
<1>3. Takes(h, u, g, t, n)
  BY TakeNodeFields
<1>4. u.nodeFreeList = NULL
  BY <1>3 DEF Takes, Holds, OneFree, NewNode
<1>5. u \in Heaps
  <2>1. u.gate \in [NODE -> GATE \cup {NULL}] /\ u.timeIndex \in [NODE -> Within]
    <3>1. h.gate \in [NODE -> GATE \cup {NULL}] /\ h.timeIndex \in [NODE -> Within]
      BY HeapTypes
    <3>2. u.gate = [h.gate EXCEPT ![n] = g] /\ u.timeIndex = [h.timeIndex EXCEPT ![n] = t]
      BY <1>3 DEF Takes
    <3>3. u.gate \in [NODE -> GATE \cup {NULL}]
      BY <3>1, <3>2
    <3>4. u.timeIndex \in [NODE -> Within]
      BY <3>1, <3>2
    <3> QED
      BY <3>3, <3>4
  <2>2. u.GATE_NEXT \in [GATE -> GATE \cup {NULL}] /\ u.GATE_PREV \in [GATE -> GATE \cup {NULL}]
    BY <1>3, HeapTypes DEF Takes
  <2>3. u.GATE_TIMEQ \in [GATE -> NODE \cup {NULL}]
    BY <1>1, <1>3, HeapTypes DEF Takes
  <2>4. u.allocated \subseteq NODE /\ u.gateList \in NODE \cup {NULL} /\ IsHeap(u)
    BY <1>1, <1>3, HeapTypes DEF Takes
  <2>5. u.next \in [NODE -> NODE \cup {NULL}] /\ u.prev \in [NODE -> NODE \cup {NULL}]
    BY <1>3, HeapTypes DEF Takes
  <2> QED
    BY <1>4, <2>1, <2>2, <2>3, <2>4, <2>5 DEF IsHeap, Heaps
<1> QED
  BY <1>1, <1>2, <1>3, <1>4, <1>5

(* The first node of an empty list.                                        *)
LEMMA InsertAlone ==
  ASSUME NEW h \in Heaps, NEW L, NEW R, Holds(h, L, R), NEW g \in GATE, NEW t \in Within,
         CanAllocate(h), h.GATE_TIMEQ[g] = NULL, h.gateList = NULL, NEW v, v = Insert(h, g, t)
  PROVE  v \in Heaps /\ \E L2, R2 : Holds(v, L2, R2) /\ Came(h, v, R, R2, g, t)
<1> DEFINE n == NewNode(h)
           u == TakeNode(h, g, t)
           R2 == [R EXCEPT ![n] = Append(R[n], g)]
           L2 == <<n>>
<1>1. n \in NODE /\ Len(R[n]) = 0 /\ u \in Heaps /\ Takes(h, u, g, t, n) /\ u.nodeFreeList = NULL
  BY TakeHolds
<1>2. v = [u EXCEPT !.next[n] = n, !.prev[n] = n, !.gateList = n]
  BY DEF Insert
<1> HIDE DEF n, u
<1>3. /\ v.gateList = n
      /\ v.next = [u.next EXCEPT ![n] = n] /\ v.prev = [u.prev EXCEPT ![n] = n]
      /\ v.nodeFreeList = u.nodeFreeList /\ v.allocated = u.allocated /\ v.gate = u.gate
      /\ v.timeIndex = u.timeIndex /\ v.GATE_NEXT = u.GATE_NEXT /\ v.GATE_PREV = u.GATE_PREV
      /\ v.GATE_TIMEQ = u.GATE_TIMEQ /\ IsHeap(v)
  BY <1>1, <1>2 DEF Heaps, IsHeap
<1>4. v \in Heaps
  <2>1. v.next \in [NODE -> NODE \cup {NULL}] /\ v.prev \in [NODE -> NODE \cup {NULL}]
    BY <1>1, <1>3, HeapTypes
  <2> QED
    BY <1>1, <1>3, <2>1, HeapTypes DEF IsHeap, Heaps
<1>5. Sets(h, v, g, n) /\ v.timeIndex = [h.timeIndex EXCEPT ![n] = t] /\ n \in v.allocated
  BY <1>1, <1>3 DEF Takes, Sets
<1>6. Len(L) = 0
  <2>1. Len(L) # 0 => h.gateList = L[1] /\ L[1] \in NODE
    <3>1. Len(L) # 0 => 1 \in 1 .. Len(L)
      BY ListFacts
    <3> QED
      BY <3>1, EntryOfList DEF Holds, NodesLinked
  <2> QED
    BY <2>1, QueueAssumption
<1>7. R \in [NODE -> Seq(GATE)]
  BY DEF Holds
<1>8. Added(R, R2, n, g)
  BY DEF Added
<1>9. Filled(R, R2, n, g)
  BY <1>1, <1>7, <1>8, FilledBy
<1> HIDE DEF R2
<1>10. Len(L2) = 1 /\ L2[1] = n /\ L2 \in Seq(NODE) /\ \A i \in 1 .. Len(L2) : i = 1
  BY <1>1
<1>11. OnList(L2, n) /\ \A m \in NODE : m # n => (OnList(L2, m) <=> OnList(L, m))
  BY <1>6, <1>10 DEF OnList
<1>12. IsRing(v.next, v.prev, L2)
  <2>1. v.next[n] = n /\ v.prev[n] = n
    BY <1>1, <1>3, HeapTypes
  <2> QED
    BY <2>1, RingAlone
<1> HIDE DEF L2
<1>13. GatesLinked(v, L2, R2)
  BY <1>1, <1>4, <1>5, <1>9, <1>11, FirstOfRing
<1>14. NodesLinked(v, L2) /\ InOrder(v, L2) /\ OneFree(v, L2)
  BY <1>1, <1>3, <1>5, <1>10, <1>12 DEF NodesLinked, InOrder, OneFree
<1>15. Holds(v, L2, R2)
  BY <1>9, <1>10, <1>13, <1>14 DEF Holds, Filled
<1>16. Came(h, v, R, R2, g, t)
  <2>1. v.timeIndex[n] = t /\ \A m \in NODE : Len(R[m]) # 0 => v.timeIndex[m] = h.timeIndex[m]
    BY <1>1, <1>5, HeapTypes
  <2> QED
    BY <1>1, <1>5, <1>8, <2>1 DEF Came, Sets
<1> QED
  BY <1>4, <1>15, <1>16

(* A new node for g comes in at place k, before the node m.                *)
Links(u, v, n, m, first) ==
  /\ v.gateList = first
  /\ v.next = [[u.next EXCEPT ![n] = m] EXCEPT ![u.prev[m]] = n]
  /\ v.prev = [[u.prev EXCEPT ![n] = u.prev[m]] EXCEPT ![m] = n]
  /\ v.nodeFreeList = u.nodeFreeList /\ v.allocated = u.allocated
  /\ v.gate = u.gate /\ v.timeIndex = u.timeIndex
  /\ v.GATE_NEXT = u.GATE_NEXT /\ v.GATE_PREV = u.GATE_PREV /\ v.GATE_TIMEQ = u.GATE_TIMEQ
  /\ IsHeap(v)

(* A new node is linked in its place: the list stays closed and in order.  *)
LEMMA LinkHolds ==
  ASSUME NEW h \in Heaps, NEW L, NEW R, Holds(h, L, R), NEW g \in GATE, NEW t \in Within,
         CanAllocate(h), h.GATE_TIMEQ[g] = NULL,
         NEW len, len = Len(L), len > 0, NEW k \in 1 .. len + 1, NEW m, m = L[At(k, len)],
         \A i \in 1 .. len : i < k => Value(h.timeIndex[L[i]]) < Value(t),
         \A i \in 1 .. len : i >= k => Value(t) < Value(h.timeIndex[L[i]]),
         NEW v, Links(TakeNode(h, g, t), v, NewNode(h), m, IF k = 1 THEN NewNode(h) ELSE h.gateList)
  PROVE  v \in Heaps /\ \E L2, R2 : Holds(v, L2, R2) /\ Came(h, v, R, R2, g, t)
<1> DEFINE n == NewNode(h)
           u == TakeNode(h, g, t)
           R2 == [R EXCEPT ![n] = Append(R[n], g)]
           L2 == InsertAt(L, k, n)
           c == At(k, len)
           b == L[Before(c, len)]
<1>1. /\ n \in NODE /\ ~OnList(L, n) /\ Len(R[n]) = 0 /\ u \in Heaps /\ Takes(h, u, g, t, n)
      /\ u.nodeFreeList = NULL
  BY TakeHolds
<1>2. Links(u, v, n, m, IF k = 1 THEN n ELSE h.gateList)
  OBVIOUS
<1> HIDE DEF n, u, R2
<1>3. /\ len \in Nat /\ c \in 1 .. len /\ Before(c, len) \in 1 .. len
      /\ m \in NODE /\ b \in NODE /\ h.prev[m] = b /\ m # n /\ b # n
      /\ L \in Seq(NODE) /\ h.gateList = L[1]
  <2>1. len \in Nat /\ L \in Seq(NODE)
    BY ListFacts
  <2>2. c \in 1 .. len
    BY <2>1 DEF At
  <2> HIDE DEF c
  <2>3. m = L[c]
    BY DEF c
  <2>4. m \in NODE /\ Before(c, len) \in 1 .. len /\ h.prev[m] = b
    BY <2>2, <2>3, EntryOfList
  <2>5. b \in NODE
    BY <2>1, <2>4
  <2>6. m # n /\ b # n
    BY <1>1, <2>2, <2>3, <2>4 DEF OnList
  <2>7. h.gateList = L[1]
    BY <2>1 DEF Holds, NodesLinked
  <2> QED
    BY <2>1, <2>2, <2>4, <2>5, <2>6, <2>7
<1> HIDE DEF b, c
<1>4. /\ v.gateList = IF k = 1 THEN n ELSE L[1]
      /\ v.next = [[h.next EXCEPT ![n] = m] EXCEPT ![b] = n]
      /\ v.prev = [[h.prev EXCEPT ![n] = b] EXCEPT ![m] = n]
  <2>1. u.next = h.next /\ u.prev = h.prev
    BY <1>1 DEF Takes
  <2>2. /\ v.gateList = IF k = 1 THEN n ELSE h.gateList
        /\ v.next = [[u.next EXCEPT ![n] = m] EXCEPT ![u.prev[m]] = n]
        /\ v.prev = [[u.prev EXCEPT ![n] = u.prev[m]] EXCEPT ![m] = n]
    BY <1>2 DEF Links
  <2> QED
    BY <1>3, <2>1, <2>2
<1>5. /\ v.nodeFreeList = u.nodeFreeList /\ v.allocated = u.allocated
      /\ v.gate = u.gate /\ v.timeIndex = u.timeIndex
      /\ v.GATE_NEXT = u.GATE_NEXT /\ v.GATE_PREV = u.GATE_PREV /\ v.GATE_TIMEQ = u.GATE_TIMEQ
      /\ IsHeap(v)
  BY <1>2 DEF Links
<1>6. v \in Heaps
  <2>1. h.next \in [NODE -> NODE \cup {NULL}] /\ h.prev \in [NODE -> NODE \cup {NULL}]
    BY HeapTypes
  <2>2. v.next \in [NODE -> NODE \cup {NULL}]
    BY <1>1, <1>3, <1>4, <2>1
  <2>3. v.prev \in [NODE -> NODE \cup {NULL}]
    BY <1>1, <1>3, <1>4, <2>1
  <2>4. v.gateList \in NODE \cup {NULL}
    <3>1. L[1] \in NODE
      BY <1>3
    <3> QED
      BY <1>1, <1>4, <3>1
  <2> QED
    BY <1>1, <1>5, <2>2, <2>3, <2>4, HeapTypes DEF IsHeap, Heaps
<1>7. /\ Sets(h, v, g, n) /\ v.timeIndex = [h.timeIndex EXCEPT ![n] = t]
      /\ v.allocated = h.allocated \cup {n}
  BY <1>1, <1>5 DEF Takes, Sets
<1>8. /\ L2 \in Seq(NODE) /\ Len(L2) = len + 1
      /\ \A i \in 1 .. len + 1 : L2[i] = IF i = k THEN n ELSE L[Unskip(k, i)]
      /\ \A i \in 1 .. len + 1 : i # k => Unskip(k, i) \in 1 .. len
  <2>1. L2 \in Seq(NODE) /\ Widened(L, L2, k, n)
    BY <1>1, <1>3, InsertAtFacts
  <2>2. /\ Len(L2) = len + 1
        /\ \A i \in 1 .. len + 1 : L2[i] = IF i < k THEN L[i] ELSE IF i = k THEN n ELSE L[i - 1]
    BY <2>1 DEF Widened
  <2> HIDE DEF L2
  <2>3. \A i \in 1 .. len + 1 : L2[i] = IF i = k THEN n ELSE L[Unskip(k, i)]
    BY <1>3, <2>2 DEF Unskip
  <2>4. \A i \in 1 .. len + 1 : i # k => Unskip(k, i) \in 1 .. len
    BY <1>3 DEF Unskip
  <2> QED
    BY <2>1, <2>2, <2>3, <2>4
<1>9. IsRing(v.next, v.prev, L2)
  <2> DEFINE p == h.next
             q == h.prev
  <2>1. IsRing(p, q, L)
    BY DEF Holds, NodesLinked
  <2>2. m = L[At(k, len)] /\ q[m] = b
    BY <1>3
  <2>3. \A i \in 1 .. len : L[i] # n
    BY <1>1 DEF OnList
  <2>4. p \in [NODE -> NODE \cup {NULL}] /\ q \in [NODE -> NODE \cup {NULL}]
    BY HeapTypes
  <2>5. v.next = [[p EXCEPT ![n] = m] EXCEPT ![b] = n] /\ v.prev = [[q EXCEPT ![n] = b] EXCEPT ![m] = n]
    BY <1>4
  <2> HIDE DEF p, q, L2
  <2>9. n \in NODE /\ m \in NODE /\ b \in NODE /\ m # n /\ b # n
    BY <1>1, <1>3
  <2>6. /\ \A e \in NODE : e # n /\ e # q[m] => v.next[e] = p[e]
        /\ v.next[n] = m /\ v.next[q[m]] = n
    BY <2>2, <2>4, <2>5, <2>9
  <2>10. \A e \in NODE : e # n /\ e # m => v.prev[e] = q[e]
    BY <2>4, <2>5, <2>9
  <2>7. /\ \A e \in NODE : e # n /\ e # m => v.prev[e] = q[e]
        /\ v.prev[n] = q[m] /\ v.prev[m] = n
    <3>1. v.prev[n] = b
      BY <2>4, <2>5, <2>9
    <3>2. v.prev[m] = n
      BY <2>4, <2>5, <2>9
    <3>3. q[m] = b
      BY <2>2
    <3>4. v.prev[n] = q[m]
      BY <3>1, <3>3
    <3> QED
      BY <2>10, <3>2, <3>4
  <2> DEFINE p2 == v.next
             q2 == v.prev
  <2>11. L \in Seq(NODE) /\ len \in Nat /\ n \in NODE /\ len = Len(L) /\ len > 0 /\ m = L[At(k, len)]
    BY <1>3, <2>9
  <2>12. /\ \A e \in NODE : e # n /\ e # q[m] => p2[e] = p[e]
         /\ \A e \in NODE : e # n /\ e # m => q2[e] = q[e]
    BY <2>6, <2>7
  <2>13. p2[n] = m /\ q2[n] = q[m] /\ p2[q[m]] = n /\ q2[m] = n
    BY <2>6, <2>7
  <2> HIDE DEF p2, q2
  <2>8. IsRing(p2, q2, InsertAt(L, k, n))
    BY <2>1, <2>3, <2>11, <2>12, <2>13, RingWith
  <2> QED
    BY <2>8 DEF L2, p2, q2
<1> HIDE DEF L2
<1>10. OnList(L2, n) /\ \A e \in NODE : e # n => (OnList(L2, e) <=> OnList(L, e))
  <2>1. OnList(L2, n)
    BY <1>3, <1>8 DEF OnList
  <2>2. ASSUME NEW e \in NODE, e # n, NEW i \in 1 .. len, L[i] = e PROVE \E j \in 1 .. len + 1 : L2[j] = e
    <3>1. Skip(k, i) \in 1 .. len + 1 /\ Skip(k, i) # k /\ Unskip(k, Skip(k, i)) = i
      BY <1>3 DEF Skip, Unskip
    <3> QED
      BY <1>8, <2>2, <3>1
  <2>3. ASSUME NEW e \in NODE, e # n, NEW j \in 1 .. len + 1, L2[j] = e PROVE \E i \in 1 .. len : L[i] = e
    BY <1>8, <2>3
  <2> QED
    BY <1>8, <2>1, <2>2, <2>3 DEF OnList
<1>11. R \in [NODE -> Seq(GATE)]
  BY DEF Holds
<1>12. Added(R, R2, n, g) /\ Filled(R, R2, n, g)
  <2>1. Added(R, R2, n, g)
    BY DEF Added, R2
  <2> QED
    BY <1>1, <1>11, <2>1, FilledBy
<1>13. GatesLinked(v, L2, R2)
  BY <1>1, <1>6, <1>7, <1>10, <1>12, FirstOfRing
<1>14. NodesLinked(v, L2)
  <2>1. v.gateList = L2[1]
    <3>1. 1 \in 1 .. len + 1 /\ (k # 1 => Unskip(k, 1) = 1)
      BY <1>3 DEF Unskip
    <3> QED
      BY <1>4, <1>8, <3>1
  <2>2. ASSUME NEW i \in 1 .. len + 1 PROVE L2[i] \in v.allocated
    <3>1. \A j \in 1 .. len : L[j] \in h.allocated
      BY DEF Holds, NodesLinked
    <3> QED
      BY <1>7, <1>8, <3>1
  <2>3. Len(L2) = len + 1 /\ len + 1 # 0
    BY <1>3, <1>8
  <2> QED
    BY <1>9, <2>1, <2>2, <2>3 DEF NodesLinked
<1>15. InOrder(v, L2)
  <2> DEFINE T(i) == Value(h.timeIndex[L[i]])
  <2>1. h.timeIndex \in [NODE -> Within] /\ \A i \in 1 .. len : L[i] \in NODE /\ L[i] # n
    BY <1>1, <1>3, HeapTypes DEF OnList
  <2>2. v.timeIndex[n] = t /\ \A i \in 1 .. len : v.timeIndex[L[i]] = h.timeIndex[L[i]]
    BY <1>1, <1>7, <2>1
  <2>3. \A i, j \in 1 .. len : i < j => T(i) < T(j)
    BY DEF Holds, InOrder
  <2>4. /\ \A i \in 1 .. len : i < k => T(i) < Value(t)
        /\ \A i \in 1 .. len : i >= k => Value(t) < T(i)
    OBVIOUS
  <2> SUFFICES ASSUME NEW i \in 1 .. len + 1, NEW j \in 1 .. len + 1, i < j
               PROVE  Value(v.timeIndex[L2[i]]) < Value(v.timeIndex[L2[j]])
    BY <1>8 DEF InOrder
  <2>5. /\ Value(v.timeIndex[L2[i]]) = IF i = k THEN Value(t) ELSE T(Unskip(k, i))
        /\ Value(v.timeIndex[L2[j]]) = IF j = k THEN Value(t) ELSE T(Unskip(k, j))
    BY <1>8, <2>2
  <2>6. /\ i = k => j # k /\ Unskip(k, j) >= k
        /\ j = k => i # k /\ Unskip(k, i) < k
        /\ i # k /\ j # k => Unskip(k, i) < Unskip(k, j)
    BY <1>3 DEF Unskip
  <2>7. (i # k => Unskip(k, i) \in 1 .. len) /\ (j # k => Unskip(k, j) \in 1 .. len)
    BY <1>8
  <2> HIDE DEF T
  <2> QED
    BY <2>3, <2>4, <2>5, <2>6, <2>7
<1>16. OneFree(v, L2)
  BY <1>1, <1>5 DEF OneFree
<1>17. Holds(v, L2, R2)
  BY <1>8, <1>12, <1>13, <1>14, <1>15, <1>16 DEF Holds, Filled
<1>18. Came(h, v, R, R2, g, t)
  <2>1. v.timeIndex[n] = t /\ \A e \in NODE : Len(R[e]) # 0 => v.timeIndex[e] = h.timeIndex[e]
    BY <1>1, <1>7, HeapTypes
  <2> QED
    BY <1>1, <1>7, <1>12, <2>1 DEF Came, Sets
<1> QED
  BY <1>6, <1>17, <1>18

(* To append is to insert behind the last.                                 *)
LEMMA AppendIsInsert ==
  ASSUME NEW S, NEW s \in Seq(S), NEW x \in S
  PROVE  InsertAt(s, Len(s) + 1, x) = Append(s, x)
<1> DEFINE n == Len(s)
           u == InsertAt(s, n + 1, x)
           w == Append(s, x)
<1>1. n \in Nat /\ n + 1 \in 1 .. n + 1
  OBVIOUS
<1>2. u \in Seq(S) /\ Widened(s, u, n + 1, x)
  BY <1>1, InsertAtFacts
<1>3. w \in Seq(S) /\ Len(w) = n + 1 /\ w[n + 1] = x /\ \A i \in 1 .. n : w[i] = s[i]
  OBVIOUS
<1> HIDE DEF u, w
<1>4. Len(u) = n + 1 /\ u[n + 1] = x /\ \A i \in 1 .. n : u[i] = s[i]
  BY <1>1, <1>2 DEF Widened
<1> HIDE DEF n
<1>5. \A i \in 1 .. n + 1 : u[i] = w[i]
  BY <1>1, <1>3, <1>4
<1>6. u = w
  BY <1>2, <1>3, <1>4, <1>5, SeqEqual
<1> QED
  BY <1>6 DEF u, w, n

(* A node that is there takes g behind its other gates.                    *)
LEMMA JoinHolds ==
  ASSUME NEW h \in Heaps, NEW L, NEW R, Holds(h, L, R), NEW g \in GATE, h.GATE_TIMEQ[g] = NULL,
         NEW n \in NODE, Len(R[n]) # 0, NEW v, v = JoinRing(h, g, n)
  PROVE  v \in Heaps /\ \E L2, R2 : Holds(v, L2, R2) /\ Came(h, v, R, R2, g, h.timeIndex[n])
<1> DEFINE R2 == [R EXCEPT ![n] = Append(R[n], g)]
           first == h.gate[n]
           s == R[n]
           len == Len(s)
           p == h.GATE_NEXT
           q == h.GATE_PREV
           b == q[first]
           p2 == v.GATE_NEXT
           q2 == v.GATE_PREV
<1>1. RingAt(h, L, R, n) /\ s \in Seq(GATE) /\ len \in Nat /\ len > 0 /\ n # NULL
  BY RingFacts, QueueAssumption DEF Holds, GatesLinked
<1>2. first = s[1] /\ 1 \in 1 .. len
  BY <1>1 DEF RingAt
<1>3. first \in GATE /\ h.GATE_TIMEQ[first] = n /\ Before(1, len) \in 1 .. len /\ b = s[Before(1, len)]
  <2> HIDE DEF first
  <2> QED
    BY <1>2, EntryOfRing
<1>4. b \in GATE /\ h.GATE_TIMEQ[b] = n
  <2> HIDE DEF first
  <2> QED
    BY <1>3, EntryOfRing
<1>5. first # g /\ b # g
  BY <1>1, <1>3, <1>4
<1>6. JoinsRing(h, v, g, n, first)
  BY JoinRingFields
<1> HIDE DEF first
<1>7. /\ v.gateList = h.gateList /\ v.next = h.next /\ v.prev = h.prev
      /\ v.nodeFreeList = h.nodeFreeList
      /\ v.allocated = h.allocated
      /\ v.gate = h.gate /\ v.timeIndex = h.timeIndex
      /\ v.GATE_TIMEQ = [h.GATE_TIMEQ EXCEPT ![g] = n]
      /\ IsHeap(v)
  BY <1>6 DEF JoinsRing
<1>8. /\ p2 = [[p EXCEPT ![g] = first] EXCEPT ![b] = g]
      /\ q2 = [[q EXCEPT ![g] = b] EXCEPT ![first] = g]
  BY <1>6 DEF JoinsRing
<1>9. p \in [GATE -> GATE \cup {NULL}] /\ q \in [GATE -> GATE \cup {NULL}]
  BY HeapTypes
<1> HIDE DEF p, q, p2, q2, b
<1>10. v \in Heaps
  <2>1. p2 \in [GATE -> GATE \cup {NULL}]
    BY <1>3, <1>4, <1>8, <1>9
  <2>2. q2 \in [GATE -> GATE \cup {NULL}]
    BY <1>3, <1>4, <1>8, <1>9
  <2>3. v.GATE_TIMEQ \in [GATE -> NODE \cup {NULL}]
    BY <1>7, HeapTypes
  <2> QED
    BY <1>7, <2>1, <2>2, <2>3, HeapTypes DEF IsHeap, Heaps, p2, q2
<1>11. R \in [NODE -> Seq(GATE)]
  BY DEF Holds
<1>12. Added(R, R2, n, g) /\ Filled(R, R2, n, g)
  <2>1. Added(R, R2, n, g)
    BY DEF Added
  <2> HIDE DEF R2
  <2> QED
    BY <1>11, <2>1, FilledBy
<1> HIDE DEF R2
<1>13. /\ R2[n] = Append(s, g) /\ Len(R2[n]) = len + 1 /\ R2[n][len + 1] = g
       /\ \A i \in 1 .. len : R2[n][i] = s[i]
       /\ \A e \in NODE : e # n => R2[e] = R[e]
  <2>1. R2[n] = Append(s, g) /\ \A e \in NODE : e # n => R2[e] = R[e]
    BY <1>12 DEF Filled
  <2> HIDE DEF s
  <2> QED
    BY <1>1, <2>1
<1>14. IsRing(p2, q2, R2[n])
  <2>1. IsRing(p, q, s)
    BY <1>1 DEF RingAt, p, q
  <2>2. first = s[At(len + 1, len)] /\ len + 1 \in 1 .. len + 1
    BY <1>1, <1>2 DEF At
  <2>3. \A i \in 1 .. len : s[i] # g
    <3>1. \A i \in 1 .. len : h.GATE_TIMEQ[s[i]] = n
      BY RingFacts
    <3> QED
      BY <1>1, <3>1
  <2>4. \A e \in GATE : e # g /\ e # b => p2[e] = p[e]
    BY <1>3, <1>4, <1>8, <1>9
  <2>5. \A e \in GATE : e # g /\ e # first => q2[e] = q[e]
    BY <1>3, <1>4, <1>8, <1>9
  <2>6. p2[g] = first /\ p2[b] = g
    BY <1>3, <1>4, <1>5, <1>8, <1>9
  <2>7. q2[g] = b /\ q2[first] = g
    BY <1>3, <1>4, <1>5, <1>8, <1>9
  <2>8. q[first] = b
    BY DEF b
  <2>9. s \in Seq(GATE) /\ len \in Nat /\ len > 0 /\ len = Len(s)
    BY <1>1
  <2> DEFINE k == len + 1
  <2> HIDE DEF s, len, k
  <2>10. IsRing(p2, q2, InsertAt(s, k, g))
    <3>1. k \in 1 .. len + 1 /\ first = s[At(k, len)]
      BY <2>2 DEF k
    <3> QED
      <4>1. /\ \A e \in GATE : e # g /\ e # q[first] => p2[e] = p[e]
            /\ \A e \in GATE : e # g /\ e # first => q2[e] = q[e]
        BY <2>4, <2>5, <2>8
      <4>2. p2[g] = first /\ q2[g] = q[first] /\ p2[q[first]] = g /\ q2[first] = g
        BY <2>6, <2>7, <2>8
      <4> QED
        BY <2>1, <2>3, <2>9, <3>1, <4>1, <4>2, RingWith
  <2>11. InsertAt(s, k, g) = Append(s, g)
    BY <2>9, AppendIsInsert DEF k
  <2> QED
    BY <1>13, <2>10, <2>11
<1>15. RingAt(v, L, R2, n)
  <2>1. OnList(L, n) /\ Len(R2[n]) # 0
    BY <1>1, <1>13 DEF RingAt
  <2>2. v.gate[n] = R2[n][1]
    BY <1>2, <1>7, <1>13 DEF first
  <2>3. ASSUME NEW u \in GATE PROVE v.GATE_TIMEQ[u] = n <=> OnRing(R2, n, u)
    <3>1. v.GATE_TIMEQ[u] = n <=> h.GATE_TIMEQ[u] = n \/ u = g
      BY <1>7, HeapTypes
    <3>2. h.GATE_TIMEQ[u] = n <=> OnRing(R, n, u)
      BY <1>1 DEF RingAt
    <3>3. OnRing(R2, n, u) <=> OnRing(R, n, u) \/ u = g
      <4> HIDE DEF len
      <4>1. Len(R[n]) = len
        BY DEF len
      <4>2. \A i \in 1 .. len + 1 : i = len + 1 \/ i \in 1 .. len
        BY <1>1
      <4>3. len + 1 \in 1 .. len + 1 /\ \A i \in 1 .. len : i \in 1 .. len + 1
        BY <1>1
      <4> QED
        BY <1>13, <4>1, <4>2, <4>3 DEF OnRing
    <3> QED
      BY <3>1, <3>2, <3>3
  <2> QED
    BY <1>14, <2>1, <2>2, <2>3 DEF RingAt, p2, q2
<1>16. GatesLinked(v, L, R2)
  <2>1. \A m \in NODE : m # n => R2[m] = R[m] /\ v.gate[m] = h.gate[m] /\ (OnList(L, m) <=> OnList(L, m))
    BY <1>7, <1>13
  <2>2. /\ v.GATE_TIMEQ[g] \in {NULL, n} /\ h.GATE_TIMEQ[g] \in {NULL, n}
        /\ \A u \in GATE : u # g => v.GATE_TIMEQ[u] = h.GATE_TIMEQ[u]
    BY <1>7, HeapTypes
  <2>3. \A u \in GATE : u # g /\ h.GATE_TIMEQ[u] # n =>
            v.GATE_NEXT[u] = h.GATE_NEXT[u] /\ v.GATE_PREV[u] = h.GATE_PREV[u]
    <3>1. ASSUME NEW u \in GATE, u # g, h.GATE_TIMEQ[u] # n PROVE p2[u] = p[u] /\ q2[u] = q[u]
      <4>1. u # first /\ u # b
        BY <1>3, <1>4, <3>1
      <4>2. p2[u] = p[u]
        BY <1>3, <1>4, <1>8, <1>9, <3>1, <4>1
      <4>3. q2[u] = q[u]
        BY <1>3, <1>4, <1>8, <1>9, <3>1, <4>1
      <4> QED
        BY <4>2, <4>3
    <3> QED
      BY <3>1 DEF p, q, p2, q2
  <2> QED
    BY <1>10, <1>15, <2>1, <2>2, <2>3, OneRingChanges
<1>17. Holds(v, L, R2)
  BY <1>7, <1>12, <1>16 DEF Holds, Filled, NodesLinked, InOrder, OneFree
<1>18. Came(h, v, R, R2, g, h.timeIndex[n])
  BY <1>7, <1>12 DEF Came
<1> QED
  BY <1>10, <1>17, <1>18

(* The list that gateList leads around is the sequence of the nodes.       *)
LEMMA ListIs ==
  ASSUME NEW h \in Heaps, NEW L, NEW R, Holds(h, L, R)
  PROVE  /\ h.gateList = NULL <=> Len(L) = 0
         /\ Len(L) # 0 => h.gateList = L[1] /\ Circle(h.next, h.gateList) = L
<1>1. L \in Seq(NODE) /\ Len(L) \in Nat /\ (Len(L) # 0 => 1 \in 1 .. Len(L))
  BY ListFacts
<1>2. Len(L) # 0 => h.gateList = L[1] /\ L[1] \in NODE
  BY <1>1 DEF Holds, NodesLinked
<1>3. Len(L) = 0 => h.gateList = NULL
  BY DEF Holds, NodesLinked
<1>4. IsRing(h.next, h.prev, L)
  BY DEF Holds, NodesLinked
<1>5. ASSUME Len(L) # 0 PROVE Circle(h.next, L[1]) = L
  <2> DEFINE p == h.next
             q == h.prev
             n == Len(L)
  <2>1. DOMAIN p = NODE /\ IsFiniteSet(NODE)
    BY HeapTypes, QueueAssumption
  <2>2. IsRing(p, q, L) /\ n \in Nat /\ n > 0 /\ n = Len(L) /\ L \in Seq(NODE)
    BY <1>1, <1>4, <1>5
  <2> HIDE DEF p, q, n
  <2>3. Circle(p, L[1]) = L
    BY <2>1, <2>2, CircleIs
  <2> QED
    BY <2>3 DEF p
<1> QED
  BY <1>2, <1>3, <1>5, QueueAssumption

(* The fields after a new node is linked and gateList is set.              *)
LEMMA LinkedFields ==
  ASSUME NEW u, IsHeap(u), NEW n, NEW m, NEW first,
         NEW v, v = [LinkBefore(u, n, m) EXCEPT !.gateList = first]
  PROVE  Links(u, v, n, m, first)
<1> DEFINE w == LinkBefore(u, n, m)
<1>1. IsLinked(u, w, n, m)
  BY LinkBeforeFields
<1> HIDE DEF w
<1>2. IsHeap(w)
  BY <1>1 DEF IsLinked
<1>3. v = [w EXCEPT !.gateList = first]
  BY DEF w
<1>4. /\ v.gateList = first /\ v.next = w.next /\ v.prev = w.prev
      /\ v.nodeFreeList = w.nodeFreeList /\ v.allocated = w.allocated /\ v.gate = w.gate
      /\ v.timeIndex = w.timeIndex /\ v.GATE_NEXT = w.GATE_NEXT /\ v.GATE_PREV = w.GATE_PREV
      /\ v.GATE_TIMEQ = w.GATE_TIMEQ /\ IsHeap(v)
  BY <1>2, <1>3 DEF IsHeap
<1> QED
  BY <1>1, <1>4 DEF IsLinked, Links

(* Where the walk of Insert stops.                                         *)
LaterNodes(h, L, t) == {i \in 1 .. Len(L) : CMPTIME64(t, h.timeIndex[L[i]]) <= 0}

(* The nodes at which the walk of ScheduleGate stops are not earlier.      *)
LEMMA WalkStops ==
  ASSUME NEW h \in Heaps, NEW L, NEW R, Holds(h, L, R), NEW t \in Within
  PROVE  /\ LaterNodes(h, L, t) = {i \in 1 .. Len(L) : Value(t) <= Value(h.timeIndex[L[i]])}
         /\ \A i \in 1 .. Len(L) :
              /\ L[i] \in NODE /\ Value(h.timeIndex[L[i]]) \in Nat
              /\ CMPTIME64(t, h.timeIndex[L[i]]) = 0 <=> Value(t) = Value(h.timeIndex[L[i]])
              /\ Value(t) = Value(h.timeIndex[L[i]]) => t = h.timeIndex[L[i]]
         /\ Value(t) \in Nat
<1>1. L \in Seq(NODE) /\ \A i \in 1 .. Len(L) : L[i] \in NODE
  BY ListFacts
<1>2. t \in Time64 /\ \A m \in NODE : h.timeIndex[m] \in Time64
  BY HeapTypes DEF Within
<1>3. Value(t) \in Nat /\ \A m \in NODE : Value(h.timeIndex[m]) \in Nat
  BY <1>2, ValueIsNat
<1>4. ASSUME NEW m \in NODE
      PROVE  /\ CMPTIME64(t, h.timeIndex[m]) <= 0 <=> Value(t) <= Value(h.timeIndex[m])
             /\ CMPTIME64(t, h.timeIndex[m]) = 0 <=> Value(t) = Value(h.timeIndex[m])
             /\ Value(t) = Value(h.timeIndex[m]) => t = h.timeIndex[m]
  <2> DEFINE s == h.timeIndex[m]
  <2>1. s \in Time64 /\ Value(s) \in Nat
    BY <1>2, <1>3
  <2> HIDE DEF s
  <2>2. /\ CMPTIME64(t, s) = IF Value(t) < Value(s) THEN -1 ELSE IF Value(t) = Value(s) THEN 0 ELSE 1
        /\ Value(t) = Value(s) => t = s
    BY <1>2, <2>1, CompareIsOrder
  <2>3. /\ CMPTIME64(t, s) <= 0 <=> Value(t) <= Value(s)
        /\ CMPTIME64(t, s) = 0 <=> Value(t) = Value(s)
    BY <1>3, <2>1, <2>2
  <2> QED
    BY <2>2, <2>3 DEF s
<1> QED
  BY <1>1, <1>3, <1>4 DEF LaterNodes

(* A gate is inserted: list and rings stay closed and in order.            *)
LEMMA InsertHolds ==
  ASSUME NEW h \in Heaps, NEW L, NEW R, Holds(h, L, R), NEW g \in GATE, NEW t \in Within,
         CanAllocate(h), h.GATE_TIMEQ[g] = NULL, NEW v, v = Insert(h, g, t)
  PROVE  v \in Heaps /\ \E L2, R2 : Holds(v, L2, R2) /\ Came(h, v, R, R2, g, t)
<1> DEFINE n == NewNode(h)
           u == TakeNode(h, g, t)
           later == LaterNodes(h, L, t)
           len == Len(L)
           T(i) == Value(h.timeIndex[L[i]])
           k == Min(later)
<1>1. CASE h.gateList = NULL
  BY <1>1, InsertAlone
<1>2. CASE h.gateList # NULL
  <2>1. len \in Nat /\ len > 0 /\ h.gateList = L[1] /\ Circle(h.next, h.gateList) = L
    BY <1>2, ListIs, ListFacts
  <2>2. v = IF later = {} THEN LinkBefore(u, n, h.gateList)
            ELSE IF CMPTIME64(t, h.timeIndex[L[k]]) = 0 THEN JoinRing(h, g, L[k])
            ELSE [LinkBefore(u, n, L[k]) EXCEPT !.gateList = IF @ = L[k] THEN n ELSE @]
    BY <1>2, <2>1 DEF Insert, LaterNodes
  <2>3. IsHeap(u) /\ u.gateList = L[1] /\ u \in Heaps /\ n \in NODE
    <3>1. Takes(h, u, g, t, n) /\ u \in Heaps /\ n \in NODE
      BY TakeHolds
    <3> HIDE DEF u, n
    <3> QED
      BY <2>1, <3>1 DEF Takes
  <2>4. /\ later = {i \in 1 .. len : Value(t) <= T(i)}
        /\ \A i \in 1 .. len :
              /\ L[i] \in NODE /\ T(i) \in Nat
              /\ CMPTIME64(t, h.timeIndex[L[i]]) = 0 <=> Value(t) = T(i)
              /\ Value(t) = T(i) => t = h.timeIndex[L[i]]
        /\ Value(t) \in Nat
    BY WalkStops
  <2>5. \A i, j \in 1 .. len : i < j => T(i) < T(j)
    BY DEF Holds, InOrder
  <2> HIDE DEF T, later
  <2>6. CASE later = {}
    <3> DEFINE m == L[At(len + 1, len)]
    <3>1. m = L[1]
      BY <2>1 DEF At
    <3>2. /\ \A i \in 1 .. len : i < len + 1 => T(i) < Value(t)
          /\ \A i \in 1 .. len : i >= len + 1 => Value(t) < T(i)
      BY <2>1, <2>4, <2>6
    <3>3. v = LinkBefore(u, n, m)
      BY <2>1, <2>2, <2>6, <3>1
    <3> HIDE DEF u, n, m
    <3>4. v = [v EXCEPT !.gateList = v.gateList] /\ v.gateList = L[1]
      <4>1. IsLinked(u, v, n, m)
        BY <2>3, <3>3, LinkBeforeFields
      <4> QED
        BY <2>3, <4>1 DEF IsLinked, IsHeap
    <3>5. v = [LinkBefore(u, n, m) EXCEPT !.gateList = L[1]]
      BY <3>3, <3>4
    <3>6. Links(u, v, n, m, L[1])
      BY <2>3, <3>5, LinkedFields
    <3> DEFINE c == len + 1
    <3>7. c # 1 /\ c \in 1 .. len + 1 /\ m = L[At(c, len)]
      BY <2>1 DEF m
    <3>8. /\ \A i \in 1 .. len : i < c => T(i) < Value(t)
          /\ \A i \in 1 .. len : i >= c => Value(t) < T(i)
      BY <3>2
    <3> HIDE DEF c, len
    <3>9. Links(u, v, n, m, IF c = 1 THEN n ELSE h.gateList)
      BY <2>1, <3>6, <3>7
    <3>10. len = Len(L)
      BY DEF len
    <3> QED
      BY <2>1, <3>7, <3>8, <3>9, <3>10, LinkHolds DEF T, u, n
  <2>7. CASE later # {}
    <3>1. k \in later /\ \A x \in later : k <= x
      <4>1. later \in SUBSET Nat
        BY <2>4
      <4> QED
        BY <2>7, <4>1, MinExists
    <3> HIDE DEF k
    <3>2. k \in 1 .. len /\ Value(t) <= T(k) /\ \A i \in 1 .. len : i < k => T(i) < Value(t)
      <4>1. \A i \in 1 .. len : i < k => i \notin later
        BY <3>1, <2>4
      <4> QED
        BY <2>4, <3>1, <4>1, SMTT(30)
    <3> DEFINE m == L[k]
    <3>3. m \in NODE
      BY <2>4, <3>2
    <3>4. CASE Value(t) = T(k)
      <4>1. v = JoinRing(h, g, m) /\ t = h.timeIndex[m]
        BY <2>2, <2>4, <2>7, <3>2, <3>4 DEF k
      <4>2. Len(R[m]) # 0
        BY <3>2, <3>3 DEF Holds, GatesLinked, RingAt, OnList
      <4> QED
        BY <3>3, <4>1, <4>2, JoinHolds
    <3>5. CASE Value(t) # T(k)
      <4>1. /\ \A i \in 1 .. len : i < k => T(i) < Value(t)
            /\ \A i \in 1 .. len : i >= k => Value(t) < T(i)
        <5>1. ASSUME NEW i \in 1 .. len, i >= k PROVE Value(t) < T(i)
          <6>1. i = k \/ k < i
            BY <3>2, <5>1
          <6>2. T(i) \in Nat /\ T(k) \in Nat /\ (k < i => T(k) < T(i))
            BY <2>4, <2>5, <3>2
          <6>3. Value(t) < T(k)
            BY <2>4, <3>2, <3>5, <6>2
          <6> QED
            BY <2>4, <6>1, <6>2, <6>3
        <5> QED
          BY <3>2, <5>1
      <4>2. v = [LinkBefore(u, n, m) EXCEPT !.gateList = IF @ = m THEN n ELSE @]
        BY <2>2, <2>4, <2>7, <3>2, <3>5 DEF k
      <4> HIDE DEF u, n, m
      <4>3. LinkBefore(u, n, m).gateList = L[1]
        <5> DEFINE w == LinkBefore(u, n, m)
        <5>1. IsLinked(u, w, n, m)
          BY <2>3, LinkBeforeFields
        <5> HIDE DEF w
        <5>2. w.gateList = L[1]
          BY <2>3, <5>1 DEF IsLinked
        <5> QED
          BY <5>2 DEF w
      <4>4. v = [LinkBefore(u, n, m) EXCEPT !.gateList = IF L[1] = m THEN n ELSE L[1]]
        BY <4>2, <4>3
      <4>5. L[1] = m <=> k = 1
        <5>1. Distinct(L) /\ 1 \in 1 .. len
          BY <2>1, ListFacts
        <5> QED
          BY <3>2, <5>1 DEF Distinct, m
      <4>6. Links(u, v, n, m, IF L[1] = m THEN n ELSE L[1])
        BY <2>3, <4>4, LinkedFields
      <4>7. Links(u, v, n, m, IF k = 1 THEN n ELSE h.gateList)
        BY <2>1, <4>5, <4>6
      <4>8. k \in 1 .. len + 1 /\ m = L[At(k, len)]
        BY <2>1, <3>2 DEF At, m
      <4> HIDE DEF len
      <4>9. len = Len(L)
        BY DEF len
      <4> QED
        BY <2>1, <4>1, <4>7, <4>8, <4>9, LinkHolds DEF T, u, n
    <3> QED
      BY <3>4, <3>5
  <2> QED
    BY <2>6, <2>7
<1> QED
  BY <1>1, <1>2

(* The gates in the order in which they fire.                              *)
TimeOf(h, g) == h.timeIndex[h.GATE_TIMEQ[g]]
OnTime(h, g) == Value(TimeOf(h, g))
Ahead(R, a, b) ==
  \E m \in NODE : \E x, y \in 1 .. Len(R[m]) : x < y /\ R[m][x] = a /\ R[m][y] = b
Earlier(h, R, a, b) == OnTime(h, a) < OnTime(h, b) \/ Ahead(R, a, b)
Fires(h, A) == \A g \in GATE : h.GATE_TIMEQ[g] # NULL <=> \E k \in 1 .. Len(A) : A[k] = g
IsAgenda(h, R, A) ==
  /\ A \in Seq(GATE) /\ Fires(h, A)
  /\ \A i, j \in 1 .. Len(A) : i < j => Earlier(h, R, A[i], A[j])

(* A gate that is scheduled has a node and a time.                         *)
LEMMA TimeFacts ==
  ASSUME NEW h \in Heaps, NEW g \in GATE, h.GATE_TIMEQ[g] # NULL
  PROVE  h.GATE_TIMEQ[g] \in NODE /\ TimeOf(h, g) \in Within /\ OnTime(h, g) \in Nat
<1>1. h.GATE_TIMEQ[g] \in NODE
  BY HeapTypes
<1>2. TimeOf(h, g) \in Within
  BY <1>1, HeapTypes DEF TimeOf
<1>3. TimeOf(h, g) \in Time64
  BY <1>2 DEF Within
<1> QED
  BY <1>1, <1>2, <1>3, ValueIsNat DEF OnTime

(* The order in which gates fire is an order of time.                      *)
LEMMA AgendaFacts ==
  ASSUME NEW h \in Heaps, NEW L, NEW R, Holds(h, L, R), NEW A, IsAgenda(h, R, A)
  PROVE  /\ Len(A) \in Nat
         /\ \A i \in 1 .. Len(A) : A[i] \in GATE /\ h.GATE_TIMEQ[A[i]] # NULL /\ OnTime(h, A[i]) \in Nat
         /\ \A i, j \in 1 .. Len(A) : i < j => A[i] # A[j] /\ OnTime(h, A[i]) <= OnTime(h, A[j])
         /\ Distinct(A)
<1>1. Len(A) \in Nat /\ \A i \in 1 .. Len(A) : A[i] \in GATE
  BY LenProperties DEF IsAgenda
<1>2. \A i \in 1 .. Len(A) : h.GATE_TIMEQ[A[i]] # NULL
  BY <1>1 DEF IsAgenda, Fires
<1>3. \A i \in 1 .. Len(A) : OnTime(h, A[i]) \in Nat
  BY <1>1, <1>2, TimeFacts
<1>4. ASSUME NEW a \in GATE, NEW b \in GATE, Ahead(R, a, b) PROVE a # b /\ OnTime(h, a) = OnTime(h, b)
  <2>1. PICK m \in NODE : \E x, y \in 1 .. Len(R[m]) : x < y /\ R[m][x] = a /\ R[m][y] = b
    BY <1>4 DEF Ahead
  <2>2. PICK x \in 1 .. Len(R[m]), y \in 1 .. Len(R[m]) : x < y /\ R[m][x] = a /\ R[m][y] = b
    BY <2>1
  <2>3. Distinct(R[m]) /\ h.GATE_TIMEQ[a] = m /\ h.GATE_TIMEQ[b] = m
    <3>1. Distinct(R[m])
      BY RingFacts
    <3>2. h.GATE_TIMEQ[a] = m
      BY <2>2, EntryOfRing
    <3>3. h.GATE_TIMEQ[b] = m
      BY <2>2, EntryOfRing
    <3> QED
      BY <3>1, <3>2, <3>3
  <2>4. a # b
    BY <2>2, <2>3 DEF Distinct
  <2> QED
    BY <2>3, <2>4 DEF OnTime, TimeOf
<1>5. ASSUME NEW i \in 1 .. Len(A), NEW j \in 1 .. Len(A), i < j
      PROVE  A[i] # A[j] /\ OnTime(h, A[i]) <= OnTime(h, A[j])
  <2>1. Earlier(h, R, A[i], A[j])
    BY <1>5 DEF IsAgenda
  <2>2. OnTime(h, A[i]) \in Nat /\ OnTime(h, A[j]) \in Nat /\ A[i] \in GATE /\ A[j] \in GATE
    BY <1>1, <1>3
  <2>3. CASE OnTime(h, A[i]) < OnTime(h, A[j])
    <3>1. A[i] # A[j]
      BY <2>2, <2>3
    <3> QED
      BY <2>2, <2>3, <3>1
  <2>4. CASE Ahead(R, A[i], A[j])
    <3>1. A[i] # A[j] /\ OnTime(h, A[i]) = OnTime(h, A[j])
      BY <1>4, <2>2, <2>4
    <3> QED
      BY <2>2, <3>1
  <2> QED
    BY <2>1, <2>3, <2>4 DEF Earlier
<1>6. Distinct(A)
  <2>1. \A i, j \in 1 .. Len(A) : i < j \/ i = j \/ j < i
    BY <1>1
  <2> QED
    BY <1>5, <2>1 DEF Distinct
<1> QED
  BY <1>1, <1>2, <1>3, <1>5, <1>6

(* The other gates stay where they are, at their times.                    *)
OthersStay(h, v, g) ==
  \A u \in GATE : u # g =>
    /\ v.GATE_TIMEQ[u] = h.GATE_TIMEQ[u]
    /\ h.GATE_TIMEQ[u] # NULL => TimeOf(v, u) = TimeOf(h, u)

(* When a gate leaves, the others fire in the same order.                  *)
LEMMA LeftOrder ==
  ASSUME NEW h \in Heaps, NEW L, NEW R, Holds(h, L, R), NEW A, IsAgenda(h, R, A),
         NEW v \in Heaps, NEW L2, NEW R2, Holds(v, L2, R2), NEW g \in GATE, Left(h, v, R, R2, g)
  PROVE  /\ v.GATE_TIMEQ[g] = NULL /\ OthersStay(h, v, g)
         /\ \E k \in 1 .. Len(A) : A[k] = g /\ IsAgenda(v, R2, RemoveAt(A, k))
<1>1. PICK n \in NODE : \E x \in 1 .. Len(R[n]) :
        /\ R[n][x] = g
        /\ Dropped(R, R2, n, x)
        /\ v.GATE_TIMEQ = [h.GATE_TIMEQ EXCEPT ![g] = NULL]
        /\ \A m \in NODE : Len(R2[m]) # 0 => v.timeIndex[m] = h.timeIndex[m]
  BY DEF Left
<1>2. PICK x \in 1 .. Len(R[n]) :
        /\ R[n][x] = g
        /\ Dropped(R, R2, n, x)
        /\ v.GATE_TIMEQ = [h.GATE_TIMEQ EXCEPT ![g] = NULL]
        /\ \A m \in NODE : Len(R2[m]) # 0 => v.timeIndex[m] = h.timeIndex[m]
  BY <1>1
<1>3. v.GATE_TIMEQ[g] = NULL /\ \A u \in GATE : u # g => v.GATE_TIMEQ[u] = h.GATE_TIMEQ[u]
  BY <1>2, HeapTypes
<1>4. OthersStay(h, v, g)
  <2> SUFFICES ASSUME NEW u \in GATE, u # g, h.GATE_TIMEQ[u] # NULL PROVE TimeOf(v, u) = TimeOf(h, u)
    BY <1>3 DEF OthersStay
  <2> DEFINE m == h.GATE_TIMEQ[u]
  <2>1. v.GATE_TIMEQ[u] = m
    BY <1>3
  <2>2. m \in NODE
    BY TimeFacts
  <2> HIDE DEF m
  <2>3. Len(R2[m]) # 0
    <3>1. m # NULL
      BY <2>2, QueueAssumption
    <3>2. \E y \in 1 .. Len(R2[m]) : R2[m][y] = u
      BY <2>1, <3>1, WhereGateIs
    <3>3. Len(R2[m]) \in Nat
      BY <2>2, RingFacts
    <3> QED
      BY <3>2, <3>3
  <2>4. v.timeIndex[m] = h.timeIndex[m]
    BY <1>2, <2>2, <2>3
  <2> QED
    BY <2>1, <2>4 DEF TimeOf, m
<1>5. PICK k \in 1 .. Len(A) : A[k] = g
  <2>1. h.GATE_TIMEQ[g] = n /\ n # NULL
    <3>1. h.GATE_TIMEQ[g] = n
      BY <1>2, EntryOfRing
    <3> QED
      BY <3>1, QueueAssumption
  <2> QED
    BY <2>1 DEF IsAgenda, Fires
<1> DEFINE B == RemoveAt(A, k)
           len == Len(A)
<1>6. /\ A \in Seq(GATE) /\ len \in Nat
      /\ \A i \in 1 .. len : A[i] \in GATE /\ h.GATE_TIMEQ[A[i]] # NULL
      /\ \A i, j \in 1 .. len : A[i] = A[j] => i = j
      /\ \A i, j \in 1 .. len : i < j => Earlier(h, R, A[i], A[j])
  BY AgendaFacts DEF IsAgenda, Distinct
<1>7. /\ B \in Seq(GATE) /\ Len(B) = len - 1
      /\ \A i \in 1 .. len - 1 : B[i] = A[Skip(k, i)] /\ Skip(k, i) \in 1 .. len /\ Skip(k, i) # k
  <2>1. /\ B \in Seq(GATE) /\ Len(B) = len - 1
        /\ \A i \in 1 .. len - 1 : B[i] = A[Skip(k, i)]
    BY <1>6, RemoveAtFacts DEF Skip
  <2> HIDE DEF B
  <2>2. \A i \in 1 .. len - 1 : Skip(k, i) \in 1 .. len /\ Skip(k, i) # k
    BY <1>6 DEF Skip
  <2> QED
    BY <2>1, <2>2
<1> HIDE DEF B
<1>8. ASSUME NEW a \in GATE, NEW b \in GATE, a # g, b # g, Ahead(R, a, b) PROVE Ahead(R2, a, b)
  <2>1. PICK m \in NODE : \E y, z \in 1 .. Len(R[m]) : y < z /\ R[m][y] = a /\ R[m][z] = b
    BY <1>8 DEF Ahead
  <2>2. PICK y \in 1 .. Len(R[m]), z \in 1 .. Len(R[m]) : y < z /\ R[m][y] = a /\ R[m][z] = b
    BY <2>1
  <2>3. R \in [NODE -> Seq(GATE)]
    BY DEF Holds
  <2>4. CASE m # n
    <3>1. R2[m] = R[m]
      BY <1>2, <2>3, <2>4 DEF Dropped
    <3> QED
      BY <2>2, <3>1 DEF Ahead
  <2>5. CASE m = n
    <3>1. R2[n] = RemoveAt(R[n], x)
      BY <1>2, <2>3 DEF Dropped
    <3>2. R[n] \in Seq(GATE) /\ Len(R[n]) \in Nat
      BY RingFacts
    <3>3. /\ Len(R2[n]) = Len(R[n]) - 1
          /\ \A i \in 1 .. Len(R[n]) - 1 : R2[n][i] = R[n][Skip(x, i)]
      BY <3>1, <3>2, RemoveAtFacts DEF Skip
    <3>4. y # x /\ z # x
      BY <1>2, <1>8, <2>2, <2>5
    <3> DEFINE c == Len(R[n])
    <3>5. c \in Nat /\ x \in 1 .. c /\ y \in 1 .. c /\ z \in 1 .. c /\ y < z
      BY <2>2, <2>5, <3>2
    <3> HIDE DEF c
    <3>6. /\ Unskip(x, y) \in 1 .. c - 1 /\ Unskip(x, z) \in 1 .. c - 1 /\ Unskip(x, y) < Unskip(x, z)
          /\ Skip(x, Unskip(x, y)) = y /\ Skip(x, Unskip(x, z)) = z
      BY <3>4, <3>5 DEF Skip, Unskip
    <3>7. R2[n][Unskip(x, y)] = a /\ R2[n][Unskip(x, z)] = b
      BY <2>2, <2>5, <3>3, <3>6 DEF c
    <3> QED
      BY <3>3, <3>6, <3>7 DEF Ahead, c
  <2> QED
    BY <2>4, <2>5
<1>9. ASSUME NEW i \in 1 .. len - 1, NEW j \in 1 .. len - 1, i < j PROVE Earlier(v, R2, B[i], B[j])
  <2> DEFINE a == B[i]
             b == B[j]
  <2>1. a = A[Skip(k, i)] /\ b = A[Skip(k, j)] /\ a \in GATE /\ b \in GATE /\ a # g /\ b # g
    BY <1>5, <1>6, <1>7
  <2>2. Skip(k, i) < Skip(k, j)
    BY <1>6, <1>9 DEF Skip
  <2>3. Earlier(h, R, a, b) /\ h.GATE_TIMEQ[a] # NULL /\ h.GATE_TIMEQ[b] # NULL
    BY <1>6, <1>7, <2>1, <2>2
  <2>4. OnTime(v, a) = OnTime(h, a) /\ OnTime(v, b) = OnTime(h, b)
    BY <1>4, <2>1, <2>3 DEF OthersStay, OnTime
  <2> QED
    BY <1>8, <2>1, <2>3, <2>4 DEF Earlier
<1>10. Fires(v, B)
  <2> SUFFICES ASSUME NEW u \in GATE
               PROVE  v.GATE_TIMEQ[u] # NULL <=> \E i \in 1 .. len - 1 : B[i] = u
    BY <1>7 DEF Fires
  <2>1. h.GATE_TIMEQ[u] # NULL <=> \E i \in 1 .. len : A[i] = u
    BY DEF IsAgenda, Fires
  <2>2. ASSUME NEW i \in 1 .. len - 1, B[i] = u PROVE v.GATE_TIMEQ[u] # NULL
    <3>1. u # g /\ h.GATE_TIMEQ[u] # NULL
      <4>1. Skip(k, i) \in 1 .. len /\ Skip(k, i) # k /\ A[Skip(k, i)] = u
        BY <1>7, <2>2
      <4>2. u # g
        BY <1>5, <1>6, <4>1
      <4> QED
        BY <1>6, <4>1, <4>2
    <3> QED
      BY <1>3, <3>1
  <2>3. ASSUME NEW i \in 1 .. len, A[i] = u, u # g PROVE \E j \in 1 .. len - 1 : B[j] = u
    <3>1. i # k
      BY <1>5, <2>3
    <3>2. Unskip(k, i) \in 1 .. len - 1 /\ Skip(k, Unskip(k, i)) = i
      BY <1>6, <3>1 DEF Skip, Unskip
    <3> QED
      BY <1>7, <2>3, <3>2
  <2>4. CASE u = g
    BY <1>3, <2>2, <2>4
  <2>5. CASE u # g
    <3>1. v.GATE_TIMEQ[u] = h.GATE_TIMEQ[u]
      BY <1>3, <2>5
    <3> QED
      BY <2>1, <2>2, <2>3, <2>5, <3>1
  <2> QED
    BY <2>4, <2>5
<1>11. IsAgenda(v, R2, B)
  BY <1>7, <1>9, <1>10 DEF IsAgenda
<1> QED
  BY <1>3, <1>4, <1>5, <1>11 DEF B

(* Place k of A is behind all that are not later than t.                   *)
IsBehind(h, A, t, k) ==
  /\ k \in 1 .. Len(A) + 1
  /\ \A i \in 1 .. Len(A) : i < k => OnTime(h, A[i]) <= Value(t)
  /\ \A i \in 1 .. Len(A) : i >= k => Value(t) < OnTime(h, A[i])

(* There is a place behind the gates that are not later.                   *)
LEMMA PlaceExists ==
  ASSUME NEW h \in Heaps, NEW L, NEW R, Holds(h, L, R), NEW A, IsAgenda(h, R, A), NEW t \in Within
  PROVE  \E k : IsBehind(h, A, t, k)
<1> DEFINE n == Len(A)
           T(i) == OnTime(h, A[i])
           late == {i \in 1 .. n : Value(t) < T(i)} \cup {n + 1}
           k == Min(late)
<1>1. /\ n \in Nat /\ \A i \in 1 .. n : T(i) \in Nat
      /\ \A i, j \in 1 .. n : i < j => T(i) <= T(j)
  BY AgendaFacts
<1>2. Value(t) \in Nat
  BY ValueIsNat DEF Within
<1> HIDE DEF n, T
<1>3. k \in late /\ \A x \in late : k <= x
  <2>1. late \in SUBSET Nat /\ late # {}
    BY <1>1
  <2> HIDE DEF late
  <2> QED
    BY <2>1, MinExists
<1> HIDE DEF k
<1>4. k \in 1 .. n + 1
  BY <1>1, <1>3
<1>5. \A i \in 1 .. n : i < k => T(i) <= Value(t)
  <2> SUFFICES ASSUME NEW i \in 1 .. n, i < k, Value(t) < T(i) PROVE FALSE
    BY <1>1, <1>2
  <2>1. i \in late
    OBVIOUS
  <2> QED
    BY <1>3, <1>4, <2>1
<1>6. ASSUME NEW i \in 1 .. n, i >= k PROVE Value(t) < T(i)
  <2>1. k \in 1 .. n /\ Value(t) < T(k)
    BY <1>1, <1>3, <1>4, <1>6
  <2>2. i = k \/ k < i
    BY <1>6, <2>1
  <2>3. T(k) <= T(i) \/ i = k
    BY <1>1, <2>1, <2>2
  <2> QED
    BY <1>1, <1>2, <2>1, <2>3
<1> QED
  BY <1>4, <1>5, <1>6 DEF IsBehind, n, T

(* A gate that comes fires behind those that are not later than it.        *)
LEMMA CameOrder ==
  ASSUME NEW h \in Heaps, NEW L, NEW R, Holds(h, L, R), NEW A, IsAgenda(h, R, A),
         NEW v \in Heaps, NEW L2, NEW R2, Holds(v, L2, R2), NEW g \in GATE, h.GATE_TIMEQ[g] = NULL,
         NEW t \in Within, Came(h, v, R, R2, g, t), NEW k, IsBehind(h, A, t, k)
  PROVE  /\ v.GATE_TIMEQ[g] # NULL /\ TimeOf(v, g) = t /\ OthersStay(h, v, g)
         /\ IsAgenda(v, R2, InsertAt(A, k, g))
<1>1. PICK n \in NODE :
        /\ Added(R, R2, n, g)
        /\ v.GATE_TIMEQ = [h.GATE_TIMEQ EXCEPT ![g] = n]
        /\ v.timeIndex[n] = t
        /\ \A m \in NODE : Len(R[m]) # 0 => v.timeIndex[m] = h.timeIndex[m]
  BY DEF Came
<1>2. n # NULL /\ v.GATE_TIMEQ[g] = n /\ \A u \in GATE : u # g => v.GATE_TIMEQ[u] = h.GATE_TIMEQ[u]
  BY <1>1, HeapTypes, QueueAssumption
<1>3. TimeOf(v, g) = t
  BY <1>1, <1>2 DEF TimeOf
<1>4. OthersStay(h, v, g)
  <2> SUFFICES ASSUME NEW u \in GATE, u # g, h.GATE_TIMEQ[u] # NULL PROVE TimeOf(v, u) = TimeOf(h, u)
    BY <1>2 DEF OthersStay
  <2> DEFINE m == h.GATE_TIMEQ[u]
  <2>1. v.GATE_TIMEQ[u] = m
    BY <1>2
  <2>2. m \in NODE
    BY TimeFacts
  <2>4. \E y \in 1 .. Len(R[m]) : R[m][y] = u
    BY WhereGateIs
  <2> HIDE DEF m
  <2>3. Len(R[m]) # 0
    <3>1. Len(R[m]) \in Nat
      BY <2>2, RingFacts
    <3> QED
      BY <2>4, <3>1
  <2>5. v.timeIndex[m] = h.timeIndex[m]
    BY <1>1, <2>2, <2>3
  <2> QED
    BY <2>1, <2>5 DEF TimeOf, m
<1> DEFINE B == InsertAt(A, k, g)
           len == Len(A)
<1>5. /\ A \in Seq(GATE) /\ len \in Nat
      /\ \A i \in 1 .. len : A[i] \in GATE /\ h.GATE_TIMEQ[A[i]] # NULL /\ A[i] # g
      /\ \A i, j \in 1 .. len : i < j => Earlier(h, R, A[i], A[j])
      /\ \A i \in 1 .. len : OnTime(h, A[i]) \in Nat
  BY AgendaFacts DEF IsAgenda
<1>6. /\ k \in 1 .. len + 1
      /\ \A i \in 1 .. len : i < k => OnTime(h, A[i]) <= Value(t)
      /\ \A i \in 1 .. len : i >= k => Value(t) < OnTime(h, A[i])
  BY DEF IsBehind
<1>7. /\ B \in Seq(GATE) /\ Len(B) = len + 1
      /\ \A i \in 1 .. len + 1 : B[i] = IF i = k THEN g ELSE A[Unskip(k, i)]
      /\ \A i \in 1 .. len + 1 : i # k => Unskip(k, i) \in 1 .. len
  <2>1. B \in Seq(GATE) /\ Widened(A, B, k, g)
    BY <1>5, <1>6, InsertAtFacts
  <2>2. /\ Len(B) = len + 1
        /\ \A i \in 1 .. len + 1 : B[i] = IF i < k THEN A[i] ELSE IF i = k THEN g ELSE A[i - 1]
    BY <2>1 DEF Widened
  <2> HIDE DEF B
  <2>3. \A i \in 1 .. len + 1 : B[i] = IF i = k THEN g ELSE A[Unskip(k, i)]
    BY <1>5, <1>6, <2>2 DEF Unskip
  <2>4. \A i \in 1 .. len + 1 : i # k => Unskip(k, i) \in 1 .. len
    BY <1>5, <1>6 DEF Unskip
  <2> QED
    BY <2>1, <2>2, <2>3, <2>4
<1> HIDE DEF B
<1>8. Filled(R, R2, n, g)
  BY <1>1, FilledBy DEF Holds
<1>9. ASSUME NEW a \in GATE, NEW b \in GATE, Ahead(R, a, b) PROVE Ahead(R2, a, b)
  <2>1. PICK m \in NODE : \E y, z \in 1 .. Len(R[m]) : y < z /\ R[m][y] = a /\ R[m][z] = b
    BY <1>9 DEF Ahead
  <2>2. PICK y \in 1 .. Len(R[m]), z \in 1 .. Len(R[m]) : y < z /\ R[m][y] = a /\ R[m][z] = b
    BY <2>1
  <2>3. CASE m # n
    <3>1. R2[m] = R[m]
      BY <1>8, <2>3 DEF Filled
    <3> QED
      BY <2>2, <3>1 DEF Ahead
  <2>4. CASE m = n
    <3>1. R2[n] = Append(R[n], g) /\ R[n] \in Seq(GATE)
      BY <1>8, RingFacts DEF Filled
    <3>2. /\ y \in 1 .. Len(R2[n]) /\ z \in 1 .. Len(R2[n])
          /\ R2[n][y] = R[n][y] /\ R2[n][z] = R[n][z]
      BY <2>4, <3>1
    <3> QED
      BY <2>2, <2>4, <3>2 DEF Ahead
  <2> QED
    BY <2>3, <2>4
<1>10. ASSUME NEW a \in GATE, h.GATE_TIMEQ[a] # NULL, OnTime(h, a) = Value(t), a # g PROVE Ahead(R2, a, g)
  <2> DEFINE m == h.GATE_TIMEQ[a]
  <2>1. m \in NODE /\ v.GATE_TIMEQ[a] = m
    BY <1>2, <1>10, TimeFacts
  <2>2. v.timeIndex[m] = h.timeIndex[m]
    <3>1. TimeOf(v, a) = TimeOf(h, a)
      BY <1>4, <1>10 DEF OthersStay
    <3> QED
      BY <2>1, <3>1 DEF TimeOf
  <2>3. Value(v.timeIndex[m]) = Value(t)
    BY <1>10, <2>2 DEF OnTime, TimeOf
  <2> HIDE DEF m
  <2>4. m # NULL
    BY <2>1, QueueAssumption
  <2>5. PICK i \in 1 .. Len(L2) : L2[i] = m
    BY <2>1, <2>4, WhereGateIs
  <2>6. PICK j \in 1 .. Len(L2) : L2[j] = n
    BY <1>2, WhereGateIs
  <2>7. Value(v.timeIndex[L2[i]]) = Value(t) /\ Value(v.timeIndex[L2[j]]) = Value(t) /\ Value(t) \in Nat
    BY <1>1, <2>3, <2>5, <2>6, ValueIsNat DEF Within
  <2>8. i = j
    <3>1. ~(i < j) /\ ~(j < i)
      BY <2>7, SMTT(30) DEF Holds, InOrder
    <3>2. Len(L2) \in Nat
      BY ListFacts
    <3> QED
      BY <3>1, <3>2
  <2>9. m = n
    BY <2>5, <2>6, <2>8
  <2>10. PICK y \in 1 .. Len(R[n]) : R[n][y] = a
    BY <1>10, <2>9, WhereGateIs DEF m
  <2>11. R2[n] = Append(R[n], g) /\ R[n] \in Seq(GATE) /\ Len(R[n]) \in Nat
    BY <1>8, RingFacts DEF Filled
  <2> DEFINE c == Len(R[n])
  <2>12. /\ Len(R2[n]) = c + 1 /\ R2[n][c + 1] = g /\ R2[n][y] = a /\ y < c + 1
         /\ y \in 1 .. c + 1 /\ c + 1 \in 1 .. c + 1
    BY <2>10, <2>11
  <2> HIDE DEF c
  <2> QED
    BY <2>12 DEF Ahead
<1>11. ASSUME NEW i \in 1 .. len + 1, NEW j \in 1 .. len + 1, i < j PROVE Earlier(v, R2, B[i], B[j])
  <2>1. /\ i = k => B[i] = g /\ j # k /\ Unskip(k, j) >= k
        /\ j = k => B[j] = g /\ i # k /\ Unskip(k, i) < k
        /\ i # k => B[i] = A[Unskip(k, i)] /\ Unskip(k, i) \in 1 .. len
        /\ j # k => B[j] = A[Unskip(k, j)] /\ Unskip(k, j) \in 1 .. len
        /\ i # k /\ j # k => Unskip(k, i) < Unskip(k, j)
    <3>1. /\ i = k => j # k /\ Unskip(k, j) >= k
          /\ j = k => i # k /\ Unskip(k, i) < k
          /\ i # k /\ j # k => Unskip(k, i) < Unskip(k, j)
      BY <1>5, <1>6, <1>11 DEF Unskip
    <3> QED
      BY <1>7, <3>1
  <2>2. \A e \in 1 .. len : OnTime(v, A[e]) = OnTime(h, A[e])
    BY <1>4, <1>5 DEF OthersStay, OnTime
  <2>3. OnTime(v, g) = Value(t)
    BY <1>3 DEF OnTime
  <2>4. CASE i = k
    BY <1>6, <2>1, <2>2, <2>3, <2>4 DEF Earlier
  <2>5. CASE j = k
    <3> DEFINE a == A[Unskip(k, i)]
    <3>1. a \in GATE /\ h.GATE_TIMEQ[a] # NULL /\ a # g /\ OnTime(h, a) \in Nat /\ OnTime(h, a) <= Value(t)
      BY <1>5, <1>6, <2>1, <2>5
    <3>2. OnTime(v, a) = OnTime(h, a) /\ B[i] = a /\ B[j] = g
      BY <2>1, <2>2, <2>5
    <3> HIDE DEF a
    <3>3. Value(t) \in Nat
      BY ValueIsNat DEF Within
    <3>4. CASE OnTime(h, a) < Value(t)
      BY <2>3, <3>2, <3>4 DEF Earlier
    <3>5. CASE OnTime(h, a) = Value(t)
      BY <1>10, <3>1, <3>2, <3>5 DEF Earlier
    <3> QED
      BY <3>1, <3>3, <3>4, <3>5
  <2>6. CASE i # k /\ j # k
    <3> DEFINE a == A[Unskip(k, i)]
               b == A[Unskip(k, j)]
    <3>1. B[i] = a /\ B[j] = b /\ Earlier(h, R, a, b) /\ a \in GATE /\ b \in GATE
      BY <1>5, <2>1, <2>6
    <3>2. OnTime(v, a) = OnTime(h, a) /\ OnTime(v, b) = OnTime(h, b)
      BY <2>1, <2>2, <2>6
    <3> HIDE DEF a, b
    <3> QED
      BY <1>9, <3>1, <3>2 DEF Earlier
  <2> QED
    BY <2>4, <2>5, <2>6
<1>12. Fires(v, B)
  <2> SUFFICES ASSUME NEW u \in GATE
               PROVE  v.GATE_TIMEQ[u] # NULL <=> \E i \in 1 .. len + 1 : B[i] = u
    BY <1>7 DEF Fires
  <2>1. h.GATE_TIMEQ[u] # NULL <=> \E i \in 1 .. len : A[i] = u
    BY DEF IsAgenda, Fires
  <2>2. CASE u = g
    <3>1. B[k] = u
      BY <1>6, <1>7, <2>2
    <3> QED
      BY <1>2, <1>6, <2>2, <3>1
  <2>3. CASE u # g
    <3>1. v.GATE_TIMEQ[u] = h.GATE_TIMEQ[u]
      BY <1>2, <2>3
    <3>2. ASSUME NEW i \in 1 .. len, A[i] = u PROVE \E j \in 1 .. len + 1 : B[j] = u
      <4>1. Skip(k, i) \in 1 .. len + 1 /\ Skip(k, i) # k /\ Unskip(k, Skip(k, i)) = i
        BY <1>5, <1>6 DEF Skip, Unskip
      <4> QED
        BY <1>7, <3>2, <4>1
    <3>3. ASSUME NEW j \in 1 .. len + 1, B[j] = u PROVE \E i \in 1 .. len : A[i] = u
      BY <1>7, <2>3, <3>3
    <3> QED
      BY <2>1, <3>1, <3>2, <3>3
  <2> QED
    BY <2>2, <2>3
<1>13. IsAgenda(v, R2, B)
  BY <1>7, <1>11, <1>12 DEF IsAgenda
<1> QED
  BY <1>2, <1>3, <1>4, <1>13 DEF B

(* What the pointers hold, with the gates in the order in which they fire. *)
Queue(h, A) == \E L, R : Holds(h, L, R) /\ IsAgenda(h, R, A)

(* What the order says of the gates.                                       *)
LEMMA QueueFacts ==
  ASSUME NEW h \in Heaps, NEW A, Queue(h, A)
  PROVE  /\ A \in Seq(GATE) /\ Len(A) \in Nat /\ Distinct(A) /\ Fires(h, A)
         /\ \A i \in 1 .. Len(A) : A[i] \in GATE /\ h.GATE_TIMEQ[A[i]] # NULL /\ OnTime(h, A[i]) \in Nat
         /\ \A i, j \in 1 .. Len(A) : i < j => OnTime(h, A[i]) <= OnTime(h, A[j])
<1>1. PICK L, R : Holds(h, L, R) /\ IsAgenda(h, R, A)
  BY DEF Queue
<1> QED
  BY <1>1, AgendaFacts DEF IsAgenda

(* RemoveGate takes the gate out of the order and nothing else.            *)
LEMMA RemoveStep ==
  ASSUME NEW h \in Heaps, NEW A, Queue(h, A), NEW g \in GATE, h.GATE_TIMEQ[g] # NULL,
         NEW v, v = RemoveGate(h, g)
  PROVE  /\ v \in Heaps /\ v.GATE_TIMEQ[g] = NULL /\ OthersStay(h, v, g)
         /\ \E k \in 1 .. Len(A) : A[k] = g /\ Queue(v, RemoveAt(A, k))
<1>1. PICK L, R : Holds(h, L, R) /\ IsAgenda(h, R, A)
  BY DEF Queue
<1>2. v \in Heaps /\ \E L2, R2 : Holds(v, L2, R2) /\ Left(h, v, R, R2, g)
  BY <1>1, RemoveHolds
<1>3. PICK L2, R2 : Holds(v, L2, R2) /\ Left(h, v, R, R2, g)
  BY <1>2
<1>4. /\ v.GATE_TIMEQ[g] = NULL /\ OthersStay(h, v, g)
      /\ \E k \in 1 .. Len(A) : A[k] = g /\ IsAgenda(v, R2, RemoveAt(A, k))
  BY <1>1, <1>2, <1>3, LeftOrder
<1> QED
  BY <1>2, <1>3, <1>4 DEF Queue

(* The insertion puts the gate in its place in the order.                  *)
LEMMA InsertStep ==
  ASSUME NEW h \in Heaps, NEW A, Queue(h, A), NEW g \in GATE, h.GATE_TIMEQ[g] = NULL, CanAllocate(h),
         NEW t \in Within, NEW v, v = Insert(h, g, t)
  PROVE  /\ v \in Heaps /\ v.GATE_TIMEQ[g] # NULL /\ TimeOf(v, g) = t /\ OthersStay(h, v, g)
         /\ \E k : IsBehind(h, A, t, k) /\ Queue(v, InsertAt(A, k, g))
<1>1. PICK L, R : Holds(h, L, R) /\ IsAgenda(h, R, A)
  BY DEF Queue
<1>2. v \in Heaps /\ \E L2, R2 : Holds(v, L2, R2) /\ Came(h, v, R, R2, g, t)
  BY <1>1, InsertHolds
<1>3. PICK L2, R2 : Holds(v, L2, R2) /\ Came(h, v, R, R2, g, t)
  BY <1>2
<1>4. PICK k : IsBehind(h, A, t, k)
  BY <1>1, PlaceExists
<1>5. /\ v.GATE_TIMEQ[g] # NULL /\ TimeOf(v, g) = t /\ OthersStay(h, v, g)
      /\ IsAgenda(v, R2, InsertAt(A, k, g))
  BY <1>1, <1>2, <1>3, <1>4, CameOrder
<1> QED
  BY <1>2, <1>3, <1>4, <1>5 DEF Queue

-----------------------------------------------------------------------------
(* The inductive invariant of the queue.                                   *)
NotPast == \A g \in GATE : Heap.GATE_TIMEQ[g] # NULL => Value(CurrentTime) <= OnTime(Heap, g)
QueueInv == /\ CurrentTime \in Within /\ Heap \in Heaps
            /\ \E A : Queue(Heap, A)
            /\ NotPast

(* The empty queue is sound.                                               *)
LEMMA QueueInit == Init => QueueInv
<1> SUFFICES ASSUME Init PROVE QueueInv
  OBVIOUS
<1>1. CurrentTime \in Within
  BY ZeroWithin DEF Init
<1>2. Heap \in Heaps
  BY ZeroWithin DEF Init, Heap, Heaps
<1>3. \A g \in GATE : Heap.GATE_TIMEQ[g] = NULL
  BY DEF Init, Heap
<1> DEFINE R == [n \in NODE |-> <<>>]
<1>4. Holds(Heap, <<>>, R)
  <2>1. NodesLinked(Heap, <<>>) /\ InOrder(Heap, <<>>) /\ OneFree(Heap, <<>>)
    BY DEF Init, Heap, NodesLinked, InOrder, OneFree, IsRing, Distinct
  <2>2. ASSUME NEW n \in NODE PROVE RingAt(Heap, <<>>, R, n)
    <3>1. R[n] = <<>> /\ n # NULL
      BY QueueAssumption
    <3>2. Heap.gate[n] = NULL
      BY DEF Init, Heap
    <3> HIDE DEF R
    <3> QED
      BY <1>3, <3>1, <3>2 DEF RingAt, OnList, OnRing, IsRing, Distinct
  <2>3. GatesLinked(Heap, <<>>, R)
    BY <2>2 DEF GatesLinked
  <2>4. R \in [NODE -> Seq(GATE)]
    OBVIOUS
  <2> HIDE DEF R
  <2> QED
    BY <2>1, <2>3, <2>4 DEF Holds
<1>5. IsAgenda(Heap, R, <<>>)
  BY <1>3 DEF IsAgenda, Fires
<1> HIDE DEF R
<1>6. Queue(Heap, <<>>)
  BY <1>4, <1>5 DEF Queue
<1> QED
  BY <1>1, <1>2, <1>3, <1>6 DEF QueueInv, NotPast

(* The pointers of the next state.                                         *)
LEMMA BecomesIs ==
  ASSUME NEW v \in Heaps, Becomes(v)
  PROVE  Heap' = v
BY DEF Becomes, Heap, Heaps

(* What ScheduleGate does when the gate does not keep its place.           *)
Cleared(h, g) == IF h.GATE_TIMEQ[g] # NULL THEN RemoveGate(h, g) ELSE h
(* A gate that was scheduled is out of the order before it is inserted.    *)
LEMMA ClearStep ==
  ASSUME NEW h \in Heaps, NEW A, Queue(h, A), NEW g \in GATE, NEW v, v = Cleared(h, g)
  PROVE  /\ v \in Heaps /\ v.GATE_TIMEQ[g] = NULL /\ OthersStay(h, v, g)
         /\ \E B : /\ Queue(v, B)
                   /\ h.GATE_TIMEQ[g] = NULL => B = A
                   /\ h.GATE_TIMEQ[g] # NULL => \E k \in 1 .. Len(A) : A[k] = g /\ B = RemoveAt(A, k)
<1>1. CASE h.GATE_TIMEQ[g] = NULL
  <2>1. v = h
    BY <1>1 DEF Cleared
  <2> QED
    BY <1>1, <2>1 DEF OthersStay
<1>2. CASE h.GATE_TIMEQ[g] # NULL
  <2>1. v = RemoveGate(h, g)
    BY <1>2 DEF Cleared
  <2>2. /\ v \in Heaps /\ v.GATE_TIMEQ[g] = NULL /\ OthersStay(h, v, g)
        /\ \E k \in 1 .. Len(A) : A[k] = g /\ Queue(v, RemoveAt(A, k))
    BY <1>2, <2>1, RemoveStep
  <2> QED
    BY <1>2, <2>2
<1> QED
  BY <1>1, <1>2

(* The time of a delay from now, with no overflow.                         *)
LEMMA ScheduleTime ==
  ASSUME CurrentTime \in Within, NEW d \in DELAYS, Value(CurrentTime) + d <= MaxTime,
         NEW t, t = ADDTIME6432(CurrentTime, d)
  PROVE  t \in Within /\ Value(t) = Value(CurrentTime) + d /\ d \in Nat
<1>1. CurrentTime \in Time64 /\ d \in Word
  BY QueueAssumption DEF Within
<1>2. W * W \in Nat /\ MaxTime \in 0 .. W * W - 1
  BY WordAssumption, QueueAssumption
<1>3. Value(CurrentTime) \in Nat /\ d \in Nat
  BY <1>1, ValueIsNat, WordAssumption DEF Word
<1> DEFINE ww == W * W
<1>4. Value(CurrentTime) + d <= ww - 1
  <2> HIDE DEF ww
  <2>1. ww \in Nat /\ MaxTime \in 0 .. ww - 1
    BY <1>2 DEF ww
  <2> QED
    BY <1>3, <2>1
<1>5. t \in Time64 /\ Value(t) = Value(CurrentTime) + d
  BY <1>1, <1>4, AddIsSum6432
<1> QED
  BY <1>3, <1>5 DEF Within

(* Time moves to the first gate or to t, whichever is earlier.             *)
LEMMA PeekIs ==
  ASSUME NEW A, Heap \in Heaps, Queue(Heap, A)
  PROVE  /\ gateList = NULL <=> Len(A) = 0
         /\ Len(A) # 0 => PeekGate = A[1]
<1> DEFINE h == Heap
<1>1. PICK L, R : Holds(h, L, R) /\ IsAgenda(h, R, A)
  BY DEF Queue
<1>2. h.gateList = gateList /\ h.gate = gate
  BY DEF Heap
<1>3. h \in Heaps /\ Queue(h, A)
  OBVIOUS
<1> HIDE DEF h
<1>4. Len(A) \in Nat /\ Distinct(A) /\ Fires(h, A)
  BY <1>3, QueueFacts
<1>5. h.gateList = NULL <=> Len(L) = 0
  BY <1>1, <1>3, ListIs
<1>6. CASE Len(L) = 0
  <2>1. Len(A) = 0
    <3> SUFFICES ASSUME Len(A) # 0 PROVE FALSE
      OBVIOUS
    <3>1. 1 \in 1 .. Len(A)
      BY <1>4
    <3>2. A[1] \in GATE /\ h.GATE_TIMEQ[A[1]] # NULL
      BY <1>3, <3>1, QueueFacts
    <3>3. \E l \in 1 .. Len(L) : L[l] = h.GATE_TIMEQ[A[1]]
      BY <1>1, <1>3, <3>2, WhereGateIs
    <3> QED
      BY <1>6, <3>3
  <2> QED
    BY <1>2, <1>5, <1>6, <2>1
<1>7. CASE Len(L) # 0
  <2> DEFINE n == L[1]
  <2>1. gateList = n /\ n \in NODE /\ 1 \in 1 .. Len(L)
    <3>1. h.gateList = L[1] /\ L \in Seq(NODE) /\ Len(L) \in Nat
      BY <1>1, <1>3, <1>7, ListIs, ListFacts
    <3> QED
      BY <1>2, <1>7, <3>1
  <2>2. RingAt(h, L, R, n)
    BY <1>1, <2>1 DEF Holds, GatesLinked
  <2>3. Len(R[n]) # 0 /\ h.gate[n] = R[n][1]
    BY <2>1, <2>2 DEF RingAt, OnList
  <2>4. 1 \in 1 .. Len(R[n])
    BY <1>1, <2>1, <2>3, RingFacts
  <2> DEFINE p == R[n][1]
  <2>5. p \in GATE /\ h.GATE_TIMEQ[p] = n
    <3> HIDE DEF n
    <3> QED
      BY <1>1, <2>1, <2>4, EntryOfRing
  <2>6. PeekGate = p
    BY <1>2, <2>1, <2>3, <2>5, QueueAssumption DEF PeekGate
  <2>7. n # NULL
    BY <2>1, QueueAssumption
  <2> HIDE DEF p, n
  <2>8. PICK j \in 1 .. Len(A) : A[j] = p
    BY <1>4, <2>5, <2>7 DEF Fires
  <2>9. Len(A) # 0 /\ 1 \in 1 .. Len(A)
    BY <1>4, <2>8
  <2>10. ASSUME j # 1 PROVE FALSE
    <3>1. Earlier(h, R, A[1], A[j])
      BY <1>1, <1>4, <2>8, <2>9, <2>10 DEF IsAgenda
    <3> DEFINE a == A[1]
    <3>2. a \in GATE /\ h.GATE_TIMEQ[a] # NULL /\ OnTime(h, a) \in Nat
      BY <1>3, <2>9, QueueFacts
    <3>3. OnTime(h, p) \in Nat
      BY <1>3, <2>8, QueueFacts
    <3>4. Earlier(h, R, a, p)
      BY <2>8, <3>1
    <3> HIDE DEF a
    <3>5. PICK l \in 1 .. Len(L) : L[l] = h.GATE_TIMEQ[a]
      BY <1>1, <1>3, <3>2, WhereGateIs
    <3>6. OnTime(h, p) <= OnTime(h, a)
      <4>1. l = 1 \/ 1 < l
        OBVIOUS
      <4>2. 1 < l => Value(h.timeIndex[n]) < Value(h.timeIndex[L[l]])
        BY <1>1, <2>1 DEF Holds, InOrder, n
      <4>3. OnTime(h, p) = Value(h.timeIndex[n]) /\ OnTime(h, a) = Value(h.timeIndex[L[l]])
        BY <2>5, <3>5 DEF OnTime, TimeOf
      <4>4. l = 1 => OnTime(h, p) = OnTime(h, a)
        BY <4>3 DEF n
      <4> QED
        BY <3>2, <3>3, <4>1, <4>2, <4>3, <4>4
    <3>7. Ahead(R, a, p)
      BY <3>2, <3>3, <3>4, <3>6 DEF Earlier
    <3>8. PICK m \in NODE : \E x, y \in 1 .. Len(R[m]) : x < y /\ R[m][x] = a /\ R[m][y] = p
      BY <3>7 DEF Ahead
    <3>9. PICK x \in 1 .. Len(R[m]), y \in 1 .. Len(R[m]) : x < y /\ R[m][x] = a /\ R[m][y] = p
      BY <3>8
    <3>10. m = n
      <4>1. h.GATE_TIMEQ[p] = m
        <5>1. h.GATE_TIMEQ[R[m][y]] = m
          BY <1>1, RingFacts
        <5> QED
          BY <3>9, <5>1
      <4> QED
        BY <2>5, <4>1
    <3>11. Distinct(R[n]) /\ R[n][y] = R[n][1] /\ y \in 1 .. Len(R[n]) /\ x < y /\ x >= 1
      BY <1>1, <2>1, <3>9, <3>10, RingFacts DEF p
    <3>12. y = 1
      BY <2>4, <3>11 DEF Distinct
    <3> QED
      BY <3>11, <3>12
  <2>11. A[1] = p
    BY <2>8, <2>10
  <2> QED
    BY <1>2, <1>5, <1>7, <2>6, <2>9, <2>11
<1> QED
  BY <1>6, <1>7

(* The gate that fires is the first, at its time.                          *)
LEMMA FireStep ==
  ASSUME QueueInv, RemoveNextReadyGate, NEW A, Queue(Heap, A)
  PROVE  /\ CurrentTime' = CurrentTime /\ Heap' \in Heaps
         /\ 1 \in 1 .. Len(A) /\ OnTime(Heap, A[1]) = Value(CurrentTime)
         /\ OthersStay(Heap, Heap', A[1]) /\ Heap'.GATE_TIMEQ[A[1]] = NULL
         /\ Queue(Heap', RemoveAt(A, 1))
<1> DEFINE h == Heap
           g == PeekGate
           v == RemoveGate(h, g)
<1>1. h \in Heaps /\ CurrentTime \in Within /\ IsGateReady /\ Becomes(v) /\ CurrentTime' = CurrentTime
  BY DEF QueueInv, RemoveNextReadyGate
<1>2. Len(A) # 0 /\ g = A[1] /\ 1 \in 1 .. Len(A)
  <2>1. Len(A) # 0 /\ g = A[1]
    BY <1>1, PeekIs DEF IsGateReady
  <2>2. Len(A) \in Nat
    BY <1>1, QueueFacts
  <2> QED
    BY <2>1, <2>2
<1>3. CMPTIME64(TimeOf(h, g), CurrentTime) = 0
  BY <1>1 DEF IsGateReady, TimeOf, Heap
<1> HIDE DEF h, g, v
<1>4. Queue(h, A)
  BY DEF h
<1>5. g \in GATE /\ h.GATE_TIMEQ[g] # NULL /\ Distinct(A)
  BY <1>1, <1>2, <1>4, QueueFacts
<1>6. OnTime(h, g) = Value(CurrentTime)
  <2>1. TimeOf(h, g) \in Time64 /\ CurrentTime \in Time64
    BY <1>1, <1>5, TimeFacts DEF Within
  <2> DEFINE s == TimeOf(h, g)
  <2>2. CMPTIME64(s, CurrentTime) = IF Value(s) < Value(CurrentTime) THEN -1
                                    ELSE IF Value(s) = Value(CurrentTime) THEN 0 ELSE 1
    <3> HIDE DEF s
    <3> QED
      BY <2>1, CompareIsOrder DEF s
  <2>3. Value(s) \in Nat /\ Value(CurrentTime) \in Nat
    BY <2>1, ValueIsNat
  <2> QED
    BY <1>3, <2>2, <2>3 DEF OnTime
<1>7. /\ v \in Heaps /\ v.GATE_TIMEQ[g] = NULL /\ OthersStay(h, v, g)
      /\ \E k \in 1 .. Len(A) : A[k] = g /\ Queue(v, RemoveAt(A, k))
  BY <1>1, <1>4, <1>5, RemoveStep DEF v
<1>8. Queue(v, RemoveAt(A, 1))
  <2>1. PICK k \in 1 .. Len(A) : A[k] = g /\ Queue(v, RemoveAt(A, k))
    BY <1>7
  <2>2. k = 1
    BY <1>2, <1>5, <2>1 DEF Distinct
  <2> QED
    BY <2>1, <2>2
<1>9. Heap' = v
  BY <1>1, <1>7, BecomesIs
<1> QED
  BY <1>1, <1>2, <1>6, <1>7, <1>8, <1>9 DEF h

Planned(h, v, A, g, t) ==
  \E c \in Heaps : \E B :
    /\ c.GATE_TIMEQ[g] = NULL /\ OthersStay(h, c, g)
    /\ Queue(c, B)
    /\ h.GATE_TIMEQ[g] = NULL => B = A
    /\ h.GATE_TIMEQ[g] # NULL => \E k \in 1 .. Len(A) : A[k] = g /\ B = RemoveAt(A, k)
    /\ v.GATE_TIMEQ[g] # NULL /\ TimeOf(v, g) = t /\ OthersStay(c, v, g)
    /\ \E k : IsBehind(c, B, t, k) /\ Queue(v, InsertAt(B, k, g))

(* ScheduleGate lets a gate keep its place or plans it anew.               *)
LEMMA PlanStep ==
  ASSUME QueueInv, NEW g \in GATE, NEW d \in DELAYS, ScheduleGate(g, d), NEW A, Queue(Heap, A),
         NEW t, t = ADDTIME6432(CurrentTime, d)
  PROVE  /\ CurrentTime' = CurrentTime /\ Heap' \in Heaps
         /\ t \in Within /\ Value(t) = Value(CurrentTime) + d /\ d \in Nat
         /\ Value(CurrentTime) + d <= MaxTime
         /\ KeepsPlace(g, t) => Heap' = Heap
         /\ ~KeepsPlace(g, t) => Planned(Heap, Heap', A, g, t)
<1> DEFINE h == Heap
           c == Cleared(h, g)
           v == Insert(c, g, t)
<1>1. h \in Heaps /\ CurrentTime \in Within
  BY DEF QueueInv
<1>2. IsGateScheduled(g) <=> h.GATE_TIMEQ[g] # NULL
  BY DEF IsGateScheduled, Heap
<1>3. /\ Value(CurrentTime) + d <= MaxTime /\ CanAllocate(c)
      /\ KeepsPlace(g, t) => UNCHANGED <<gateList, nodeFreeList, nodes, rings, allocated>>
      /\ ~KeepsPlace(g, t) => Becomes(v)
      /\ CurrentTime' = CurrentTime
  <2>1. c = IF IsGateScheduled(g) THEN RemoveGate(h, g) ELSE h
    BY <1>2 DEF Cleared
  <2>2. c = IF IsGateScheduled(g) THEN RemoveGate(Heap, g) ELSE Heap
    BY <2>1
  <2> HIDE DEF c
  <2> QED
    BY <2>2 DEF ScheduleGate
<1>4. t \in Within /\ Value(t) = Value(CurrentTime) + d /\ d \in Nat
  BY <1>1, <1>3, ScheduleTime
<1>5. CASE KeepsPlace(g, t)
  <2>1. Heap' = Heap
    BY <1>3, <1>5 DEF Heap, nodes, rings
  <2> QED
    BY <1>1, <1>3, <1>4, <1>5, <2>1
<1>6. CASE ~KeepsPlace(g, t)
  <2>0. Queue(h, A)
    OBVIOUS
  <2>9. c = Cleared(h, g) /\ v = Insert(c, g, t) /\ CanAllocate(c) /\ Becomes(v)
    BY <1>3, <1>6
  <2> HIDE DEF h, c, v
  <2>1. /\ c \in Heaps /\ c.GATE_TIMEQ[g] = NULL /\ OthersStay(h, c, g)
        /\ \E B : /\ Queue(c, B)
                  /\ h.GATE_TIMEQ[g] = NULL => B = A
                  /\ h.GATE_TIMEQ[g] # NULL => \E k \in 1 .. Len(A) : A[k] = g /\ B = RemoveAt(A, k)
    BY <1>1, <2>0, <2>9, ClearStep
  <2>2. PICK B : /\ Queue(c, B)
                 /\ h.GATE_TIMEQ[g] = NULL => B = A
                 /\ h.GATE_TIMEQ[g] # NULL => \E k \in 1 .. Len(A) : A[k] = g /\ B = RemoveAt(A, k)
    BY <2>1
  <2>3. /\ v \in Heaps /\ v.GATE_TIMEQ[g] # NULL /\ TimeOf(v, g) = t /\ OthersStay(c, v, g)
        /\ \E k : IsBehind(c, B, t, k) /\ Queue(v, InsertAt(B, k, g))
    BY <1>4, <2>1, <2>2, <2>9, InsertStep
  <2>4. Heap' = v
    BY <2>3, <2>9, BecomesIs
  <2>5. Planned(h, v, A, g, t)
    BY <2>1, <2>2, <2>3 DEF Planned
  <2> QED
    BY <1>3, <1>4, <1>6, <2>3, <2>4, <2>5 DEF h
<1> QED
  BY <1>5, <1>6

(* The clock goes to the first gate or to the time, whichever is first.    *)
LEMMA ClockStep ==
  ASSUME QueueInv, NEW t \in Within, AdvanceTime(t), NEW A, Queue(Heap, A)
  PROVE  /\ Heap' = Heap /\ CurrentTime' \in Within
         /\ Value(t) \in Nat /\ Value(CurrentTime) \in Nat /\ Value(t) > Value(CurrentTime)
         /\ Len(A) = 0 => CurrentTime' = t
         /\ Len(A) # 0 =>
              /\ A[1] \in GATE /\ Heap.GATE_TIMEQ[A[1]] # NULL /\ OnTime(Heap, A[1]) \in Nat
              /\ OnTime(Heap, A[1]) > Value(CurrentTime)
              /\ CurrentTime' = IF OnTime(Heap, A[1]) < Value(t) THEN TimeOf(Heap, A[1]) ELSE t
<1> DEFINE h == Heap
           g == PeekGate
<1>1. /\ h \in Heaps /\ CurrentTime \in Within /\ NotPast /\ CMPTIME64(t, CurrentTime) > 0 /\ ~IsGateReady
      /\ CurrentTime' = IF GateConditionalAdvanceTime(t) THEN TimeOf(h, g) ELSE t
  BY DEF QueueInv, AdvanceTime, Heap, TimeOf
<1>2. Heap' = Heap
  BY DEF AdvanceTime, Heap, nodes, rings
<1>3. Value(t) \in Nat /\ Value(CurrentTime) \in Nat /\ Value(t) > Value(CurrentTime)
  <2>1. t \in Time64 /\ CurrentTime \in Time64
    BY <1>1 DEF Within
  <2>2. Value(t) \in Nat /\ Value(CurrentTime) \in Nat
    BY <2>1, ValueIsNat
  <2>3. CMPTIME64(t, CurrentTime) = IF Value(t) < Value(CurrentTime) THEN -1
                                    ELSE IF Value(t) = Value(CurrentTime) THEN 0 ELSE 1
    BY <2>1, CompareIsOrder
  <2> QED
    BY <1>1, <2>2, <2>3
<1>4. CASE Len(A) = 0
  <2>1. gateList = NULL
    BY <1>1, <1>4, PeekIs
  <2>2. CurrentTime' = t
    BY <1>1, <2>1 DEF GateConditionalAdvanceTime
  <2> QED
    BY <1>2, <1>3, <1>4, <2>2
<1>5. CASE Len(A) # 0
  <2>1. gateList # NULL /\ g = A[1]
    BY <1>1, <1>5, PeekIs
  <2>2. 1 \in 1 .. Len(A)
    <3>1. Len(A) \in Nat
      BY <1>1, QueueFacts
    <3> QED
      BY <1>5, <3>1
  <2>3. g \in GATE /\ h.GATE_TIMEQ[g] # NULL /\ OnTime(h, g) \in Nat
    BY <1>1, <2>1, <2>2, QueueFacts
  <2>4. TimeOf(h, g) \in Within /\ TimeOf(h, g) \in Time64 /\ t \in Time64 /\ CurrentTime \in Time64
    BY <1>1, <2>3, TimeFacts DEF Within
  <2>5. GateConditionalAdvanceTime(t) <=> CMPTIME64(TimeOf(h, g), t) < 0
    BY <2>1 DEF GateConditionalAdvanceTime, TimeOf, Heap
  <2>6. CMPTIME64(TimeOf(h, g), CurrentTime) # 0
    BY <1>1, <2>1 DEF IsGateReady, TimeOf, Heap
  <2>7. Value(CurrentTime) <= OnTime(h, g)
    BY <1>1, <2>3 DEF NotPast
  <2> DEFINE s == TimeOf(h, g)
  <2>8. OnTime(h, g) = Value(s)
    BY DEF OnTime
  <2>9. s \in Within /\ s \in Time64
    BY <2>4
  <2> HIDE DEF s, g, h
  <2>10. CMPTIME64(s, t) < 0 <=> Value(s) < Value(t)
    <3>1. CMPTIME64(s, t) = IF Value(s) < Value(t) THEN -1 ELSE IF Value(s) = Value(t) THEN 0 ELSE 1
      BY <2>4, <2>9, CompareIsOrder
    <3> QED
      BY <3>1
  <2>11. Value(s) # Value(CurrentTime)
    <3>1. CMPTIME64(s, CurrentTime) = IF Value(s) < Value(CurrentTime) THEN -1
                                      ELSE IF Value(s) = Value(CurrentTime) THEN 0 ELSE 1
      BY <2>4, <2>9, CompareIsOrder
    <3> QED
      BY <2>3, <2>6, <2>7, <2>8, <3>1 DEF s
  <2>12. Value(s) > Value(CurrentTime)
    BY <1>3, <2>3, <2>7, <2>8, <2>11
  <2>13. CurrentTime' = IF OnTime(h, g) < Value(t) THEN s ELSE t
    BY <1>1, <2>5, <2>8, <2>10 DEF s
  <2>14. CurrentTime' \in Within
    BY <2>9, <2>13
  <2> QED
    BY <1>2, <1>3, <1>5, <2>1, <2>3, <2>8, <2>12, <2>13, <2>14 DEF h, s
<1> QED
  BY <1>4, <1>5

(* Another gate keeps its time.                                            *)
LEMMA StaysNotPast ==
  ASSUME NEW h, NEW v, NEW g, OthersStay(h, v, g), NEW u \in GATE, u # g, v.GATE_TIMEQ[u] # NULL
  PROVE  h.GATE_TIMEQ[u] # NULL /\ OnTime(v, u) = OnTime(h, u)
BY DEF OthersStay, OnTime

(* Every step of the queue keeps it sound.                                 *)
LEMMA QueueStep == QueueInv /\ [Next]_vars => QueueInv'
<1> SUFFICES ASSUME QueueInv, [Next]_vars PROVE QueueInv'
  OBVIOUS
<1>0. PICK A : Queue(Heap, A)
  BY DEF QueueInv
<1>1. CurrentTime \in Within /\ Heap \in Heaps
  BY DEF QueueInv
<1>2. \A u \in GATE : Heap.GATE_TIMEQ[u] # NULL => Value(CurrentTime) <= OnTime(Heap, u)
  BY DEF QueueInv, NotPast
<1>3. SUFFICES /\ CurrentTime' \in Within /\ Heap' \in Heaps
               /\ \E B : Queue(Heap', B)
               /\ \A u \in GATE : Heap'.GATE_TIMEQ[u] # NULL => Value(CurrentTime') <= OnTime(Heap', u)
  BY DEF QueueInv, NotPast
<1>4. CASE RemoveNextReadyGate
  <2>1. /\ CurrentTime' = CurrentTime /\ Heap' \in Heaps
        /\ OthersStay(Heap, Heap', A[1]) /\ Heap'.GATE_TIMEQ[A[1]] = NULL
        /\ Queue(Heap', RemoveAt(A, 1))
    BY <1>0, <1>4, FireStep
  <2>2. ASSUME NEW u \in GATE, Heap'.GATE_TIMEQ[u] # NULL PROVE Value(CurrentTime') <= OnTime(Heap', u)
    <3>1. u # A[1]
      BY <2>1, <2>2
    <3>2. Heap.GATE_TIMEQ[u] # NULL /\ OnTime(Heap', u) = OnTime(Heap, u)
      BY <2>1, <2>2, <3>1, StaysNotPast
    <3> QED
      BY <1>2, <2>1, <3>2
  <2> QED
    BY <1>1, <2>1, <2>2
<1>5. ASSUME NEW g \in GATE, NEW d \in DELAYS, ScheduleGate(g, d)
      PROVE  /\ CurrentTime' \in Within /\ Heap' \in Heaps
             /\ \E B : Queue(Heap', B)
             /\ \A u \in GATE : Heap'.GATE_TIMEQ[u] # NULL => Value(CurrentTime') <= OnTime(Heap', u)
  <2> DEFINE t == ADDTIME6432(CurrentTime, d)
  <2>1. /\ CurrentTime' = CurrentTime /\ Heap' \in Heaps
        /\ t \in Within /\ Value(t) = Value(CurrentTime) + d /\ d \in Nat
        /\ KeepsPlace(g, t) => Heap' = Heap
        /\ ~KeepsPlace(g, t) => Planned(Heap, Heap', A, g, t)
    BY <1>0, <1>5, PlanStep
  <2> HIDE DEF t
  <2>2. CASE KeepsPlace(g, t)
    <3>1. Heap' = Heap
      BY <2>1, <2>2
    <3> QED
      BY <1>0, <1>1, <1>2, <2>1, <3>1
  <2>3. CASE ~KeepsPlace(g, t)
    <3>1. Planned(Heap, Heap', A, g, t)
      BY <2>1, <2>3
    <3>2. PICK c \in Heaps : \E B :
            /\ c.GATE_TIMEQ[g] = NULL /\ OthersStay(Heap, c, g)
            /\ TimeOf(Heap', g) = t /\ OthersStay(c, Heap', g)
            /\ \E k : Queue(Heap', InsertAt(B, k, g))
      BY <3>1 DEF Planned
    <3>3. ASSUME NEW u \in GATE, Heap'.GATE_TIMEQ[u] # NULL PROVE Value(CurrentTime') <= OnTime(Heap', u)
      <4>1. CASE u = g
        <5>1. OnTime(Heap', u) = Value(t)
          BY <3>2, <4>1 DEF OnTime
        <5>2. Value(CurrentTime) \in Nat
          BY <1>1, ValueIsNat DEF Within
        <5> QED
          BY <2>1, <5>1, <5>2
      <4>2. CASE u # g
        <5>1. OthersStay(Heap, c, g) /\ OthersStay(c, Heap', g)
          BY <3>2
        <5>2. c.GATE_TIMEQ[u] # NULL /\ OnTime(Heap', u) = OnTime(c, u)
          BY <3>3, <4>2, <5>1, StaysNotPast
        <5>3. Heap.GATE_TIMEQ[u] # NULL /\ OnTime(c, u) = OnTime(Heap, u)
          BY <4>2, <5>1, <5>2, StaysNotPast
        <5> QED
          BY <1>2, <2>1, <5>2, <5>3
      <4> QED
        BY <4>1, <4>2
    <3>4. \E B : Queue(Heap', B)
      BY <3>2
    <3> QED
      BY <1>1, <2>1, <3>3, <3>4
  <2> QED
    BY <2>2, <2>3
<1>6. ASSUME NEW t \in Within, AdvanceTime(t)
      PROVE  /\ CurrentTime' \in Within /\ Heap' \in Heaps
             /\ \E B : Queue(Heap', B)
             /\ \A u \in GATE : Heap'.GATE_TIMEQ[u] # NULL => Value(CurrentTime') <= OnTime(Heap', u)
  <2>1. /\ Heap' = Heap /\ CurrentTime' \in Within /\ Value(t) \in Nat
        /\ Len(A) = 0 => CurrentTime' = t
        /\ Len(A) # 0 =>
              /\ OnTime(Heap, A[1]) \in Nat
              /\ CurrentTime' = IF OnTime(Heap, A[1]) < Value(t) THEN TimeOf(Heap, A[1]) ELSE t
    BY <1>0, <1>6, ClockStep
  <2>2. ASSUME NEW u \in GATE, Heap.GATE_TIMEQ[u] # NULL PROVE Value(CurrentTime') <= OnTime(Heap, u)
    <3>1. PICK i \in 1 .. Len(A) : A[i] = u
      BY <1>0, <1>1, <2>2, QueueFacts DEF Fires
    <3>2. Len(A) # 0 /\ 1 \in 1 .. Len(A)
      <4>1. Len(A) \in Nat
        BY <1>0, <1>1, QueueFacts
      <4> QED
        BY <3>1, <4>1
    <3>3. OnTime(Heap, A[1]) <= OnTime(Heap, A[i]) /\ OnTime(Heap, A[i]) \in Nat
      <4>1. i = 1 \/ 1 < i
        BY <3>1
      <4>2. /\ OnTime(Heap, A[i]) \in Nat
            /\ 1 < i => OnTime(Heap, A[1]) <= OnTime(Heap, A[i])
        BY <1>0, <1>1, <3>2, QueueFacts
      <4> QED
        BY <2>1, <3>2, <4>1, <4>2
    <3>4. Value(CurrentTime') <= OnTime(Heap, A[1])
      <4>1. OnTime(Heap, A[1]) = Value(TimeOf(Heap, A[1]))
        BY DEF OnTime
      <4>2. CASE OnTime(Heap, A[1]) < Value(t)
        <5>1. CurrentTime' = TimeOf(Heap, A[1])
          BY <2>1, <3>2, <4>2
        <5>2. Value(CurrentTime') = OnTime(Heap, A[1])
          BY <4>1, <5>1
        <5> QED
          BY <2>1, <3>2, <5>2
      <4>3. CASE ~(OnTime(Heap, A[1]) < Value(t))
        <5>1. CurrentTime' = t
          BY <2>1, <3>2, <4>3
        <5> QED
          BY <2>1, <3>2, <4>3, <5>1
      <4> QED
        BY <4>2, <4>3
    <3>5. Value(CurrentTime') \in Nat
      BY <2>1, ValueIsNat DEF Within
    <3> QED
      BY <2>1, <3>1, <3>2, <3>3, <3>4, <3>5
  <2> QED
    BY <1>0, <1>1, <2>1, <2>2
<1>7. CASE UNCHANGED vars
  <2>1. Heap' = Heap /\ CurrentTime' = CurrentTime
    BY <1>7 DEF vars, Heap, nodes, rings
  <2> QED
    BY <1>0, <1>1, <1>2, <2>1
<1> QED
  BY <1>4, <1>5, <1>6, <1>7 DEF Next

(* Place x of the ring of the node at place l of the list.                 *)
IsAt(L, R, g, l, x) == l \in 1 .. Len(L) /\ x \in 1 .. Len(R[L[l]]) /\ R[L[l]][x] = g

(* A gate that is scheduled has a place: of its node, and on its ring.     *)
LEMMA PlaceOf ==
  ASSUME NEW h \in Heaps, NEW L, NEW R, Holds(h, L, R), NEW g \in GATE, h.GATE_TIMEQ[g] # NULL
  PROVE  \E l, x : IsAt(L, R, g, l, x)
<1> DEFINE n == h.GATE_TIMEQ[g]
<1>1. PICK l \in 1 .. Len(L) : L[l] = n
  BY WhereGateIs
<1>2. PICK x \in 1 .. Len(R[n]) : R[n][x] = g
  BY WhereGateIs
<1> HIDE DEF n
<1>3. IsAt(L, R, g, l, x)
  BY <1>1, <1>2 DEF IsAt
<1> QED
  BY <1>3

(* What a place says of its gate.                                          *)
LEMMA PlaceFacts ==
  ASSUME NEW h \in Heaps, NEW L, NEW R, Holds(h, L, R), NEW g, NEW l, NEW x, IsAt(L, R, g, l, x)
  PROVE  /\ l \in Nat /\ x \in Nat /\ g \in GATE /\ L[l] \in NODE /\ h.GATE_TIMEQ[g] = L[l]
         /\ h.GATE_TIMEQ[g] # NULL /\ OnTime(h, g) = Value(h.timeIndex[L[l]]) /\ OnTime(h, g) \in Nat
<1>1. l \in 1 .. Len(L) /\ x \in 1 .. Len(R[L[l]]) /\ R[L[l]][x] = g
  BY DEF IsAt
<1>2. L[l] \in NODE
  BY <1>1, EntryOfList
<1>3. g \in GATE /\ h.GATE_TIMEQ[g] = L[l]
  <2> DEFINE n == L[l]
  <2>1. n \in NODE /\ x \in 1 .. Len(R[n]) /\ R[n][x] = g
    BY <1>1, <1>2
  <2> HIDE DEF n
  <2>2. g \in GATE /\ h.GATE_TIMEQ[g] = n
    BY <2>1, EntryOfRing
  <2> QED
    BY <2>2 DEF n
<1>4. h.GATE_TIMEQ[g] # NULL
  BY <1>2, <1>3, QueueAssumption
<1>5. OnTime(h, g) = Value(h.timeIndex[L[l]])
  BY <1>3 DEF OnTime, TimeOf
<1> QED
  BY <1>1, <1>2, <1>3, <1>4, <1>5, TimeFacts

(* The order of the gates is that of their places.                         *)
Precedes(l, x, k, y) == l < k \/ (l = k /\ x < y)
(* A gate is earlier when its place is.                                    *)
LEMMA EarlierIs ==
  ASSUME NEW h \in Heaps, NEW L, NEW R, Holds(h, L, R), NEW a, NEW b, NEW l, NEW x, NEW k, NEW y,
         IsAt(L, R, a, l, x), IsAt(L, R, b, k, y)
  PROVE  /\ Earlier(h, R, a, b) <=> Precedes(l, x, k, y)
         /\ a = b <=> l = k /\ x = y
<1>1. /\ l \in Nat /\ x \in Nat /\ a \in GATE /\ L[l] \in NODE /\ h.GATE_TIMEQ[a] = L[l]
      /\ OnTime(h, a) = Value(h.timeIndex[L[l]]) /\ OnTime(h, a) \in Nat
  BY PlaceFacts
<1>2. /\ k \in Nat /\ y \in Nat /\ b \in GATE /\ L[k] \in NODE /\ h.GATE_TIMEQ[b] = L[k]
      /\ OnTime(h, b) = Value(h.timeIndex[L[k]]) /\ OnTime(h, b) \in Nat
  BY PlaceFacts
<1>3. /\ l \in 1 .. Len(L) /\ x \in 1 .. Len(R[L[l]]) /\ R[L[l]][x] = a
      /\ k \in 1 .. Len(L) /\ y \in 1 .. Len(R[L[k]]) /\ R[L[k]][y] = b
  BY DEF IsAt
<1>4. /\ l < k => OnTime(h, a) < OnTime(h, b)
      /\ k < l => OnTime(h, b) < OnTime(h, a)
  BY <1>1, <1>2, <1>3 DEF Holds, InOrder
<1>5. Distinct(L) /\ (l = k => Distinct(R[L[l]]))
  BY <1>1, ListFacts, RingFacts
<1>6. a = b <=> l = k /\ x = y
  <2>1. ASSUME a = b PROVE l = k /\ x = y
    <3>1. L[l] = L[k]
      BY <1>1, <1>2, <2>1
    <3>2. l = k
      BY <1>3, <1>5, <3>1 DEF Distinct
    <3> QED
      BY <1>3, <1>5, <2>1, <3>2 DEF Distinct
  <2> QED
    BY <1>3, <2>1
<1>7. Ahead(R, a, b) => l = k /\ x < y
  <2> SUFFICES ASSUME Ahead(R, a, b) PROVE l = k /\ x < y
    OBVIOUS
  <2>1. PICK m \in NODE : \E i, j \in 1 .. Len(R[m]) : i < j /\ R[m][i] = a /\ R[m][j] = b
    BY DEF Ahead
  <2>2. PICK i \in 1 .. Len(R[m]), j \in 1 .. Len(R[m]) : i < j /\ R[m][i] = a /\ R[m][j] = b
    BY <2>1
  <2>3. h.GATE_TIMEQ[a] = m
    BY <2>2, EntryOfRing
  <2>4. h.GATE_TIMEQ[b] = m
    BY <2>2, EntryOfRing
  <2>5. l = k /\ m = L[l]
    BY <1>1, <1>2, <1>3, <1>5, <2>3, <2>4 DEF Distinct
  <2>6. i = x /\ j = y
    BY <1>3, <1>5, <2>2, <2>5 DEF Distinct
  <2> QED
    BY <2>2, <2>5, <2>6
<1>8. l = k /\ x < y => Ahead(R, a, b)
  <2> SUFFICES ASSUME l = k, x < y PROVE Ahead(R, a, b)
    OBVIOUS
  <2> DEFINE m == L[l]
  <2>1. m \in NODE /\ x \in 1 .. Len(R[m]) /\ y \in 1 .. Len(R[m]) /\ R[m][x] = a /\ R[m][y] = b
    BY <1>1, <1>3
  <2> HIDE DEF m
  <2> QED
    BY <2>1 DEF Ahead
<1>9. l = k => OnTime(h, a) = OnTime(h, b)
  BY <1>1, <1>2
<1> QED
  BY <1>1, <1>2, <1>4, <1>6, <1>7, <1>8, <1>9 DEF Earlier, Precedes

(* Of two gates one at most is the earlier.                                *)
LEMMA NotBoth ==
  ASSUME NEW h \in Heaps, NEW L, NEW R, Holds(h, L, R), NEW a \in GATE, NEW b \in GATE,
         h.GATE_TIMEQ[a] # NULL, h.GATE_TIMEQ[b] # NULL, Earlier(h, R, a, b)
  PROVE  ~Earlier(h, R, b, a) /\ a # b
<1>1. PICK l, x : IsAt(L, R, a, l, x)
  BY PlaceOf
<1>2. PICK k, y : IsAt(L, R, b, k, y)
  BY PlaceOf
<1>3. l \in Nat /\ x \in Nat /\ k \in Nat /\ y \in Nat
  BY <1>1, <1>2, PlaceFacts
<1>4. Precedes(l, x, k, y) /\ (a = b <=> l = k /\ x = y)
  BY <1>1, <1>2, EarlierIs
<1>5. Earlier(h, R, b, a) <=> Precedes(k, y, l, x)
  BY <1>1, <1>2, EarlierIs
<1> QED
  BY <1>3, <1>4, <1>5 DEF Precedes

(* The gate that the pointers lead to after a, if there is one.            *)
NextGate(h, a) == LET n == h.GATE_TIMEQ[a]
                  IN IF h.GATE_NEXT[a] # h.gate[n] THEN h.GATE_NEXT[a] ELSE h.gate[h.next[n]]
IsNext(h, R, a, f) ==
  /\ f \in GATE /\ h.GATE_TIMEQ[f] # NULL /\ Earlier(h, R, a, f)
  /\ \A b \in GATE : h.GATE_TIMEQ[b] # NULL /\ Earlier(h, R, a, b) => b = f \/ Earlier(h, R, f, b)

(* Following leads to the next place.                                      *)
LEMMA NextGateIs ==
  ASSUME NEW h \in Heaps, NEW L, NEW R, Holds(h, L, R), NEW a \in GATE, h.GATE_TIMEQ[a] # NULL,
         NEW z \in GATE, h.GATE_TIMEQ[z] # NULL, Earlier(h, R, a, z)
  PROVE  IsNext(h, R, a, NextGate(h, a))
<1>1. PICK l, x : IsAt(L, R, a, l, x)
  BY PlaceOf
<1> DEFINE n == L[l]
           len == Len(R[n])
           f == NextGate(h, a)
           d == Len(L)
<1>2. /\ l \in 1 .. d /\ x \in 1 .. len /\ R[n][x] = a /\ n \in NODE /\ h.GATE_TIMEQ[a] = n
      /\ l \in Nat /\ x \in Nat
  <2>1. l \in Nat /\ x \in Nat /\ L[l] \in NODE /\ h.GATE_TIMEQ[a] = L[l]
    BY <1>1, PlaceFacts
  <2>2. l \in 1 .. Len(L) /\ x \in 1 .. Len(R[L[l]]) /\ R[L[l]][x] = a
    BY <1>1 DEF IsAt
  <2> QED
    BY <2>1, <2>2
<1>3. len \in Nat /\ d \in Nat
  BY <1>2, RingFacts, ListFacts
<1>4. h.GATE_NEXT[a] = R[n][After(x, len)] /\ h.next[n] = L[After(l, d)]
  <2> HIDE DEF n
  <2>1. h.GATE_NEXT[a] = R[n][After(x, len)]
    BY <1>2, EntryOfRing, SMTT(30)
  <2>2. h.next[n] = L[After(l, d)]
    BY <1>2, EntryOfList DEF n
  <2> QED
    BY <2>1, <2>2
<1>5. \A i \in 1 .. d : /\ L[i] \in NODE /\ h.gate[L[i]] = R[L[i]][1]
                        /\ Len(R[L[i]]) \in Nat /\ 1 \in 1 .. Len(R[L[i]])
  <2> SUFFICES ASSUME NEW i \in 1 .. d
               PROVE  /\ L[i] \in NODE /\ h.gate[L[i]] = R[L[i]][1]
                      /\ Len(R[L[i]]) \in Nat /\ 1 \in 1 .. Len(R[L[i]])
    OBVIOUS
  <2> DEFINE m == L[i]
  <2>1. m \in NODE /\ OnList(L, m)
    BY ListFacts DEF OnList
  <2> HIDE DEF m
  <2>2. RingAt(h, L, R, m) /\ Len(R[m]) \in Nat
    BY <2>1, RingFacts DEF Holds, GatesLinked
  <2>3. Len(R[m]) # 0 /\ h.gate[m] = R[m][1]
    BY <2>1, <2>2 DEF RingAt
  <2> QED
    BY <2>1, <2>2, <2>3 DEF m
<1>6. Distinct(R[n]) /\ h.gate[n] = R[n][1]
  BY <1>2, <1>5, RingFacts
<1>7. ASSUME NEW k, NEW y, IsAt(L, R, f, k, y), Precedes(l, x, k, y),
             \A j \in Nat, w \in Nat : Precedes(l, x, j, w) /\ w >= 1 => (j = k /\ w = y) \/ Precedes(k, y, j, w)
      PROVE  IsNext(h, R, a, f)
  <2> HIDE DEF f
  <2>1. f \in GATE /\ h.GATE_TIMEQ[f] # NULL /\ Earlier(h, R, a, f)
    BY <1>1, <1>7, EarlierIs, PlaceFacts
  <2>2. ASSUME NEW b \in GATE, h.GATE_TIMEQ[b] # NULL, Earlier(h, R, a, b)
        PROVE  b = f \/ Earlier(h, R, f, b)
    <3>1. PICK j, w : IsAt(L, R, b, j, w)
      BY <2>2, PlaceOf
    <3>2. Precedes(l, x, j, w) /\ j \in Nat /\ w \in Nat
      BY <1>1, <2>2, <3>1, EarlierIs, PlaceFacts
    <3>3. w >= 1
      BY <3>1 DEF IsAt
    <3>4. (j = k /\ w = y) \/ Precedes(k, y, j, w)
      BY <1>7, <3>2, <3>3
    <3>5. /\ Earlier(h, R, f, b) <=> Precedes(k, y, j, w)
          /\ f = b <=> k = j /\ y = w
      BY <1>7, <3>1, EarlierIs
    <3> QED
      BY <3>4, <3>5
  <2> QED
    BY <2>1, <2>2 DEF IsNext
<1>8. CASE x < len
  <2> DEFINE y == x + 1
  <2>1. y \in 1 .. len /\ After(x, len) = y /\ y # 1
    BY <1>2, <1>3, <1>8 DEF After
  <2>2. R[n][y] # R[n][1]
    BY <1>3, <1>6, <2>1 DEF Distinct
  <2>3. f = R[n][y]
    BY <1>2, <1>4, <1>6, <2>1, <2>2 DEF NextGate
  <2>4. IsAt(L, R, f, l, y)
    BY <1>2, <2>1, <2>3 DEF IsAt
  <2>5. Precedes(l, x, l, y)
    BY <1>2 DEF Precedes
  <2>6. \A j \in Nat, w \in Nat : Precedes(l, x, j, w) /\ w >= 1 => (j = l /\ w = y) \/ Precedes(l, y, j, w)
    BY <1>2 DEF Precedes
  <2> HIDE DEF y
  <2> QED
    BY <1>7, <2>4, <2>5, <2>6
<1>9. CASE ~(x < len)
  <2>1. x = len /\ After(x, len) = 1
    BY <1>2, <1>3, <1>9 DEF After
  <2>2. f = h.gate[L[After(l, d)]]
    BY <1>2, <1>4, <1>6, <2>1 DEF NextGate
  <2>3. l < d
    <3>1. PICK j, w : IsAt(L, R, z, j, w)
      BY PlaceOf
    <3>2. Precedes(l, x, j, w) /\ j \in Nat /\ w \in Nat
      BY <1>1, <3>1, EarlierIs, PlaceFacts
    <3>3. j \in 1 .. d /\ w \in 1 .. Len(R[L[j]])
      BY <3>1 DEF IsAt
    <3>4. ~(l = j /\ x < w)
      <4>1. l = j => w <= len
        BY <3>2, <3>3, <1>3
      <4> QED
        BY <1>2, <1>3, <2>1, <3>2, <4>1
    <3> QED
      BY <1>2, <1>3, <3>2, <3>3, <3>4 DEF Precedes
  <2> DEFINE k == l + 1
  <2>4. k \in 1 .. d /\ After(l, d) = k
    BY <1>2, <1>3, <2>3 DEF After
  <2>5. f = R[L[k]][1] /\ 1 \in 1 .. Len(R[L[k]])
    BY <1>5, <2>2, <2>4
  <2>6. IsAt(L, R, f, k, 1)
    BY <2>4, <2>5 DEF IsAt
  <2>7. Precedes(l, x, k, 1)
    BY <1>2 DEF Precedes
  <2>8. \A j \in Nat, w \in Nat : Precedes(l, x, j, w) /\ w >= 1 => l < j \/ (l = j /\ x < w)
    BY DEF Precedes
  <2>9. ASSUME NEW b \in GATE, h.GATE_TIMEQ[b] # NULL, Earlier(h, R, a, b)
        PROVE  b = f \/ Earlier(h, R, f, b)
    <3> HIDE DEF f, k
    <3>1. PICK j, w : IsAt(L, R, b, j, w)
      BY <2>9, PlaceOf
    <3>2. Precedes(l, x, j, w) /\ j \in Nat /\ w \in Nat
      BY <1>1, <2>9, <3>1, EarlierIs, PlaceFacts
    <3>3. w \in 1 .. Len(R[L[j]])
      BY <3>1 DEF IsAt
    <3>4. ~(l = j /\ x < w)
      <4>1. l = j => w <= len
        BY <3>2, <3>3, <1>3
      <4> QED
        BY <1>2, <1>3, <2>1, <3>2, <4>1
    <3>5. l < j
      BY <3>2, <3>4 DEF Precedes
    <3>6. (j = k /\ w = 1) \/ Precedes(k, 1, j, w)
      BY <1>2, <3>2, <3>3, <3>5 DEF Precedes, k
    <3>7. /\ Earlier(h, R, f, b) <=> Precedes(k, 1, j, w)
          /\ f = b <=> k = j /\ 1 = w
      BY <2>6, <3>1, EarlierIs
    <3> QED
      BY <3>6, <3>7
  <2>10. f \in GATE /\ h.GATE_TIMEQ[f] # NULL /\ Earlier(h, R, a, f)
    <3> HIDE DEF f, k
    <3> QED
      BY <1>1, <2>6, <2>7, EarlierIs, PlaceFacts
  <2> QED
    BY <2>9, <2>10 DEF IsNext
<1> QED
  BY <1>8, <1>9

(* Following leads to the next gate in the order.                          *)
LEMMA FollowsInAgenda ==
  ASSUME NEW h \in Heaps, NEW A, Queue(h, A), NEW i \in 1 .. Len(A), i + 1 \in 1 .. Len(A)
  PROVE  NextGate(h, A[i]) = A[i + 1]
<1>1. PICK L, R : Holds(h, L, R) /\ IsAgenda(h, R, A)
  BY DEF Queue
<1> DEFINE a == A[i]
           k == i + 1
           b == A[k]
           f == NextGate(h, a)
<1>2. /\ Len(A) \in Nat /\ Fires(h, A) /\ k \in 1 .. Len(A) /\ i < k
      /\ \A j \in 1 .. Len(A) : A[j] \in GATE /\ h.GATE_TIMEQ[A[j]] # NULL
      /\ \A c, j \in 1 .. Len(A) : c < j => Earlier(h, R, A[c], A[j])
  BY <1>1, QueueFacts DEF IsAgenda
<1>3. a \in GATE /\ b \in GATE /\ h.GATE_TIMEQ[a] # NULL /\ h.GATE_TIMEQ[b] # NULL /\ Earlier(h, R, a, b)
  BY <1>2
<1> HIDE DEF a, b, k, f
<1>4. IsNext(h, R, a, f)
  BY <1>1, <1>3, NextGateIs DEF f
<1>5. /\ f \in GATE /\ h.GATE_TIMEQ[f] # NULL /\ Earlier(h, R, a, f)
      /\ b = f \/ Earlier(h, R, f, b)
  BY <1>3, <1>4 DEF IsNext
<1>6. PICK j \in 1 .. Len(A) : A[j] = f
  BY <1>2, <1>5 DEF Fires
<1>7. i < j
  <2>1. ~(j < i)
    BY <1>1, <1>2, <1>3, <1>5, <1>6, NotBoth DEF a
  <2>2. a # f
    BY <1>1, <1>3, <1>5, NotBoth
  <2> QED
    BY <1>2, <1>6, <2>1, <2>2 DEF a
<1>8. ~(k < j)
  <2> SUFFICES ASSUME k < j PROVE FALSE
    OBVIOUS
  <2>1. Earlier(h, R, b, f)
    BY <1>2, <1>6 DEF b
  <2>2. ~Earlier(h, R, f, b) /\ b # f
    BY <1>1, <1>3, <1>5, <2>1, NotBoth
  <2> QED
    BY <1>5, <2>2
<1>9. j = k
  BY <1>2, <1>7, <1>8 DEF k
<1> QED
  BY <1>6, <1>9 DEF a, b, k, f

(* The number of scheduled gates is the length of the agenda.              *)
LEMMA HowManyGates ==
  ASSUME NEW A \in Seq(GATE), Distinct(A), NEW S, S = {A[i] : i \in 1 .. Len(A)}
  PROVE  Cardinality(S) = Len(A)
<1> DEFINE n == Len(A)
<1>1. n \in Nat /\ A \in [1 .. n -> GATE]
  BY LenProperties
<1>2. A \in [1 .. n -> S]
  <2>1. \A i \in 1 .. n : A[i] \in S
    OBVIOUS
  <2> HIDE DEF n
  <2> QED
    BY <1>1, <2>1
<1>3. \A i, j \in 1 .. n : A[i] = A[j] => i = j
  BY DEF Distinct
<1>4. \A s \in S : \E i \in 1 .. n : A[i] = s
  OBVIOUS
<1> HIDE DEF n
<1>5. A \in Bijection(1 .. n, S)
  BY <1>2, <1>3, <1>4 DEF Bijection, Injection, Surjection, IsInjective
<1>6. IsFiniteSet(1 .. n) /\ Cardinality(1 .. n) = n
  BY <1>1, FS_Interval
<1>7. Cardinality(S) = n
  <2>1. ExistsBijection(1 .. n, S)
    BY <1>5 DEF ExistsBijection
  <2> QED
    BY <1>6, <2>1, FS_Bijection
<1> QED
  BY <1>7 DEF n

Listing(h, A) == [k \in 1 .. Len(A) |-> [gate |-> A[k], time |-> OnTime(h, A[k])]]

Walk(at, size) == at = [k \in 1 .. size |-> IF k = 1 THEN PeekGate ELSE Following(at[k - 1])]

(* The agenda that is read from the pointers lists the order.              *)
LEMMA AgendaIs ==
  ASSUME NEW A, Heap \in Heaps, Queue(Heap, A)
  PROVE  agenda = Listing(Heap, A)
<1> DEFINE h == Heap
           n == Len(A)
           size == Cardinality({g \in GATE : IsGateScheduled(g)})
<1>1. /\ A \in Seq(GATE) /\ n \in Nat /\ Distinct(A)
      /\ \A i \in 1 .. n : A[i] \in GATE /\ h.GATE_TIMEQ[A[i]] # NULL
      /\ \A g \in GATE : h.GATE_TIMEQ[g] # NULL <=> \E k \in 1 .. n : A[k] = g
  BY QueueFacts DEF Fires
<1>2. h.GATE_TIMEQ = GATE_TIMEQ /\ h.GATE_NEXT = GATE_NEXT /\ h.gate = gate /\ h.next = next /\ h.timeIndex = timeIndex
  BY DEF Heap
<1>3. n # 0 => PeekGate = A[1]
  BY PeekIs
<1>4. \A g : Following(g) = NextGate(h, g)
  BY <1>2 DEF Following, NextGate
<1>5. \A i \in 1 .. n : i + 1 \in 1 .. n => NextGate(h, A[i]) = A[i + 1]
  BY FollowsInAgenda
<1>6. size = n
  <2> DEFINE S == {A[i] : i \in 1 .. n}
  <2>1. {g \in GATE : IsGateScheduled(g)} = S
    <3> HIDE DEF n
    <3>1. \A g \in GATE : IsGateScheduled(g) <=> \E k \in 1 .. n : A[k] = g
      BY <1>1, <1>2 DEF IsGateScheduled
    <3> QED
      BY <1>1, <3>1
  <2>2. Cardinality(S) = n
    BY <1>1, HowManyGates
  <2> QED
    BY <2>1, <2>2
<1> HIDE DEF size, h, n
<1>7. A = [k \in 1 .. n |-> A[k]]
  BY <1>1 DEF n
<1>8. Walk(A, n)
  <2>1. ASSUME NEW k \in 1 .. n PROVE A[k] = IF k = 1 THEN PeekGate ELSE Following(A[k - 1])
    <3>1. CASE k = 1
      <4>1. n # 0
        BY <1>1
      <4> QED
        BY <1>3, <3>1, <4>1
    <3>2. CASE k # 1
      <4>1. k - 1 \in 1 .. n /\ (k - 1) + 1 = k
        BY <1>1, <3>2
      <4>2. NextGate(h, A[k - 1]) = A[k]
        BY <1>5, <4>1
      <4> QED
        BY <1>4, <3>2, <4>2
    <3> QED
      BY <3>1, <3>2
  <2>2. A = [k \in 1 .. n |-> IF k = 1 THEN PeekGate ELSE Following(A[k - 1])]
    BY <1>7, <2>1
  <2> QED
    BY <2>2 DEF Walk
<1> DEFINE at == CHOOSE at : Walk(at, n)
<1>9. Walk(at, n)
  BY <1>8
<1> HIDE DEF at
<1>10. \A k \in 1 .. n : at[k] = IF k = 1 THEN PeekGate ELSE Following(at[k - 1])
  <2>1. at = [k \in 1 .. n |-> IF k = 1 THEN PeekGate ELSE Following(at[k - 1])]
    BY <1>9 DEF Walk
  <2> QED
    BY <2>1
<1> DEFINE T == {k \in Nat : k + 1 \in 1 .. n => at[k + 1] = A[k + 1]}
<1>11. \A k \in 1 .. n : at[k] = A[k]
  <2>1. 0 \in T
    <3>1. 1 \in 1 .. n => at[1] = A[1]
      <4>1. 1 \in 1 .. n => n # 0
        BY <1>1
      <4> QED
        BY <1>3, <1>10, <4>1
    <3> QED
      BY <3>1
  <2>2. ASSUME NEW k \in 0 .. n - 1, k \in T PROVE k + 1 \in T
    <3>1. k + 1 \in Nat /\ k + 1 \in 1 .. n
      BY <1>1
    <3>2. ASSUME (k + 1) + 1 \in 1 .. n PROVE at[(k + 1) + 1] = A[(k + 1) + 1]
      <4> DEFINE j == k + 1
                 i == j + 1
      <4>1. j \in 1 .. n /\ i \in 1 .. n /\ i # 1 /\ i - 1 = j
        BY <3>1, <3>2
      <4>2. at[j] = A[j]
        BY <2>2, <4>1
      <4> HIDE DEF i, j
      <4>3. at[i] = Following(at[j])
        BY <1>10, <4>1
      <4>4. NextGate(h, A[j]) = A[i]
        BY <1>5, <4>1 DEF i
      <4>5. at[i] = A[i]
        BY <1>4, <4>2, <4>3, <4>4
      <4> QED
        BY <4>5 DEF i, j
    <3> QED
      BY <3>1, <3>2
  <2>3. 0 .. n \subseteq T
    <3> HIDE DEF T
    <3> QED
      BY <1>1, <2>1, <2>2, Induction
  <2> TAKE k \in 1 .. n
  <2>4. k - 1 \in 0 .. n /\ (k - 1) + 1 = k
    BY <1>1
  <2>5. k - 1 \in T
    BY <2>3, <2>4
  <2> QED
    BY <2>4, <2>5
<1>12. agenda = [k \in 1 .. n |-> [gate |-> at[k], time |-> Value(timeIndex[GATE_TIMEQ[at[k]]])]]
  <2>1. agenda = LET s == size
                     a == CHOOSE a : Walk(a, s)
                 IN [k \in 1 .. s |-> [gate |-> a[k], time |-> Value(timeIndex[GATE_TIMEQ[a[k]]])]]
    BY DEF agenda, Walk, size
  <2> QED
    BY <1>6, <2>1 DEF at
<1>13. \A k \in 1 .. n : Value(timeIndex[GATE_TIMEQ[at[k]]]) = OnTime(h, A[k]) /\ at[k] = A[k]
  BY <1>2, <1>11 DEF OnTime, TimeOf
<1>14. agenda = [k \in 1 .. n |-> [gate |-> A[k], time |-> OnTime(h, A[k])]]
  BY <1>12, <1>13
<1> QED
  BY <1>14 DEF Listing, h, n

(* This holds in every state, so in the next one too.                      *)
AgendaRead == \A A : Heap \in Heaps /\ Queue(Heap, A) => agenda = Listing(Heap, A)
(* The same, now and in the next state.                                    *)
LEMMA AgendaIsRead == AgendaRead /\ AgendaRead'
<1>1. AgendaRead
  BY AgendaIs DEF AgendaRead
<1>2. AgendaRead'
  BY <1>1, PTL
<1> QED
  BY <1>1, <1>2

(* The nodes that are read from the pointers are those of the list.        *)
LEMMA NodeListIs ==
  ASSUME Heap \in Heaps, NEW L, NEW R, Holds(Heap, L, R)
  PROVE  /\ NodeList = L /\ Range(NodeList) = {L[i] : i \in 1 .. Len(L)}
         /\ gateList # NULL => Len(L) # 0 /\ gateList = L[1]
<1>1. Heap.gateList = gateList /\ Heap.next = next
  BY DEF Heap
<1>2. /\ Heap.gateList = NULL <=> Len(L) = 0
      /\ Len(L) # 0 => Heap.gateList = L[1] /\ Circle(Heap.next, Heap.gateList) = L
  BY ListIs
<1>3. L \in Seq(NODE) /\ Len(L) \in Nat
  BY ListFacts
<1>4. NodeList = L
  <2>1. CASE Len(L) = 0
    <3>1. L = <<>>
      BY <1>3, <2>1
    <3> QED
      BY <1>1, <1>2, <2>1, <3>1 DEF NodeList
  <2>2. CASE Len(L) # 0
    BY <1>1, <1>2, <2>2 DEF NodeList
  <2> QED
    BY <2>1, <2>2
<1>5. Range(L) = {L[i] : i \in 1 .. Len(L)}
  BY <1>3 DEF Range
<1> QED
  BY <1>1, <1>2, <1>4, <1>5

(* No free node is on the list: while the list has a node there is none.   *)
FreeWalk(at, size) == at = [k \in 0 .. size |-> IF k = 0 THEN nodeFreeList
                                                ELSE LET n == at[k - 1] IN IF n = NULL THEN NULL ELSE next[n]]
(* An empty free list has no nodes.                                        *)
LEMMA NoneFree ==
  ASSUME nodeFreeList = NULL
  PROVE  FreeNodes = {}
<1> DEFINE size == Cardinality(NODE)
           w == [k \in 0 .. size |-> NULL]
           at == CHOOSE at : FreeWalk(at, size)
           T == {k \in Nat : k \in 0 .. size => at[k] = NULL}
<1>1. size \in Nat
  BY QueueAssumption, FS_CardinalityType
<1> HIDE DEF size
<1>2. FreeWalk(w, size)
  <2>1. \A k \in 0 .. size : w[k] = IF k = 0 THEN nodeFreeList
                                    ELSE LET n == w[k - 1] IN IF n = NULL THEN NULL ELSE next[n]
    <3> TAKE k \in 0 .. size
    <3>1. w[k] = NULL /\ (k # 0 => k - 1 \in 0 .. size /\ w[k - 1] = NULL)
      BY <1>1
    <3> QED
      BY <3>1
  <2>2. w = [k \in 0 .. size |-> w[k]]
    OBVIOUS
  <2> HIDE DEF w
  <2>3. w = [k \in 0 .. size |-> IF k = 0 THEN nodeFreeList
                                 ELSE LET n == w[k - 1] IN IF n = NULL THEN NULL ELSE next[n]]
    BY <2>1, <2>2
  <2> QED
    BY <2>3 DEF FreeWalk
<1> HIDE DEF w
<1>3. FreeWalk(at, size)
  BY <1>2
<1> HIDE DEF at
<1>4. \A k \in 0 .. size : at[k] = IF k = 0 THEN nodeFreeList
                                   ELSE LET n == at[k - 1] IN IF n = NULL THEN NULL ELSE next[n]
  <2>1. at = [k \in 0 .. size |-> IF k = 0 THEN nodeFreeList
                                   ELSE LET n == at[k - 1] IN IF n = NULL THEN NULL ELSE next[n]]
    BY <1>3 DEF FreeWalk
  <2> QED
    BY <2>1
<1>5. \A k \in 0 .. size : at[k] = NULL
  <2>1. 0 \in T
    BY <1>1, <1>4
  <2>2. ASSUME NEW k \in 0 .. size - 1, k \in T PROVE k + 1 \in T
    <3>1. k + 1 \in Nat /\ k + 1 \in 0 .. size /\ k + 1 # 0 /\ (k + 1) - 1 = k /\ k \in 0 .. size
      BY <1>1
    <3>2. at[k] = NULL
      BY <2>2, <3>1
    <3>3. at[k + 1] = NULL
      BY <1>4, <3>1, <3>2
    <3> QED
      BY <3>1, <3>3
  <2> HIDE DEF T
  <2>3. 0 .. size \subseteq T
    BY <1>1, <2>1, <2>2, Induction
  <2> QED
    BY <2>3 DEF T
<1>6. FreeNodes = {at[k] : k \in 0 .. size} \ {NULL}
  BY DEF FreeNodes, FreeWalk, at, size
<1> QED
  BY <1>5, <1>6

(* A queue that holds an order has sound pointers.                         *)
LEMMA QueueSound == QueueInv => PointersSound
<1> SUFFICES ASSUME QueueInv PROVE PointersSound
  OBVIOUS
<1> DEFINE h == Heap
<1>1. h \in Heaps /\ CurrentTime \in Within /\ \E A : Queue(h, A)
  BY DEF QueueInv
<1>2. PICK A : Queue(h, A)
  BY <1>1
<1>3. PICK L, R : Holds(h, L, R) /\ IsAgenda(h, R, A)
  BY <1>2 DEF Queue
<1>4. /\ h.gateList = gateList /\ h.nodeFreeList = nodeFreeList /\ h.next = next /\ h.prev = prev
      /\ h.timeIndex = timeIndex /\ h.gate = gate /\ h.GATE_NEXT = GATE_NEXT /\ h.GATE_PREV = GATE_PREV
      /\ h.GATE_TIMEQ = GATE_TIMEQ /\ h.allocated = allocated
  BY DEF Heap
<1> DEFINE list == {L[i] : i \in 1 .. Len(L)}
<1>5. /\ NodeList = L /\ Range(NodeList) = list
      /\ gateList # NULL => Len(L) # 0 /\ gateList = L[1]
  BY <1>1, <1>3, NodeListIs
<1> HIDE DEF h
<1>6. ASSUME NEW n \in NODE, OnList(L, n)
      PROVE  /\ Len(R[n]) \in Nat /\ 1 \in 1 .. Len(R[n]) /\ h.gate[n] = R[n][1] /\ R[n][1] \in GATE
             /\ h.GATE_TIMEQ[R[n][1]] = n
             /\ R[n] \in Seq(GATE) /\ IsRing(h.GATE_NEXT, h.GATE_PREV, R[n])
  <2>1. RingAt(h, L, R, n) /\ Len(R[n]) \in Nat /\ R[n] \in Seq(GATE)
    BY <1>3, RingFacts DEF Holds, GatesLinked
  <2>2. /\ Len(R[n]) # 0 /\ h.gate[n] = IF Len(R[n]) = 0 THEN NULL ELSE R[n][1]
        /\ IsRing(h.GATE_NEXT, h.GATE_PREV, R[n])
    BY <1>6, <2>1 DEF RingAt
  <2>3. 1 \in 1 .. Len(R[n])
    BY <2>1, <2>2
  <2>4. R[n][1] \in GATE /\ h.GATE_TIMEQ[R[n][1]] = n
    BY <1>3, <2>3, EntryOfRing
  <2> QED
    BY <2>1, <2>2, <2>3, <2>4
<1>7. TypeOK
  <2>1. gateList # NULL => gate[gateList] # NULL
    <3> SUFFICES ASSUME gateList # NULL PROVE gate[gateList] # NULL
      OBVIOUS
    <3>1. Len(L) # 0 /\ gateList = L[1] /\ Len(L) \in Nat
      BY <1>3, <1>5, ListFacts
    <3>2. 1 \in 1 .. Len(L)
      BY <3>1
    <3>3. gateList \in NODE /\ OnList(L, gateList)
      BY <1>3, <3>1, <3>2, EntryOfList DEF OnList
    <3>4. h.gate[gateList] \in GATE
      BY <1>6, <3>3
    <3> QED
      BY <1>4, <3>4, QueueAssumption
  <2> QED
    BY <1>1, <1>4, <2>1, HeapTypes DEF TypeOK
<1>8. ASSUME NEW n \in list
      PROVE  prev[next[n]] = n /\ next[prev[n]] = n /\ GATE_TIMEQ[gate[n]] = n
  <2>1. PICK l \in 1 .. Len(L) : L[l] = n
    OBVIOUS
  <2> DEFINE len == Len(L)
             a == After(l, len)
             b == Before(l, len)
  <2>2. /\ n \in NODE /\ len \in Nat
        /\ a \in 1 .. len /\ h.next[n] = L[a]
        /\ b \in 1 .. len /\ h.prev[n] = L[b]
    BY <1>3, <2>1, EntryOfList
  <2>3. Before(a, len) = l /\ After(b, len) = l
    BY <2>2, AfterFacts
  <2> HIDE DEF a, b
  <2>4. h.prev[L[a]] = L[Before(a, len)]
    BY <1>3, <2>2, EntryOfList
  <2>5. h.next[L[b]] = L[After(b, len)]
    BY <1>3, <2>2, EntryOfList
  <2>6. h.GATE_TIMEQ[h.gate[n]] = n
    BY <1>6, <2>1, <2>2 DEF OnList
  <2> QED
    BY <1>4, <2>1, <2>2, <2>3, <2>4, <2>5, <2>6
<1>9. ASSUME NEW g \in GATE, IsGateScheduled(g)
      PROVE  /\ GATE_TIMEQ[g] \in list /\ GATE_NEXT[g] \in {e \in GATE : IsGateScheduled(e)}
             /\ GATE_TIMEQ[GATE_NEXT[g]] = GATE_TIMEQ[g]
             /\ GATE_PREV[GATE_NEXT[g]] = g
             /\ g \in Range(Circle(GATE_NEXT, gate[GATE_TIMEQ[g]]))
  <2> DEFINE n == h.GATE_TIMEQ[g]
  <2>0. h.GATE_TIMEQ[g] # NULL
    BY <1>4, <1>9 DEF IsGateScheduled
  <2>1. n \in NODE /\ (\E x \in 1 .. Len(R[n]) : R[n][x] = g) /\ (\E l \in 1 .. Len(L) : L[l] = n)
    BY <1>1, <1>3, <2>0, WhereGateIs
  <2> HIDE DEF n
  <2>2. PICK x \in 1 .. Len(R[n]) : R[n][x] = g
    BY <2>1
  <2>3. n \in list /\ OnList(L, n)
    BY <2>1 DEF OnList
  <2> DEFINE s == R[n]
             len == Len(s)
             a == After(x, len)
  <2>4. len \in Nat /\ a \in 1 .. len /\ h.GATE_NEXT[g] = s[a]
    BY <1>3, <2>1, <2>2, EntryOfRing
  <2>5. Before(a, len) = x
    BY <2>4, AfterFacts
  <2> HIDE DEF a
  <2>6. s[a] \in GATE /\ h.GATE_TIMEQ[s[a]] = n /\ h.GATE_PREV[s[a]] = s[Before(a, len)]
    BY <1>3, <2>1, <2>4, EntryOfRing
  <2>7. Circle(h.GATE_NEXT, s[1]) = s
    <3> DEFINE p == h.GATE_NEXT
               q == h.GATE_PREV
    <3>1. DOMAIN p = GATE
      BY <1>1, HeapTypes
    <3>2. s \in Seq(GATE) /\ IsRing(p, q, s)
      BY <1>6, <2>1, <2>3
    <3>3. len > 0 /\ len = Len(s)
      BY <2>4
    <3>4. IsFiniteSet(GATE)
      BY QueueAssumption
    <3> HIDE DEF p, q, len, s
    <3>5. Circle(p, s[1]) = s
      BY <2>4, <3>1, <3>2, <3>3, <3>4, CircleIs
    <3> QED
      BY <3>5 DEF p
  <2>8. h.gate[n] = s[1] /\ s \in Seq(GATE)
    BY <1>6, <2>1, <2>3
  <2>9. g \in Range(s)
    BY <2>2, <2>8 DEF Range
  <2>10. n # NULL /\ n = GATE_TIMEQ[g]
    BY <1>4, <2>1, QueueAssumption DEF n
  <2>11. g \in Range(Circle(GATE_NEXT, gate[n]))
    BY <1>4, <2>7, <2>8, <2>9
  <2>12. GATE_NEXT[g] = s[a] /\ GATE_TIMEQ[s[a]] = n /\ GATE_PREV[s[a]] = g
    BY <1>4, <2>2, <2>4, <2>5, <2>6
  <2> HIDE DEF list, s, len
  <2> QED
    BY <2>3, <2>6, <2>10, <2>11, <2>12 DEF IsGateScheduled
<1>10. FreeNodes \cap list = {}
  <2>1. CASE nodeFreeList = NULL
    BY <2>1, NoneFree
  <2>2. CASE nodeFreeList # NULL
    <3>1. Len(L) = 0
      BY <1>3, <1>4, <2>2 DEF Holds, OneFree
    <3> QED
      BY <3>1
  <2> QED
    BY <2>1, <2>2
<1>11. RingsClosed
  <2> HIDE DEF list
  <2> QED
    BY <1>5, <1>8, <1>9, <1>10 DEF RingsClosed
<1> QED
  BY <1>7, <1>11 DEF PointersSound

-----------------------------------------------------------------------------
(* The agenda's operators, on what the pointers hold.                      *)
Entries == [gate : GATE, time : Nat]

(* The entries of the agenda.                                              *)
LEMMA ListingIs ==
  ASSUME NEW h \in Heaps, NEW A, Queue(h, A)
  PROVE  /\ Listing(h, A) \in Seq(Entries) /\ Len(Listing(h, A)) = Len(A)
         /\ \A i \in 1 .. Len(A) : Listing(h, A)[i] = [gate |-> A[i], time |-> OnTime(h, A[i])]
<1> DEFINE n == Len(A)
           s == Listing(h, A)
<1>1. n \in Nat /\ \A i \in 1 .. n : A[i] \in GATE /\ OnTime(h, A[i]) \in Nat
  BY QueueFacts
<1>2. s = [k \in 1 .. n |-> [gate |-> A[k], time |-> OnTime(h, A[k])]]
  BY DEF Listing
<1> HIDE DEF s, n
<1>3. \A k \in 1 .. n : [gate |-> A[k], time |-> OnTime(h, A[k])] \in Entries
  BY <1>1 DEF Entries
<1>4. s \in [1 .. n -> Entries]
  BY <1>2, <1>3
<1>5. s \in Seq(Entries) /\ Len(s) = n
  BY <1>1, <1>4, IsASeq
<1> QED
  BY <1>2, <1>5 DEF s, n

(* The agenda without a gate.                                              *)
LEMMA ListingWithout ==
  ASSUME NEW h \in Heaps, NEW A, Queue(h, A), NEW k \in 1 .. Len(A),
         NEW v \in Heaps, Queue(v, RemoveAt(A, k)), OthersStay(h, v, A[k])
  PROVE  Listing(v, RemoveAt(A, k)) = RemoveAt(Listing(h, A), k)
<1> DEFINE n == Len(A)
           B == RemoveAt(A, k)
           s == Listing(h, A)
           u == Listing(v, B)
           r == RemoveAt(s, k)
<1>1. /\ n \in Nat /\ A \in Seq(GATE) /\ Distinct(A)
      /\ \A i \in 1 .. n : A[i] \in GATE /\ h.GATE_TIMEQ[A[i]] # NULL
  BY QueueFacts
<1>2. Len(B) = n - 1 /\ \A i \in 1 .. n - 1 : B[i] = A[Skip(k, i)]
  BY <1>1, RemoveAtFacts DEF Skip
<1>3. /\ s \in Seq(Entries) /\ Len(s) = n
      /\ \A i \in 1 .. n : s[i] = [gate |-> A[i], time |-> OnTime(h, A[i])]
  BY ListingIs
<1>4. /\ u \in Seq(Entries) /\ Len(u) = Len(B)
      /\ \A i \in 1 .. Len(B) : u[i] = [gate |-> B[i], time |-> OnTime(v, B[i])]
  <2>1. Queue(v, B)
    OBVIOUS
  <2> HIDE DEF B
  <2> QED
    BY <2>1, ListingIs
<1> HIDE DEF s, u, B
<1>5. r \in Seq(Entries) /\ Len(r) = n - 1 /\ \A i \in 1 .. n - 1 : r[i] = s[Skip(k, i)]
  <2>1. k \in 1 .. Len(s)
    BY <1>3
  <2> QED
    BY <1>3, <2>1, RemoveAtFacts DEF Skip
<1> HIDE DEF r
<1>6. ASSUME NEW i \in 1 .. n - 1 PROVE u[i] = r[i]
  <2> DEFINE j == Skip(k, i)
  <2>1. j \in 1 .. n /\ j # k
    BY <1>1 DEF Skip
  <2>2. B[i] = A[j] /\ r[i] = [gate |-> A[j], time |-> OnTime(h, A[j])]
    BY <1>2, <1>3, <1>5, <2>1
  <2>3. u[i] = [gate |-> A[j], time |-> OnTime(v, A[j])]
    BY <1>2, <1>4, <2>2
  <2> HIDE DEF j
  <2>4. A[j] # A[k] /\ A[j] \in GATE /\ h.GATE_TIMEQ[A[j]] # NULL
    BY <1>1, <2>1 DEF Distinct
  <2>5. OnTime(v, A[j]) = OnTime(h, A[j])
    BY <2>4 DEF OthersStay, OnTime
  <2> QED
    BY <2>2, <2>3, <2>5
<1>7. u = r
  BY <1>2, <1>4, <1>5, <1>6, SeqEqual
<1> QED
  BY <1>7 DEF u, r, s, B

(* The agenda with one gate more.                                          *)
LEMMA ListingWith ==
  ASSUME NEW h \in Heaps, NEW A, Queue(h, A), NEW k \in 1 .. Len(A) + 1, NEW g \in GATE,
         h.GATE_TIMEQ[g] = NULL,
         NEW v \in Heaps, Queue(v, InsertAt(A, k, g)), OthersStay(h, v, g), v.GATE_TIMEQ[g] # NULL,
         NEW e, e = [gate |-> g, time |-> OnTime(v, g)]
  PROVE  e \in Entries /\ Listing(v, InsertAt(A, k, g)) = InsertAt(Listing(h, A), k, e)
<1> DEFINE n == Len(A)
           B == InsertAt(A, k, g)
           s == Listing(h, A)
           u == Listing(v, B)
           r == InsertAt(s, k, e)
<1>1. /\ n \in Nat /\ A \in Seq(GATE)
      /\ \A i \in 1 .. n : A[i] \in GATE /\ h.GATE_TIMEQ[A[i]] # NULL
  BY QueueFacts
<1>2. Widened(A, B, k, g)
  BY <1>1, InsertAtFacts
<1>3. /\ s \in Seq(Entries) /\ Len(s) = n
      /\ \A i \in 1 .. n : s[i] = [gate |-> A[i], time |-> OnTime(h, A[i])]
  BY ListingIs
<1>4. /\ u \in Seq(Entries) /\ Len(u) = Len(B)
      /\ \A i \in 1 .. Len(B) : u[i] = [gate |-> B[i], time |-> OnTime(v, B[i])]
  <2>1. Queue(v, B)
    OBVIOUS
  <2> HIDE DEF B
  <2> QED
    BY <2>1, ListingIs
<1>5. e \in Entries
  BY TimeFacts DEF Entries
<1> HIDE DEF s, u, B
<1>6. r \in Seq(Entries) /\ Widened(s, r, k, e)
  <2>1. k \in 1 .. Len(s) + 1
    BY <1>3
  <2> QED
    BY <1>3, <1>5, <2>1, InsertAtFacts
<1> HIDE DEF r
<1>7. /\ Len(B) = n + 1
      /\ \A i \in 1 .. n + 1 : B[i] = IF i < k THEN A[i] ELSE IF i = k THEN g ELSE A[i - 1]
  BY <1>2 DEF Widened
<1>8. /\ Len(r) = n + 1
      /\ \A i \in 1 .. n + 1 : r[i] = IF i < k THEN s[i] ELSE IF i = k THEN e ELSE s[i - 1]
  BY <1>3, <1>6 DEF Widened
<1>9. \A j \in 1 .. n : s[j] = [gate |-> A[j], time |-> OnTime(v, A[j])]
  <2> TAKE j \in 1 .. n
  <2>1. A[j] \in GATE /\ h.GATE_TIMEQ[A[j]] # NULL /\ A[j] # g
    BY <1>1
  <2>2. OnTime(v, A[j]) = OnTime(h, A[j])
    BY <2>1 DEF OthersStay, OnTime
  <2> QED
    BY <1>3, <2>2
<1>10. ASSUME NEW i \in 1 .. n + 1 PROVE u[i] = r[i]
  <2>1. u[i] = [gate |-> B[i], time |-> OnTime(v, B[i])]
    BY <1>4, <1>7
  <2>2. CASE i < k
    <3>1. i \in 1 .. n /\ B[i] = A[i] /\ r[i] = s[i]
      BY <1>1, <1>7, <1>8, <2>2
    <3>2. s[i] = [gate |-> A[i], time |-> OnTime(v, A[i])]
      BY <1>9, <3>1
    <3> QED
      BY <2>1, <3>1, <3>2
  <2>3. CASE i = k
    BY <1>1, <1>7, <1>8, <2>1, <2>3
  <2>4. CASE i > k
    <3> DEFINE j == i - 1
    <3>1. j \in 1 .. n /\ B[i] = A[j] /\ r[i] = s[j]
      BY <1>1, <1>7, <1>8, <2>4
    <3> HIDE DEF j
    <3>2. s[j] = [gate |-> A[j], time |-> OnTime(v, A[j])]
      BY <1>9, <3>1
    <3> QED
      BY <2>1, <3>1, <3>2
  <2> QED
    BY <1>1, <2>2, <2>3, <2>4
<1>11. u = r
  BY <1>4, <1>6, <1>7, <1>8, <1>10, SeqEqual
<1> QED
  BY <1>5, <1>11 DEF u, r, s, B

(* The place that the agenda chooses is that of the order.                 *)
LEMMA AbstractBehind ==
  ASSUME NEW h \in Heaps, NEW A, Queue(h, A), NEW t \in Within, NEW k, IsBehind(h, A, t, k)
  PROVE  Agenda!Behind(Listing(h, A), Value(t)) = k
<1> DEFINE n == Len(A)
           s == Listing(h, A)
           T == Value(t)
           Fits(m) == (\A i \in 1 .. m - 1 : s[i].time <= T) /\ (\A i \in m .. Len(s) : T < s[i].time)
<1>1. /\ n \in Nat /\ Len(s) = n /\ T \in Nat
      /\ \A i \in 1 .. n : s[i].time = OnTime(h, A[i]) /\ s[i].time \in Nat
  <2>1. n \in Nat
    BY QueueFacts
  <2>2. /\ s \in Seq(Entries) /\ Len(s) = n
        /\ \A i \in 1 .. n : s[i] = [gate |-> A[i], time |-> OnTime(h, A[i])]
    BY ListingIs
  <2>3. T \in Nat
    <3>1. t \in Time64
      BY DEF Within
    <3> QED
      BY <3>1, ValueIsNat
  <2> HIDE DEF s, T, n
  <2>4. ASSUME NEW i \in 1 .. n PROVE s[i].time = OnTime(h, A[i]) /\ s[i].time \in Nat
    <3>1. s[i] \in Entries /\ s[i] = [gate |-> A[i], time |-> OnTime(h, A[i])]
      BY <2>1, <2>2
    <3> QED
      BY <3>1 DEF Entries
  <2> QED
    BY <2>1, <2>2, <2>3, <2>4
<1>2. /\ k \in 1 .. n + 1
      /\ \A i \in 1 .. n : i < k => OnTime(h, A[i]) <= T
      /\ \A i \in 1 .. n : i >= k => T < OnTime(h, A[i])
  BY DEF IsBehind
<1> HIDE DEF s, T, n
<1>3. Fits(k)
  <2>1. \A i \in 1 .. k - 1 : i \in 1 .. n /\ i < k
    BY <1>1, <1>2
  <2>2. \A i \in k .. n : i \in 1 .. n /\ i >= k
    BY <1>1, <1>2
  <2> QED
    BY <1>1, <1>2, <2>1, <2>2
<1>4. ASSUME NEW m \in 1 .. n + 1, Fits(m) PROVE m = k
  <2>1. ASSUME m < k PROVE FALSE
    <3>1. m \in m .. Len(s) /\ m \in 1 .. k - 1 /\ m \in 1 .. n
      BY <1>1, <1>2, <2>1
    <3>2. T < s[m].time /\ s[m].time <= T
      BY <1>3, <1>4, <3>1
    <3> QED
      BY <1>1, <3>1, <3>2
  <2>2. ASSUME k < m PROVE FALSE
    <3>1. k \in k .. Len(s) /\ k \in 1 .. m - 1 /\ k \in 1 .. n
      BY <1>1, <1>2, <2>2
    <3>2. T < s[k].time /\ s[k].time <= T
      BY <1>3, <1>4, <3>1
    <3> QED
      BY <1>1, <3>1, <3>2
  <2> QED
    BY <1>1, <1>2, <2>1, <2>2
<1>5. Agenda!Behind(s, T) = CHOOSE m \in 1 .. Len(s) + 1 : Fits(m)
  BY DEF Agenda!Behind
<1> HIDE DEF Fits
<1>6. Agenda!Behind(s, T) = k
  BY <1>1, <1>2, <1>3, <1>4, <1>5
<1> QED
  BY <1>6 DEF s, T

(* What the agenda drops is what the order drops.                          *)
LEMMA AbstractWithout ==
  ASSUME NEW h \in Heaps, NEW A, Queue(h, A), NEW g \in GATE
  PROVE  /\ h.GATE_TIMEQ[g] = NULL => Agenda!Without(Listing(h, A), g) = Listing(h, A)
         /\ \A k \in 1 .. Len(A) : A[k] = g => Agenda!Without(Listing(h, A), g) = RemoveAt(Listing(h, A), k)
<1> DEFINE n == Len(A)
           s == Listing(h, A)
           at == {i \in DOMAIN s : s[i].gate = g}
<1>1. /\ n \in Nat /\ s \in Seq(Entries) /\ Len(s) = n
      /\ \A i \in 1 .. n : s[i] = [gate |-> A[i], time |-> OnTime(h, A[i])]
  BY ListingIs, QueueFacts
<1>2. \A i, j \in 1 .. n : A[i] = A[j] => i = j
  BY QueueFacts DEF Distinct
<1>3. h.GATE_TIMEQ[g] # NULL <=> \E k \in 1 .. n : A[k] = g
  BY QueueFacts DEF Fires
<1> HIDE DEF s, n
<1>4. at = {i \in 1 .. n : A[i] = g}
  BY <1>1
<1>5. Agenda!Without(s, g) = IF at = {} THEN s ELSE Agenda!RemoveAt(s, CHOOSE i \in at : TRUE)
  BY DEF Agenda!Without
<1> HIDE DEF at
<1>6. ASSUME h.GATE_TIMEQ[g] = NULL PROVE Agenda!Without(s, g) = s
  BY <1>3, <1>4, <1>5, <1>6
<1>7. ASSUME NEW k \in 1 .. n, A[k] = g PROVE Agenda!Without(s, g) = RemoveAt(s, k)
  <2>1. at = {k}
    BY <1>2, <1>4, <1>7
  <2>2. (CHOOSE i \in at : TRUE) = k
    BY <2>1
  <2>3. Agenda!RemoveAt(s, k) = RemoveAt(s, k)
    BY DEF Agenda!RemoveAt, RemoveAt
  <2> QED
    BY <1>5, <2>1, <2>2, <2>3
<1> QED
  BY <1>6, <1>7 DEF s, n

(* What the pointers hold before a step and after it.                      *)
LEMMA ReadNow ==
  ASSUME Heap \in Heaps, NEW A, Queue(Heap, A)
  PROVE  agenda = Listing(Heap, A)
BY AgendaIsRead DEF AgendaRead

(* The agenda of the next state.                                           *)
LEMMA ReadNext ==
  ASSUME Heap' \in Heaps, NEW A, Queue(Heap', A)
  PROVE  agenda' = Listing(Heap', A)
BY AgendaIsRead DEF AgendaRead

(* To remove the first is to take the tail.                                *)
LEMMA FirstRemoved ==
  ASSUME NEW S, NEW s \in Seq(S), 1 \in 1 .. Len(s)
  PROVE  RemoveAt(s, 1) = Tail(s)
<1> DEFINE n == Len(s)
           r == RemoveAt(s, 1)
           t == Tail(s)
<1>1. n \in Nat /\ n >= 1 /\ s # <<>>
  BY LenProperties
<1>2. r \in Seq(S) /\ Len(r) = n - 1 /\ \A i \in 1 .. n - 1 : r[i] = s[i + 1]
  <2>1. /\ r \in Seq(S) /\ Len(r) = n - 1
        /\ \A i \in 1 .. n - 1 : r[i] = IF i < 1 THEN s[i] ELSE s[i + 1]
    BY RemoveAtFacts
  <2> HIDE DEF r, n
  <2> QED
    BY <1>1, <2>1
<1>3. t \in Seq(S) /\ Len(t) = n - 1 /\ \A i \in 1 .. n - 1 : t[i] = s[i + 1]
  BY <1>1, HeadTailProperties
<1> HIDE DEF r, t, n
<1>4. Len(r) = Len(t) /\ \A i \in 1 .. Len(r) : r[i] = t[i]
  BY <1>2, <1>3
<1>5. r = t
  BY <1>2, <1>3, <1>4, SeqEqual
<1> QED
  BY <1>5 DEF r, t

(* The first gate fires.                                                   *)
LEMMA FireMoves == QueueInv /\ RemoveNextReadyGate => Agenda!RemoveNextReadyGate
<1> SUFFICES ASSUME QueueInv, RemoveNextReadyGate PROVE Agenda!RemoveNextReadyGate
  OBVIOUS
<1>1. PICK A : Queue(Heap, A)
  BY DEF QueueInv
<1>2. /\ CurrentTime' = CurrentTime /\ Heap' \in Heaps
      /\ 1 \in 1 .. Len(A) /\ OnTime(Heap, A[1]) = Value(CurrentTime)
      /\ OthersStay(Heap, Heap', A[1])
      /\ Queue(Heap', RemoveAt(A, 1))
  BY <1>1, FireStep
<1>3. Heap \in Heaps
  BY DEF QueueInv
<1>4. agenda = Listing(Heap, A) /\ agenda' = Listing(Heap', RemoveAt(A, 1))
  BY <1>1, <1>2, <1>3, ReadNow, ReadNext
<1>5. Listing(Heap', RemoveAt(A, 1)) = RemoveAt(Listing(Heap, A), 1)
  BY <1>1, <1>2, <1>3, ListingWithout
<1>6. /\ Listing(Heap, A) \in Seq(Entries) /\ Len(Listing(Heap, A)) = Len(A)
      /\ \A i \in 1 .. Len(A) : Listing(Heap, A)[i] = [gate |-> A[i], time |-> OnTime(Heap, A[i])]
  BY <1>1, <1>3, ListingIs
<1>7. agenda' = Tail(agenda)
  BY <1>2, <1>4, <1>5, <1>6, FirstRemoved
<1>8. agenda[1].time = Value(CurrentTime) /\ agenda # <<>>
  <2> DEFINE s == Listing(Heap, A)
             o == OnTime(Heap, A[1])
  <2>1. s \in Seq(Entries) /\ 1 \in 1 .. Len(s) /\ s[1] = [gate |-> A[1], time |-> o]
    BY <1>2, <1>6
  <2>2. agenda = s /\ o = Value(CurrentTime)
    BY <1>2, <1>4
  <2> HIDE DEF s, o
  <2>3. s[1].time = o
    BY <2>1
  <2>4. s # <<>>
    BY <2>1
  <2> QED
    BY <2>2, <2>3, <2>4
<1>9. Value(CurrentTime)' = Value(CurrentTime)
  BY <1>2
<1> QED
  BY <1>7, <1>8, <1>9 DEF Agenda!RemoveNextReadyGate

(* The clock moves to the first gate or to the next time of the time list. *)
LEMMA ClockMoves ==
  ASSUME QueueInv, NEW t \in Within, AdvanceTime(t)
  PROVE  Value(t) \in 1 .. MaxTime /\ Agenda!AdvanceTime(Value(t))
<1>1. PICK A : Queue(Heap, A)
  BY DEF QueueInv
<1>2. /\ Heap' = Heap
      /\ Value(t) \in Nat /\ Value(CurrentTime) \in Nat /\ Value(t) > Value(CurrentTime)
      /\ Len(A) = 0 => CurrentTime' = t
      /\ Len(A) # 0 =>
           /\ OnTime(Heap, A[1]) \in Nat
           /\ OnTime(Heap, A[1]) > Value(CurrentTime)
           /\ CurrentTime' = IF OnTime(Heap, A[1]) < Value(t) THEN TimeOf(Heap, A[1]) ELSE t
  BY <1>1, ClockStep
<1>3. Heap \in Heaps /\ Heap' \in Heaps /\ Queue(Heap', A)
  BY <1>1, <1>2 DEF QueueInv
<1>4. agenda = Listing(Heap, A) /\ agenda' = Listing(Heap', A)
  BY <1>1, <1>3, ReadNow, ReadNext
<1>5. agenda' = agenda
  BY <1>2, <1>4
<1>6. /\ agenda \in Seq(Entries) /\ Len(agenda) = Len(A) /\ Len(A) \in Nat
      /\ \A i \in 1 .. Len(A) : agenda[i] = [gate |-> A[i], time |-> OnTime(Heap, A[i])]
  BY <1>1, <1>3, <1>4, ListingIs, QueueFacts
<1> DEFINE first == IF agenda = <<>> THEN Value(t) ELSE agenda[1].time
           last == Value(CurrentTime)'
<1>7. first > Value(CurrentTime) /\ last = IF first < Value(t) THEN first ELSE Value(t)
  <2>1. CASE Len(A) = 0
    <3>1. agenda = <<>>
      BY <1>6, <2>1
    <3>2. first = Value(t) /\ last = Value(t)
      BY <1>2, <2>1, <3>1
    <3> HIDE DEF first, last
    <3> QED
      BY <1>2, <3>2
  <2>2. CASE Len(A) # 0
    <3>1. agenda # <<>> /\ 1 \in 1 .. Len(A)
      BY <1>6, <2>2
    <3>2. first = OnTime(Heap, A[1])
      <4> DEFINE o == OnTime(Heap, A[1])
      <4>1. agenda[1] = [gate |-> A[1], time |-> o]
        BY <1>6, <3>1
      <4> HIDE DEF o
      <4>2. agenda[1].time = o
        BY <4>1
      <4> QED
        BY <3>1, <4>2 DEF o
    <3>3. last = IF first < Value(t) THEN first ELSE Value(t)
      <4>1. CASE first < Value(t)
        <5>1. CurrentTime' = TimeOf(Heap, A[1])
          BY <1>2, <2>2, <3>2, <4>1
        <5> QED
          BY <3>2, <4>1, <5>1 DEF OnTime
      <4>2. CASE ~(first < Value(t))
        <5>1. CurrentTime' = t
          BY <1>2, <2>2, <3>2, <4>2
        <5> QED
          BY <4>2, <5>1
      <4> QED
        BY <4>1, <4>2
    <3> HIDE DEF first, last
    <3> QED
      BY <1>2, <2>2, <3>2, <3>3
  <2> QED
    BY <2>1, <2>2
<1>8. Value(t) \in 1 .. MaxTime
  <2>1. Value(t) <= MaxTime
    BY DEF Within
  <2> QED
    BY <1>2, <2>1, QueueAssumption
<1> HIDE DEF first, last
<1>9. Agenda!AdvanceTime(Value(t))
  <2>1. /\ Value(t) > Value(CurrentTime) /\ first > Value(CurrentTime)
        /\ Value(CurrentTime)' = IF first < Value(t) THEN first ELSE Value(t)
        /\ agenda' = agenda
    BY <1>2, <1>5, <1>7 DEF last
  <2> QED
    BY <2>1 DEF Agenda!AdvanceTime, first
<1> QED
  BY <1>8, <1>9

(* KeepsPlace, as the agenda tells.                                        *)
LEMMA KeepsIs ==
  ASSUME Heap \in Heaps, NEW A, Queue(Heap, A), NEW g \in GATE, NEW t \in Within
  PROVE  KeepsPlace(g, t) <=> g \in Simple /\ [gate |-> g, time |-> Value(t)] \in Agenda!Range(agenda)
<1> DEFINE e == [gate |-> g, time |-> Value(t)]
           h == Heap
<1>1. agenda = Listing(h, A)
  BY ReadNow
<1>2. /\ agenda \in Seq(Entries) /\ Len(agenda) = Len(A) /\ Len(A) \in Nat
      /\ \A i \in 1 .. Len(A) : agenda[i] = [gate |-> A[i], time |-> OnTime(h, A[i])]
  BY <1>1, ListingIs, QueueFacts
<1>3. /\ IsGateScheduled(g) <=> h.GATE_TIMEQ[g] # NULL
      /\ timeIndex[GATE_TIMEQ[g]] = TimeOf(h, g)
  BY DEF IsGateScheduled, Heap, TimeOf
<1>4. \A u \in GATE : h.GATE_TIMEQ[u] # NULL <=> \E k \in 1 .. Len(A) : A[k] = u
  BY QueueFacts DEF Fires
<1>5. h.GATE_TIMEQ[g] # NULL => TimeOf(h, g) \in Time64
  BY TimeFacts DEF Within
<1>6. t \in Time64
  BY DEF Within
<1> HIDE DEF h
<1>7. ASSUME h.GATE_TIMEQ[g] # NULL PROVE CMPTIME64(TimeOf(h, g), t) = 0 <=> OnTime(h, g) = Value(t)
  <2> DEFINE s == TimeOf(h, g)
  <2>1. s \in Time64
    BY <1>5, <1>7
  <2>2. OnTime(h, g) = Value(s)
    BY DEF OnTime
  <2> HIDE DEF s
  <2>3. CMPTIME64(s, t) = IF Value(s) < Value(t) THEN -1 ELSE IF Value(s) = Value(t) THEN 0 ELSE 1
    BY <1>6, <2>1, CompareIsOrder
  <2>4. Value(s) \in Nat /\ Value(t) \in Nat
    BY <1>6, <2>1, ValueIsNat
  <2> QED
    BY <2>2, <2>3, <2>4 DEF s
<1>8. e \in Agenda!Range(agenda) <=> \E i \in 1 .. Len(A) : agenda[i] = e
  BY <1>2 DEF Agenda!Range
<1>9. ASSUME NEW i \in 1 .. Len(A) PROVE agenda[i] = e <=> A[i] = g /\ OnTime(h, g) = Value(t)
  <2> DEFINE o == OnTime(h, A[i])
             w == Value(t)
  <2>1. agenda[i] = [gate |-> A[i], time |-> o]
    BY <1>2
  <2>2. A[i] = g => o = OnTime(h, g)
    OBVIOUS
  <2> HIDE DEF o, w
  <2>3. agenda[i] = [gate |-> g, time |-> w] <=> A[i] = g /\ o = w
    BY <2>1
  <2> QED
    BY <2>2, <2>3 DEF w
<1>10. e \in Agenda!Range(agenda) <=> h.GATE_TIMEQ[g] # NULL /\ OnTime(h, g) = Value(t)
  BY <1>4, <1>8, <1>9
<1>11. KeepsPlace(g, t) <=> h.GATE_TIMEQ[g] # NULL /\ CMPTIME64(TimeOf(h, g), t) = 0 /\ g \in Simple
  BY <1>3 DEF KeepsPlace
<1> QED
  BY <1>7, <1>10, <1>11

(* A gate goes behind all that are not later.                              *)
LEMMA ScheduleMoves ==
  ASSUME QueueInv, NEW g \in GATE, NEW d \in DELAYS, ScheduleGate(g, d)
  PROVE  Agenda!ScheduleGate(g, d)
<1> DEFINE t == ADDTIME6432(CurrentTime, d)
           e == [gate |-> g, time |-> Value(CurrentTime) + d]
           h == Heap
           v == Heap'
<1>1. PICK A : Queue(h, A)
  BY DEF QueueInv
<1>2. /\ CurrentTime' = CurrentTime /\ v \in Heaps
      /\ t \in Within /\ Value(t) = Value(CurrentTime) + d /\ d \in Nat
      /\ Value(CurrentTime) + d <= MaxTime
      /\ KeepsPlace(g, t) => v = h
      /\ ~KeepsPlace(g, t) => Planned(h, v, A, g, t)
  BY <1>1, PlanStep
<1>3. h \in Heaps
  BY DEF QueueInv
<1>4. agenda = Listing(h, A)
  BY <1>1, <1>3, ReadNow
<1>5. KeepsPlace(g, t) <=> g \in Simple /\ e \in Agenda!Range(agenda)
  <2>1. e = [gate |-> g, time |-> Value(t)]
    BY <1>2
  <2> HIDE DEF t, e
  <2> QED
    BY <1>1, <1>2, <1>3, <2>1, KeepsIs
<1>6. ASSUME NEW B, Queue(v, B) PROVE agenda' = Listing(v, B)
  BY <1>2, <1>6, ReadNext
<1>0. e.time = Value(CurrentTime) + d /\ e.gate = g
  OBVIOUS
<1>10. e = [gate |-> g, time |-> Value(t)]
  BY <1>2
<1> HIDE DEF t, h, v
<1>8. ASSUME ~KeepsPlace(g, t) PROVE agenda' = Agenda!Insert(Agenda!Without(agenda, g), e)
  <2>1. PICK c \in Heaps : \E B :
          /\ c.GATE_TIMEQ[g] = NULL /\ OthersStay(h, c, g)
          /\ Queue(c, B)
          /\ h.GATE_TIMEQ[g] = NULL => B = A
          /\ h.GATE_TIMEQ[g] # NULL => \E k \in 1 .. Len(A) : A[k] = g /\ B = RemoveAt(A, k)
          /\ v.GATE_TIMEQ[g] # NULL /\ TimeOf(v, g) = t /\ OthersStay(c, v, g)
          /\ \E k : IsBehind(c, B, t, k) /\ Queue(v, InsertAt(B, k, g))
    BY <1>2, <1>8 DEF Planned
  <2>2. PICK B :
          /\ c.GATE_TIMEQ[g] = NULL /\ OthersStay(h, c, g)
          /\ Queue(c, B)
          /\ h.GATE_TIMEQ[g] = NULL => B = A
          /\ h.GATE_TIMEQ[g] # NULL => \E k \in 1 .. Len(A) : A[k] = g /\ B = RemoveAt(A, k)
          /\ v.GATE_TIMEQ[g] # NULL /\ TimeOf(v, g) = t /\ OthersStay(c, v, g)
          /\ \E k : IsBehind(c, B, t, k) /\ Queue(v, InsertAt(B, k, g))
    BY <2>1
  <2>3. PICK k : IsBehind(c, B, t, k) /\ Queue(v, InsertAt(B, k, g))
    BY <2>2
  <2>4. Agenda!Without(agenda, g) = Listing(c, B)
    <3>1. CASE h.GATE_TIMEQ[g] = NULL
      <4>1. B = A /\ Agenda!Without(agenda, g) = Listing(h, A)
        BY <1>1, <1>3, <1>4, <2>2, <3>1, AbstractWithout
      <4>2. \A i \in 1 .. Len(A) : OnTime(c, A[i]) = OnTime(h, A[i])
        <5> TAKE i \in 1 .. Len(A)
        <5>1. A[i] \in GATE /\ h.GATE_TIMEQ[A[i]] # NULL
          BY <1>1, <1>3, QueueFacts
        <5>2. A[i] # g
          BY <3>1, <5>1
        <5> QED
          BY <2>2, <5>1, <5>2 DEF OthersStay, OnTime
      <4>3. Listing(c, A) = Listing(h, A)
        BY <4>2 DEF Listing
      <4> QED
        BY <4>1, <4>3
    <3>2. CASE h.GATE_TIMEQ[g] # NULL
      <4>1. PICK j \in 1 .. Len(A) : A[j] = g /\ B = RemoveAt(A, j)
        BY <2>2, <3>2
      <4>2. Agenda!Without(agenda, g) = RemoveAt(Listing(h, A), j)
        BY <1>1, <1>3, <1>4, <4>1, AbstractWithout
      <4>3. Listing(c, RemoveAt(A, j)) = RemoveAt(Listing(h, A), j)
        BY <1>1, <1>3, <2>2, <4>1, ListingWithout
      <4> QED
        BY <4>1, <4>2, <4>3
    <3> QED
      BY <3>1, <3>2
  <2>5. Agenda!Behind(Listing(c, B), Value(t)) = k
    BY <1>2, <2>2, <2>3, AbstractBehind
  <2>6. k \in 1 .. Len(B) + 1
    BY <2>3 DEF IsBehind
  <2>7. OnTime(v, g) = Value(t)
    BY <2>2 DEF OnTime
  <2> DEFINE x == [gate |-> g, time |-> OnTime(v, g)]
  <2>8. x = e
    BY <1>10, <2>7
  <2>9. Listing(v, InsertAt(B, k, g)) = InsertAt(Listing(c, B), k, x)
    BY <1>2, <2>2, <2>3, <2>6, ListingWith
  <2> HIDE DEF x
  <2>10. agenda' = InsertAt(Listing(c, B), k, e)
    BY <1>6, <2>3, <2>8, <2>9
  <2>11. e.time = Value(t)
    BY <1>10
  <2> DEFINE w == Listing(c, B)
  <2>12. Agenda!Behind(w, e.time) = k
    BY <2>5, <2>11
  <2>13. agenda' = InsertAt(w, k, e)
    BY <2>10
  <2>14. Agenda!Without(agenda, g) = w
    BY <2>4
  <2> HIDE DEF w, e
  <2>15. Agenda!Insert(w, e) = Agenda!InsertAt(w, k, e)
    BY <2>12 DEF Agenda!Insert
  <2>16. Agenda!InsertAt(w, k, e) = InsertAt(w, k, e)
    BY DEF Agenda!InsertAt, InsertAt
  <2> QED
    BY <2>13, <2>14, <2>15, <2>16
<1>9. ASSUME KeepsPlace(g, t) PROVE agenda' = agenda
  BY <1>1, <1>2, <1>4, <1>6, <1>9
<1>11. agenda' = IF g \in Simple /\ e \in Agenda!Range(agenda) THEN agenda
                ELSE Agenda!Insert(Agenda!Without(agenda, g), e)
  BY <1>5, <1>8, <1>9
<1>12. Value(CurrentTime)' = Value(CurrentTime) /\ e.time <= MaxTime
  BY <1>0, <1>2
<1> QED
  BY <1>11, <1>12 DEF Agenda!ScheduleGate, e

(* Every step of the pointers is a step of the agenda.                     *)
LEMMA AgendaStep == QueueInv /\ [Next]_vars => [Agenda!Next]_(Agenda!ready)
<1> SUFFICES ASSUME QueueInv, [Next]_vars PROVE [Agenda!Next]_(Agenda!ready)
  OBVIOUS
<1>1. CASE RemoveNextReadyGate
  BY <1>1, FireMoves DEF Agenda!Next
<1>2. ASSUME NEW g \in GATE, NEW d \in DELAYS, ScheduleGate(g, d) PROVE Agenda!Next
  BY <1>2, ScheduleMoves DEF Agenda!Next
<1>3. ASSUME NEW t \in Within, AdvanceTime(t) PROVE Agenda!Next
  BY <1>3, ClockMoves DEF Agenda!Next
<1>4. CASE UNCHANGED vars
  <2>1. PICK A : Queue(Heap, A)
    BY DEF QueueInv
  <2>2. Heap' = Heap /\ CurrentTime' = CurrentTime
    BY <1>4 DEF vars, Heap, nodes, rings
  <2>3. Heap \in Heaps /\ Heap' \in Heaps /\ Queue(Heap', A)
    BY <2>1, <2>2 DEF QueueInv
  <2>4. agenda' = agenda
    BY <2>1, <2>2, <2>3, ReadNow, ReadNext
  <2>5. Value(CurrentTime)' = Value(CurrentTime)
    BY <2>2
  <2> QED
    BY <2>4, <2>5 DEF Agenda!ready
<1> QED
  BY <1>1, <1>2, <1>3, <1>4 DEF Next

(* The agenda is empty at first.                                           *)
LEMMA AgendaInit == Init => Agenda!Init
<1> SUFFICES ASSUME Init PROVE Agenda!Init
  OBVIOUS
<1>1. QueueInv
  BY QueueInit
<1>2. PICK A : Queue(Heap, A) /\ Heap \in Heaps
  BY <1>1 DEF QueueInv
<1>3. Len(A) = 0
  <2>1. gateList = NULL
    BY DEF Init
  <2> QED
    BY <1>2, <2>1, PeekIs
<1>4. agenda = Listing(Heap, A)
  BY <1>2, ReadNow
<1>5. agenda = <<>>
  <2>1. agenda \in Seq(Entries) /\ Len(agenda) = 0
    BY <1>2, <1>3, <1>4, ListingIs
  <2> HIDE DEF agenda
  <2> QED
    BY <2>1
<1>6. Value(CurrentTime) = 0
  BY WordAssumption DEF Init, Zero, Value
<1> QED
  BY <1>5, <1>6 DEF Agenda!Init

(* Two times add up as numbers do, when the sum fits.                      *)
LEMMA AddIsSum6464 ==
  ASSUME NEW t \in Time64, NEW u \in Time64, Value(t) + Value(u) <= W * W - 1
  PROVE  ADDTIME6464(t, u) \in Time64 /\ Value(ADDTIME6464(t, u)) = Value(t) + Value(u)
<1> DEFINE s == ADDTIME6464(t, u)
           h == t.timeh
           l == t.timel
           a == u.timeh
           b == u.timel
           x == h * W
           y == a * W
           ww == W * W
<1>1. /\ h \in Nat /\ l \in Nat /\ h < W /\ l < W /\ a \in Nat /\ b \in Nat /\ a < W /\ b < W
      /\ W \in Nat /\ W > 1 /\ x \in Nat /\ y \in Nat /\ ww \in Nat
  <2>1. h \in Nat /\ l \in Nat /\ h < W /\ l < W /\ a \in Nat /\ b \in Nat /\ a < W /\ b < W /\ W \in Nat /\ W > 1
    BY ValueIsNat, WordAssumption
  <2> HIDE DEF h, l, a, b
  <2> QED
    BY <2>1
<1>2. Value(t) = x + l /\ Value(u) = y + b /\ x + l + y + b <= ww - 1
  <2>1. Value(t) = x + l /\ Value(u) = y + b
    BY DEF Value
  <2> HIDE DEF x, y, l, b
  <2>2. ww \in Nat /\ Value(t) + Value(u) <= ww - 1
    BY <1>1
  <2> QED
    BY <1>1, <2>1, <2>2
<1>3. /\ s.timeh = Wrapped(Wrapped(h + a) + (IF l > W - 1 - b THEN 1 ELSE 0))
      /\ s.timel = Wrapped(l + b)
      /\ s = [timeh |-> s.timeh, timel |-> s.timel]
  BY DEF ADDTIME6464, Carry, Complement
<1> DEFINE c == IF l + b >= W THEN 1 ELSE 0
           m == h + a + c
<1>4. (IF l > W - 1 - b THEN 1 ELSE 0) = c /\ c \in Nat
  <2> HIDE DEF l, b
  <2> QED
    BY <1>1
<1>5. h + a < W /\ m < W
  <2>1. \A n \in Nat : W <= n => ww <= n * W
    <3> TAKE n \in Nat
    <3>1. W < n => ww + W <= n * W /\ ww \in Nat /\ n * W \in Nat
      BY <1>1, Scales
    <3> DEFINE nw == n * W
    <3>2. W = n => nw = ww
      OBVIOUS
    <3>3. nw \in Nat
      BY <1>1
    <3> HIDE DEF ww, nw
    <3>4. W < n => ww <= nw
      BY <1>1, <3>1, <3>3 DEF nw
    <3> QED
      BY <1>1, <3>2, <3>4 DEF nw
  <2>2. m \in Nat /\ h + a \in Nat /\ m * W = x + y + c * W /\ (h + a) * W = x + y
    <3>1. m \in Nat /\ h + a \in Nat
      BY <1>1, <1>4
    <3> HIDE DEF h, a, c
    <3>2. (h + a) * W = h * W + a * W
      BY <1>1
    <3>3. (h + a + c) * W = h * W + a * W + c * W
      BY <1>1, <1>4
    <3> QED
      BY <3>1, <3>2, <3>3
  <2>3. c * W = IF l + b >= W THEN W ELSE 0
    BY <1>1
  <2> DEFINE mw == m * W
             cw == c * W
             n == h + a
             nw == n * W
  <2>4. mw = x + y + cw /\ nw = x + y /\ cw = (IF l + b >= W THEN W ELSE 0)
    BY <2>2, <2>3
  <2>5. (W <= m => ww <= mw) /\ (W <= n => ww <= nw) /\ m \in Nat /\ n \in Nat
    BY <2>1, <2>2
  <2> HIDE DEF m, n, mw, nw, cw, c, x, y, ww, l, b, h, a
  <2>6. ~(W <= m) /\ ~(W <= n)
    BY <1>1, <1>2, <2>4, <2>5
  <2> QED
    BY <1>1, <2>5, <2>6 DEF n
<1>6. s.timeh = m
  <2>1. s.timeh = Wrapped(Wrapped(h + a) + c)
    BY <1>3, <1>4
  <2>2. h + a \in Nat /\ m \in Nat /\ h + a + c = m
    BY <1>1, <1>4
  <2> HIDE DEF s, h, a, c, m
  <2>3. Wrapped(h + a) = h + a
    BY <1>1, <1>5, <2>2 DEF Wrapped
  <2>4. Wrapped(m) = m
    BY <1>1, <1>5, <2>2 DEF Wrapped
  <2> QED
    BY <2>1, <2>2, <2>3, <2>4
<1>7. s.timel = IF l + b >= W THEN l + b - W ELSE l + b
  <2> HIDE DEF s, l, b
  <2> QED
    BY <1>1, <1>3 DEF Wrapped
<1>8. s.timeh \in Word /\ s.timel \in Word
  <2>1. m \in Nat
    BY <1>1, <1>4
  <2> HIDE DEF s, l, b, m
  <2> QED
    BY <1>1, <1>5, <1>6, <1>7, <2>1 DEF Word
<1>9. s \in Time64
  BY <1>3, <1>8 DEF Time64
<1>10. Value(s) = m * W + s.timel
  BY <1>6 DEF Value
<1>11. m * W = x + y + (IF l + b >= W THEN W ELSE 0)
  <2>1. c * W = IF l + b >= W THEN W ELSE 0
    BY <1>1
  <2>2. m * W = x + y + c * W
    <3> HIDE DEF h, a, c
    <3> QED
      BY <1>1, <1>4
  <2> QED
    BY <2>1, <2>2
<1> DEFINE mw == m * W
<1> HIDE DEF s, l, b, x, y, m, mw
<1>12. Value(s) = mw + s.timel /\ mw = x + y + (IF l + b >= W THEN W ELSE 0)
  BY <1>10, <1>11 DEF mw
<1>13. Value(s) = Value(t) + Value(u)
  BY <1>1, <1>2, <1>7, <1>12
<1> QED
  BY <1>9, <1>13 DEF s

(* A delay from now.                                                       *)
LEMMA DelayTime ==
  ASSUME CurrentTime \in Within, NEW d \in LONGDELAYS, Value(CurrentTime) + Value(d) <= MaxTime,
         NEW t, t = ADDTIME6464(CurrentTime, d)
  PROVE  t \in Within /\ Value(CurrentTime) <= Value(t)
<1>1. CurrentTime \in Time64 /\ d \in Time64
  BY PliAssumption DEF Within
<1>2. Value(CurrentTime) \in Nat /\ Value(d) \in Nat
  BY <1>1, ValueIsNat
<1> DEFINE ww == W * W
<1>3. ww \in Nat /\ MaxTime \in 0 .. ww - 1
  BY WordAssumption, QueueAssumption
<1>4. Value(CurrentTime) + Value(d) <= ww - 1
  <2> HIDE DEF ww
  <2> QED
    BY <1>2, <1>3
<1>5. t \in Time64 /\ Value(t) = Value(CurrentTime) + Value(d)
  BY <1>1, <1>4, AddIsSum6464
<1> QED
  BY <1>2, <1>5 DEF Within

-----------------------------------------------------------------------------
(* Lists in time order: the times at of a list rise.                       *)
Rising(v) == \A j, k \in DOMAIN v : j < k => v[j] <= v[k]

(* c entries are not later than t, and they are the first.                 *)
Splits(at, n, t, c) == c \in 0 .. n /\ \A k \in 1 .. n : k <= c <=> Value(at[k]) <= Value(t)

(* The entries of a list in time order that are not later come first.      *)
LEMMA NotLaterIs ==
  ASSUME NEW n \in Nat, NEW at \in [1 .. n -> Time64], NEW t \in Time64,
         \A j, k \in 1 .. n : j < k => Value(at[j]) <= Value(at[k])
  PROVE  \E c : Splits(at, n, t, c) /\ Cardinality(NotLater(at, t)) = c
<1> DEFINE N == NotLater(at, t)
           S == {k \in 1 .. n + 1 : k \notin N}
<1>1. \A k \in 1 .. n : Value(at[k]) \in Nat /\ at[k] \in Time64
  BY ValueIsNat
<1>2. N = {k \in 1 .. n : Value(at[k]) <= Value(t)}
  <2>1. ASSUME NEW k \in 1 .. n PROVE CMPTIME64(t, at[k]) >= 0 <=> Value(at[k]) <= Value(t)
    <3> DEFINE u == at[k]
    <3>1. u \in Time64
      BY <1>1
    <3> HIDE DEF u
    <3>2. CMPTIME64(t, u) = IF Value(t) < Value(u) THEN -1 ELSE IF Value(t) = Value(u) THEN 0 ELSE 1
      BY <3>1, CompareIsOrder
    <3>3. Value(t) \in Nat /\ Value(u) \in Nat
      BY <3>1, ValueIsNat
    <3>4. CMPTIME64(t, u) >= 0 <=> Value(u) <= Value(t)
      BY <3>2, <3>3
    <3> QED
      BY <3>4 DEF u
  <2>2. DOMAIN at = 1 .. n
    OBVIOUS
  <2> QED
    BY <2>1, <2>2 DEF NotLater
<1> HIDE DEF N
<1>3. n + 1 \in S /\ S \subseteq Nat
  BY <1>2
<1> DEFINE m == Min(S)
<1>4. m \in S /\ \A k \in S : m <= k
  <2> HIDE DEF S
  <2> QED
    BY <1>3, MinExists
<1> HIDE DEF m
<1> DEFINE c == m - 1
<1>5. c \in 0 .. n /\ m \in 1 .. n + 1
  BY <1>4
<1>6. ASSUME NEW k \in 1 .. n PROVE k <= c <=> Value(at[k]) <= Value(t)
  <2>1. ASSUME k <= c PROVE Value(at[k]) <= Value(t)
    <3>1. k \notin S
      BY <1>4, <1>5, <2>1
    <3> QED
      BY <1>2, <3>1
  <2>2. ASSUME k > c PROVE ~(Value(at[k]) <= Value(t))
    <3>1. m <= k /\ m \in 1 .. n
      BY <1>5, <2>2
    <3>2. ~(Value(at[m]) <= Value(t))
      BY <1>2, <1>4, <3>1
    <3>3. Value(at[m]) <= Value(at[k])
      <4>1. m = k \/ m < k
        BY <3>1
      <4> QED
        BY <1>1, <3>1, <4>1
    <3> QED
      BY <1>1, <3>1, <3>2, <3>3, ValueIsNat
  <2> QED
    BY <1>5, <2>1, <2>2
<1>7. N = 1 .. c
  <2> HIDE DEF c
  <2> QED
    BY <1>2, <1>5, <1>6
<1>8. Cardinality(N) = c
  BY <1>5, <1>7, FS_Interval
<1>9. Splits(at, n, t, c)
  BY <1>5, <1>6 DEF Splits
<1> QED
  BY <1>8, <1>9 DEF N

(* What goes to its place in time.                                         *)
LEMMA InTimeIs ==
  ASSUME NEW S, NEW list \in Seq(S), NEW x \in S, NEW t \in Time64,
         NEW at \in [1 .. Len(list) -> Time64],
         \A j, k \in 1 .. Len(list) : j < k => Value(at[j]) <= Value(at[k])
  PROVE  \E c : /\ Splits(at, Len(list), t, c) /\ Cardinality(NotLater(at, t)) = c
                /\ InTime(list, at, x, t) \in Seq(S)
                /\ Widened(list, InTime(list, at, x, t), c + 1, x)
<1> DEFINE n == Len(list)
<1>1. n \in Nat
  BY LenProperties
<1>2. PICK c : Splits(at, n, t, c) /\ Cardinality(NotLater(at, t)) = c
  BY <1>1, NotLaterIs
<1>3. c + 1 \in 1 .. Len(list) + 1 /\ 1 + c = c + 1
  BY <1>1, <1>2 DEF Splits
<1>4. InTime(list, at, x, t) = InsertAt(list, c + 1, x)
  BY <1>2, <1>3 DEF InTime
<1>5. InsertAt(list, c + 1, x) \in Seq(S) /\ Widened(list, InsertAt(list, c + 1, x), c + 1, x)
  BY <1>3, InsertAtFacts
<1> QED
  BY <1>2, <1>4, <1>5

(* Numbers that rise, with one more in its place.                          *)
LEMMA RisesStill ==
  ASSUME NEW n \in Nat, NEW v, \A k \in 1 .. n : v[k] \in Nat,
         \A j, k \in 1 .. n : j < k => v[j] <= v[k],
         NEW T \in Nat, NEW c \in 0 .. n, \A k \in 1 .. n : k <= c <=> v[k] <= T,
         NEW w, \A i \in 1 .. n + 1 : w[i] = IF i < c + 1 THEN v[i] ELSE IF i = c + 1 THEN T ELSE v[i - 1]
  PROVE  \A j, k \in 1 .. n + 1 : j < k => w[j] <= w[k]
<1> TAKE j, k \in 1 .. n + 1
<1> HAVE j < k
<1>1. CASE k < c + 1
  <2>1. j \in 1 .. n /\ k \in 1 .. n /\ w[j] = v[j] /\ w[k] = v[k]
    BY <1>1
  <2> QED
    BY <2>1
<1>2. CASE k = c + 1
  <2>1. j \in 1 .. n /\ j <= c /\ w[j] = v[j] /\ w[k] = T
    BY <1>2
  <2> QED
    BY <2>1
<1>3. CASE k > c + 1
  <2>1. k - 1 \in 1 .. n /\ ~(k - 1 <= c) /\ w[k] = v[k - 1]
    BY <1>3
  <2>2. CASE j < c + 1
    <3>1. j \in 1 .. n /\ w[j] = v[j] /\ j < k - 1
      BY <1>3, <2>2
    <3> QED
      BY <2>1, <3>1
  <2>3. CASE j = c + 1
    <3>1. w[j] = T /\ ~(v[k - 1] <= T) /\ v[k - 1] \in Nat
      BY <2>1, <2>3
    <3> QED
      BY <2>1, <3>1
  <2>4. CASE j > c + 1
    <3>1. j - 1 \in 1 .. n /\ w[j] = v[j - 1] /\ j - 1 < k - 1
      BY <2>4
    <3> QED
      BY <2>1, <3>1
  <2> QED
    BY <2>2, <2>3, <2>4
<1> QED
  BY <1>1, <1>2, <1>3

(* What is left of a list without s, in the same order.                    *)
Embeds(r, list) ==
  \E e : /\ \A i \in 1 .. Len(r) : e[i] \in 1 .. Len(list) /\ r[i] = list[e[i]]
         /\ \A i, j \in 1 .. Len(r) : i < j => e[i] < e[j]
Drops(r, list, s) ==
  /\ r \in Seq(SCB) /\ Distinct(r) /\ Embeds(r, list)
  /\ \A x : OnList(r, x) <=> OnList(list, x) /\ x # s
  /\ Len(list) # 0 /\ list[1] # s => Len(r) # 0 /\ r[1] = list[1]

(* Without drops s and keeps the order of the others.                      *)
LEMMA WithoutIs ==
  ASSUME NEW list \in Seq(SCB), Distinct(list), NEW s
  PROVE  Drops(Without(list, s), list, s)
<1> DEFINE n == Len(list)
           r == Without(list, s)
<1>1. n \in Nat /\ DOMAIN list = 1 .. n /\ \A k \in 1 .. n : list[k] \in SCB
  BY LenProperties
<1>2. s \in Range(list) <=> \E k \in 1 .. n : list[k] = s
  BY <1>1 DEF Range
<1>3. CASE ~(s \in Range(list))
  <2>1. r = list
    BY <1>3 DEF Without
  <2> HIDE DEF r
  <2>2. Embeds(list, list)
    <3> DEFINE e == [i \in 1 .. n |-> i]
    <3>1. /\ \A i \in 1 .. n : e[i] \in 1 .. n /\ list[i] = list[e[i]]
          /\ \A i, j \in 1 .. n : i < j => e[i] < e[j]
      OBVIOUS
    <3> HIDE DEF e
    <3> QED
      BY <3>1 DEF Embeds
  <2>3. \A x : OnList(list, x) => x # s
    BY <1>2, <1>3 DEF OnList
  <2> QED
    BY <2>1, <2>2, <2>3 DEF Drops, r
<1>4. CASE s \in Range(list)
  <2> DEFINE at == {k \in DOMAIN list : list[k] = s}
             k == CHOOSE k \in DOMAIN list : list[k] = s
  <2>1. k \in 1 .. n /\ list[k] = s
    BY <1>1, <1>2, <1>4
  <2>2. r = RemoveAt(list, k)
    BY <1>4 DEF Without
  <2> HIDE DEF k, r
  <2>3. r \in Seq(SCB) /\ Len(r) = n - 1 /\ \A i \in 1 .. n - 1 : r[i] = list[Skip(k, i)]
    BY <2>1, <2>2, RemoveAtFacts DEF Skip
  <2>4. \A i, j \in 1 .. n - 1 : i < j => Skip(k, i) < Skip(k, j)
    BY <1>1, <2>1 DEF Skip
  <2>5. \A i \in 1 .. n - 1 : Skip(k, i) \in 1 .. n /\ Skip(k, i) # k
    BY <1>1, <2>1 DEF Skip
  <2>6. \A i \in 1 .. n : i # k => Unskip(k, i) \in 1 .. n - 1 /\ Skip(k, Unskip(k, i)) = i
    BY <1>1, <2>1 DEF Skip, Unskip
  <2>7. Embeds(r, list)
    <3> DEFINE e == [i \in 1 .. n - 1 |-> Skip(k, i)]
    <3>1. /\ \A i \in 1 .. n - 1 : e[i] \in 1 .. n /\ r[i] = list[e[i]]
          /\ \A i, j \in 1 .. n - 1 : i < j => e[i] < e[j]
      BY <2>3, <2>4, <2>5
    <3> HIDE DEF e
    <3> QED
      BY <2>3, <3>1 DEF Embeds
  <2>8. Distinct(r)
    <3>1. ASSUME NEW i \in 1 .. n - 1, NEW j \in 1 .. n - 1, r[i] = r[j] PROVE i = j
      <4>1. Skip(k, i) = Skip(k, j)
        BY <2>3, <2>5, <3>1 DEF Distinct
      <4>2. ~(i < j) /\ ~(j < i)
        <5>1. Skip(k, i) \in 1 .. n
          BY <2>5
        <5> QED
          BY <2>4, <4>1, <5>1
      <4> QED
        BY <4>2
    <3> QED
      BY <2>3, <3>1 DEF Distinct
  <2>9. ASSUME NEW x PROVE OnList(r, x) <=> OnList(list, x) /\ x # s
    <3>1. ASSUME NEW i \in 1 .. n - 1, r[i] = x PROVE OnList(list, x) /\ x # s
      <4>1. Skip(k, i) \in 1 .. n /\ Skip(k, i) # k /\ list[Skip(k, i)] = x
        BY <2>3, <2>5, <3>1
      <4> QED
        BY <2>1, <4>1 DEF OnList, Distinct
    <3>2. ASSUME NEW i \in 1 .. n, list[i] = x, x # s PROVE OnList(r, x)
      <4>1. i # k
        BY <2>1, <3>2
      <4>2. Unskip(k, i) \in 1 .. n - 1 /\ r[Unskip(k, i)] = x
        BY <2>3, <2>6, <3>2, <4>1
      <4> QED
        BY <2>3, <4>2 DEF OnList
    <3> QED
      BY <2>3, <3>1, <3>2 DEF OnList
  <2>10. ASSUME n # 0, list[1] # s PROVE Len(r) # 0 /\ r[1] = list[1]
    <3>1. k # 1
      BY <2>1, <2>10
    <3>2. 1 \in 1 .. n - 1 /\ Skip(k, 1) = 1
      BY <1>1, <2>1, <3>1 DEF Skip
    <3> QED
      BY <1>1, <2>3, <3>2
  <2> QED
    BY <2>3, <2>7, <2>8, <2>9, <2>10 DEF Drops, r
<1> QED
  BY <1>3, <1>4

Delay == [node : Instance \cup {STORE}, time : Within]

(* The types: the lists and the chains, who has an SCB, how much is due.   *)
Typed(R, T, F, P, tm) ==
  /\ R \in Seq(SCB) /\ T \in Seq(SCB) /\ F \in Seq(SCB)
  /\ P \in [SCB -> Seq(Delay)] /\ tm \in [SCB -> Within]
Owners == [Instance -> SCB \cup {NULL}]
Counts == [Instance -> [Within -> Nat]]
PliTypes ==
  /\ Typed(readylist, timelist, freelist, pc, time)
  /\ DELAYSCB \in Owners /\ due \in Counts /\ fault \in BOOLEAN

(* An SCB is on one list at most, and once.                                *)
Apart(R, T, F) ==
  /\ Distinct(R) /\ Distinct(T) /\ Distinct(F)
  /\ \A s \in SCB : /\ ~(OnList(R, s) /\ OnList(T, s))
                    /\ ~(OnList(R, s) /\ OnList(F, s)) /\ ~(OnList(T, s) /\ OnList(F, s))

(* A chain is in time order and has nothing of the past.                   *)
Rises(c, now) ==
  /\ \A k \in 1 .. Len(c) : now <= Value(c[k].time)
  /\ \A j, k \in 1 .. Len(c) : j < k => Value(c[j].time) <= Value(c[k].time)
Chains(P, now) == \A s \in SCB : Rises(P[s], Value(now))

(* The time list is in time order, each SCB at the time of its first delay. *)
InTurn(T, P, tm) ==
  /\ \A k \in 1 .. Len(T) : P[T[k]] # <<>> /\ tm[T[k]] = P[T[k]][1].time
  /\ \A j, k \in 1 .. Len(T) : j < k => Value(tm[T[j]]) <= Value(tm[T[k]])

(* The first delay of a ready SCB ends now; executing is whether the first *)
(* SCB has left its delay.                                                 *)
IsReady(R, P, now, executing) ==
  /\ executing => Len(R) # 0
  /\ \A k \in 1 .. Len(R) : (k = 1 /\ executing) \/ (P[R[k]] # <<>> /\ P[R[k]][1].time = now)

(* A chain belongs to an SCB that is ready or waits.                       *)
InUse(R, T, P) == \A s \in SCB : P[s] # <<>> => OnList(R, s) \/ OnList(T, s)

(* A chain belongs to one instance, or to a nonblocking assignment.        *)
Owned(D, P) ==
  /\ \A i \in Instance : D[i] # NULL => \A k \in 1 .. Len(P[D[i]]) : P[D[i]][k].node = i
  /\ \A s \in SCB : \A k \in 1 .. Len(P[s]) : P[s][k].node # STORE => D[P[s][k].node] = s
  /\ \A i, j \in Instance : D[i] # NULL /\ D[i] = D[j] => i = j

Ends(c, i, t) == {k \in 1 .. Len(c) : c[k] = [node |-> i, time |-> t]}
Counted(u, D, P) ==
  \A i \in Instance, t \in Within :
    u[i][t] = IF D[i] = NULL THEN 0 ELSE Cardinality(Ends(P[D[i]], i, t))

Lists(R, T, F, P, tm, now, executing) ==
  /\ Apart(R, T, F) /\ Chains(P, now) /\ InTurn(T, P, tm) /\ IsReady(R, P, now, executing)
  /\ InUse(R, T, P)

PliInv ==
  /\ PliTypes
  /\ ~fault => /\ Lists(readylist, timelist, freelist, pc, time, CurrentTime, reactivated # <<>>)
               /\ Owned(DELAYSCB, pc) /\ Counted(due, DELAYSCB, pc)

-----------------------------------------------------------------------------
(* The operations on the lists.                                            *)
LEMMA FirstDropped ==
  ASSUME NEW list \in Seq(SCB), Distinct(list), Len(list) # 0
  PROVE  Head(list) = list[1] /\ list[1] \in SCB /\ Drops(Tail(list), list, list[1])
<1> DEFINE n == Len(list)
           r == Tail(list)
<1>1. n \in Nat /\ 1 \in 1 .. n /\ list # <<>> /\ \A k \in 1 .. n : list[k] \in SCB
  BY LenProperties
<1>2. Head(list) = list[1]
  BY <1>1, HeadTailProperties
<1>3. r \in Seq(SCB) /\ Len(r) = n - 1 /\ \A i \in 1 .. n - 1 : r[i] = list[i + 1]
  BY <1>1, HeadTailProperties
<1> HIDE DEF r
<1>4. Embeds(r, list)
  <2> DEFINE e == [i \in 1 .. n - 1 |-> i + 1]
  <2>1. /\ \A i \in 1 .. n - 1 : e[i] \in 1 .. n /\ r[i] = list[e[i]]
        /\ \A i, j \in 1 .. n - 1 : i < j => e[i] < e[j]
    BY <1>1, <1>3
  <2> HIDE DEF e
  <2> QED
    BY <1>3, <2>1 DEF Embeds
<1>5. Distinct(r)
  <2>1. ASSUME NEW i \in 1 .. n - 1, NEW j \in 1 .. n - 1, r[i] = r[j] PROVE i = j
    <3>1. i + 1 \in 1 .. n /\ j + 1 \in 1 .. n /\ list[i + 1] = list[j + 1]
      BY <1>1, <1>3, <2>1
    <3>2. i + 1 = j + 1
      BY <3>1 DEF Distinct
    <3> QED
      BY <3>2
  <2> QED
    BY <1>3, <2>1 DEF Distinct
<1>6. ASSUME NEW x PROVE OnList(r, x) <=> OnList(list, x) /\ x # list[1]
  <2>1. ASSUME NEW i \in 1 .. n - 1, r[i] = x PROVE OnList(list, x) /\ x # list[1]
    <3>1. i + 1 \in 1 .. n /\ i + 1 # 1 /\ list[i + 1] = x
      BY <1>1, <1>3, <2>1
    <3> QED
      BY <1>1, <3>1 DEF OnList, Distinct
  <2>2. ASSUME NEW i \in 1 .. n, list[i] = x, x # list[1] PROVE OnList(r, x)
    <3>1. i - 1 \in 1 .. n - 1 /\ (i - 1) + 1 = i
      BY <1>1, <2>2
    <3>2. r[i - 1] = x
      BY <1>3, <2>2, <3>1
    <3> QED
      BY <1>3, <3>1, <3>2 DEF OnList
  <2> QED
    BY <1>3, <2>1, <2>2 DEF OnList
<1> QED
  BY <1>1, <1>2, <1>3, <1>4, <1>5, <1>6 DEF Drops, r

(* A list with one more before the first.                                  *)
LEMMA PutFirst ==
  ASSUME NEW list \in Seq(SCB), Distinct(list), NEW s \in SCB, ~OnList(list, s)
  PROVE  /\ <<s>> \o list \in Seq(SCB) /\ Distinct(<<s>> \o list)
         /\ \A x : OnList(<<s>> \o list, x) <=> x = s \/ OnList(list, x)
<1> DEFINE n == Len(list)
           r == <<s>> \o list
<1>1. n \in Nat /\ <<s>> \in Seq(SCB) /\ Len(<<s>>) = 1 /\ <<s>>[1] = s
  BY LenProperties
<1>2. /\ r \in Seq(SCB) /\ Len(r) = 1 + n
      /\ \A i \in 1 .. 1 : r[i] = <<s>>[i]
      /\ \A i \in 1 + 1 .. 1 + n : r[i] = list[i - 1]
  BY <1>1, Concat
<1> HIDE DEF r
<1>3. Len(r) = n + 1 /\ r[1] = s /\ \A i \in 2 .. n + 1 : r[i] = list[i - 1] /\ i - 1 \in 1 .. n
  BY <1>1, <1>2
<1>4. Distinct(r)
  <2> SUFFICES ASSUME NEW i \in 1 .. n + 1, NEW j \in 1 .. n + 1, r[i] = r[j] PROVE i = j
    BY <1>3 DEF Distinct
  <2>1. CASE i = 1 /\ j = 1
    BY <2>1
  <2>2. CASE i = 1 /\ j # 1
    <3>1. list[j - 1] = s /\ j - 1 \in 1 .. n
      BY <1>3, <2>2
    <3> QED
      BY <3>1 DEF OnList
  <2>3. CASE i # 1 /\ j = 1
    <3>1. list[i - 1] = s /\ i - 1 \in 1 .. n
      BY <1>3, <2>3
    <3> QED
      BY <3>1 DEF OnList
  <2>4. CASE i # 1 /\ j # 1
    <3>1. list[i - 1] = list[j - 1] /\ i - 1 \in 1 .. n /\ j - 1 \in 1 .. n
      BY <1>3, <2>4
    <3>2. i - 1 = j - 1
      BY <3>1 DEF Distinct
    <3> QED
      BY <3>2
  <2> QED
    BY <2>1, <2>2, <2>3, <2>4
<1>5. ASSUME NEW x PROVE OnList(r, x) <=> x = s \/ OnList(list, x)
  <2>1. ASSUME NEW i \in 1 .. n + 1, r[i] = x PROVE x = s \/ OnList(list, x)
    BY <1>3, <2>1 DEF OnList
  <2>2. ASSUME NEW i \in 1 .. n, list[i] = x PROVE OnList(r, x)
    <3>1. i + 1 \in 2 .. n + 1 /\ (i + 1) - 1 = i /\ i + 1 \in 1 .. n + 1
      BY <1>1
    <3>2. r[i + 1] = x
      BY <1>3, <2>2, <3>1
    <3> QED
      BY <1>3, <3>1, <3>2 DEF OnList
  <2>3. OnList(r, s)
    BY <1>1, <1>3 DEF OnList
  <2> QED
    BY <1>3, <2>1, <2>2, <2>3 DEF OnList
<1> QED
  BY <1>2, <1>4, <1>5 DEF r

(* s waits for t.                                                          *)
Waits(T2, T, s, tm) ==
  /\ T2 \in Seq(SCB) /\ Distinct(T2)
  /\ \A x : OnList(T2, x) <=> x = s \/ OnList(T, x)
  /\ \A j, k \in 1 .. Len(T2) : j < k => Value(tm[T2[j]]) <= Value(tm[T2[k]])

(* s goes to its place on the time list, which stays in time order.        *)
LEMMA WaitingIs ==
  ASSUME timelist \in Seq(SCB), Distinct(timelist), time \in [SCB -> Within],
         \A j, k \in 1 .. Len(timelist) : j < k => Value(time[timelist[j]]) <= Value(time[timelist[k]]),
         NEW s \in SCB, NEW t \in Within
  PROVE  Waits(Waiting(s, t), timelist, s, [time EXCEPT ![s] = t])
<1> DEFINE r == Without(timelist, s)
           n == Len(r)
           at == [k \in DOMAIN r |-> time[r[k]]]
           T2 == Waiting(s, t)
           tm == [time EXCEPT ![s] = t]
<1>1. Drops(r, timelist, s)
  BY WithoutIs
<1>2. T2 = InTime(r, at, s, t)
  BY DEF Waiting
<1> HIDE DEF r
<1>3. r \in Seq(SCB) /\ Distinct(r) /\ n \in Nat /\ DOMAIN r = 1 .. n /\ \A k \in 1 .. n : r[k] \in SCB
  BY <1>1, LenProperties DEF Drops
<1>4. \A k \in 1 .. n : r[k] # s
  BY <1>1 DEF Drops, OnList
<1>5. \A k \in 1 .. n : at[k] = time[r[k]] /\ at[k] \in Time64
  BY <1>3 DEF Within
<1>6. at \in [1 .. n -> Time64] /\ t \in Time64
  BY <1>3, <1>5 DEF Within
<1>7. \A j, k \in 1 .. n : j < k => Value(at[j]) <= Value(at[k])
  <2> TAKE j, k \in 1 .. n
  <2> HAVE j < k
  <2>1. PICK e : /\ \A i \in 1 .. n : e[i] \in 1 .. Len(timelist) /\ r[i] = timelist[e[i]]
                 /\ \A x, y \in 1 .. n : x < y => e[x] < e[y]
    BY <1>1 DEF Drops, Embeds
  <2>2. e[j] \in 1 .. Len(timelist) /\ e[k] \in 1 .. Len(timelist) /\ e[j] < e[k]
    BY <2>1
  <2>3. Value(time[timelist[e[j]]]) <= Value(time[timelist[e[k]]])
    BY <2>2
  <2>4. r[j] = timelist[e[j]] /\ r[k] = timelist[e[k]]
    BY <2>1
  <2> QED
    BY <1>5, <2>3, <2>4
<1>8. PICK c : /\ Splits(at, n, t, c) /\ T2 \in Seq(SCB) /\ Widened(r, T2, c + 1, s)
  <2> HIDE DEF at, T2
  <2> QED
    BY <1>2, <1>3, <1>6, <1>7, InTimeIs
<1> HIDE DEF T2, at
<1>9. /\ c \in 0 .. n /\ Len(T2) = n + 1
      /\ \A k \in 1 .. n : k <= c <=> Value(at[k]) <= Value(t)
      /\ \A i \in 1 .. n + 1 : T2[i] = IF i < c + 1 THEN r[i] ELSE IF i = c + 1 THEN s ELSE r[i - 1]
  BY <1>8 DEF Splits, Widened
<1>10. Distinct(T2)
  <2> SUFFICES ASSUME NEW i \in 1 .. n + 1, NEW j \in 1 .. n + 1, T2[i] = T2[j], i < j PROVE FALSE
    <3>1. \A i, j \in 1 .. n + 1 : i < j \/ i = j \/ j < i
      BY <1>3
    <3> QED
      BY <1>9, <3>1 DEF Distinct
  <2>1. CASE i = c + 1
    <3>1. j - 1 \in 1 .. n /\ T2[j] = r[j - 1] /\ T2[i] = s
      BY <1>3, <1>9, <2>1
    <3> QED
      BY <1>4, <3>1
  <2>2. CASE j = c + 1
    <3>1. i \in 1 .. n /\ T2[i] = r[i] /\ T2[j] = s
      BY <1>3, <1>9, <2>2
    <3> QED
      BY <1>4, <3>1
  <2>3. CASE i # c + 1 /\ j # c + 1
    <3> DEFINE a == IF i < c + 1 THEN i ELSE i - 1
               b == IF j < c + 1 THEN j ELSE j - 1
    <3>1. a \in 1 .. n /\ b \in 1 .. n /\ a < b /\ T2[i] = r[a] /\ T2[j] = r[b]
      BY <1>3, <1>9, <2>3
    <3> HIDE DEF a, b
    <3>2. a = b
      BY <1>3, <3>1 DEF Distinct
    <3> QED
      BY <3>1, <3>2
  <2> QED
    BY <2>1, <2>2, <2>3
<1>11. ASSUME NEW x PROVE OnList(T2, x) <=> x = s \/ OnList(timelist, x)
  <2>1. ASSUME NEW i \in 1 .. n + 1, T2[i] = x PROVE x = s \/ OnList(r, x)
    <3> DEFINE a == IF i < c + 1 THEN i ELSE i - 1
    <3>1. i # c + 1 => a \in 1 .. n /\ T2[i] = r[a]
      BY <1>3, <1>9
    <3>2. i = c + 1 => T2[i] = s
      BY <1>9
    <3> QED
      BY <2>1, <3>1, <3>2 DEF OnList
  <2>2. ASSUME NEW i \in 1 .. n, r[i] = x PROVE OnList(T2, x)
    <3> DEFINE a == IF i < c + 1 THEN i ELSE i + 1
    <3>1. a \in 1 .. n + 1 /\ T2[a] = r[i]
      <4>1. CASE i < c + 1
        BY <1>3, <1>9, <4>1
      <4>2. CASE ~(i < c + 1)
        <5>1. a = i + 1 /\ a \in 1 .. n + 1 /\ ~(a < c + 1) /\ a # c + 1 /\ a - 1 = i
          BY <1>3, <1>9, <4>2
        <5> HIDE DEF a
        <5> QED
          BY <1>9, <5>1
      <4> QED
        BY <4>1, <4>2
    <3> HIDE DEF a
    <3> QED
      BY <1>9, <2>2, <3>1 DEF OnList
  <2>3. OnList(T2, s)
    <3>1. c + 1 \in 1 .. n + 1 /\ T2[c + 1] = s
      BY <1>3, <1>9
    <3> QED
      BY <1>9, <3>1 DEF OnList
  <2>4. OnList(r, x) <=> OnList(timelist, x) /\ x # s
    BY <1>1 DEF Drops
  <2>5. OnList(T2, x) => x = s \/ OnList(r, x)
    BY <1>9, <2>1 DEF OnList
  <2>6. OnList(r, x) => OnList(T2, x)
    BY <2>2 DEF OnList
  <2> QED
    BY <2>3, <2>4, <2>5, <2>6
<1>12. \A j, k \in 1 .. Len(T2) : j < k => Value(tm[T2[j]]) <= Value(tm[T2[k]])
  <2> DEFINE v == [k \in 1 .. n |-> Value(at[k])]
             w == [k \in 1 .. n + 1 |-> Value(tm[T2[k]])]
  <2>1. \A k \in 1 .. n : v[k] \in Nat /\ v[k] = Value(at[k])
    BY <1>6, ValueIsNat
  <2>2. \A j, k \in 1 .. n : j < k => v[j] <= v[k]
    BY <1>7, <2>1
  <2>3. Value(t) \in Nat
    BY <1>6, ValueIsNat
  <2>4. \A k \in 1 .. n : k <= c <=> v[k] <= Value(t)
    BY <1>9, <2>1
  <2>5. \A x \in SCB : x # s => tm[x] = time[x]
    OBVIOUS
  <2>6. tm[s] = t
    OBVIOUS
  <2>7. \A k \in 1 .. n : Value(tm[r[k]]) = v[k]
    <3> HIDE DEF tm
    <3> QED
      BY <1>3, <1>4, <1>5, <2>1, <2>5
  <2> HIDE DEF tm, v
  <2>8. ASSUME NEW i \in 1 .. n + 1
        PROVE  w[i] = IF i < c + 1 THEN v[i] ELSE IF i = c + 1 THEN Value(t) ELSE v[i - 1]
    <3>1. w[i] = Value(tm[T2[i]])
      OBVIOUS
    <3>2. CASE i < c + 1
      <4>1. i \in 1 .. n /\ T2[i] = r[i]
        BY <1>3, <1>9, <3>2
      <4> QED
        BY <2>7, <3>1, <3>2, <4>1
    <3>3. CASE i = c + 1
      <4>1. T2[i] = s
        BY <1>9, <3>3
      <4> QED
        BY <2>6, <3>1, <3>3, <4>1
    <3>4. CASE i > c + 1
      <4>1. i - 1 \in 1 .. n /\ T2[i] = r[i - 1]
        BY <1>3, <1>9, <3>4
      <4> QED
        BY <1>9, <2>7, <3>1, <3>4, <4>1
    <3> QED
      BY <1>9, <3>2, <3>3, <3>4
  <2> HIDE DEF w
  <2>9. \A j, k \in 1 .. n + 1 : j < k => w[j] <= w[k]
    <3> DEFINE V == Value(t)
    <3>1. \A k \in 1 .. n : v[k] \in Nat
      BY <2>1
    <3>2. V \in Nat /\ \A k \in 1 .. n : k <= c <=> v[k] <= V
      BY <2>3, <2>4
    <3>3. \A i \in 1 .. n + 1 : w[i] = IF i < c + 1 THEN v[i] ELSE IF i = c + 1 THEN V ELSE v[i - 1]
      BY <2>8
    <3>4. n \in Nat /\ c \in 0 .. n
      BY <1>3, <1>9
    <3> HIDE DEF V, n
    <3> QED
      BY <2>2, <3>1, <3>2, <3>3, <3>4, RisesStill
  <2> QED
    BY <1>9, <2>9 DEF w
<1> QED
  BY <1>8, <1>10, <1>11, <1>12 DEF Waits, T2

-----------------------------------------------------------------------------
(* One entry more in a chain is one more of its delay.                     *)
LEMMA OneMore ==
  ASSUME NEW c, NEW n \in Nat, Len(c) = n, NEW u, NEW k \in 1 .. n + 1, NEW e, Widened(c, u, k, e),
         NEW i, NEW t
  PROVE  /\ Cardinality(Ends(c, i, t)) \in Nat
         /\ Cardinality(Ends(u, i, t)) =
              Cardinality(Ends(c, i, t)) + IF e = [node |-> i, time |-> t] THEN 1 ELSE 0
<1> DEFINE x == [node |-> i, time |-> t]
           E == {m \in 1 .. n : c[m] = x}
           Y == {m \in 1 .. n + 1 : m # k /\ u[m] = x}
           f == [m \in E |-> Skip(k, m)]
<1>1. Ends(c, i, t) = E /\ Ends(u, i, t) = {m \in 1 .. n + 1 : u[m] = x} /\ Len(u) = n + 1
  BY DEF Ends, Widened
<1> HIDE DEF x
<1>2. \A m \in 1 .. n + 1 : u[m] = IF m < k THEN c[m] ELSE IF m = k THEN e ELSE c[m - 1]
  BY DEF Widened
<1>3. IsFiniteSet(E) /\ Cardinality(E) \in Nat
  <2>1. IsFiniteSet(1 .. n)
    BY FS_Interval
  <2>2. E \in SUBSET (1 .. n)
    OBVIOUS
  <2> HIDE DEF E
  <2>3. IsFiniteSet(E)
    BY <2>1, <2>2, FS_Subset
  <2> QED
    BY <2>3, FS_CardinalityType
<1>4. \A m \in E : Skip(k, m) \in Y
  <2> TAKE m \in E
  <2>1. m \in 1 .. n /\ c[m] = x /\ Skip(k, m) \in 1 .. n + 1 /\ Skip(k, m) # k
    BY DEF Skip
  <2>2. u[Skip(k, m)] = c[m]
    <3>1. CASE m < k
      <4>1. Skip(k, m) = m /\ m \in 1 .. n + 1
        BY <2>1, <3>1 DEF Skip
      <4> QED
        BY <1>2, <3>1, <4>1
    <3>2. CASE ~(m < k)
      <4>1. Skip(k, m) = m + 1 /\ m + 1 \in 1 .. n + 1 /\ ~(m + 1 < k) /\ m + 1 # k /\ (m + 1) - 1 = m
        BY <2>1, <3>2 DEF Skip
      <4> QED
        BY <1>2, <4>1
    <3> QED
      BY <3>1, <3>2
  <2> QED
    BY <2>1, <2>2
<1>5. \A a, b \in E : Skip(k, a) = Skip(k, b) => a = b
  BY DEF Skip
<1>6. \A y \in Y : \E m \in E : Skip(k, m) = y
  <2> TAKE y \in Y
  <2> DEFINE m == Unskip(k, y)
  <2>1. m \in 1 .. n /\ Skip(k, m) = y
    BY DEF Skip, Unskip
  <2>2. c[m] = x
    BY <1>2 DEF Unskip
  <2> HIDE DEF m
  <2> QED
    BY <2>1, <2>2
<1>7. Cardinality(Y) = Cardinality(E) /\ IsFiniteSet(Y)
  <2>1. f \in [E -> Y]
    BY <1>4
  <2>2. f \in Bijection(E, Y)
    <3> HIDE DEF E, Y
    <3> QED
      BY <1>5, <1>6, <2>1 DEF Bijection, Injection, Surjection, IsInjective
  <2>3. ExistsBijection(E, Y)
    BY <2>2 DEF ExistsBijection
  <2> HIDE DEF E, Y, f
  <2> QED
    BY <1>3, <2>3, FS_Bijection
<1>8. u[k] = e
  BY <1>2
<1>9. {m \in 1 .. n + 1 : u[m] = x} = IF e = x THEN Y \cup {k} ELSE Y
  BY <1>8
<1>10. k \notin Y
  OBVIOUS
<1>11. Cardinality(Y \cup {k}) = Cardinality(Y) + 1
  <2> HIDE DEF Y, E
  <2> QED
    BY <1>7, <1>10, FS_AddElement
<1> HIDE DEF E, Y
<1>12. Cardinality(Ends(c, i, t)) \in Nat
  BY <1>1, <1>3
<1>13. CASE e = x
  <2>1. Ends(u, i, t) = Y \cup {k}
    BY <1>1, <1>9, <1>13
  <2>2. Cardinality(Ends(u, i, t)) = Cardinality(Ends(c, i, t)) + 1
    BY <1>1, <1>7, <1>11, <2>1
  <2> QED
    BY <1>12, <1>13, <2>2 DEF x
<1>14. CASE e # x
  <2>1. Ends(u, i, t) = Y
    BY <1>1, <1>9, <1>14
  <2>2. Cardinality(Ends(u, i, t)) = Cardinality(Ends(c, i, t))
    BY <1>1, <1>7, <2>1
  <2> QED
    BY <1>12, <1>14, <2>2 DEF x
<1> QED
  BY <1>13, <1>14

(* No delay ends in an empty chain.                                        *)
LEMMA NoneEnds == \A i, t : Cardinality(Ends(<<>>, i, t)) = 0
<1> TAKE i, t
<1>1. Ends(<<>>, i, t) = {}
  BY DEF Ends
<1> QED
  BY <1>1, FS_EmptySet

(* Nothing but an SCB changes.                                             *)
Else(P, P2, s) == \A z \in SCB : z # s => P2[z] = P[z]

Puts(P, P2, s, c) == P2 = [P EXCEPT ![s] = c]

Fronts(F2, s, F) == F2 = <<s>> \o F

(* A list on which s is not stays as it is without it.                     *)
LEMMA DropsItself ==
  ASSUME NEW list \in Seq(SCB), Distinct(list), NEW s, ~OnList(list, s)
  PROVE  Drops(list, list, s)
<1> DEFINE n == Len(list)
           e == [i \in 1 .. n |-> i]
<1>1. /\ \A i \in 1 .. n : e[i] \in 1 .. n /\ list[i] = list[e[i]]
      /\ \A i, j \in 1 .. n : i < j => e[i] < e[j]
  OBVIOUS
<1> HIDE DEF e
<1>2. Embeds(list, list)
  BY <1>1 DEF Embeds
<1> QED
  BY <1>2 DEF Drops

(* The SCBs that stay on the ready list are ready still.                   *)
LEMMA StillReady ==
  ASSUME NEW R \in Seq(SCB), NEW P, NEW now, NEW x \in BOOLEAN, IsReady(R, P, now, x),
         NEW s, NEW R2, Drops(R2, R, s), NEW P2, Else(P, P2, s),
         NEW y \in BOOLEAN, y => x /\ R[1] # s, x /\ ~y => s = R[1]
  PROVE  IsReady(R2, P2, now, y)
<1>1. R2 \in Seq(SCB) /\ Distinct(R2) /\ Len(R2) \in Nat /\ \A k \in 1 .. Len(R2) : R2[k] \in SCB
  BY LenProperties DEF Drops
<1>2. y => Len(R2) # 0 /\ R2[1] = R[1]
  BY DEF IsReady, Drops
<1>3. ASSUME NEW k \in 1 .. Len(R2), ~(k = 1 /\ y) PROVE P2[R2[k]] # <<>> /\ P2[R2[k]][1].time = now
  <2> DEFINE z == R2[k]
  <2>1. OnList(R, z) /\ z # s /\ z \in SCB
    BY <1>1 DEF Drops, OnList
  <2>2. PICK j \in 1 .. Len(R) : R[j] = z
    BY <2>1 DEF OnList
  <2>3. ~(j = 1 /\ x)
    <3> SUFFICES ASSUME j = 1, x PROVE FALSE
      OBVIOUS
    <3>1. y
      BY <2>1, <2>2
    <3>2. 1 \in 1 .. Len(R2) /\ R2[1] = R2[k]
      BY <1>1, <1>2, <2>2, <3>1
    <3>3. k = 1
      BY <1>1, <3>2 DEF Distinct
    <3> QED
      BY <1>3, <3>1, <3>3
  <2>4. P[z] # <<>> /\ P[z][1].time = now
    BY <2>2, <2>3 DEF IsReady
  <2>5. P2[z] = P[z]
    BY <2>1 DEF Else
  <2> QED
    BY <2>4, <2>5
<1> QED
  BY <1>2, <1>3 DEF IsReady

(* The SCBs that stay on the time list are in turn still.                  *)
LEMMA StillInTurn ==
  ASSUME NEW T \in Seq(SCB), NEW P, NEW tm, InTurn(T, P, tm), NEW s, NEW T2, Drops(T2, T, s),
         NEW P2, NEW tm2, Else(P, P2, s), Else(tm, tm2, s)
  PROVE  InTurn(T2, P2, tm2)
<1>1. T2 \in Seq(SCB) /\ \A k \in 1 .. Len(T2) : T2[k] \in SCB
  BY LenProperties DEF Drops
<1>2. \A k \in 1 .. Len(T2) : T2[k] # s
  BY DEF Drops, OnList
<1>3. PICK e : /\ \A i \in 1 .. Len(T2) : e[i] \in 1 .. Len(T) /\ T2[i] = T[e[i]]
               /\ \A i, j \in 1 .. Len(T2) : i < j => e[i] < e[j]
  BY DEF Drops, Embeds
<1>4. ASSUME NEW k \in 1 .. Len(T2)
      PROVE  P2[T2[k]] # <<>> /\ tm2[T2[k]] = P2[T2[k]][1].time /\ tm2[T2[k]] = tm[T[e[k]]]
  <2> DEFINE z == T2[k]
  <2>1. P[z] # <<>> /\ tm[z] = P[z][1].time
    BY <1>3 DEF InTurn
  <2>2. P2[z] = P[z] /\ tm2[z] = tm[z]
    BY <1>1, <1>2 DEF Else
  <2>3. z = T[e[k]]
    BY <1>3
  <2> QED
    BY <2>1, <2>2, <2>3
<1>5. ASSUME NEW j \in 1 .. Len(T2), NEW k \in 1 .. Len(T2), j < k
      PROVE  Value(tm2[T2[j]]) <= Value(tm2[T2[k]])
  <2>1. e[j] \in 1 .. Len(T) /\ e[k] \in 1 .. Len(T) /\ e[j] < e[k]
    BY <1>3, <1>5
  <2>2. Value(tm[T[e[j]]]) <= Value(tm[T[e[k]]])
    BY <2>1 DEF InTurn
  <2> QED
    BY <1>4, <2>2
<1> QED
  BY <1>4, <1>5 DEF InTurn

(* An SCB goes to its place on the time list.                              *)
LEMMA ScheduledLists ==
  ASSUME NEW R, NEW T, NEW F, NEW P, NEW tm, Typed(R, T, F, P, tm), NEW now, NEW x \in BOOLEAN,
         Lists(R, T, F, P, tm, now, x),
         NEW s \in SCB, NEW t \in Within, NEW c \in Seq(Delay), c # <<>>, c[1].time = t, Rises(c, Value(now)),
         NEW R2, Drops(R2, R, s), NEW F2, Drops(F2, F, s),
         NEW tm2, Puts(tm, tm2, s, t), NEW T2, Waits(T2, T, s, tm2),
         NEW P2, Puts(P, P2, s, c),
         NEW y \in BOOLEAN, y => x /\ R[1] # s, x /\ ~y => s = R[1]
  PROVE  Typed(R2, T2, F2, P2, tm2) /\ Lists(R2, T2, F2, P2, tm2, now, y)
<1>1. /\ P2[s] = c /\ tm2[s] = t /\ \A z \in SCB : z # s => P2[z] = P[z] /\ tm2[z] = tm[z]
  BY DEF Typed, Puts
<1>2. Typed(R2, T2, F2, P2, tm2)
  BY DEF Typed, Drops, Waits, Puts
<1>3. /\ \A z : OnList(R2, z) <=> OnList(R, z) /\ z # s
      /\ \A z : OnList(F2, z) <=> OnList(F, z) /\ z # s
      /\ \A z : OnList(T2, z) <=> z = s \/ OnList(T, z)
      /\ Distinct(R2) /\ Distinct(F2) /\ Distinct(T2)
  BY DEF Drops, Waits
<1>4. Apart(R2, T2, F2)
  BY <1>3 DEF Lists, Apart
<1>5. Chains(P2, now)
  BY <1>1 DEF Lists, Chains
<1>6. InTurn(T2, P2, tm2)
  <2>1. ASSUME NEW k \in 1 .. Len(T2) PROVE P2[T2[k]] # <<>> /\ tm2[T2[k]] = P2[T2[k]][1].time
    <3> DEFINE z == T2[k]
    <3>1. z \in SCB
      BY LenProperties DEF Waits
    <3>2. OnList(T2, z)
      BY DEF OnList
    <3>3. CASE z = s
      BY <1>1, <3>3
    <3>4. CASE z # s
      <4>0. OnList(T, z)
        BY <1>3, <3>2, <3>4
      <4>3. PICK j \in 1 .. Len(T) : T[j] = z
        BY <4>0 DEF OnList
      <4>1. P[z] # <<>> /\ tm[z] = P[z][1].time
        BY <4>3 DEF Lists, InTurn
      <4>2. P2[z] = P[z] /\ tm2[z] = tm[z]
        BY <1>1, <3>1, <3>4
      <4> QED
        BY <4>1, <4>2
    <3> QED
      BY <3>3, <3>4
  <2>2. \A j, k \in 1 .. Len(T2) : j < k => Value(tm2[T2[j]]) <= Value(tm2[T2[k]])
    BY DEF Waits
  <2> QED
    BY <2>1, <2>2 DEF InTurn
<1>7. IsReady(R2, P2, now, y)
  <2>1. R \in Seq(SCB) /\ IsReady(R, P, now, x)
    BY DEF Typed, Lists
  <2>2. Else(P, P2, s)
    BY <1>1 DEF Else
  <2> QED
    BY <2>1, <2>2, StillReady
<1>8. InUse(R2, T2, P2)
  <2> SUFFICES ASSUME NEW z \in SCB, P2[z] # <<>> PROVE OnList(R2, z) \/ OnList(T2, z)
    BY DEF InUse
  <2>1. CASE z = s
    BY <1>3, <2>1
  <2>2. CASE z # s
    <3>1. OnList(R, z) \/ OnList(T, z)
      BY <1>1, <2>2 DEF Lists, InUse
    <3> QED
      BY <1>3, <2>2, <3>1
  <2> QED
    BY <2>1, <2>2
<1> QED
  BY <1>2, <1>4, <1>5, <1>6, <1>7, <1>8 DEF Lists

(* An SCB goes to the free list.                                           *)
LEMMA FreedLists ==
  ASSUME NEW R, NEW T, NEW F, NEW P, NEW tm, Typed(R, T, F, P, tm), NEW now, NEW x \in BOOLEAN,
         Lists(R, T, F, P, tm, now, x),
         NEW s \in SCB, NEW R2, Drops(R2, R, s), NEW T2, Drops(T2, T, s), NEW F1, Drops(F1, F, s),
         NEW tm2, Puts(tm, tm2, s, Zero), NEW F2, Fronts(F2, s, F1),
         NEW P2, Puts(P, P2, s, <<>>),
         NEW y \in BOOLEAN, y => x /\ R[1] # s, x /\ ~y => s = R[1]
  PROVE  Typed(R2, T2, F2, P2, tm2) /\ Lists(R2, T2, F2, P2, tm2, now, y)
<1>1. /\ P2[s] = <<>> /\ \A z \in SCB : z # s => P2[z] = P[z] /\ tm2[z] = tm[z]
  BY DEF Typed, Puts
<1>2. /\ F2 \in Seq(SCB) /\ Distinct(F2)
      /\ \A z : OnList(F2, z) <=> z = s \/ OnList(F1, z)
  <2>1. F1 \in Seq(SCB) /\ Distinct(F1) /\ ~OnList(F1, s)
    BY DEF Drops
  <2> QED
    BY <2>1, PutFirst DEF Fronts
<1>3. /\ \A z : OnList(R2, z) <=> OnList(R, z) /\ z # s
      /\ \A z : OnList(T2, z) <=> OnList(T, z) /\ z # s
      /\ \A z : OnList(F2, z) <=> z = s \/ OnList(F, z)
      /\ Distinct(R2) /\ Distinct(T2)
  BY <1>2 DEF Drops
<1>4. Typed(R2, T2, F2, P2, tm2)
  <2>1. <<>> \in Seq(Delay) /\ Zero \in Within
    BY ZeroWithin
  <2>2. R2 \in Seq(SCB) /\ T2 \in Seq(SCB)
    BY DEF Drops
  <2> QED
    BY <1>2, <2>1, <2>2 DEF Typed, Puts
<1>5. Apart(R2, T2, F2)
  BY <1>2, <1>3 DEF Lists, Apart
<1>6. Chains(P2, now)
  <2>1. Rises(<<>>, Value(now))
    BY DEF Rises
  <2> QED
    BY <1>1, <2>1 DEF Lists, Chains
<1>7. InTurn(T2, P2, tm2)
  <2>1. T \in Seq(SCB) /\ InTurn(T, P, tm)
    BY DEF Typed, Lists
  <2>2. Else(P, P2, s) /\ Else(tm, tm2, s)
    BY <1>1 DEF Else
  <2> QED
    BY <2>1, <2>2, StillInTurn
<1>8. IsReady(R2, P2, now, y)
  <2>1. R \in Seq(SCB) /\ IsReady(R, P, now, x)
    BY DEF Typed, Lists
  <2>2. Else(P, P2, s)
    BY <1>1 DEF Else
  <2> QED
    BY <2>1, <2>2, StillReady
<1>9. InUse(R2, T2, P2)
  <2> SUFFICES ASSUME NEW z \in SCB, P2[z] # <<>> PROVE OnList(R2, z) \/ OnList(T2, z)
    BY DEF InUse
  <2>1. z # s /\ P[z] # <<>>
    BY <1>1
  <2>2. OnList(R, z) \/ OnList(T, z)
    BY <2>1 DEF Lists, InUse
  <2> QED
    BY <1>3, <2>1, <2>2
<1> QED
  BY <1>4, <1>5, <1>6, <1>7, <1>8, <1>9 DEF Lists

(* A chain changes where it is: the executing SCB's, or behind its first.  *)
LEMMA ChainedLists ==
  ASSUME NEW R, NEW T, NEW F, NEW P, NEW tm, Typed(R, T, F, P, tm), NEW now, NEW x \in BOOLEAN,
         Lists(R, T, F, P, tm, now, x),
         NEW s \in SCB, OnList(R, s) \/ OnList(T, s),
         NEW c \in Seq(Delay), Rises(c, Value(now)), NEW P2, Puts(P, P2, s, c),
         NEW y \in BOOLEAN, x => y, y => Len(R) # 0,
         (y /\ R[1] = s) \/ (P[s] # <<>> /\ c # <<>> /\ c[1] = P[s][1])
  PROVE  Typed(R, T, F, P2, tm) /\ Lists(R, T, F, P2, tm, now, y)
<1>1. P2[s] = c /\ \A z \in SCB : z # s => P2[z] = P[z]
  BY DEF Typed, Puts
<1>2. Typed(R, T, F, P2, tm)
  BY DEF Typed, Puts
<1>3. /\ R \in Seq(SCB) /\ T \in Seq(SCB) /\ Len(R) \in Nat
      /\ (\A k \in 1 .. Len(R) : R[k] \in SCB) /\ (\A k \in 1 .. Len(T) : T[k] \in SCB)
  BY LenProperties DEF Typed
<1>4. Apart(R, T, F)
  BY DEF Lists
<1>5. Chains(P2, now)
  BY <1>1 DEF Lists, Chains
<1>6. InTurn(T, P2, tm)
  <2>1. ASSUME NEW k \in 1 .. Len(T) PROVE P2[T[k]] # <<>> /\ tm[T[k]] = P2[T[k]][1].time
    <3> DEFINE z == T[k]
    <3>1. P[z] # <<>> /\ tm[z] = P[z][1].time /\ z \in SCB /\ OnList(T, z)
      BY <1>3 DEF Lists, InTurn, OnList
    <3>2. CASE z # s
      BY <1>1, <3>1, <3>2
    <3>3. CASE z = s
      <4>1. ~(y /\ R[1] = s)
        <5> SUFFICES ASSUME y, R[1] = s PROVE FALSE
          OBVIOUS
        <5>1. 1 \in 1 .. Len(R)
          BY <1>3
        <5>2. OnList(R, s)
          BY <5>1 DEF OnList
        <5> QED
          BY <1>4, <3>1, <3>3, <5>2 DEF Apart
      <4>2. c # <<>> /\ c[1] = P[s][1]
        BY <4>1
      <4>3. P2[z] = c
        BY <1>1, <3>3
      <4> QED
        BY <3>1, <3>3, <4>2, <4>3
    <3> QED
      BY <3>2, <3>3
  <2> QED
    BY <2>1 DEF Lists, InTurn
<1>7. IsReady(R, P2, now, y)
  <2>1. ASSUME NEW k \in 1 .. Len(R), ~(k = 1 /\ y) PROVE P2[R[k]] # <<>> /\ P2[R[k]][1].time = now
    <3> DEFINE z == R[k]
    <3>1. P[z] # <<>> /\ P[z][1].time = now /\ z \in SCB
      BY <1>3, <2>1 DEF Lists, IsReady
    <3>2. CASE z # s
      BY <1>1, <3>1, <3>2
    <3>3. CASE z = s
      <4>1. ~(y /\ R[1] = s)
        <5> SUFFICES ASSUME y, R[1] = s PROVE FALSE
          OBVIOUS
        <5>1. 1 \in 1 .. Len(R)
          BY <1>3
        <5>2. k = 1
          BY <1>4, <3>3, <5>1 DEF Apart, Distinct
        <5> QED
          BY <2>1, <5>2
      <4>2. c # <<>> /\ c[1] = P[s][1]
        BY <4>1
      <4>3. P2[z] = c
        BY <1>1, <3>3
      <4> QED
        BY <3>1, <3>3, <4>2, <4>3
    <3> QED
      BY <3>2, <3>3
  <2> QED
    BY <2>1 DEF IsReady
<1>8. InUse(R, T, P2)
  <2> SUFFICES ASSUME NEW z \in SCB, P2[z] # <<>> PROVE OnList(R, z) \/ OnList(T, z)
    BY DEF InUse
  <2>1. CASE z = s
    BY <2>1
  <2>2. CASE z # s
    BY <1>1, <2>2 DEF Lists, InUse
  <2> QED
    BY <2>1, <2>2
<1> QED
  BY <1>2, <1>4, <1>5, <1>6, <1>7, <1>8 DEF Lists

-----------------------------------------------------------------------------
(* Whose the delays are.                                                   *)
LEMMA OwnedLess ==
  ASSUME NEW D \in Owners, NEW P \in [SCB -> Seq(Delay)], Owned(D, P), NEW s \in SCB,
         NEW c, \A k \in 1 .. Len(c) : \E j \in 1 .. Len(P[s]) : c[k] = P[s][j],
         NEW P2, P2 = [P EXCEPT ![s] = c]
  PROVE  Owned(D, P2)
<1>1. P2[s] = c /\ \A z \in SCB : z # s => P2[z] = P[z]
  OBVIOUS
<1>2. ASSUME NEW z \in SCB, NEW k \in 1 .. Len(P2[z])
      PROVE  \E j \in 1 .. Len(P[z]) : P2[z][k] = P[z][j]
  <2>1. CASE z = s
    BY <1>1, <2>1
  <2>2. CASE z # s
    BY <1>1, <2>2
  <2> QED
    BY <2>1, <2>2
<1>3. ASSUME NEW i \in Instance, D[i] # NULL, NEW k \in 1 .. Len(P2[D[i]]) PROVE P2[D[i]][k].node = i
  <2>1. D[i] \in SCB
    BY <1>3 DEF Owners
  <2>2. PICK j \in 1 .. Len(P[D[i]]) : P2[D[i]][k] = P[D[i]][j]
    BY <1>2, <2>1
  <2>3. P[D[i]][j].node = i
    BY <1>3 DEF Owned
  <2> QED
    BY <2>2, <2>3
<1>4. ASSUME NEW z \in SCB, NEW k \in 1 .. Len(P2[z]), P2[z][k].node # STORE PROVE D[P2[z][k].node] = z
  <2>1. PICK j \in 1 .. Len(P[z]) : P2[z][k] = P[z][j]
    BY <1>2
  <2>2. P[z][j].node # STORE => D[P[z][j].node] = z
    BY DEF Owned
  <2> QED
    BY <1>4, <2>1, <2>2
<1>5. \A i, j \in Instance : D[i] # NULL /\ D[i] = D[j] => i = j
  BY DEF Owned
<1> QED
  BY <1>3, <1>4, <1>5 DEF Owned

(* An instance gets a chain of its own delays.                             *)
LEMMA OwnedSet ==
  ASSUME NEW D \in Owners, NEW P \in [SCB -> Seq(Delay)], Owned(D, P), NEW s \in SCB, NEW i \in Instance,
         D[i] = s \/ D[i] = NULL, \A j \in Instance : j # i => D[j] # s,
         NEW c, \A k \in 1 .. Len(c) : c[k].node = i,
         NEW P2, P2 = [P EXCEPT ![s] = c], NEW D2, D2 = [D EXCEPT ![i] = s]
  PROVE  Owned(D2, P2)
<1>1. P2[s] = c /\ \A z \in SCB : z # s => P2[z] = P[z]
  OBVIOUS
<1>2. D2[i] = s /\ \A j \in Instance : j # i => D2[j] = D[j]
  BY DEF Owners
<1>3. s # NULL
  BY PliAssumption
<1>4. ASSUME NEW j \in Instance, D2[j] # NULL, NEW k \in 1 .. Len(P2[D2[j]]) PROVE P2[D2[j]][k].node = j
  <2>1. CASE j = i
    BY <1>1, <1>2, <1>4, <2>1
  <2>2. CASE j # i
    <3>1. D2[j] = D[j] /\ D[j] \in SCB /\ D[j] # s
      BY <1>2, <1>4, <2>2 DEF Owners
    <3>2. P2[D2[j]] = P[D[j]]
      BY <1>1, <3>1
    <3> QED
      BY <1>4, <3>1, <3>2 DEF Owned
  <2> QED
    BY <2>1, <2>2
<1>5. ASSUME NEW z \in SCB, NEW k \in 1 .. Len(P2[z]), P2[z][k].node # STORE PROVE D2[P2[z][k].node] = z
  <2>1. CASE z = s
    <3>1. P2[z][k].node = i
      BY <1>1, <1>5, <2>1
    <3> QED
      BY <1>2, <2>1, <3>1
  <2>2. CASE z # s
    <3> DEFINE j == P[z][k].node
    <3>1. P2[z] = P[z] /\ j # STORE
      BY <1>1, <1>5, <2>2
    <3>2. P[z][k] \in Delay
      <4>1. P[z] \in Seq(Delay) /\ k \in 1 .. Len(P[z])
        BY <1>5, <3>1
      <4> QED
        BY <4>1, LenProperties
    <3>3. j \in Instance
      BY <3>1, <3>2 DEF Delay
    <3>4. D[j] = z
      <4>1. k \in 1 .. Len(P[z])
        BY <3>1
      <4> QED
        BY <3>1, <4>1 DEF Owned
    <3>5. j # i
      BY <2>2, <3>4, PliAssumption
    <3> HIDE DEF j
    <3>6. D2[j] = z
      BY <1>2, <3>3, <3>4, <3>5
    <3> QED
      BY <3>1, <3>6 DEF j
  <2> QED
    BY <2>1, <2>2
<1>6. ASSUME NEW a \in Instance, NEW b \in Instance, D2[a] # NULL, D2[a] = D2[b] PROVE a = b
  <2>1. CASE a = i
    BY <1>2, <1>6, <2>1
  <2>2. CASE b = i
    BY <1>2, <1>6, <2>2
  <2>3. CASE a # i /\ b # i
    BY <1>2, <1>6, <2>3 DEF Owned
  <2> QED
    BY <2>1, <2>2, <2>3
<1> QED
  BY <1>4, <1>5, <1>6 DEF Owned

(* A nonblocking assignment gets an SCB that no instance names.            *)
LEMMA OwnedStore ==
  ASSUME NEW D \in Owners, NEW P \in [SCB -> Seq(Delay)], Owned(D, P), NEW s \in SCB,
         \A j \in Instance : D[j] # s,
         NEW c, \A k \in 1 .. Len(c) : c[k].node = STORE, NEW P2, P2 = [P EXCEPT ![s] = c]
  PROVE  Owned(D, P2)
<1>1. P2[s] = c /\ \A z \in SCB : z # s => P2[z] = P[z]
  OBVIOUS
<1>2. \A j \in Instance : D[j] # NULL => P2[D[j]] = P[D[j]]
  BY <1>1 DEF Owners
<1>3. ASSUME NEW z \in SCB, NEW k \in 1 .. Len(P2[z]), P2[z][k].node # STORE PROVE D[P2[z][k].node] = z
  <2>1. z # s
    BY <1>1, <1>3
  <2>2. P2[z] = P[z]
    BY <1>1, <2>1
  <2> QED
    BY <1>3, <2>2 DEF Owned
<1>4. \A j \in Instance : D[j] # NULL => \A k \in 1 .. Len(P2[D[j]]) : P2[D[j]][k].node = j
  BY <1>2 DEF Owned
<1> QED
  BY <1>3, <1>4 DEF Owned

-----------------------------------------------------------------------------
(* How many delays are due.                                                *)
LEMMA CountedSame ==
  ASSUME NEW u, NEW D \in Owners, NEW P \in [SCB -> Seq(Delay)], Counted(u, D, P), NEW s \in SCB,
         \A j \in Instance : D[j] # s, NEW c, NEW P2, P2 = [P EXCEPT ![s] = c]
  PROVE  Counted(u, D, P2)
<1>1. \A j \in Instance : D[j] # NULL => P2[D[j]] = P[D[j]]
  BY DEF Owners
<1> QED
  BY <1>1 DEF Counted

(* One delay more is due.                                                  *)
LEMMA CountedMore ==
  ASSUME NEW u \in Counts, NEW D \in Owners, NEW P \in [SCB -> Seq(Delay)], Counted(u, D, P),
         NEW s \in SCB, NEW i \in Instance, NEW t \in Within, \A j \in Instance : j # i => D[j] # s,
         NEW b \in Seq(Delay), (D[i] = s /\ b = P[s]) \/ (D[i] = NULL /\ b = <<>>),
         NEW k \in 1 .. Len(b) + 1, NEW e, e = [node |-> i, time |-> t], NEW c, Widened(b, c, k, e),
         NEW P2, P2 = [P EXCEPT ![s] = c], NEW D2, D2 = [D EXCEPT ![i] = s],
         NEW u2, u2 = [u EXCEPT ![i][t] = @ + 1]
  PROVE  u2 \in Counts /\ Counted(u2, D2, P2)
<1>1. P2[s] = c /\ \A z \in SCB : z # s => P2[z] = P[z]
  OBVIOUS
<1>2. D2[i] = s /\ \A j \in Instance : j # i => D2[j] = D[j]
  BY DEF Owners
<1>3. s # NULL
  BY PliAssumption
<1>4. u2 \in Counts
  BY DEF Counts
<1>5. /\ \A x \in Within : u2[i][x] = IF x = t THEN u[i][x] + 1 ELSE u[i][x]
      /\ \A j \in Instance : j # i => u2[j] = u[j]
  BY DEF Counts
<1>6. ASSUME NEW x \in Within PROVE u2[i][x] = Cardinality(Ends(c, i, x))
  <2>1. u[i][x] = Cardinality(Ends(b, i, x))
    <3>1. CASE D[i] = s /\ b = P[s]
      BY <1>3, <3>1 DEF Counted
    <3>2. CASE D[i] = NULL /\ b = <<>>
      BY <3>2, NoneEnds DEF Counted
    <3> QED
      BY <3>1, <3>2
  <2>2. Cardinality(Ends(c, i, x)) = Cardinality(Ends(b, i, x)) + IF e = [node |-> i, time |-> x] THEN 1 ELSE 0
    <3> DEFINE n == Len(b)
    <3>1. n \in Nat /\ k \in 1 .. n + 1 /\ Len(b) = n
      BY LenProperties
    <3> HIDE DEF n
    <3> QED
      BY <3>1, OneMore
  <2>3. e = [node |-> i, time |-> x] <=> x = t
    OBVIOUS
  <2>4. u[i][x] \in Nat
    BY DEF Counts
  <2> QED
    BY <1>5, <2>1, <2>2, <2>3, <2>4
<1>7. ASSUME NEW j \in Instance, NEW x \in Within
      PROVE  u2[j][x] = IF D2[j] = NULL THEN 0 ELSE Cardinality(Ends(P2[D2[j]], j, x))
  <2>1. CASE j = i
    BY <1>1, <1>2, <1>3, <1>6, <2>1
  <2>2. CASE j # i
    <3>1. D2[j] = D[j] /\ u2[j] = u[j] /\ D[j] # s
      BY <1>2, <1>5, <2>2
    <3>2. D[j] # NULL => P2[D[j]] = P[D[j]]
      BY <1>1, <3>1 DEF Owners
    <3>3. u[j][x] = IF D[j] = NULL THEN 0 ELSE Cardinality(Ends(P[D[j]], j, x))
      BY DEF Counted
    <3> QED
      BY <3>1, <3>2, <3>3
  <2> QED
    BY <2>1, <2>2
<1> QED
  BY <1>4, <1>7 DEF Counted

(* The first delay of a chain has ended.                                   *)
LEMMA CountedLess ==
  ASSUME NEW u \in Counts, NEW D \in Owners, NEW P \in [SCB -> Seq(Delay)], Counted(u, D, P),
         NEW s \in SCB, NEW i \in Instance, NEW t \in Within, D[i] = s, \A j \in Instance : j # i => D[j] # s,
         NEW c \in Seq(Delay), NEW e, e = [node |-> i, time |-> t], Widened(c, P[s], 1, e),
         NEW P2, P2 = [P EXCEPT ![s] = c], NEW u2, u2 = [u EXCEPT ![i][t] = @ - 1]
  PROVE  u2 \in Counts /\ Counted(u2, D, P2)
<1>1. P2[s] = c /\ \A z \in SCB : z # s => P2[z] = P[z]
  OBVIOUS
<1>2. s # NULL
  BY PliAssumption
<1>3. ASSUME NEW x \in Within
      PROVE  /\ u[i][x] = Cardinality(Ends(c, i, x)) + IF x = t THEN 1 ELSE 0
             /\ Cardinality(Ends(c, i, x)) \in Nat /\ u[i][x] \in Nat
  <2>1. u[i][x] = Cardinality(Ends(P[s], i, x)) /\ u[i][x] \in Nat
    BY <1>2 DEF Counted, Counts
  <2>2. /\ Cardinality(Ends(c, i, x)) \in Nat
        /\ Cardinality(Ends(P[s], i, x)) = Cardinality(Ends(c, i, x)) + IF e = [node |-> i, time |-> x] THEN 1 ELSE 0
    <3> DEFINE n == Len(c)
               one == 1
               d == P[s]
    <3>1. n \in Nat /\ one \in 1 .. n + 1 /\ Len(c) = n /\ Widened(c, d, one, e)
      BY LenProperties
    <3> HIDE DEF n, one, d
    <3>2. /\ Cardinality(Ends(c, i, x)) \in Nat
          /\ Cardinality(Ends(d, i, x)) = Cardinality(Ends(c, i, x)) + IF e = [node |-> i, time |-> x] THEN 1 ELSE 0
      BY <3>1, OneMore
    <3> QED
      BY <3>2 DEF d
  <2>3. e = [node |-> i, time |-> x] <=> x = t
    OBVIOUS
  <2> QED
    BY <2>1, <2>2, <2>3
<1>4. u[i][t] - 1 \in Nat
  BY <1>3
<1>5. u2 \in Counts
  BY <1>4 DEF Counts
<1>6. /\ \A x \in Within : u2[i][x] = IF x = t THEN u[i][x] - 1 ELSE u[i][x]
      /\ \A j \in Instance : j # i => u2[j] = u[j]
  BY DEF Counts
<1>7. ASSUME NEW j \in Instance, NEW x \in Within
      PROVE  u2[j][x] = IF D[j] = NULL THEN 0 ELSE Cardinality(Ends(P2[D[j]], j, x))
  <2>1. CASE j = i
    <3>1. u2[i][x] = Cardinality(Ends(c, i, x))
      BY <1>3, <1>6
    <3> QED
      BY <1>1, <1>2, <2>1, <3>1
  <2>2. CASE j # i
    <3>1. u2[j] = u[j] /\ D[j] # s
      BY <1>6, <2>2
    <3>2. D[j] # NULL => P2[D[j]] = P[D[j]]
      BY <1>1, <3>1 DEF Owners
    <3>3. u[j][x] = IF D[j] = NULL THEN 0 ELSE Cardinality(Ends(P[D[j]], j, x))
      BY DEF Counted
    <3> QED
      BY <3>1, <3>2, <3>3
  <2> QED
    BY <2>1, <2>2
<1> QED
  BY <1>5, <1>7 DEF Counted

NoneDue(u, u2, i) == u2 = [u EXCEPT ![i] = [t \in Within |-> 0]]

(* A chain is cleared and nothing is due.                                  *)
LEMMA CountedNone ==
  ASSUME NEW u \in Counts, NEW D \in Owners, NEW P \in [SCB -> Seq(Delay)], Counted(u, D, P),
         NEW s \in SCB, NEW i \in Instance, D[i] = s, \A j \in Instance : j # i => D[j] # s,
         NEW P2, Puts(P, P2, s, <<>>), NEW u2, NoneDue(u, u2, i)
  PROVE  u2 \in Counts /\ Counted(u2, D, P2)
<1>1. P2[s] = <<>> /\ \A z \in SCB : z # s => P2[z] = P[z]
  BY DEF Puts
<1>2. u2 \in Counts /\ (\A x \in Within : u2[i][x] = 0) /\ \A j \in Instance : j # i => u2[j] = u[j]
  BY DEF Counts, NoneDue
<1>3. ASSUME NEW j \in Instance, NEW x \in Within
      PROVE  u2[j][x] = IF D[j] = NULL THEN 0 ELSE Cardinality(Ends(P2[D[j]], j, x))
  <2>1. CASE j = i
    <3>1. Cardinality(Ends(<<>>, i, x)) = 0
      BY NoneEnds
    <3> QED
      BY <1>1, <1>2, <2>1, <3>1
  <2>2. CASE j # i
    <3>1. u2[j] = u[j] /\ D[j] # s
      BY <1>2, <2>2
    <3>2. D[j] # NULL => P2[D[j]] = P[D[j]]
      BY <1>1, <3>1 DEF Owners
    <3>3. u[j][x] = IF D[j] = NULL THEN 0 ELSE Cardinality(Ends(P[D[j]], j, x))
      BY DEF Counted
    <3> QED
      BY <3>1, <3>2, <3>3
  <2> QED
    BY <2>1, <2>2
<1> QED
  BY <1>2, <1>3 DEF Counted

(* No delay is set at first.                                               *)
LEMMA PliInitInv == PliInit => PliInv
<1> SUFFICES ASSUME PliInit PROVE PliInv
  OBVIOUS
<1>1. /\ readylist = <<>> /\ timelist = <<>> /\ freelist = SetToSeq(SCB)
      /\ pc = [s \in SCB |-> <<>>] /\ time = [s \in SCB |-> Zero]
      /\ DELAYSCB = [i \in Instance |-> NULL] /\ reactivated = <<>>
      /\ due = [i \in Instance |-> [t \in Within |-> 0]] /\ fault = FALSE
  BY DEF PliInit
<1>2. SetToSeq(SCB) \in Seq(SCB) /\ Distinct(SetToSeq(SCB))
  <2> DEFINE n == Cardinality(SCB)
             f == CHOOSE f \in [1 .. n -> SCB] : IsInjective(f)
  <2>1. n \in Nat /\ ExistsBijection(1 .. n, SCB)
    BY PliAssumption, FS_CardinalityType
  <2> HIDE DEF n
  <2>2. \E g : g \in [1 .. n -> SCB] /\ IsInjective(g)
    BY <2>1 DEF ExistsBijection, Bijection, Injection
  <2>3. f \in [1 .. n -> SCB] /\ IsInjective(f)
    BY <2>2
  <2>4. SetToSeq(SCB) = f
    BY DEF SetToSeq, n
  <2> HIDE DEF f
  <2>5. f \in Seq(SCB) /\ Len(f) = n /\ DOMAIN f = 1 .. n
    BY <2>1, <2>3, IsASeq
  <2>6. Distinct(f)
    BY <2>3, <2>5 DEF Distinct, IsInjective
  <2> QED
    BY <2>4, <2>5, <2>6
<1>3. Typed(readylist, timelist, freelist, pc, time)
  <2>1. <<>> \in Seq(Delay) /\ <<>> \in Seq(SCB) /\ Zero \in Within
    BY ZeroWithin
  <2>2. pc \in [SCB -> Seq(Delay)] /\ time \in [SCB -> Within]
    BY <1>1, <2>1
  <2> QED
    BY <1>1, <1>2, <2>1, <2>2 DEF Typed
<1>4. PliTypes
  BY <1>1, <1>3 DEF PliTypes, Owners, Counts
<1>5. Apart(readylist, timelist, freelist)
  BY <1>1, <1>2 DEF Apart, OnList, Distinct
<1>6. Chains(pc, CurrentTime)
  <2>1. \A s \in SCB : pc[s] = <<>>
    BY <1>1
  <2> QED
    BY <2>1 DEF Chains, Rises
<1>7. InTurn(timelist, pc, time) /\ IsReady(readylist, pc, CurrentTime, reactivated # <<>>)
  BY <1>1 DEF InTurn, IsReady
<1>8. InUse(readylist, timelist, pc)
  BY <1>1 DEF InUse
<1>9. Owned(DELAYSCB, pc)
  <2>1. (\A s \in SCB : pc[s] = <<>>) /\ \A i \in Instance : DELAYSCB[i] = NULL
    BY <1>1
  <2> QED
    BY <2>1 DEF Owned
<1>10. Counted(due, DELAYSCB, pc)
  <2>1. (\A i \in Instance : DELAYSCB[i] = NULL) /\ \A i \in Instance, t \in Within : due[i][t] = 0
    BY <1>1
  <2> QED
    BY <2>1 DEF Counted
<1> QED
  BY <1>4, <1>5, <1>6, <1>7, <1>8, <1>9, <1>10 DEF PliInv, Lists

-----------------------------------------------------------------------------
(* What executes is the first of the ready list.                           *)
LEMMA ExecutingIs ==
  ASSUME readylist \in Seq(SCB), NEW s
  PROVE  IsExecuting(s) <=> Len(readylist) # 0 /\ s = readylist[1] /\ reactivated # <<>>
<1>1. readylist # <<>> <=> Len(readylist) # 0
  OBVIOUS
<1>2. readylist # <<>> => Head(readylist) = readylist[1]
  BY HeadTailProperties
<1> QED
  BY <1>1, <1>2 DEF IsExecuting

(* What the invariant says as long as there is no fault.                   *)
LEMMA PliFacts ==
  ASSUME PliInv
  PROVE  /\ Typed(readylist, timelist, freelist, pc, time)
         /\ DELAYSCB \in Owners /\ due \in Counts
         /\ ~fault => /\ Lists(readylist, timelist, freelist, pc, time, CurrentTime, reactivated # <<>>)
                      /\ Owned(DELAYSCB, pc) /\ Counted(due, DELAYSCB, pc)
BY DEF PliInv, PliTypes

(* The first of the free list is on no other.                              *)
LEMMA BuiltIs ==
  ASSUME PliInv, ~fault, freelist # <<>>
  PROVE  /\ Built \in SCB /\ pc[Built] = <<>> /\ ~IsExecuting(Built)
         /\ ~OnList(readylist, Built) /\ ~OnList(timelist, Built)
<1>1. /\ Typed(readylist, timelist, freelist, pc, time)
      /\ Lists(readylist, timelist, freelist, pc, time, CurrentTime, reactivated # <<>>)
  BY PliFacts
<1>2. Len(freelist) \in Nat /\ Len(freelist) # 0 /\ freelist \in Seq(SCB) /\ readylist \in Seq(SCB)
  BY <1>1 DEF Typed
<1>3. Built = freelist[1] /\ Built \in SCB /\ OnList(freelist, Built)
  <2>1. Built = freelist[1]
    BY <1>2, HeadTailProperties DEF Built
  <2>2. 1 \in 1 .. Len(freelist)
    BY <1>2
  <2> QED
    BY <1>2, <2>1, <2>2, LenProperties DEF OnList
<1>4. ~OnList(readylist, Built) /\ ~OnList(timelist, Built)
  BY <1>1, <1>3 DEF Lists, Apart
<1>5. pc[Built] = <<>>
  BY <1>1, <1>3, <1>4 DEF Lists, InUse
<1>6. ~IsExecuting(Built)
  <2> SUFFICES ASSUME Len(readylist) # 0, Built = readylist[1] PROVE FALSE
    BY <1>2, ExecutingIs
  <2>1. 1 \in 1 .. Len(readylist)
    BY <1>2, LenProperties
  <2> QED
    BY <1>4, <2>1 DEF OnList
<1> QED
  BY <1>3, <1>4, <1>5, <1>6

(* A chain with a delay more.                                              *)
ChainedAs(b, c, n, delay, now) ==
  /\ c \in Seq(Delay) /\ n \in 0 .. Len(b) /\ Widened(b, c, n + 1, delay) /\ Rises(c, now)
  /\ c # <<>> /\ (n = 0 => c[1] = delay) /\ (n # 0 => b # <<>> /\ c[1] = b[1])

(* A delay goes to its place in a chain, which stays in time order.        *)
LEMMA ChainedIs ==
  ASSUME NEW now \in Nat, NEW t \in Within, now <= Value(t), NEW delay \in Delay, delay.time = t,
         pc \in [SCB -> Seq(Delay)], NEW s \in SCB, Rises(pc[s], now)
  PROVE  \E n : /\ ChainedAs(pc[s], Chained(s, delay), n, delay, now)
                /\ Cardinality(NotLater([k \in DOMAIN pc[s] |-> pc[s][k].time], t)) = n
<1> DEFINE b == pc[s]
           m == Len(b)
           at == [k \in DOMAIN b |-> b[k].time]
           c == Chained(s, delay)
<1>1. b \in Seq(Delay) /\ m \in Nat /\ DOMAIN b = 1 .. m /\ \A k \in 1 .. m : b[k] \in Delay
  BY LenProperties
<1>2. c = InTime(b, at, delay, t)
  BY DEF Chained
<1>3. Rises(b, now)
  OBVIOUS
<1> HIDE DEF b
<1>4. \A k \in 1 .. m : at[k] = b[k].time /\ at[k] \in Time64
  BY <1>1 DEF Delay, Within
<1>5. at \in [1 .. m -> Time64] /\ t \in Time64
  BY <1>1, <1>4 DEF Within
<1>6. \A j, k \in 1 .. m : j < k => Value(at[j]) <= Value(at[k])
  BY <1>3, <1>4 DEF Rises
<1> HIDE DEF c, at
<1>7. PICK n : /\ Splits(at, m, t, n) /\ Cardinality(NotLater(at, t)) = n
               /\ c \in Seq(Delay) /\ Widened(b, c, n + 1, delay)
  BY <1>1, <1>2, <1>5, <1>6, InTimeIs
<1>8. /\ n \in 0 .. m /\ Len(c) = m + 1
      /\ \A k \in 1 .. m : k <= n <=> Value(at[k]) <= Value(t)
      /\ \A i \in 1 .. m + 1 : c[i] = IF i < n + 1 THEN b[i] ELSE IF i = n + 1 THEN delay ELSE b[i - 1]
  BY <1>7 DEF Splits, Widened
<1>9. Rises(c, now)
  <2> DEFINE v == [k \in 1 .. m |-> Value(at[k])]
             w == [k \in 1 .. m + 1 |-> Value(c[k].time)]
             V == Value(t)
  <2>1. V \in Nat /\ \A k \in 1 .. m : v[k] = Value(at[k]) /\ v[k] \in Nat
    BY <1>5, ValueIsNat
  <2>2. \A j, k \in 1 .. m : j < k => v[j] <= v[k]
    BY <1>6, <2>1
  <2>3. \A k \in 1 .. m : k <= n <=> v[k] <= V
    BY <1>8, <2>1
  <2>4. \A k \in 1 .. m : now <= v[k]
    BY <1>3, <1>4, <2>1 DEF Rises
  <2>5. now <= V
    OBVIOUS
  <2>6. Value(delay.time) = V
    OBVIOUS
  <2>7. \A k \in 1 .. m : Value(b[k].time) = v[k]
    BY <1>4, <2>1
  <2> HIDE DEF v, V
  <2>8. ASSUME NEW i \in 1 .. m + 1
        PROVE  w[i] = (IF i < n + 1 THEN v[i] ELSE IF i = n + 1 THEN V ELSE v[i - 1]) /\ now <= w[i]
    <3>1. w[i] = Value(c[i].time)
      OBVIOUS
    <3> HIDE DEF w
    <3>2. CASE i < n + 1
      <4>1. i \in 1 .. m /\ c[i] = b[i]
        BY <1>1, <1>8, <3>2
      <4> QED
        BY <2>4, <2>7, <3>1, <3>2, <4>1
    <3>3. CASE i = n + 1
      <4>1. c[i] = delay
        BY <1>8, <3>3
      <4> QED
        BY <2>5, <2>6, <3>1, <3>3, <4>1
    <3>4. CASE i > n + 1
      <4>1. i - 1 \in 1 .. m /\ c[i] = b[i - 1]
        BY <1>1, <1>8, <3>4
      <4> QED
        BY <1>8, <2>4, <2>7, <3>1, <3>4, <4>1
    <3> QED
      BY <1>8, <3>2, <3>3, <3>4
  <2> HIDE DEF w
  <2>9. \A j, k \in 1 .. m + 1 : j < k => w[j] <= w[k]
    <3>1. (\A k \in 1 .. m : v[k] \in Nat) /\ n \in 0 .. m
      BY <1>8, <2>1
    <3>2. \A i \in 1 .. m + 1 : w[i] = IF i < n + 1 THEN v[i] ELSE IF i = n + 1 THEN V ELSE v[i - 1]
      BY <2>8
    <3> HIDE DEF m
    <3> QED
      BY <1>1, <2>1, <2>2, <2>3, <3>1, <3>2, RisesStill
  <2>10. \A i \in 1 .. m + 1 : now <= w[i] /\ w[i] = Value(c[i].time)
    BY <2>8 DEF w
  <2> QED
    BY <1>8, <2>9, <2>10, SMTT(30) DEF Rises
<1>10. c # <<>> /\ (n = 0 => c[1] = delay) /\ (n # 0 => b # <<>> /\ c[1] = b[1])
  <2>1. 1 \in 1 .. m + 1
    BY <1>1
  <2>2. n = 0 => c[1] = delay
    BY <1>8, <2>1
  <2>3. n # 0 => m # 0 /\ c[1] = b[1]
    <3>1. n # 0 => m # 0 /\ 1 < n + 1
      BY <1>1, <1>8
    <3>2. 1 < n + 1 => c[1] = b[1]
      BY <1>8, <2>1
    <3> QED
      BY <3>1, <3>2
  <2>4. c # <<>>
    BY <1>1, <1>8
  <2>5. m # 0 => b # <<>>
    BY <1>1
  <2> QED
    BY <2>2, <2>3, <2>4, <2>5
<1>11. ChainedAs(b, c, n, delay, now)
  BY <1>7, <1>8, <1>9, <1>10 DEF ChainedAs
<1> QED
  BY <1>7, <1>11 DEF b, c, at

(* A chain of one delay.                                                   *)
LEMMA NewChain ==
  ASSUME NEW now \in Nat, NEW t \in Within, now <= Value(t), NEW delay \in Delay, delay.time = t
  PROVE  ChainedAs(<<>>, <<delay>>, 0, delay, now)
<1> DEFINE c == <<delay>>
<1>1. c \in Seq(Delay) /\ Len(c) = 1 /\ c[1] = delay /\ c # <<>>
  OBVIOUS
<1> HIDE DEF c
<1>2. Rises(c, now)
  BY <1>1 DEF Rises
<1>3. Widened(<<>>, c, 1, delay)
  BY <1>1 DEF Widened
<1> QED
  BY <1>1, <1>2, <1>3 DEF ChainedAs, c

(* The nodes of a chain with a delay more.                                 *)
LEMMA SameNode ==
  ASSUME NEW b \in Seq(Delay), NEW c, NEW n, NEW delay, NEW now, ChainedAs(b, c, n, delay, now), NEW i, delay.node = i,
         \A k \in 1 .. Len(b) : b[k].node = i
  PROVE  \A k \in 1 .. Len(c) : c[k].node = i
<1> DEFINE m == Len(b)
<1>1. /\ m \in Nat /\ n \in 0 .. m /\ Len(c) = m + 1
      /\ \A k \in 1 .. m + 1 : c[k] = IF k < n + 1 THEN b[k] ELSE IF k = n + 1 THEN delay ELSE b[k - 1]
  BY LenProperties DEF ChainedAs, Widened
<1> TAKE k \in 1 .. Len(c)
<1>2. CASE k < n + 1
  <2>1. k \in 1 .. m /\ c[k] = b[k]
    BY <1>1, <1>2
  <2> QED
    BY <2>1
<1>3. CASE k = n + 1
  BY <1>1, <1>3
<1>4. CASE k > n + 1
  <2>1. k - 1 \in 1 .. m /\ c[k] = b[k - 1]
    BY <1>1, <1>4
  <2> QED
    BY <2>1
<1> QED
  BY <1>1, <1>2, <1>3, <1>4

(* The invariant of the next state, from what the step leads to.           *)
LEMMA PliNow ==
  ASSUME NEW R, NEW T, NEW F, NEW P, NEW tm, NEW D, NEW u, NEW y,
         readylist' = R, timelist' = T, freelist' = F, pc' = P, time' = tm, DELAYSCB' = D, due' = u,
         y <=> reactivated' # <<>>,
         Typed(R, T, F, P, tm), D \in Owners, u \in Counts, fault' \in BOOLEAN,
         ~fault' => Lists(R, T, F, P, tm, CurrentTime', y) /\ Owned(D, P) /\ Counted(u, D, P)
  PROVE  PliInv'
<1>1. PliTypes'
  BY DEF PliTypes
<1>2. ~fault' => /\ Lists(readylist', timelist', freelist', pc', time', CurrentTime', reactivated' # <<>>)
                 /\ Owned(DELAYSCB', pc') /\ Counted(due', DELAYSCB', pc')
  BY DEF Lists, IsReady
<1> QED
  BY <1>1, <1>2 DEF PliInv

(* Whether the first SCB executes stays, as another one leaves the list.   *)
LEMMA OtherLeaves ==
  ASSUME PliInv, ~fault, NEW s, ~IsExecuting(s), NEW y, y <=> reactivated # <<>>
  PROVE  y => reactivated # <<>> /\ readylist[1] # s
<1>1. readylist \in Seq(SCB) /\ (y => Len(readylist) # 0)
  BY PliFacts DEF Typed, Lists, IsReady
<1> QED
  BY <1>1, ExecutingIs

(* The lists, when an SCB gets a chain and goes to the time list.          *)
LEMMA ScheduleStep ==
  ASSUME PliInv, ~fault, CurrentTime \in Within, NEW s \in SCB, ~IsExecuting(s), NEW t \in Within, Schedule64(s, t),
         NEW c \in Seq(Delay), c # <<>>, c[1].time = t, Rises(c, Value(CurrentTime)),
         NEW x \in BOOLEAN, x <=> reactivated # <<>>
  PROVE  /\ Typed(readylist', timelist', freelist', [pc EXCEPT ![s] = c], time')
         /\ Lists(readylist', timelist', freelist', [pc EXCEPT ![s] = c], time', CurrentTime, x)
<1>1. /\ Typed(readylist, timelist, freelist, pc, time)
      /\ Lists(readylist, timelist, freelist, pc, time, CurrentTime, reactivated # <<>>)
  BY PliFacts
<1>2. Lists(readylist, timelist, freelist, pc, time, CurrentTime, x)
  BY <1>1 DEF Lists, IsReady
<1>3. /\ timelist' = Waiting(s, t) /\ time' = [time EXCEPT ![s] = t]
      /\ readylist' = Without(readylist, s) /\ freelist' = Without(freelist, s)
  BY DEF Schedule64
<1>4. /\ readylist \in Seq(SCB) /\ timelist \in Seq(SCB) /\ freelist \in Seq(SCB) /\ time \in [SCB -> Within]
      /\ Distinct(readylist) /\ Distinct(timelist) /\ Distinct(freelist)
  BY <1>1 DEF Typed, Lists, Apart
<1>5. Drops(readylist', readylist, s) /\ Drops(freelist', freelist, s)
  BY <1>3, <1>4, WithoutIs
<1>6. \A j, k \in 1 .. Len(timelist) : j < k => Value(time[timelist[j]]) <= Value(time[timelist[k]])
  BY <1>1 DEF Lists, InTurn
<1>7. Waits(timelist', timelist, s, time')
  BY <1>3, <1>4, <1>6, WaitingIs
<1>8. x => x /\ readylist[1] # s
  BY OtherLeaves
<1> DEFINE R == readylist
           T == timelist
           F == freelist
           P == pc
           tm == time
           R2 == readylist'
           T2 == timelist'
           F2 == freelist'
           tm2 == time'
           P2 == [P EXCEPT ![s] = c]
           now == CurrentTime
<1>9. /\ Typed(R, T, F, P, tm) /\ Lists(R, T, F, P, tm, now, x) /\ Rises(c, Value(now))
      /\ Drops(R2, R, s) /\ Drops(F2, F, s) /\ Puts(tm, tm2, s, t) /\ Waits(T2, T, s, tm2)
      /\ Puts(P, P2, s, c) /\ (x => x /\ R[1] # s)
  BY <1>1, <1>2, <1>3, <1>5, <1>7, <1>8 DEF Puts
<1> HIDE DEF R, T, F, P, tm, R2, T2, F2, tm2, P2, now
<1>10. Typed(R2, T2, F2, P2, tm2) /\ Lists(R2, T2, F2, P2, tm2, now, x)
  <2>1. x => x /\ R[1] # s
    BY <1>9
  <2>2. x /\ ~x => s = R[1]
    OBVIOUS
  <2> QED
    BY <1>9, <2>1, <2>2, ScheduledLists
<1> QED
  BY <1>10 DEF P, R2, T2, F2, tm2, P2, now

(* tf_isetlongdelay keeps the invariant.                                   *)
LEMMA SetStep ==
  ASSUME PliInv, CurrentTime \in Within, NEW i \in Instance, NEW d \in LONGDELAYS, SetLongDelay(i, d)
  PROVE  PliInv'
<1> DEFINE t     == ADDTIME6464(CurrentTime, d)
           delay == [node |-> i, time |-> t]
           s     == IF DELAYSCB[i] # NULL THEN DELAYSCB[i] ELSE Built
           c     == IF DELAYSCB[i] # NULL THEN Chained(s, delay) ELSE <<delay>>
           b     == IF DELAYSCB[i] # NULL THEN pc[s] ELSE <<>>
           first == DELAYSCB[i] = NULL \/ Cardinality(NotLater([k \in DOMAIN pc[s] |-> pc[s][k].time], t)) = 0
           x     == reactivated # <<>>
           now   == Value(CurrentTime)
           P2    == [pc EXCEPT ![s] = c]
           D2    == [DELAYSCB EXCEPT ![i] = s]
           u2    == [due EXCEPT ![i][t] = @ + 1]
<1>1. /\ ~fault /\ Value(CurrentTime) + Value(d) <= MaxTime
      /\ DELAYSCB[i] = NULL => freelist # <<>>
      /\ pc' = P2 /\ DELAYSCB' = D2 /\ due' = u2
      /\ fault' = (DELAYSCB[i] = NULL /\ Taken)
      /\ IF Reschedules(s, first) THEN Schedule64(s, t)
         ELSE UNCHANGED <<readylist, timelist, freelist, time>>
      /\ UNCHANGED <<vars, reactivated>>
  BY DEF SetLongDelay
<1>2. t \in Within /\ now <= Value(t) /\ now \in Nat
  <2>1. t \in Within /\ Value(CurrentTime) <= Value(t)
    BY <1>1, DelayTime
  <2>2. Value(CurrentTime) \in Nat
    BY ValueIsNat DEF Within
  <2> QED
    BY <2>1, <2>2
<1>3. delay \in Delay /\ delay.time = t /\ delay.node = i
  BY <1>2 DEF Delay
<1>4. /\ Typed(readylist, timelist, freelist, pc, time)
      /\ DELAYSCB \in Owners /\ due \in Counts
      /\ Lists(readylist, timelist, freelist, pc, time, CurrentTime, x)
      /\ Owned(DELAYSCB, pc) /\ Counted(due, DELAYSCB, pc)
  BY <1>1, PliFacts
<1>5. pc \in [SCB -> Seq(Delay)]
  BY <1>4 DEF Typed
<1>6. CurrentTime' = CurrentTime /\ reactivated' = reactivated
  BY <1>1 DEF vars
<1>0. DELAYSCB[i] = NULL => s = Built /\ c = <<delay>> /\ b = <<>>
  OBVIOUS
<1>00. DELAYSCB[i] # NULL => s = DELAYSCB[i] /\ c = Chained(s, delay) /\ b = pc[s]
  OBVIOUS
<1> HIDE DEF t, delay
<1>7. /\ s \in SCB
      /\ DELAYSCB[i] = NULL => ~IsExecuting(s)
  <2>1. CASE DELAYSCB[i] # NULL
    BY <1>4, <2>1 DEF Owners
  <2>2. CASE DELAYSCB[i] = NULL
    BY <1>1, <2>2, BuiltIs
  <2> QED
    BY <2>1, <2>2
<1> HIDE DEF s, c, b
<1>8. PICK n : /\ ChainedAs(b, c, n, delay, now) /\ b \in Seq(Delay)
               /\ first <=> n = 0
  <2>1. CASE DELAYSCB[i] # NULL
    <3>1. Rises(pc[s], now)
      BY <1>4, <1>7 DEF Lists, Chains
    <3>2. \E n : /\ ChainedAs(pc[s], Chained(s, delay), n, delay, now)
                 /\ Cardinality(NotLater([k \in DOMAIN pc[s] |-> pc[s][k].time], t)) = n
      <4> HIDE DEF now
      <4> QED
        BY <1>2, <1>3, <1>5, <1>7, <3>1, ChainedIs
    <3>3. pc[s] \in Seq(Delay)
      BY <1>5, <1>7
    <3> QED
      BY <1>00, <2>1, <3>2, <3>3
  <2>2. CASE DELAYSCB[i] = NULL
    <3>1. ChainedAs(<<>>, <<delay>>, 0, delay, now)
      <4> HIDE DEF now
      <4> QED
        BY <1>2, <1>3, NewChain
    <3>2. <<>> \in Seq(Delay)
      OBVIOUS
    <3>3. first
      BY <2>2
    <3> QED
      BY <1>0, <2>2, <3>1, <3>2, <3>3
  <2> QED
    BY <2>1, <2>2
<1>9. /\ c \in Seq(Delay) /\ c # <<>> /\ Rises(c, now) /\ n \in 0 .. Len(b) /\ Widened(b, c, n + 1, delay)
      /\ (n = 0 => c[1] = delay) /\ (n # 0 => b # <<>> /\ c[1] = b[1])
  BY <1>8 DEF ChainedAs
<1> HIDE DEF first
<1>10. /\ Typed(readylist', timelist', freelist', P2, time')
       /\ Lists(readylist', timelist', freelist', P2, time', CurrentTime, x)
  <2>1. CASE Reschedules(s, first)
    <3>1. n = 0 /\ ~IsExecuting(s) /\ Schedule64(s, t)
      BY <1>1, <1>8, <2>1 DEF Reschedules
    <3>2. c[1].time = t
      BY <1>3, <1>9, <3>1
    <3>3. x \in BOOLEAN /\ (x <=> reactivated # <<>>)
      OBVIOUS
    <3> HIDE DEF x
    <3> QED
      BY <1>1, <1>2, <1>7, <1>9, <3>1, <3>2, <3>3, ScheduleStep
  <2>2. CASE ~Reschedules(s, first)
    <3>1. UNCHANGED <<readylist, timelist, freelist, time>> /\ (n # 0 \/ IsExecuting(s))
      BY <1>1, <1>8, <2>2 DEF Reschedules
    <3>2. DELAYSCB[i] # NULL /\ b = pc[s]
      <4>1. n # 0 => b # <<>>
        BY <1>9
      <4> QED
        BY <1>0, <1>00, <1>7, <3>1, <4>1
    <3> DEFINE R == readylist
               T == timelist
               F == freelist
               tm == time
               P == pc
               cur == CurrentTime
    <3>3. IsExecuting(s) => x /\ R[1] = s /\ Len(R) # 0
      BY <1>4, ExecutingIs DEF Typed
    <3>4. OnList(R, s) \/ OnList(T, s)
      <4>1. CASE IsExecuting(s)
        <5>1. 1 \in 1 .. Len(R)
          BY <1>4, <3>3, <4>1, LenProperties DEF Typed
        <5> QED
          BY <3>3, <4>1, <5>1 DEF OnList
      <4>2. CASE n # 0
        <5>1. pc[s] # <<>>
          BY <1>9, <3>2, <4>2
        <5> QED
          BY <1>4, <1>7, <5>1 DEF Lists, InUse
      <4> QED
        BY <3>1, <4>1, <4>2
    <3>5. (x /\ R[1] = s) \/ (P[s] # <<>> /\ c # <<>> /\ c[1] = P[s][1])
      BY <1>9, <3>1, <3>2, <3>3
    <3>6. x => Len(R) # 0
      BY <1>4 DEF Lists, IsReady
    <3>7. /\ Typed(R, T, F, P, tm) /\ Lists(R, T, F, P, tm, cur, x) /\ Rises(c, Value(cur))
          /\ x \in BOOLEAN /\ Puts(P, P2, s, c)
      BY <1>4, <1>9 DEF Puts
    <3>8. readylist' = R /\ timelist' = T /\ freelist' = F /\ time' = tm
      BY <3>1
    <3> HIDE DEF R, T, F, tm, P, P2, x, cur
    <3>9. Typed(R, T, F, P2, tm) /\ Lists(R, T, F, P2, tm, cur, x)
      <4>1. x => x
        OBVIOUS
      <4>2. s \in SCB /\ c \in Seq(Delay)
        BY <1>7, <1>9
      <4> QED
        BY <3>4, <3>5, <3>6, <3>7, <4>1, <4>2, ChainedLists
    <3> QED
      BY <3>8, <3>9 DEF cur
  <2> QED
    BY <2>1, <2>2
<1>11. fault' \in BOOLEAN
  BY <1>1
<1>12. ~fault' => Owned(D2, P2)
  <2> SUFFICES ASSUME ~fault' PROVE Owned(D2, P2)
    OBVIOUS
  <2>1. (DELAYSCB[i] = s \/ DELAYSCB[i] = NULL) /\ \A j \in Instance : j # i => DELAYSCB[j] # s
    <3>1. CASE DELAYSCB[i] # NULL
      BY <1>00, <1>4, <3>1 DEF Owned
    <3>2. CASE DELAYSCB[i] = NULL
      BY <1>0, <1>1, <3>2 DEF Taken
    <3> QED
      BY <3>1, <3>2
  <2>2. \A k \in 1 .. Len(b) : b[k].node = i
    <3>1. CASE DELAYSCB[i] # NULL
      BY <1>00, <1>4, <3>1 DEF Owned
    <3>2. CASE DELAYSCB[i] = NULL
      BY <1>0, <3>2
    <3> QED
      BY <3>1, <3>2
  <2>3. \A k \in 1 .. Len(c) : c[k].node = i
    BY <1>3, <1>8, <2>2, SameNode
  <2> DEFINE D == DELAYSCB
             P == pc
  <2>4. D2 = [D EXCEPT ![i] = s] /\ P2 = [P EXCEPT ![s] = c] /\ D \in Owners /\ Owned(D, P)
    BY <1>4
  <2> HIDE DEF D2, P2
  <2> QED
    BY <1>5, <1>7, <2>1, <2>3, <2>4, OwnedSet DEF D, P
<1>13. u2 \in Counts /\ (~fault' => Counted(u2, D2, P2))
  <2>1. u2 \in Counts
    BY <1>2, <1>4 DEF Counts
  <2>2. ASSUME ~fault' PROVE Counted(u2, D2, P2)
    <3>1. \A j \in Instance : j # i => DELAYSCB[j] # s
      <4>1. CASE DELAYSCB[i] # NULL
        BY <1>00, <1>4, <4>1 DEF Owned
      <4>2. CASE DELAYSCB[i] = NULL
        BY <1>0, <1>1, <2>2, <4>2 DEF Taken
      <4> QED
        BY <4>1, <4>2
    <3>2. (DELAYSCB[i] = s /\ b = pc[s]) \/ (DELAYSCB[i] = NULL /\ b = <<>>)
      BY <1>0, <1>00
    <3> DEFINE k == n + 1
               D == DELAYSCB
               P == pc
               u == due
    <3>3. k \in 1 .. Len(b) + 1 /\ Widened(b, c, k, delay)
      <4>1. Len(b) \in Nat
        BY <1>8, LenProperties
      <4> QED
        BY <1>9, <4>1
    <3>4. delay = [node |-> i, time |-> t]
      BY DEF delay
    <3>5. D2 = [D EXCEPT ![i] = s] /\ P2 = [P EXCEPT ![s] = c] /\ u2 = [u EXCEPT ![i][t] = @ + 1]
      OBVIOUS
    <3>6. D \in Owners /\ u \in Counts /\ Counted(u, D, P) /\ P \in [SCB -> Seq(Delay)]
      BY <1>4, <1>5
    <3>7. (\A j \in Instance : j # i => D[j] # s) /\ ((D[i] = s /\ b = P[s]) \/ (D[i] = NULL /\ b = <<>>))
      BY <3>1, <3>2
    <3> HIDE DEF k, D, P, u, D2, P2, u2
    <3> QED
      BY <1>2, <1>7, <1>8, <3>3, <3>4, <3>5, <3>6, <3>7, CountedMore
  <2> QED
    BY <2>1, <2>2
<1>14. D2 \in Owners
  BY <1>4, <1>7 DEF Owners
<1> DEFINE R2 == readylist'
           T2 == timelist'
           F2 == freelist'
           tm2 == time'
<1>15. /\ Typed(R2, T2, F2, P2, tm2) /\ Lists(R2, T2, F2, P2, tm2, CurrentTime', x)
       /\ readylist' = R2 /\ timelist' = T2 /\ freelist' = F2 /\ time' = tm2
       /\ pc' = P2 /\ DELAYSCB' = D2 /\ due' = u2 /\ (x <=> reactivated' # <<>>)
  BY <1>1, <1>6, <1>10
<1> HIDE DEF R2, T2, F2, tm2, P2, D2, u2, x
<1> QED
  BY <1>11, <1>12, <1>13, <1>14, <1>15, PliNow

(* tf_iclearalldelays keeps the invariant.                                 *)
LEMMA ClearAllStep ==
  ASSUME PliInv, CurrentTime \in Within, NEW i \in Instance, ClearAllDelays(i)
  PROVE  PliInv'
<1> DEFINE s   == DELAYSCB[i]
           x   == reactivated # <<>>
           y   == x /\ ~IsExecuting(s)
           P2  == [pc EXCEPT ![s] = <<>>]
           tm2 == [time EXCEPT ![s] = Zero]
           u2  == [due EXCEPT ![i] = [t \in Within |-> 0]]
           R2  == Without(readylist, s)
           T2  == Without(timelist, s)
           F1  == Without(freelist, s)
           F2  == <<s>> \o F1
<1>1. /\ ~fault /\ s # NULL /\ pc' = P2 /\ time' = tm2 /\ due' = u2
      /\ readylist' = R2 /\ timelist' = T2 /\ freelist' = F2 /\ fault' = IsExecuting(s)
      /\ UNCHANGED <<vars, DELAYSCB, reactivated>>
  BY DEF ClearAllDelays
<1>2. CurrentTime' = CurrentTime /\ reactivated' = reactivated /\ DELAYSCB' = DELAYSCB
  BY <1>1 DEF vars
<1>3. /\ Typed(readylist, timelist, freelist, pc, time)
      /\ DELAYSCB \in Owners /\ due \in Counts
      /\ Lists(readylist, timelist, freelist, pc, time, CurrentTime, x)
      /\ Owned(DELAYSCB, pc) /\ Counted(due, DELAYSCB, pc)
  BY <1>1, PliFacts
<1>4. s \in SCB
  BY <1>1, <1>3 DEF Owners
<1> HIDE DEF s
<1>5. Drops(R2, readylist, s) /\ Drops(T2, timelist, s) /\ Drops(F1, freelist, s)
  <2>1. /\ readylist \in Seq(SCB) /\ timelist \in Seq(SCB) /\ freelist \in Seq(SCB)
        /\ Distinct(readylist) /\ Distinct(timelist) /\ Distinct(freelist)
    BY <1>3 DEF Typed, Lists, Apart
  <2> QED
    BY <2>1, WithoutIs
<1>6. (y => x /\ readylist[1] # s) /\ (x /\ ~y => s = readylist[1])
  <2>1. readylist \in Seq(SCB) /\ (x => Len(readylist) # 0)
    BY <1>3 DEF Typed, Lists, IsReady
  <2> QED
    BY <2>1, ExecutingIs
<1>7. Typed(R2, T2, F2, P2, tm2) /\ Lists(R2, T2, F2, P2, tm2, CurrentTime, y)
  <2> DEFINE R   == readylist
             T   == timelist
             F   == freelist
             P   == pc
             tm  == time
             now == CurrentTime
  <2>1. /\ Typed(R, T, F, P, tm) /\ Lists(R, T, F, P, tm, now, x)
        /\ Drops(R2, R, s) /\ Drops(T2, T, s) /\ Drops(F1, F, s)
        /\ Puts(tm, tm2, s, Zero) /\ Puts(P, P2, s, <<>>) /\ Fronts(F2, s, F1)
    BY <1>3, <1>5 DEF Puts, Fronts
  <2>2. x \in BOOLEAN /\ y \in BOOLEAN
    OBVIOUS
  <2>3. (y => x /\ R[1] # s) /\ (x /\ ~y => s = R[1])
    BY <1>6
  <2> HIDE DEF R, T, F, P, tm, now, R2, T2, F1, F2, P2, tm2, x, y
  <2>4. Typed(R2, T2, F2, P2, tm2) /\ Lists(R2, T2, F2, P2, tm2, now, y)
    BY <1>4, <2>1, <2>2, <2>3, FreedLists
  <2> QED
    BY <2>4 DEF now
<1>8. Owned(DELAYSCB, P2)
  <2> DEFINE c == <<>>
             P == pc
             D == DELAYSCB
  <2>1. \A k \in 1 .. Len(c) : \E j \in 1 .. Len(P[s]) : c[k] = P[s][j]
    OBVIOUS
  <2>2. P2 = [P EXCEPT ![s] = c] /\ P \in [SCB -> Seq(Delay)] /\ D \in Owners /\ Owned(D, P)
    BY <1>3 DEF Typed
  <2> HIDE DEF c, P, D, P2
  <2>3. Owned(D, P2)
    BY <1>4, <2>1, <2>2, OwnedLess
  <2> QED
    BY <2>3 DEF D
<1>9. u2 \in Counts /\ Counted(u2, DELAYSCB, P2)
  <2> DEFINE P == pc
             D == DELAYSCB
             u == due
  <2>1. /\ Puts(P, P2, s, <<>>) /\ NoneDue(u, u2, i)
        /\ P \in [SCB -> Seq(Delay)] /\ D \in Owners /\ u \in Counts /\ Counted(u, D, P)
    BY <1>3 DEF Typed, Puts, NoneDue
  <2>2. D[i] = s /\ \A j \in Instance : j # i => D[j] # s
    BY <1>1, <1>3 DEF s, Owned
  <2> HIDE DEF P, D, P2, u, u2
  <2>3. u2 \in Counts /\ Counted(u2, D, P2)
    BY <1>4, <2>1, <2>2, CountedNone
  <2> QED
    BY <2>3 DEF D
<1>10. fault' \in BOOLEAN /\ (~fault' => (y <=> x))
  <2>1. IsExecuting(s) \in BOOLEAN
    BY DEF IsExecuting
  <2> QED
    BY <1>1, <2>1
<1>11. ~fault' => Lists(R2, T2, F2, P2, tm2, CurrentTime', x)
  BY <1>2, <1>7, <1>10 DEF Lists, IsReady
<1>12. (x <=> reactivated' # <<>>)
  BY <1>2
<1> DEFINE D == DELAYSCB
<1>13. /\ Typed(R2, T2, F2, P2, tm2) /\ D \in Owners /\ u2 \in Counts /\ DELAYSCB' = D
       /\ Owned(D, P2) /\ Counted(u2, D, P2)
  BY <1>2, <1>3, <1>7, <1>8, <1>9
<1> HIDE DEF R2, T2, F1, F2, P2, tm2, u2, x, y, D
<1> QED
  BY <1>1, <1>10, <1>11, <1>12, <1>13, PliNow

(* A delayed nonblocking assignment keeps the invariant.                   *)
LEMMA AssignStep ==
  ASSUME PliInv, CurrentTime \in Within, NEW d \in LONGDELAYS, AssignNonblocking(d)
  PROVE  PliInv'
<1> DEFINE t  == ADDTIME6464(CurrentTime, d)
           s  == Built
           e  == [node |-> STORE, time |-> t]
           c  == <<e>>
           x  == reactivated # <<>>
           P2 == [pc EXCEPT ![s] = c]
           now == Value(CurrentTime)
<1>1. /\ ~fault /\ reactivated = <<>> /\ freelist # <<>> /\ Value(CurrentTime) + Value(d) <= MaxTime
      /\ pc' = P2 /\ fault' = Taken /\ Schedule64(s, t) /\ UNCHANGED <<vars, pli>>
  BY DEF AssignNonblocking
<1>2. /\ CurrentTime' = CurrentTime /\ reactivated' = reactivated /\ DELAYSCB' = DELAYSCB /\ due' = due
  BY <1>1 DEF vars, pli
<1>3. /\ Typed(readylist, timelist, freelist, pc, time)
      /\ DELAYSCB \in Owners /\ due \in Counts
      /\ Owned(DELAYSCB, pc) /\ Counted(due, DELAYSCB, pc)
  BY <1>1, PliFacts
<1>4. t \in Within /\ now <= Value(t) /\ now \in Nat
  <2>1. t \in Within /\ Value(CurrentTime) <= Value(t)
    BY <1>1, DelayTime
  <2>2. Value(CurrentTime) \in Nat
    BY ValueIsNat DEF Within
  <2> QED
    BY <2>1, <2>2
<1> HIDE DEF t
<1>5. e \in Delay /\ e.time = t /\ e.node = STORE
  BY <1>4 DEF Delay
<1>6. s \in SCB /\ ~IsExecuting(s)
  BY <1>1, BuiltIs
<1> HIDE DEF s, e
<1>7. ChainedAs(<<>>, c, 0, e, now)
  <2> HIDE DEF now
  <2> QED
    BY <1>4, <1>5, NewChain
<1>8. c \in Seq(Delay) /\ c # <<>> /\ Rises(c, now) /\ c[1] = e /\ \A k \in 1 .. Len(c) : c[k].node = STORE
  <2>1. Len(c) = 1 /\ c[1] = e
    OBVIOUS
  <2>2. \A k \in 1 .. Len(c) : c[k].node = STORE
    <3> HIDE DEF c
    <3> QED
      BY <1>5, <2>1
  <2> QED
    BY <1>7, <2>1, <2>2 DEF ChainedAs
<1> HIDE DEF c
<1>9. /\ Typed(readylist', timelist', freelist', P2, time')
      /\ Lists(readylist', timelist', freelist', P2, time', CurrentTime, x)
  <2>1. c[1].time = t
    BY <1>5, <1>8
  <2>2. x \in BOOLEAN /\ (x <=> reactivated # <<>>)
    OBVIOUS
  <2> HIDE DEF x
  <2> QED
    BY <1>1, <1>4, <1>6, <1>8, <2>1, <2>2, ScheduleStep
<1>10. fault' \in BOOLEAN
  BY <1>1 DEF Taken
<1>11. ASSUME ~fault' PROVE Owned(DELAYSCB, P2) /\ Counted(due, DELAYSCB, P2)
  <2> DEFINE P == pc
             D == DELAYSCB
             u == due
  <2>1. /\ P2 = [P EXCEPT ![s] = c] /\ P \in [SCB -> Seq(Delay)] /\ D \in Owners
        /\ Owned(D, P) /\ Counted(u, D, P)
    BY <1>3 DEF Typed
  <2>2. \A j \in Instance : D[j] # s
    BY <1>1, <1>11 DEF Taken, s
  <2> HIDE DEF P, D, u, P2
  <2>3. Owned(D, P2)
    BY <1>6, <1>8, <2>1, <2>2, OwnedStore
  <2>4. Counted(u, D, P2)
    BY <1>6, <2>1, <2>2, CountedSame
  <2> QED
    BY <2>3, <2>4 DEF D, u
<1> DEFINE R2 == readylist'
           T2 == timelist'
           F2 == freelist'
           tm2 == time'
           D == DELAYSCB
           u == due
<1>12. /\ Typed(R2, T2, F2, P2, tm2) /\ Lists(R2, T2, F2, P2, tm2, CurrentTime', x)
       /\ readylist' = R2 /\ timelist' = T2 /\ freelist' = F2 /\ time' = tm2
       /\ pc' = P2 /\ DELAYSCB' = D /\ due' = u /\ (x <=> reactivated' # <<>>)
       /\ D \in Owners /\ u \in Counts
       /\ (~fault' => Owned(D, P2) /\ Counted(u, D, P2))
  BY <1>1, <1>2, <1>3, <1>9, <1>11
<1> HIDE DEF R2, T2, F2, tm2, P2, D, u, x
<1> QED
  BY <1>10, <1>12, PliNow

(* The first SCB goes to the free list, with nothing left of its chain.    *)
LEMMA FreeFirst ==
  ASSUME PliInv, ~fault, NEW x \in BOOLEAN, x <=> reactivated # <<>>, readylist # <<>>,
         NEW s, s = Head(readylist)
  PROVE  /\ Typed(Tail(readylist), timelist, <<s>> \o freelist, [pc EXCEPT ![s] = <<>>], [time EXCEPT ![s] = Zero])
         /\ Lists(Tail(readylist), timelist, <<s>> \o freelist, [pc EXCEPT ![s] = <<>>], [time EXCEPT ![s] = Zero],
                  CurrentTime, FALSE)
<1> DEFINE R   == readylist
           T   == timelist
           F   == freelist
           P   == pc
           tm  == time
           now == CurrentTime
           R2  == Tail(readylist)
           F2  == <<s>> \o freelist
           P2  == [pc EXCEPT ![s] = <<>>]
           tm2 == [time EXCEPT ![s] = Zero]
           y   == FALSE
<1>1. Typed(R, T, F, P, tm) /\ Lists(R, T, F, P, tm, now, reactivated # <<>>)
  BY PliFacts
<1>2. Lists(R, T, F, P, tm, now, x)
  BY <1>1 DEF Lists, IsReady
<1>3. /\ R \in Seq(SCB) /\ T \in Seq(SCB) /\ F \in Seq(SCB)
      /\ Distinct(R) /\ Distinct(T) /\ Distinct(F) /\ Len(R) # 0 /\ Len(R) \in Nat
  BY <1>1 DEF Typed, Lists, Apart
<1>4. s = R[1] /\ s \in SCB /\ Drops(R2, R, s)
  BY <1>3, FirstDropped
<1>5. ~OnList(T, s) /\ ~OnList(F, s)
  <2>1. 1 \in 1 .. Len(R)
    BY <1>3
  <2>2. OnList(R, s)
    BY <1>4, <2>1 DEF OnList
  <2> QED
    BY <1>1, <1>4, <2>2 DEF Lists, Apart
<1>6. Drops(T, T, s) /\ Drops(F, F, s)
  BY <1>3, <1>5, DropsItself
<1>7. /\ Puts(tm, tm2, s, Zero) /\ Puts(P, P2, s, <<>>) /\ Fronts(F2, s, F)
      /\ y \in BOOLEAN /\ (y => x /\ R[1] # s)
  BY DEF Puts, Fronts
<1>8. x /\ ~y => s = R[1]
  BY <1>4
<1> HIDE DEF R, T, F, P, tm, now, R2, F2, P2, tm2, y
<1>9. Typed(R2, T, F2, P2, tm2) /\ Lists(R2, T, F2, P2, tm2, now, y)
  BY <1>1, <1>2, <1>4, <1>6, <1>7, <1>8, FreedLists
<1> QED
  BY <1>9 DEF T, now, R2, F2, P2, tm2, y

(* The end of a nonblocking assignment keeps the invariant.                *)
LEMMA EndNonblockingStep ==
  ASSUME PliInv, EndNonblocking
  PROVE  PliInv'
<1> DEFINE s   == Head(readylist)
           x   == reactivated # <<>>
           y   == FALSE
           R2  == Tail(readylist)
           T2  == timelist
           F2  == <<s>> \o freelist
           P2  == [pc EXCEPT ![s] = <<>>]
           tm2 == [time EXCEPT ![s] = Zero]
           P   == pc
           D   == DELAYSCB
           u   == due
<1>1. /\ ~fault /\ readylist # <<>> /\ reactivated = <<>> /\ pc[s][1].node = STORE
      /\ pc' = P2 /\ time' = tm2 /\ readylist' = R2 /\ freelist' = F2
      /\ UNCHANGED <<vars, timelist, pli, fault>>
  BY DEF EndNonblocking, Executes
<1>2. /\ CurrentTime' = CurrentTime /\ reactivated' = reactivated /\ DELAYSCB' = D /\ due' = u /\ timelist' = T2
      /\ fault' = fault
  BY <1>1 DEF vars, pli
<1>3. /\ Typed(readylist, timelist, freelist, P, time)
      /\ D \in Owners /\ u \in Counts
      /\ Lists(readylist, timelist, freelist, P, time, CurrentTime, x)
      /\ Owned(D, P) /\ Counted(u, D, P)
  BY <1>1, PliFacts
<1>4. Typed(R2, T2, F2, P2, tm2) /\ Lists(R2, T2, F2, P2, tm2, CurrentTime, y)
  <2>1. x \in BOOLEAN /\ (x <=> reactivated # <<>>)
    OBVIOUS
  <2> HIDE DEF x
  <2> QED
    BY <1>1, <2>1, FreeFirst
<1>5. s = readylist[1] /\ s \in SCB /\ 1 \in 1 .. Len(readylist)
  <2>1. readylist \in Seq(SCB) /\ Len(readylist) # 0 /\ Distinct(readylist) /\ Len(readylist) \in Nat
    BY <1>1, <1>3 DEF Typed, Lists, Apart
  <2> QED
    BY <2>1, FirstDropped
<1> HIDE DEF s
<1>6. P[s] # <<>> /\ P[s][1].node = STORE /\ 1 \in 1 .. Len(P[s])
  <2>1. P[s] # <<>>
    BY <1>1, <1>3, <1>5 DEF Lists, IsReady
  <2>2. P[s] \in Seq(Delay)
    BY <1>3, <1>5 DEF Typed
  <2> QED
    BY <1>1, <2>1, <2>2
<1>7. \A j \in Instance : D[j] # s
  <2> SUFFICES ASSUME NEW j \in Instance, D[j] = s PROVE FALSE
    OBVIOUS
  <2>1. D[j] # NULL
    BY <1>5, PliAssumption
  <2>2. P[D[j]][1].node = j
    BY <1>3, <1>6, <2>1 DEF Owned
  <2> QED
    BY <1>6, <2>2, PliAssumption
<1>8. P2 = [P EXCEPT ![s] = <<>>] /\ P \in [SCB -> Seq(Delay)]
  BY <1>3 DEF Typed
<1>9. \A k \in 1 .. Len(<<>>) : \E j \in 1 .. Len(P[s]) : <<>>[k] = P[s][j]
  OBVIOUS
<1> HIDE DEF P, D, u, P2
<1>10. Owned(D, P2)
  BY <1>3, <1>5, <1>8, <1>9, OwnedLess
<1>11. Counted(u, D, P2)
  BY <1>3, <1>5, <1>7, <1>8, CountedSame
<1>13. fault' \in BOOLEAN
  BY <1>2 DEF PliInv, PliTypes
<1>14. y <=> reactivated' # <<>>
  BY <1>1, <1>2
<1>12. /\ Typed(R2, T2, F2, P2, tm2) /\ Lists(R2, T2, F2, P2, tm2, CurrentTime', y)
       /\ readylist' = R2 /\ timelist' = T2 /\ freelist' = F2 /\ time' = tm2
       /\ pc' = P2 /\ DELAYSCB' = D /\ due' = u
       /\ D \in Owners /\ u \in Counts
  BY <1>1, <1>2, <1>3, <1>4
<1> HIDE DEF R2, T2, F2, tm2, y
<1> QED
  BY <1>10, <1>11, <1>12, <1>13, <1>14, PliNow

(* A reactivation takes the first delay of a chain.                        *)
LEMMA ReactivateStep ==
  ASSUME PliInv, Reactivate
  PROVE  PliInv'
<1> DEFINE s     == Head(readylist)
           delay == Head(pc[s])
           i     == delay.node
           t     == delay.time
           c     == Tail(pc[s])
           x     == FALSE
           y     == TRUE
           R     == readylist
           T     == timelist
           F     == freelist
           tm    == time
           now   == CurrentTime
           P     == pc
           D     == DELAYSCB
           u     == due
           P2    == [pc EXCEPT ![s] = c]
           u2    == [due EXCEPT ![i][t] = @ - 1]
<1>1. /\ ~fault /\ R # <<>> /\ reactivated = <<>> /\ delay.node # STORE
      /\ pc' = [pc EXCEPT ![s] = Tail(@)] /\ reactivated' = <<delay>> /\ due' = u2
      /\ UNCHANGED <<vars, readylist, timelist, freelist, time, DELAYSCB, fault>>
  BY DEF Reactivate, Executes
<1>2. /\ CurrentTime' = now /\ readylist' = R /\ timelist' = T /\ freelist' = F /\ time' = tm /\ DELAYSCB' = D
      /\ fault' = fault /\ (y <=> reactivated' # <<>>)
  BY <1>1 DEF vars
<1>3. /\ Typed(R, T, F, P, tm)
      /\ D \in Owners /\ u \in Counts /\ P \in [SCB -> Seq(Delay)]
      /\ Lists(R, T, F, P, tm, now, reactivated # <<>>)
      /\ Owned(D, P) /\ Counted(u, D, P) /\ fault' \in BOOLEAN
  <2>1. fault' \in BOOLEAN
    BY <1>2 DEF PliInv, PliTypes
  <2> QED
    BY <1>1, <2>1, PliFacts DEF Typed
<1>4. Lists(R, T, F, P, tm, now, x)
  BY <1>1, <1>3 DEF Lists, IsReady
<1>5. s = R[1] /\ s \in SCB /\ 1 \in 1 .. Len(R) /\ OnList(R, s) /\ Len(R) # 0
  <2>1. R \in Seq(SCB) /\ Len(R) # 0 /\ Distinct(R) /\ Len(R) \in Nat
    BY <1>1, <1>3 DEF Typed, Lists, Apart
  <2>2. s = R[1] /\ s \in SCB /\ 1 \in 1 .. Len(R)
    BY <2>1, FirstDropped
  <2> QED
    BY <2>1, <2>2 DEF OnList
<1> HIDE DEF s
<1> DEFINE b == pc[s]
           n == Len(b)
<1>6. b # <<>> /\ b \in Seq(Delay) /\ n \in Nat /\ n # 0 /\ 1 \in 1 .. n
  <2>1. b # <<>>
    BY <1>4, <1>5 DEF Lists, IsReady
  <2>2. b \in Seq(Delay)
    BY <1>3, <1>5
  <2> QED
    BY <2>1, <2>2
<1> HIDE DEF b
<1>7. delay = b[1] /\ delay \in Delay
  <2>1. Head(b) = b[1]
    BY <1>6, HeadTailProperties
  <2> QED
    BY <1>6, <2>1 DEF b
<1>8. c \in Seq(Delay) /\ Len(c) = n - 1 /\ \A k \in 1 .. n - 1 : c[k] = b[k + 1]
  BY <1>6, HeadTailProperties DEF b
<1> HIDE DEF delay, c
<1>9. i \in Instance /\ t \in Within /\ delay = [node |-> i, time |-> t]
  BY <1>1, <1>7 DEF Delay
<1> HIDE DEF i, t
<1>10. D[i] = s /\ \A j \in Instance : j # i => D[j] # s
  <2>1. P[s][1].node # STORE /\ P[s][1].node = i
    BY <1>1, <1>7 DEF b, i
  <2>2. D[i] = s
    BY <1>3, <1>5, <1>6, <2>1 DEF Owned, b
  <2>3. s # NULL
    BY <1>5, PliAssumption
  <2> QED
    BY <1>3, <1>9, <2>2, <2>3 DEF Owned
<1>11. Rises(c, Value(now))
  <2> DEFINE N == Value(now)
  <2>1. Rises(b, N)
    BY <1>4, <1>5 DEF Lists, Chains, b
  <2> HIDE DEF N
  <2>2. ASSUME NEW k \in 1 .. n - 1 PROVE N <= Value(c[k].time)
    <3>1. k + 1 \in 1 .. n
      BY <1>6
    <3>2. N <= Value(b[k + 1].time)
      BY <2>1, <3>1 DEF Rises
    <3> QED
      BY <1>8, <3>2
  <2>3. ASSUME NEW j \in 1 .. n - 1, NEW k \in 1 .. n - 1, j < k PROVE Value(c[j].time) <= Value(c[k].time)
    <3>1. j + 1 \in 1 .. n /\ k + 1 \in 1 .. n /\ j + 1 < k + 1
      BY <1>6, <2>3
    <3>2. Value(b[j + 1].time) <= Value(b[k + 1].time)
      BY <2>1, <3>1 DEF Rises
    <3> QED
      BY <1>8, <3>2
  <2>4. Rises(c, N)
    BY <1>8, <2>2, <2>3 DEF Rises
  <2> QED
    BY <2>4 DEF N
<1>12. Widened(c, b, 1, delay)
  <2>1. ASSUME NEW k \in 1 .. n PROVE b[k] = IF k < 1 THEN c[k] ELSE IF k = 1 THEN delay ELSE c[k - 1]
    <3>1. CASE k = 1
      BY <1>7, <3>1
    <3>2. CASE k # 1
      <4>1. k - 1 \in 1 .. n - 1 /\ (k - 1) + 1 = k /\ ~(k < 1)
        BY <1>6, <3>2
      <4>2. c[k - 1] = b[k]
        BY <1>8, <4>1
      <4> QED
        BY <3>2, <4>1, <4>2
    <3> QED
      BY <3>1, <3>2
  <2>2. n = Len(c) + 1
    BY <1>6, <1>8
  <2> QED
    BY <2>1, <2>2 DEF Widened
<1>13. \A k \in 1 .. Len(c) : \E j \in 1 .. Len(P[s]) : c[k] = P[s][j]
  <2> TAKE k \in 1 .. Len(c)
  <2>1. k + 1 \in 1 .. n /\ c[k] = b[k + 1]
    BY <1>6, <1>8
  <2> QED
    BY <2>1 DEF b
<1>14. /\ Puts(P, P2, s, c) /\ P2 = [P EXCEPT ![s] = c] /\ u2 = [u EXCEPT ![i][t] = @ - 1]
       /\ pc' = P2 /\ b = P[s]
  BY <1>1, <1>3, <1>5 DEF Puts, c, b
<1>15. OnList(R, s) \/ OnList(T, s)
  BY <1>5
<1>16. (y /\ R[1] = s) \/ (P[s] # <<>> /\ c # <<>> /\ c[1] = P[s][1])
  BY <1>5
<1>17. x \in BOOLEAN /\ y \in BOOLEAN /\ (x => y) /\ (y => Len(R) # 0)
  BY <1>5
<1>18. due' = u2
  BY <1>1
<1> HIDE DEF R, T, F, tm, now, P, D, u, P2, u2, x, y, n
<1>19. Typed(R, T, F, P2, tm) /\ Lists(R, T, F, P2, tm, now, y)
  BY <1>3, <1>4, <1>5, <1>8, <1>11, <1>14, <1>15, <1>16, <1>17, ChainedLists
<1>20. Owned(D, P2)
  BY <1>3, <1>5, <1>13, <1>14, OwnedLess
<1>21. u2 \in Counts /\ Counted(u2, D, P2)
  <2>1. Widened(c, P[s], 1, delay)
    BY <1>12, <1>14
  <2> QED
    BY <1>3, <1>5, <1>8, <1>9, <1>10, <1>14, <2>1, CountedLess
<1> QED
  BY <1>2, <1>3, <1>14, <1>18, <1>19, <1>20, <1>21, PliNow

(* After a reactivation the SCB is freed or waits for the next delay.      *)
LEMMA EndReactivateStep ==
  ASSUME PliInv, EndReactivate
  PROVE  PliInv'
<1> DEFINE s   == Head(readylist)
           x   == TRUE
           y   == FALSE
           R   == readylist
           T   == timelist
           F   == freelist
           tm  == time
           now == CurrentTime
           P   == pc
           D   == DELAYSCB
           u   == due
           R2  == readylist'
           T2  == timelist'
           F2  == freelist'
           tm2 == time'
<1>1. /\ ~fault /\ reactivated # <<>> /\ reactivated' = <<>> /\ R2 = Tail(readylist)
      /\ IF pc[s] = <<>>
           THEN /\ F2 = <<s>> \o freelist /\ tm2 = [time EXCEPT ![s] = Zero]
                /\ UNCHANGED timelist
           ELSE /\ tm2 = [time EXCEPT ![s] = Head(pc[s]).time]
                /\ T2 = Waiting(s, Head(pc[s]).time)
                /\ UNCHANGED freelist
      /\ UNCHANGED <<vars, pc, DELAYSCB, due, fault>>
  BY DEF EndReactivate
<1>2. /\ CurrentTime' = now /\ pc' = P /\ DELAYSCB' = D /\ due' = u /\ fault' = fault /\ (y <=> reactivated' # <<>>)
  BY <1>1 DEF vars
<1>3. /\ Typed(R, T, F, P, tm)
      /\ D \in Owners /\ u \in Counts /\ P \in [SCB -> Seq(Delay)]
      /\ Lists(R, T, F, P, tm, now, reactivated # <<>>)
      /\ Owned(D, P) /\ Counted(u, D, P) /\ fault' \in BOOLEAN
  <2>1. fault' \in BOOLEAN
    BY <1>2 DEF PliInv, PliTypes
  <2> QED
    BY <1>1, <2>1, PliFacts DEF Typed
<1>4. Lists(R, T, F, P, tm, now, x) /\ R # <<>>
  <2>1. Len(R) # 0
    BY <1>1, <1>3 DEF Lists, IsReady
  <2> QED
    BY <1>1, <1>3, <2>1 DEF Lists, IsReady
<1>5. s = R[1] /\ s \in SCB /\ Drops(Tail(R), R, s) /\ OnList(R, s)
  <2>1. R \in Seq(SCB) /\ Len(R) # 0 /\ Distinct(R) /\ Len(R) \in Nat
    BY <1>3, <1>4 DEF Typed, Lists, Apart
  <2>2. s = R[1] /\ s \in SCB /\ 1 \in 1 .. Len(R) /\ Drops(Tail(R), R, s)
    BY <2>1, FirstDropped
  <2> QED
    BY <2>1, <2>2 DEF OnList
<1>6. Typed(R2, T2, F2, P, tm2) /\ Lists(R2, T2, F2, P, tm2, now, y)
  <2>1. CASE pc[s] = <<>>
    <3>1. F2 = <<s>> \o freelist /\ tm2 = [time EXCEPT ![s] = Zero] /\ T2 = T
      BY <1>1, <2>1
    <3>2. [pc EXCEPT ![s] = <<>>] = P
      BY <1>3, <2>1
    <3>3. /\ Typed(Tail(readylist), timelist, <<s>> \o freelist, [pc EXCEPT ![s] = <<>>], [time EXCEPT ![s] = Zero])
          /\ Lists(Tail(readylist), timelist, <<s>> \o freelist, [pc EXCEPT ![s] = <<>>], [time EXCEPT ![s] = Zero],
                   CurrentTime, FALSE)
      <4>1. TRUE \in BOOLEAN /\ (TRUE <=> reactivated # <<>>)
        BY <1>1
      <4> HIDE DEF s
      <4> QED
        BY <1>1, <1>4, <4>1, FreeFirst DEF s
    <3> QED
      BY <1>1, <3>1, <3>2, <3>3
  <2>2. CASE pc[s] # <<>>
    <3> HIDE DEF s
    <3> DEFINE c == pc[s]
               t == Head(pc[s]).time
               P2 == pc
    <3>1. c \in Seq(Delay) /\ Len(c) # 0 /\ c # <<>> /\ Len(c) \in Nat
      BY <1>3, <1>5, <2>2
    <3>2. c[1] \in Delay /\ c[1].time = t
      BY <3>1, HeadTailProperties, LenProperties
    <3>3. t \in Within
      BY <3>2 DEF Delay
    <3> HIDE DEF t
    <3>4. Rises(c, Value(now))
      BY <1>4, <1>5 DEF Lists, Chains
    <3>5. tm2 = [tm EXCEPT ![s] = t] /\ T2 = Waiting(s, t) /\ F2 = F
      BY <1>1, <2>2 DEF t, s
    <3>6. Waits(T2, T, s, tm2)
      <4>1. /\ timelist \in Seq(SCB) /\ Distinct(timelist) /\ time \in [SCB -> Within]
            /\ \A j, k \in 1 .. Len(timelist) : j < k => Value(time[timelist[j]]) <= Value(time[timelist[k]])
        BY <1>3 DEF Typed, Lists, Apart, InTurn
      <4> QED
        BY <1>5, <3>3, <3>5, <4>1, WaitingIs
    <3>7. Drops(F2, F, s)
      <4>1. F \in Seq(SCB) /\ Distinct(F) /\ ~OnList(F, s)
        BY <1>3, <1>5 DEF Typed, Lists, Apart
      <4> QED
        BY <3>5, <4>1, DropsItself
    <3>8. Puts(P, P2, s, c) /\ Puts(tm, tm2, s, t) /\ Drops(R2, R, s)
      BY <1>1, <1>3, <1>5, <3>5 DEF Puts
    <3>9. x \in BOOLEAN /\ y \in BOOLEAN /\ (y => x /\ R[1] # s)
      OBVIOUS
    <3>12. P2 = P
      OBVIOUS
    <3>13. Typed(R, T, F, P, tm) /\ Lists(R, T, F, P, tm, now, x)
      BY <1>3, <1>4
    <3>14. s \in SCB /\ t \in Within /\ c \in Seq(Delay) /\ c # <<>> /\ c[1].time = t /\ Rises(c, Value(now))
      BY <1>5, <3>1, <3>2, <3>3, <3>4
    <3>10. x /\ ~y => s = R[1]
      BY <1>5
    <3> HIDE DEF R, T, F, tm, now, P, P2, R2, T2, F2, tm2, x, y, c
    <3>11. Typed(R2, T2, F2, P2, tm2) /\ Lists(R2, T2, F2, P2, tm2, now, y)
      BY <3>6, <3>7, <3>8, <3>9, <3>10, <3>13, <3>14, ScheduledLists
    <3> QED
      BY <3>11, <3>12
  <2> QED
    BY <2>1, <2>2
<1>7. readylist' = R2 /\ timelist' = T2 /\ freelist' = F2 /\ time' = tm2
  OBVIOUS
<1> HIDE DEF R, T, F, tm, now, P, D, u, R2, T2, F2, tm2, x, y
<1> QED
  BY <1>2, <1>3, <1>6, <1>7, PliNow

(* A list, cut in two.                                                     *)
Cut(R, T2, T, h) ==
  /\ R \in Seq(SCB) /\ T2 \in Seq(SCB) /\ Len(R) = h /\ Len(T2) = Len(T) - h
  /\ \A k \in 1 .. h : R[k] = T[k]
  /\ \A k \in 1 .. Len(T) - h : T2[k] = T[h + k]

(* The two parts of a list.                                                *)
LEMMA CutIs ==
  ASSUME NEW T \in Seq(SCB), NEW h \in 0 .. Len(T)
  PROVE  Cut(SubSeq(T, 1, h), SubSeq(T, h + 1, Len(T)), T, h)
<1> DEFINE n == Len(T)
           a == SubSeq(T, 1, h)
           b == SubSeq(T, h + 1, n)
<1>1. n \in Nat /\ h \in Nat /\ h <= n /\ \A i \in 1 .. n : T[i] \in SCB
  BY LenProperties
<1> HIDE DEF n
<1>2. a \in Seq(SCB) /\ Len(a) = h /\ \A i \in 1 .. h : a[i] = T[i]
  <2>1. \A i \in 1 .. h : T[i] \in SCB
    BY <1>1
  <2>2. /\ a \in Seq(SCB) /\ Len(a) = IF 1 <= h THEN h - 1 + 1 ELSE 0
        /\ \A i \in 1 .. h - 1 + 1 : a[i] = T[1 + i - 1]
    BY <1>1, <2>1, SubSeqProperties
  <2> HIDE DEF a
  <2> QED
    BY <1>1, <2>2
<1>3. b \in Seq(SCB) /\ Len(b) = n - h /\ \A i \in 1 .. n - h : b[i] = T[h + i]
  <2>1. \A i \in h + 1 .. n : T[i] \in SCB
    BY <1>1
  <2>2. /\ b \in Seq(SCB) /\ Len(b) = IF h + 1 <= n THEN n - (h + 1) + 1 ELSE 0
        /\ \A i \in 1 .. n - (h + 1) + 1 : b[i] = T[(h + 1) + i - 1]
    BY <1>1, <2>1, SubSeqProperties
  <2> HIDE DEF b
  <2>3. \A i \in 1 .. n - h : i \in 1 .. n - (h + 1) + 1 /\ (h + 1) + i - 1 = h + i
    BY <1>1
  <2> QED
    BY <1>1, <2>2, <2>3
<1> QED
  BY <1>2, <1>3 DEF Cut, a, b, n

(* As many are moved as are of the present.                                *)
LEMMA HowManyIs ==
  ASSUME timelist \in Seq(SCB)
  PROVE  HowMany \in 0 .. Len(timelist) /\ \A k \in 1 .. HowMany : Present(timelist[k])
<1> DEFINE n == Len(timelist)
           S == {k \in 1 .. n + 1 : k = n + 1 \/ ~Present(timelist[k])}
           m == Min(S)
<1>1. n \in Nat
  BY LenProperties
<1> HIDE DEF n
<1>2. S \in SUBSET Nat /\ n + 1 \in S
  BY <1>1
<1>3. m \in S /\ \A k \in S : m <= k
  <2> HIDE DEF S
  <2> QED
    BY <1>2, MinExists
<1> HIDE DEF m
<1>4. m - 1 \in 0 .. n /\ (m - 1) + 1 = m
  BY <1>1, <1>3
<1>5. ASSUME NEW k \in 1 .. m - 1 PROVE Present(timelist[k])
  <2>1. k \in 1 .. n + 1 /\ ~(m <= k) /\ k # n + 1
    BY <1>1, <1>3, <1>5
  <2> QED
    BY <1>3, <2>1
<1>6. m - 1 < n => ~Present(timelist[(m - 1) + 1])
  BY <1>1, <1>3, <1>4
<1>7. \E h \in 0 .. n : /\ \A k \in 1 .. h : Present(timelist[k])
                        /\ h < n => ~Present(timelist[h + 1])
  BY <1>4, <1>5, <1>6
<1>8. HowMany = CHOOSE h \in 0 .. n : /\ \A k \in 1 .. h : Present(timelist[k])
                                      /\ h < n => ~Present(timelist[h + 1])
  BY DEF HowMany, n
<1> HIDE DEF S
<1>9. HowMany \in 0 .. n /\ \A k \in 1 .. HowMany : Present(timelist[k])
  BY <1>7, <1>8
<1> QED
  BY <1>9 DEF n

(* What moves from the time list is ready, in the same order.              *)
LEMMA MoveStep ==
  ASSUME PliInv, CurrentTime \in Within, MoveNow
  PROVE  PliInv'
<1> DEFINE h   == HowMany
           R   == readylist'
           T   == timelist
           T2  == timelist'
           F   == freelist
           tm  == time
           now == CurrentTime
           P   == pc
           D   == DELAYSCB
           u   == due
           y   == FALSE
           n   == Len(T)
<1>1. /\ ~fault /\ readylist = <<>> /\ reactivated = <<>>
      /\ R = SubSeq(T, 1, h) /\ T2 = SubSeq(T, h + 1, n)
      /\ UNCHANGED <<vars, freelist, pc, time, pli, fault>>
  BY DEF MoveNow, Idle
<1>2. /\ CurrentTime' = now /\ pc' = P /\ DELAYSCB' = D /\ due' = u /\ fault' = fault /\ freelist' = F /\ time' = tm
      /\ (y <=> reactivated' # <<>>) /\ readylist' = R /\ timelist' = T2
  BY <1>1 DEF vars, pli
<1>3. /\ Typed(readylist, T, F, P, tm)
      /\ D \in Owners /\ u \in Counts
      /\ Lists(readylist, T, F, P, tm, now, y)
      /\ Owned(D, P) /\ Counted(u, D, P) /\ fault' \in BOOLEAN
  <2>1. fault' \in BOOLEAN
    BY <1>2 DEF PliInv, PliTypes
  <2>2. /\ Typed(readylist, T, F, P, tm) /\ D \in Owners /\ u \in Counts
        /\ Lists(readylist, T, F, P, tm, now, reactivated # <<>>)
        /\ Owned(D, P) /\ Counted(u, D, P)
    BY <1>1, PliFacts
  <2>3. Lists(readylist, T, F, P, tm, now, y)
    BY <1>1, <2>2 DEF Lists, IsReady
  <2> QED
    BY <2>1, <2>2, <2>3
<1>4. T \in Seq(SCB) /\ n \in Nat /\ F \in Seq(SCB) /\ P \in [SCB -> Seq(Delay)] /\ tm \in [SCB -> Within]
      /\ \A k \in 1 .. n : T[k] \in SCB
  BY <1>3, LenProperties DEF Typed
<1>5. h \in 0 .. n /\ \A k \in 1 .. h : Present(T[k])
  BY <1>4, HowManyIs
<1>6. ASSUME NEW k \in 1 .. h PROVE tm[T[k]] = now
  <2>1. T[k] \in SCB /\ Present(T[k])
    BY <1>4, <1>5
  <2>2. tm[T[k]] \in Time64 /\ now \in Time64 /\ CMPTIME64(tm[T[k]], now) = 0
    BY <1>4, <2>1 DEF Within, Present
  <2>3. Value(tm[T[k]]) \in Nat /\ Value(now) \in Nat
    BY <2>2, ValueIsNat
  <2> DEFINE a == Value(tm[T[k]])
             b == Value(now)
  <2>4. 0 = (IF a < b THEN -1 ELSE IF a = b THEN 0 ELSE 1) /\ (a = b => tm[T[k]] = now)
    <3>1. CMPTIME64(tm[T[k]], now) = (IF a < b THEN -1 ELSE IF a = b THEN 0 ELSE 1) /\ (a = b => tm[T[k]] = now)
      BY <2>2, CompareIsOrder
    <3> QED
      BY <2>2, <3>1
  <2> HIDE DEF a, b
  <2>5. a \in Nat /\ b \in Nat
    BY <2>3 DEF a, b
  <2> QED
    BY <2>4, <2>5
<1>7. Cut(R, T2, T, h)
  <2> HIDE DEF T, h, R, T2
  <2> QED
    BY <1>1, <1>4, <1>5, CutIs
<1> HIDE DEF T, h, R, T2, F, tm, now, P, D, u, y
<1>8. /\ R \in Seq(SCB) /\ T2 \in Seq(SCB) /\ Len(R) = h /\ Len(T2) = n - h /\ h \in Nat /\ n - h \in Nat
      /\ \A k \in 1 .. h : R[k] = T[k] /\ k \in 1 .. n
      /\ \A k \in 1 .. n - h : T2[k] = T[h + k] /\ h + k \in 1 .. n
  BY <1>4, <1>5, <1>7 DEF Cut
<1>9. Distinct(T) /\ Distinct(F) /\ InTurn(T, P, tm) /\ InUse(readylist, T, P) /\ Chains(P, now)
      /\ (\A s \in SCB : ~(OnList(T, s) /\ OnList(F, s))) /\ \A s \in SCB : ~OnList(readylist, s)
  BY <1>1, <1>3 DEF Lists, Apart, OnList
<1> HIDE DEF n
<1>10. Apart(R, T2, F)
  <2>1. Distinct(R)
    BY <1>4, <1>8, <1>9 DEF Distinct, n
  <2>2. ASSUME NEW i \in 1 .. Len(T2), NEW j \in 1 .. Len(T2), T2[i] = T2[j] PROVE i = j
    <3>1. h + i \in 1 .. n /\ h + j \in 1 .. n /\ T[h + i] = T[h + j]
      BY <1>8, <2>2
    <3>2. h + i = h + j
      BY <1>9, <3>1 DEF Distinct, n
    <3> QED
      BY <1>8, <3>2
  <2>3. ASSUME NEW s \in SCB PROVE (OnList(R, s) => OnList(T, s)) /\ (OnList(T2, s) => OnList(T, s))
    BY <1>8 DEF OnList, n
  <2>4. ASSUME NEW s \in SCB, OnList(R, s), OnList(T2, s) PROVE FALSE
    <3>1. PICK i \in 1 .. h : R[i] = s
      BY <1>8, <2>4 DEF OnList
    <3>2. PICK j \in 1 .. n - h : T2[j] = s
      BY <1>8, <2>4 DEF OnList
    <3>3. i \in 1 .. n /\ h + j \in 1 .. n /\ T[i] = T[h + j] /\ i # h + j
      BY <1>8, <3>1, <3>2
    <3> QED
      BY <1>9, <3>3 DEF Distinct, n
  <2> QED
    BY <1>9, <2>1, <2>2, <2>3, <2>4 DEF Apart, Distinct
<1>11. InTurn(T2, P, tm)
  <2>1. ASSUME NEW k \in 1 .. Len(T2) PROVE P[T2[k]] # <<>> /\ tm[T2[k]] = P[T2[k]][1].time
    <3>1. T2[k] = T[h + k] /\ h + k \in 1 .. n
      BY <1>8
    <3> QED
      BY <1>9, <3>1 DEF InTurn, n
  <2>2. ASSUME NEW j \in 1 .. Len(T2), NEW k \in 1 .. Len(T2), j < k PROVE Value(tm[T2[j]]) <= Value(tm[T2[k]])
    <3>1. T2[k] = T[h + k] /\ h + k \in 1 .. n /\ T2[j] = T[h + j] /\ h + j \in 1 .. n /\ h + j < h + k
      BY <1>8, <2>2
    <3> QED
      BY <1>9, <3>1 DEF InTurn, n
  <2> QED
    BY <2>1, <2>2 DEF InTurn
<1>12. IsReady(R, P, now, y)
  <2>1. ASSUME NEW k \in 1 .. Len(R) PROVE P[R[k]] # <<>> /\ P[R[k]][1].time = now
    <3>1. R[k] = T[k] /\ k \in 1 .. n /\ k \in 1 .. h
      BY <1>8
    <3>2. P[T[k]] # <<>> /\ tm[T[k]] = P[T[k]][1].time
      BY <1>9, <3>1 DEF InTurn, n
    <3>3. tm[T[k]] = now
      BY <1>6, <3>1
    <3> QED
      BY <3>1, <3>2, <3>3
  <2> QED
    BY <2>1 DEF IsReady, y
<1>13. InUse(R, T2, P)
  <2> SUFFICES ASSUME NEW s \in SCB, P[s] # <<>> PROVE OnList(R, s) \/ OnList(T2, s)
    BY DEF InUse
  <2>1. OnList(T, s)
    BY <1>9 DEF InUse
  <2>2. PICK k \in 1 .. n : T[k] = s
    BY <2>1 DEF OnList, n
  <2>3. CASE k <= h
    <3>1. k \in 1 .. h /\ R[k] = s
      BY <1>4, <1>8, <2>2, <2>3
    <3> QED
      BY <1>8, <3>1 DEF OnList
  <2>4. CASE ~(k <= h)
    <3>1. k - h \in 1 .. n - h /\ h + (k - h) = k
      BY <1>4, <1>8, <2>4
    <3>2. T2[k - h] = s
      BY <1>8, <2>2, <3>1
    <3> QED
      BY <1>8, <3>1, <3>2 DEF OnList
  <2> QED
    BY <2>3, <2>4
<1>14. Typed(R, T2, F, P, tm) /\ Lists(R, T2, F, P, tm, now, y)
  BY <1>4, <1>8, <1>9, <1>10, <1>11, <1>12, <1>13 DEF Typed, Lists
<1> QED
  BY <1>2, <1>3, <1>14, PliNow

-----------------------------------------------------------------------------
(* The clock goes no further than the first SCB of the time list.          *)
LEMMA ClockBound ==
  ASSUME QueueInv, NEW t \in Within, AdvanceTime(t)
  PROVE  /\ CurrentTime \in Within /\ CurrentTime' \in Within
         /\ Value(CurrentTime') \in Nat /\ Value(t) \in Nat /\ Value(CurrentTime') <= Value(t)
<1>1. PICK A : Queue(Heap, A)
  BY DEF QueueInv
<1>2. CurrentTime \in Within
  BY DEF QueueInv
<1>3. /\ CurrentTime' \in Within /\ Value(t) \in Nat
      /\ Len(A) = 0 => CurrentTime' = t
      /\ Len(A) # 0 => CurrentTime' = IF OnTime(Heap, A[1]) < Value(t) THEN TimeOf(Heap, A[1]) ELSE t
      /\ Len(A) # 0 => OnTime(Heap, A[1]) \in Nat
  BY <1>1, ClockStep
<1>4. Value(CurrentTime') \in Nat
  BY <1>3, ValueIsNat DEF Within
<1>5. CASE CurrentTime' = t
  BY <1>2, <1>3, <1>4, <1>5
<1>6. CASE CurrentTime' # t
  <2>1. OnTime(Heap, A[1]) < Value(t) /\ CurrentTime' = TimeOf(Heap, A[1]) /\ OnTime(Heap, A[1]) \in Nat
    BY <1>3, <1>6
  <2>2. OnTime(Heap, A[1]) = Value(CurrentTime')
    BY <2>1 DEF OnTime
  <2> QED
    BY <1>2, <1>3, <1>4, <2>1, <2>2
<1> QED
  BY <1>5, <1>6

(* The clock passes no delay.                                              *)
LEMMA AdvanceStep ==
  ASSUME QueueInv, PliInv, PliAdvance
  PROVE  /\ time[Head(timelist)] \in Within /\ AdvanceTime(time[Head(timelist)])
         /\ PliInv'
<1> DEFINE R   == readylist
           T   == timelist
           F   == freelist
           tm  == time
           P   == pc
           D   == DELAYSCB
           u   == due
           y   == FALSE
           now == CurrentTime'
           t   == time[Head(timelist)]
<1>1. /\ ~fault /\ readylist = <<>> /\ reactivated = <<>> /\ T # <<>> /\ AdvanceTime(t)
      /\ UNCHANGED <<scbs, pli, fault>>
  BY DEF PliAdvance, Idle
<1>2. /\ readylist' = R /\ timelist' = T /\ freelist' = F /\ pc' = P /\ time' = tm /\ DELAYSCB' = D /\ due' = u
      /\ fault' = fault /\ (y <=> reactivated' # <<>>)
  BY <1>1 DEF scbs, pli
<1>3. /\ Typed(R, T, F, P, tm)
      /\ D \in Owners /\ u \in Counts
      /\ Lists(R, T, F, P, tm, CurrentTime, y)
      /\ Owned(D, P) /\ Counted(u, D, P) /\ fault' \in BOOLEAN
  <2>1. fault' \in BOOLEAN
    BY <1>2 DEF PliInv, PliTypes
  <2>2. /\ Typed(R, T, F, P, tm) /\ D \in Owners /\ u \in Counts
        /\ Lists(R, T, F, P, tm, CurrentTime, reactivated # <<>>)
        /\ Owned(D, P) /\ Counted(u, D, P)
    BY <1>1, PliFacts
  <2>3. Lists(R, T, F, P, tm, CurrentTime, y)
    BY <1>1, <2>2 DEF Lists, IsReady
  <2> QED
    BY <2>1, <2>2, <2>3
<1>4. /\ T \in Seq(SCB) /\ Len(T) # 0 /\ Len(T) \in Nat /\ P \in [SCB -> Seq(Delay)] /\ tm \in [SCB -> Within]
      /\ 1 \in 1 .. Len(T)
  BY <1>1, <1>3 DEF Typed
<1>5. Head(T) = T[1] /\ T[1] \in SCB /\ t = tm[T[1]] /\ t \in Within
  <2>1. Head(T) = T[1] /\ T[1] \in SCB
    BY <1>3, <1>4, FirstDropped DEF Lists, Apart
  <2> QED
    BY <1>4, <2>1
<1> HIDE DEF t
<1>6. Value(now) \in Nat /\ Value(t) \in Nat /\ Value(now) <= Value(t)
  BY <1>1, <1>5, ClockBound
<1> HIDE DEF R, T, F, tm, P, D, u, y, now
<1>7. ASSUME NEW s \in SCB PROVE Rises(P[s], Value(now))
  <2> DEFINE c == P[s]
             n == Len(c)
             N == Value(now)
  <2>1. c \in Seq(Delay) /\ n \in Nat /\ \A k \in 1 .. n : c[k] \in Delay
    BY <1>4, LenProperties
  <2>2. \A k \in 1 .. n : c[k].time \in Within /\ Value(c[k].time) \in Nat
    BY <2>1, ValueIsNat DEF Delay, Within
  <2>3. \A j, k \in 1 .. n : j < k => Value(c[j].time) <= Value(c[k].time)
    BY <1>3 DEF Lists, Chains, Rises
  <2>4. ASSUME NEW k \in 1 .. n PROVE N <= Value(c[k].time)
    <3>1. c # <<>> /\ 1 \in 1 .. n
      BY <2>1
    <3>2. OnList(R, s) \/ OnList(T, s)
      BY <1>3, <3>1 DEF Lists, InUse
    <3>3. ~OnList(R, s)
      BY <1>1 DEF OnList, R
    <3>4. PICK m \in 1 .. Len(T) : T[m] = s
      BY <3>2, <3>3 DEF OnList
    <3>5. tm[s] = c[1].time
      BY <1>3, <3>4 DEF Lists, InTurn
    <3>6. m = 1 \/ Value(tm[T[1]]) <= Value(tm[T[m]])
      <4>1. m = 1 \/ 1 < m
        BY <1>4
      <4> QED
        BY <1>3, <1>4, <4>1 DEF Lists, InTurn
    <3>7. Value(t) <= Value(c[1].time)
      BY <1>5, <1>6, <3>4, <3>5, <3>6
    <3>8. k = 1 \/ Value(c[1].time) <= Value(c[k].time)
      BY <2>1, <2>3, <3>1
    <3>9. Value(c[1].time) \in Nat /\ Value(c[k].time) \in Nat
      BY <2>2, <3>1
    <3> DEFINE a == Value(c[1].time)
               b == Value(c[k].time)
               v == Value(t)
    <3>10. N \in Nat /\ v \in Nat /\ N <= v /\ v <= a /\ a \in Nat /\ b \in Nat /\ (k = 1 => a = b) /\ (k = 1 \/ a <= b)
      BY <1>6, <3>7, <3>8, <3>9
    <3> HIDE DEF a, b, v, N
    <3>11. N <= b
      BY <3>10
    <3> QED
      BY <3>11 DEF b
  <2> QED
    BY <2>3, <2>4 DEF Rises
<1>8. Lists(R, T, F, P, tm, now, y)
  <2>1. Chains(P, now)
    BY <1>7 DEF Chains
  <2>2. IsReady(R, P, now, y)
    BY <1>1 DEF IsReady, y, R
  <2> QED
    BY <1>3, <2>1, <2>2 DEF Lists
<1>9. CurrentTime' = now
  BY DEF now
<1>10. PliInv'
  BY <1>2, <1>3, <1>8, <1>9, PliNow
<1> QED
  BY <1>1, <1>5, <1>10 DEF t

(* The steps of the queue, of which every other step is a stutter.         *)
LEMMA QueueSteps ==
  ASSUME QueueInv, PliInv, [PliNext]_pvars
  PROVE  [Next]_vars
<1>1. ASSUME NEW i \in Instance, NEW d \in LONGDELAYS, SetLongDelay(i, d) PROVE UNCHANGED vars
  BY <1>1 DEF SetLongDelay
<1>2. ASSUME NEW i \in Instance, ClearAllDelays(i) PROVE UNCHANGED vars
  BY <1>2 DEF ClearAllDelays
<1>3. ASSUME NEW d \in LONGDELAYS, AssignNonblocking(d) PROVE UNCHANGED vars
  BY <1>3 DEF AssignNonblocking
<1>4. CASE EndNonblocking
  BY <1>4 DEF EndNonblocking
<1>5. CASE Reactivate
  BY <1>5 DEF Reactivate
<1>6. CASE EndReactivate
  BY <1>6 DEF EndReactivate
<1>7. CASE MoveNow
  BY <1>7 DEF MoveNow
<1>8. CASE FireGate
  BY <1>8 DEF FireGate, Next
<1>9. CASE PliAdvance
  BY <1>9, AdvanceStep DEF Next
<1>10. ASSUME NEW g \in GATE, NEW d \in DELAYS, PlanGate(g, d) PROVE Next
  BY <1>10 DEF PlanGate, Next
<1>11. CASE UNCHANGED pvars
  BY <1>11 DEF pvars
<1> QED
  BY <1>1, <1>2, <1>3, <1>4, <1>5, <1>6, <1>7, <1>8, <1>9, <1>10, <1>11 DEF PliNext

(* Every step keeps the invariant.                                         *)
LEMMA PliStep ==
  ASSUME QueueInv, PliInv, [PliNext]_pvars
  PROVE  PliInv'
<1>1. CurrentTime \in Within
  BY DEF QueueInv
<1>2. ASSUME UNCHANGED <<scbs, pli, fault, CurrentTime>> PROVE PliInv'
  <2>1. /\ readylist' = readylist /\ timelist' = timelist /\ freelist' = freelist /\ pc' = pc /\ time' = time
        /\ DELAYSCB' = DELAYSCB /\ due' = due /\ reactivated' = reactivated /\ fault' = fault
        /\ CurrentTime' = CurrentTime
    BY <1>2 DEF scbs, pli
  <2> QED
    BY <2>1 DEF PliInv, PliTypes
<1>3. CASE FireGate
  BY <1>2, <1>3 DEF FireGate, RemoveNextReadyGate
<1>4. ASSUME NEW g \in GATE, NEW d \in DELAYS, PlanGate(g, d) PROVE PliInv'
  BY <1>2, <1>4 DEF PlanGate, ScheduleGate
<1>5. CASE UNCHANGED pvars
  BY <1>2, <1>5 DEF pvars, vars
<1>6. CASE PliAdvance
  BY <1>6, AdvanceStep
<1>7. ASSUME NEW i \in Instance, NEW d \in LONGDELAYS, SetLongDelay(i, d) PROVE PliInv'
  BY <1>1, <1>7, SetStep
<1>8. ASSUME NEW i \in Instance, ClearAllDelays(i) PROVE PliInv'
  BY <1>1, <1>8, ClearAllStep
<1>9. ASSUME NEW d \in LONGDELAYS, AssignNonblocking(d) PROVE PliInv'
  BY <1>1, <1>9, AssignStep
<1>10. CASE EndNonblocking
  BY <1>10, EndNonblockingStep
<1>11. CASE Reactivate
  BY <1>11, ReactivateStep
<1>12. CASE EndReactivate
  BY <1>12, EndReactivateStep
<1>13. CASE MoveNow
  BY <1>1, <1>13, MoveStep
<1> QED
  BY <1>3, <1>4, <1>5, <1>6, <1>7, <1>8, <1>9, <1>10, <1>11, <1>12, <1>13 DEF PliNext

-----------------------------------------------------------------------------
(* What is on one of two lists is on both together.                        *)
LEMMA OnEither ==
  ASSUME NEW a \in Seq(SCB), NEW b \in Seq(SCB), NEW s
  PROVE  s \in Range(a \o b) <=> OnList(a, s) \/ OnList(b, s)
<1> DEFINE m == Len(a)
           n == Len(b)
           c == a \o b
<1>1. m \in Nat /\ n \in Nat
  BY LenProperties
<1>2. /\ c \in Seq(SCB) /\ Len(c) = m + n
      /\ \A i \in 1 .. m : c[i] = a[i]
      /\ \A i \in m + 1 .. m + n : c[i] = b[i - m]
  BY <1>1, Concat
<1> HIDE DEF c
<1>3. s \in Range(c) <=> \E i \in 1 .. m + n : c[i] = s
  BY <1>1, <1>2, LenProperties DEF Range
<1>4. ASSUME NEW i \in 1 .. m + n, c[i] = s PROVE OnList(a, s) \/ OnList(b, s)
  <2>1. CASE i <= m
    <3>1. i \in 1 .. m /\ a[i] = s
      BY <1>1, <1>2, <1>4, <2>1
    <3> QED
      BY <3>1 DEF OnList
  <2>2. CASE ~(i <= m)
    <3>1. i - m \in 1 .. n /\ i \in m + 1 .. m + n
      BY <1>1, <2>2
    <3>2. b[i - m] = s
      BY <1>2, <1>4, <3>1
    <3> QED
      BY <3>1, <3>2 DEF OnList
  <2> QED
    BY <2>1, <2>2
<1>5. ASSUME NEW i \in 1 .. m, a[i] = s PROVE \E k \in 1 .. m + n : c[k] = s
  <2>1. i \in 1 .. m + n /\ c[i] = s
    BY <1>1, <1>2, <1>5
  <2> QED
    BY <2>1
<1>6. ASSUME NEW i \in 1 .. n, b[i] = s PROVE \E k \in 1 .. m + n : c[k] = s
  <2>1. m + i \in 1 .. m + n /\ m + i \in m + 1 .. m + n /\ (m + i) - m = i
    BY <1>1
  <2>2. c[m + i] = s
    BY <1>2, <1>6, <2>1
  <2> QED
    BY <2>1, <2>2
<1>7. OnList(a, s) => \E k \in 1 .. m + n : c[k] = s
  BY <1>5 DEF OnList
<1>8. OnList(b, s) => \E k \in 1 .. m + n : c[k] = s
  BY <1>6 DEF OnList
<1> QED
  BY <1>3, <1>4, <1>7, <1>8 DEF c

(* No later than, as the program compares.                                 *)
LEMMA NotLaterThan ==
  ASSUME NEW t \in Within, NEW v \in Within, Value(t) <= Value(v)
  PROVE  CMPTIME64(t, v) <= 0 /\ CMPTIME64(v, t) >= 0
<1> DEFINE a == Value(t)
           b == Value(v)
<1>1. t \in Time64 /\ v \in Time64 /\ a \in Nat /\ b \in Nat
  BY ValueIsNat DEF Within
<1>2. /\ CMPTIME64(t, v) = IF a < b THEN -1 ELSE IF a = b THEN 0 ELSE 1
      /\ CMPTIME64(v, t) = IF b < a THEN -1 ELSE IF b = a THEN 0 ELSE 1
  BY <1>1, CompareIsOrder
<1> HIDE DEF a, b
<1> QED
  BY <1>1, <1>2 DEF a, b

(* The invariant says that the delays are kept.                            *)
LEMMA Kept ==
  ASSUME PliInv, CurrentTime \in Within
  PROVE  DelaysKept
<1>1. /\ readylist \in Seq(SCB) /\ timelist \in Seq(SCB) /\ freelist \in Seq(SCB)
      /\ pc \in [SCB -> Seq(Delay)] /\ time \in [SCB -> Within]
      /\ DELAYSCB \in Owners /\ due \in Counts /\ fault \in BOOLEAN
  BY DEF PliInv, PliTypes, Typed
<1>2. PliTypeOK
  BY <1>1 DEF PliTypeOK, Owners, Counts, Delay
<1> SUFFICES ASSUME ~fault
             PROVE  /\ \A i \in Instance :
                         /\ \A t \in Within : due[i][t] = Cardinality({k \in DOMAIN Chain(i) : Chain(i)[k] = [node |-> i, time |-> t]})
                         /\ \A k \in 2 .. Len(Chain(i)) : CMPTIME64(Chain(i)[k - 1].time, Chain(i)[k].time) <= 0
                    /\ \A s \in Range(timelist) : time[s] = pc[s][1].time
                    /\ \A k \in DOMAIN timelist :
                         CMPTIME64(time[timelist[k]], IF k = 1 THEN CurrentTime ELSE time[timelist[k - 1]]) >= 0
                    /\ \A k \in DOMAIN readylist : ~IsExecuting(readylist[k]) => pc[readylist[k]][1].time = CurrentTime
  BY <1>2 DEF DelaysKept
<1> DEFINE x == reactivated # <<>>
<1>3. /\ Lists(readylist, timelist, freelist, pc, time, CurrentTime, x)
      /\ Owned(DELAYSCB, pc) /\ Counted(due, DELAYSCB, pc)
  BY PliFacts
<1>4. ASSUME NEW s \in SCB, NEW k \in 1 .. Len(pc[s])
      PROVE  pc[s][k].time \in Within /\ Value(CurrentTime) <= Value(pc[s][k].time)
  <2>1. pc[s] \in Seq(Delay)
    BY <1>1
  <2>2. pc[s][k] \in Delay
    BY <2>1, LenProperties
  <2> QED
    BY <1>3, <2>2 DEF Delay, Lists, Chains, Rises
<1>5. ASSUME NEW i \in Instance
      PROVE  Chain(i) = IF DELAYSCB[i] = NULL THEN <<>> ELSE pc[DELAYSCB[i]]
  <2> DEFINE s == DELAYSCB[i]
  <2>1. s \in Range(timelist \o readylist) <=> OnList(timelist, s) \/ OnList(readylist, s)
    BY <1>1, OnEither
  <2>2. CASE s = NULL
    <3>1. ~OnList(timelist, s) /\ ~OnList(readylist, s)
      BY <1>1, <2>2, PliAssumption, LenProperties DEF OnList
    <3> QED
      BY <2>1, <2>2, <3>1 DEF Chain
  <2>3. CASE s # NULL
    <3>1. s \in SCB
      BY <1>1, <2>3 DEF Owners
    <3>2. pc[s] # <<>> => OnList(timelist, s) \/ OnList(readylist, s)
      BY <1>3, <3>1 DEF Lists, InUse
    <3> QED
      BY <2>1, <2>3, <3>2 DEF Chain
  <2> QED
    BY <2>2, <2>3
<1>6. ASSUME NEW i \in Instance, NEW t \in Within
      PROVE  due[i][t] = Cardinality({k \in DOMAIN Chain(i) : Chain(i)[k] = [node |-> i, time |-> t]})
  <2> DEFINE c == Chain(i)
  <2>1. c \in Seq(Delay)
    <3>1. CASE DELAYSCB[i] = NULL
      <4>1. c = <<>>
        BY <1>5, <3>1
      <4> QED
        BY <4>1
    <3>2. CASE DELAYSCB[i] # NULL
      <4>1. DELAYSCB[i] \in SCB
        BY <1>1, <3>2 DEF Owners
      <4>2. c = pc[DELAYSCB[i]]
        BY <1>5, <3>2
      <4> QED
        BY <1>1, <4>1, <4>2
    <3> QED
      BY <3>1, <3>2
  <2>2. due[i][t] = Cardinality(Ends(c, i, t))
    <3>1. CASE DELAYSCB[i] = NULL
      <4>1. c = <<>> /\ due[i][t] = 0
        BY <1>3, <1>5, <3>1 DEF Counted
      <4> QED
        BY <4>1, NoneEnds
    <3>2. CASE DELAYSCB[i] # NULL
      <4>1. c = pc[DELAYSCB[i]] /\ due[i][t] = Cardinality(Ends(pc[DELAYSCB[i]], i, t))
        BY <1>3, <1>5, <3>2 DEF Counted
      <4> QED
        BY <4>1
    <3> QED
      BY <3>1, <3>2
  <2>3. DOMAIN c = 1 .. Len(c)
    BY <2>1, LenProperties
  <2>4. {k \in DOMAIN c : c[k] = [node |-> i, time |-> t]} = Ends(c, i, t)
    BY <2>3 DEF Ends
  <2> QED
    BY <2>2, <2>4
<1>7. ASSUME NEW i \in Instance, NEW k \in 2 .. Len(Chain(i))
      PROVE  CMPTIME64(Chain(i)[k - 1].time, Chain(i)[k].time) <= 0
  <2> DEFINE c == Chain(i)
             s == DELAYSCB[i]
  <2>1. s # NULL /\ c = pc[s]
    BY <1>5
  <2>2. s \in SCB
    BY <1>1, <2>1 DEF Owners
  <2>3. Len(pc[s]) \in Nat
    BY <1>1, <2>2
  <2>4. k - 1 \in 1 .. Len(pc[s]) /\ k \in 1 .. Len(pc[s]) /\ k - 1 < k
    BY <2>1, <2>3
  <2>5. Value(pc[s][k - 1].time) <= Value(pc[s][k].time)
    BY <1>3, <2>2, <2>4 DEF Lists, Chains, Rises
  <2>6. pc[s][k - 1].time \in Within /\ pc[s][k].time \in Within
    BY <1>4, <2>2, <2>4
  <2>7. CMPTIME64(pc[s][k - 1].time, pc[s][k].time) <= 0
    BY <2>5, <2>6, NotLaterThan
  <2> QED
    BY <2>1, <2>7
<1>8. DOMAIN timelist = 1 .. Len(timelist) /\ Len(timelist) \in Nat /\ \A k \in 1 .. Len(timelist) : timelist[k] \in SCB
  BY <1>1, LenProperties
<1>9. \A k \in 1 .. Len(timelist) : pc[timelist[k]] # <<>> /\ time[timelist[k]] = pc[timelist[k]][1].time
  BY <1>3 DEF Lists, InTurn
<1>10. \A s \in Range(timelist) : time[s] = pc[s][1].time
  BY <1>8, <1>9 DEF Range
<1>11. ASSUME NEW k \in 1 .. Len(timelist)
       PROVE  CMPTIME64(time[timelist[k]], IF k = 1 THEN CurrentTime ELSE time[timelist[k - 1]]) >= 0
  <2>1. time[timelist[k]] \in Within
    BY <1>1, <1>8
  <2>2. CASE k = 1
    <3>1. pc[timelist[k]] \in Seq(Delay) /\ pc[timelist[k]] # <<>>
      BY <1>1, <1>8, <1>9
    <3>2. 1 \in 1 .. Len(pc[timelist[k]])
      BY <3>1
    <3>3. Value(CurrentTime) <= Value(time[timelist[k]])
      BY <1>4, <1>8, <1>9, <3>2
    <3>4. CMPTIME64(time[timelist[k]], CurrentTime) >= 0
      BY <2>1, <3>3, NotLaterThan
    <3> QED
      BY <2>2, <3>4
  <2>3. CASE k # 1
    <3>1. k - 1 \in 1 .. Len(timelist) /\ k - 1 < k
      BY <1>8, <2>3
    <3>2. Value(time[timelist[k - 1]]) <= Value(time[timelist[k]])
      BY <1>3, <3>1 DEF Lists, InTurn
    <3>3. time[timelist[k - 1]] \in Within
      BY <1>1, <1>8, <3>1
    <3>4. CMPTIME64(time[timelist[k]], time[timelist[k - 1]]) >= 0
      BY <2>1, <3>2, <3>3, NotLaterThan
    <3> QED
      BY <2>3, <3>4
  <2> QED
    BY <2>2, <2>3
<1>12. ASSUME NEW k \in DOMAIN readylist, ~IsExecuting(readylist[k])
       PROVE  pc[readylist[k]][1].time = CurrentTime
  <2>1. k \in 1 .. Len(readylist) /\ Len(readylist) \in Nat
    BY <1>1, LenProperties
  <2>2. ~(k = 1 /\ x)
    <3>1. Len(readylist) # 0
      BY <2>1
    <3> QED
      BY <1>1, <1>12, <3>1, ExecutingIs
  <2> QED
    BY <1>3, <2>1, <2>2 DEF Lists, IsReady
<1> QED
  BY <1>6, <1>7, <1>8, <1>10, <1>11, <1>12

(* The clock goes where tf_getnextlongtime has said.                       *)
LEMMA ToldStep ==
  ASSUME QueueInv, PliInv, [PliNext]_pvars, CurrentTime' # CurrentTime
  PROVE  CurrentTime' = NextLongTime
<1>1. PliAdvance
  <2>1. ASSUME NEW i \in Instance, NEW d \in LONGDELAYS, SetLongDelay(i, d) PROVE FALSE
    BY <2>1 DEF SetLongDelay, vars
  <2>2. ASSUME NEW i \in Instance, ClearAllDelays(i) PROVE FALSE
    BY <2>2 DEF ClearAllDelays, vars
  <2>3. ASSUME NEW d \in LONGDELAYS, AssignNonblocking(d) PROVE FALSE
    BY <2>3 DEF AssignNonblocking, vars
  <2>4. CASE EndNonblocking
    BY <2>4 DEF EndNonblocking, vars
  <2>5. CASE Reactivate
    BY <2>5 DEF Reactivate, vars
  <2>6. CASE EndReactivate
    BY <2>6 DEF EndReactivate, vars
  <2>7. CASE MoveNow
    BY <2>7 DEF MoveNow, vars
  <2>8. CASE FireGate
    BY <2>8 DEF FireGate, RemoveNextReadyGate
  <2>9. ASSUME NEW g \in GATE, NEW d \in DELAYS, PlanGate(g, d) PROVE FALSE
    BY <2>9 DEF PlanGate, ScheduleGate
  <2>10. CASE UNCHANGED pvars
    BY <2>10 DEF pvars, vars
  <2> QED
    BY <2>1, <2>2, <2>3, <2>4, <2>5, <2>6, <2>7, <2>8, <2>9, <2>10 DEF PliNext
<1> DEFINE t == time[Head(timelist)]
           u == timeIndex[GATE_TIMEQ[PeekGate]]
<1>2. t \in Within /\ AdvanceTime(t) /\ timelist # <<>>
  BY <1>1, AdvanceStep DEF PliAdvance
<1>3. CurrentTime' = IF gateList # NULL /\ CMPTIME64(u, t) < 0 THEN u ELSE t
  BY <1>2 DEF AdvanceTime, GateConditionalAdvanceTime
<1>4. NextLongTime = IF PeekGate # NULL /\ ~(CMPTIME64(u, t) > 0) THEN u ELSE t
  BY <1>2 DEF NextLongTime, GateIsNext
<1>5. PICK A : Queue(Heap, A)
  BY DEF QueueInv
<1>6. Heap \in Heaps
  BY DEF QueueInv
<1>7. CASE gateList = NULL
  <2>1. PeekGate = NULL
    BY <1>7 DEF PeekGate
  <2> QED
    BY <1>3, <1>4, <1>7, <2>1
<1>8. CASE gateList # NULL
  <2>1. Len(A) # 0 /\ PeekGate = A[1]
    BY <1>5, <1>6, <1>8, PeekIs
  <2>2. Len(A) \in Nat
    BY <1>5, <1>6, QueueFacts
  <2>3. 1 \in 1 .. Len(A)
    BY <2>1, <2>2
  <2>4. PeekGate \in GATE /\ Heap.GATE_TIMEQ[PeekGate] # NULL
    BY <1>5, <1>6, <2>1, <2>3, QueueFacts
  <2>5. PeekGate # NULL
    BY <2>4, QueueAssumption
  <2>6. TimeOf(Heap, PeekGate) \in Within
    BY <1>6, <2>4, TimeFacts
  <2>7. u \in Time64 /\ t \in Time64
    BY <1>2, <2>6 DEF Within, TimeOf, Heap
  <2> DEFINE a == Value(u)
             b == Value(t)
  <2>8. CMPTIME64(u, t) = (IF a < b THEN -1 ELSE IF a = b THEN 0 ELSE 1) /\ (a = b => u = t)
    BY <2>7, CompareIsOrder
  <2>9. a \in Nat /\ b \in Nat
    BY <2>7, ValueIsNat
  <2> HIDE DEF a, b, u, t
  <2>10. CASE a < b
    <3>1. CMPTIME64(u, t) = -1
      BY <2>8, <2>10
    <3> QED
      BY <1>3, <1>4, <1>8, <2>5, <3>1
  <2>11. CASE a = b
    BY <1>3, <1>4, <2>8, <2>11
  <2>12. CASE ~(a < b) /\ a # b
    <3>1. CMPTIME64(u, t) = 1
      BY <2>8, <2>12
    <3> QED
      BY <1>3, <1>4, <3>1
  <2> QED
    BY <2>10, <2>11, <2>12
<1> QED
  BY <1>7, <1>8

-----------------------------------------------------------------------------
(* Both invariants hold at every moment.                                   *)
LEMMA InvHolds == PliSpec => [](QueueInv /\ PliInv)
<1>1. PliInit => QueueInv /\ PliInv
  BY QueueInit, PliInitInv DEF PliInit
<1>2. QueueInv /\ PliInv /\ [PliNext]_pvars => QueueInv' /\ PliInv'
  BY QueueSteps, QueueStep, PliStep
<1> QED
  BY <1>1, <1>2, PTL DEF PliSpec

(* The pointers of the gate queue stay sound, through every order in which *)
(* gates are planned, planned again and fired (ScheduleGate, RemoveGate).  *)
THEOREM PointersStaySound == PliSpec => []PointersSound
<1>1. QueueInv /\ PliInv => PointersSound
  BY QueueSound
<1> QED
  BY <1>1, InvHolds, PTL

(* No delay of a user task is lost or out of time, through every order of  *)
(* tf_setlongdelay, tf_iclearalldelays, reactivations and nonblocking      *)
(* assignments, until an SCB is taken from who uses it.                    *)
THEOREM DelaysStayKept == PliSpec => []DelaysKept
<1>1. QueueInv /\ PliInv => DelaysKept
  BY Kept DEF QueueInv
<1> QED
  BY <1>1, InvHolds, PTL

(* tf_getnextlongtime tells where the clock goes next.                     *)
THEOREM NextTimeTold == PliSpec => NextTimeIsTold
<1>1. QueueInv /\ PliInv /\ [PliNext]_pvars => [CurrentTime' # CurrentTime => CurrentTime' = NextLongTime]_pvars
  BY ToldStep
<1> QED
  BY <1>1, InvHolds, PTL DEF PliSpec, NextTimeIsTold

(* The pointers implement the agenda: gates fire in time order and, within *)
(* a time, in the order of their plans.                                    *)
THEOREM AgendaImplemented == PliSpec => ImplementsAgenda
<1>1. PliInit => Agenda!Init
  BY AgendaInit DEF PliInit
<1>2. QueueInv /\ PliInv /\ [PliNext]_pvars => [Agenda!Next]_(Agenda!ready)
  BY QueueSteps, AgendaStep
<1> QED
  BY <1>1, <1>2, InvHolds, PTL DEF PliSpec, ImplementsAgenda, Agenda!Spec
=============================================================================
