------------------------------- MODULE Lemmas -------------------------------
(***************************************************************************)
(* What the proofs of several components need of numbers and sequences.    *)
(* Induction is stated without operators as parameters: the set of the     *)
(* numbers for which something holds takes the place of a predicate, and a *)
(* function that of the step of a recursive definition.                    *)
(***************************************************************************)
EXTENDS Integers, SequencesExt, FiniteSetTheorems, SequenceTheorems, WellFoundedInduction, TLAPS

(* A set of numbers that has 0, and k + 1 with every k below n, has all    *)
(* numbers up to n.                                                        *)
LEMMA Induction ==
  ASSUME NEW n \in Nat, NEW T, 0 \in T, \A k \in 0 .. n - 1 : k \in T => k + 1 \in T
  PROVE  0 .. n \subseteq T
<1> DEFINE Missing == {k \in 0 .. n : k \notin T}
           less    == OpToRel(<, Nat)
<1> SUFFICES ASSUME Missing # {} PROVE FALSE
  OBVIOUS
<1>1. IsWellFoundedOn(less, Nat)
  BY NatLessThanWellFounded
<1>2. PICK m \in Missing : \A k \in Missing : <<k, m>> \notin less
  <2>1. Missing \subseteq Nat
    OBVIOUS
  <2> HIDE DEF Missing, less
  <2> QED
    BY <1>1, <2>1, WFMin
<1>3. m # 0 /\ m \in Nat /\ m - 1 \in 0 .. n - 1
  OBVIOUS
<1>4. m - 1 \notin T
  BY <1>3
<1>5. m - 1 \in Missing
  BY <1>3, <1>4
<1>6. <<m - 1, m>> \in less
  BY <1>3 DEF OpToRel
<1> QED
  BY <1>2, <1>5, <1>6

(* f is an iteration of n steps, each a function of the value before.      *)
Iterates(f, n, S, base, h) ==
  f \in [0 .. n -> S] /\ f[0] = base /\ \A k \in 1 .. n : f[k] = h[k][f[k - 1]]

LEMMA Iteration ==
  ASSUME NEW n \in Nat, NEW S, NEW base \in S, NEW h \in [1 .. n -> [S -> S]]
  PROVE  \E f : Iterates(f, n, S, base, h)
<1> DEFINE T == {m \in 0 .. n : \E f : Iterates(f, m, S, base, h)}
<1>1. 0 \in T
  <2>1. Iterates([k \in 0 .. 0 |-> base], 0, S, base, h)
    BY DEF Iterates
  <2> QED
    BY <2>1
<1>2. ASSUME NEW m \in 0 .. n - 1, m \in T
      PROVE  m + 1 \in T
  <2>1. PICK f : Iterates(f, m, S, base, h)
    BY <1>2
  <2> DEFINE F == [k \in 0 .. m + 1 |-> IF k = m + 1 THEN h[m + 1][f[m]] ELSE f[k]]
  <2>2. f[m] \in S /\ h[m + 1] \in [S -> S]
    BY <2>1 DEF Iterates
  <2>3. F \in [0 .. m + 1 -> S]
    BY <2>1, <2>2 DEF Iterates
  <2>4. F[0] = base
    BY <2>1 DEF Iterates
  <2>5. ASSUME NEW k \in 1 .. m + 1 PROVE F[k] = h[k][F[k - 1]]
    <3>1. CASE k = m + 1
      BY <3>1
    <3>2. CASE k # m + 1
      BY <3>2, <2>1 DEF Iterates
    <3> QED
      BY <3>1, <3>2
  <2>6. Iterates(F, m + 1, S, base, h)
    BY <2>3, <2>4, <2>5 DEF Iterates
  <2>7. m + 1 \in 0 .. n
    OBVIOUS
  <2> QED
    BY <2>6, <2>7
<1>3. n \in T
  <2> HIDE DEF T
  <2>1. 0 .. n \subseteq T
    BY <1>1, <1>2, Induction
  <2> QED
    BY <2>1
<1> QED
  BY <1>3

-----------------------------------------------------------------------------
(* What Min chooses.                                                       *)
LEMMA MinExists ==
  ASSUME NEW S \in SUBSET Nat, S # {}
  PROVE  Min(S) \in S /\ \A x \in S : Min(S) <= x
<1> DEFINE less == OpToRel(<, Nat)
<1>1. IsWellFoundedOn(less, Nat)
  BY NatLessThanWellFounded
<1>2. PICK m \in S : \A k \in S : <<k, m>> \notin less
  <2> HIDE DEF less
  <2> QED
    BY <1>1, WFMin
<1>3. ASSUME NEW k \in S, k < m PROVE FALSE
  <2>1. <<k, m>> \in less
    BY <1>3 DEF OpToRel
  <2> QED
    BY <1>2, <2>1
<1>4. Min(S) = CHOOSE x \in S : \A y \in S : x <= y
  BY DEF Min
<1>5. m \in S /\ \A x \in S : m <= x
  BY <1>3
<1> QED
  BY <1>4, <1>5

LEMMA Concat ==
  ASSUME NEW S, NEW a \in Seq(S), NEW b \in Seq(S), NEW m \in Nat, NEW n \in Nat, Len(a) = m, Len(b) = n
  PROVE  /\ a \o b \in Seq(S) /\ Len(a \o b) = m + n
         /\ \A i \in 1 .. m : (a \o b)[i] = a[i]
         /\ \A i \in m + 1 .. m + n : (a \o b)[i] = b[i - m]
OBVIOUS

(* u is seq with s put in at place k.                                      *)
Widened(seq, u, k, s) ==
  /\ Len(u) = Len(seq) + 1
  /\ \A i \in 1 .. Len(seq) + 1 : u[i] = IF i < k THEN seq[i] ELSE IF i = k THEN s ELSE seq[i - 1]

LEMMA InsertAtFacts ==
  ASSUME NEW S, NEW seq \in Seq(S), NEW k \in 1 .. Len(seq) + 1, NEW e \in S
  PROVE  InsertAt(seq, k, e) \in Seq(S) /\ Widened(seq, InsertAt(seq, k, e), k, e)
<1> DEFINE n == Len(seq)
           a == SubSeq(seq, 1, k - 1)
           b == SubSeq(seq, k, n)
           c == <<e>>
           ac == a \o c
           r == ac \o b
<1>1. n \in Nat /\ k \in Nat /\ k - 1 \in Nat /\ n - k + 1 \in Nat /\ \A i \in 1 .. n : seq[i] \in S
  BY LenProperties
<1>2. a \in Seq(S) /\ Len(a) = k - 1 /\ \A i \in 1 .. k - 1 : a[i] = seq[i]
  BY <1>1, SubSeqProperties
<1>3. b \in Seq(S) /\ Len(b) = n - k + 1 /\ \A i \in 1 .. n - k + 1 : b[i] = seq[k + i - 1]
  BY <1>1, SubSeqProperties
<1>4. c \in Seq(S) /\ Len(c) = 1 /\ c[1] = e
  OBVIOUS
<1>5. InsertAt(seq, k, e) = r
  BY DEF InsertAt
<1> HIDE DEF a, b, n
<1>6. ac \in Seq(S) /\ Len(ac) = k /\ ac[k] = e /\ \A i \in 1 .. k - 1 : ac[i] = a[i]
  <2>1. Len(a) + Len(c) = k
    BY <1>1, <1>2
  <2>2. ac \in Seq(S)
    BY <1>2
  <2>3. Len(ac) = Len(a) + Len(c)
    BY <1>2
  <2>4. \A i \in 1 .. k - 1 : ac[i] = a[i]
    BY <1>1, <1>2
  <2>5. ac[k] = e
    BY <1>1, <1>2
  <2> QED
    BY <2>1, <2>2, <2>3, <2>4, <2>5
<1> HIDE DEF ac
<1>7. /\ r \in Seq(S) /\ Len(r) = n + 1
      /\ \A i \in 1 .. k : r[i] = ac[i]
      /\ \A i \in k + 1 .. n + 1 : r[i] = b[i - k]
  <2>1. Len(ac) + Len(b) = n + 1
    BY <1>1, <1>3, <1>6
  <2>2. r \in Seq(S)
    BY <1>3, <1>6
  <2>6. ac \in Seq(S) /\ b \in Seq(S)
    BY <1>3, <1>6
  <2>3. Len(r) = Len(ac) + Len(b)
    BY <2>6
  <2>4. \A i \in 1 .. k : r[i] = ac[i]
    BY <1>1, <1>3, <1>6
  <2>5. \A i \in k + 1 .. n + 1 : r[i] = b[i - k]
    BY <1>1, <1>3, <1>6
  <2> QED
    BY <2>1, <2>2, <2>3, <2>4, <2>5
<1> HIDE DEF r
<1>8. ASSUME NEW i \in 1 .. n + 1
      PROVE  r[i] = IF i < k THEN seq[i] ELSE IF i = k THEN e ELSE seq[i - 1]
  <2>1. CASE i < k
    BY <1>1, <1>2, <1>6, <1>7, <2>1
  <2>2. CASE i = k
    BY <1>1, <1>4, <1>6, <1>7, <2>2
  <2>3. CASE i > k
    <3>1. i - k \in 1 .. n - k + 1 /\ k + (i - k) - 1 = i - 1 /\ i \in k + 1 .. n + 1
      BY <1>1, <2>3
    <3>2. b[i - k] = seq[k + (i - k) - 1] /\ r[i] = b[i - k]
      BY <1>3, <1>7, <3>1
    <3>3. r[i] = seq[i - 1]
      BY <3>1, <3>2
    <3>4. ~(i < k) /\ i # k
      BY <1>1, <2>3
    <3> QED
      BY <3>3, <3>4
  <2> QED
    BY <1>1, <2>1, <2>2, <2>3
<1> QED
  BY <1>1, <1>5, <1>7, <1>8 DEF n, Widened

LEMMA RemoveAtFacts ==
  ASSUME NEW S, NEW seq \in Seq(S), NEW k \in 1 .. Len(seq)
  PROVE  /\ RemoveAt(seq, k) \in Seq(S) /\ Len(RemoveAt(seq, k)) = Len(seq) - 1
         /\ \A i \in 1 .. Len(seq) - 1 : RemoveAt(seq, k)[i] = IF i < k THEN seq[i] ELSE seq[i + 1]
<1> DEFINE n == Len(seq)
           a == SubSeq(seq, 1, k - 1)
           b == SubSeq(seq, k + 1, n)
           r == a \o b
<1>1. n \in Nat /\ k \in Nat /\ k - 1 \in Nat /\ n - k \in Nat /\ \A i \in 1 .. n : seq[i] \in S
  BY LenProperties
<1>2. a \in Seq(S) /\ Len(a) = k - 1 /\ \A i \in 1 .. k - 1 : a[i] = seq[i]
  BY <1>1, SubSeqProperties
<1>3. b \in Seq(S) /\ Len(b) = n - k /\ \A i \in 1 .. n - k : b[i] = seq[k + i]
  BY <1>1, SubSeqProperties
<1>4. RemoveAt(seq, k) = r
  BY DEF RemoveAt
<1> HIDE DEF a, b, n
<1>5. /\ r \in Seq(S) /\ Len(r) = n - 1
      /\ \A i \in 1 .. k - 1 : r[i] = a[i]
      /\ \A i \in k .. n - 1 : r[i] = b[i - (k - 1)]
  <2>1. Len(a) + Len(b) = n - 1
    BY <1>1, <1>2, <1>3
  <2>2. r \in Seq(S)
    BY <1>2, <1>3
  <2>6. a \in Seq(S) /\ b \in Seq(S)
    BY <1>2, <1>3
  <2>3. Len(r) = Len(a) + Len(b)
    BY <2>6
  <2>4. \A i \in 1 .. k - 1 : r[i] = a[i]
    BY <1>1, <1>2, <1>3
  <2>5. \A i \in k .. n - 1 : r[i] = b[i - (k - 1)]
    BY <1>1, <1>2, <1>3
  <2> QED
    BY <2>1, <2>2, <2>3, <2>4, <2>5
<1> HIDE DEF r
<1>6. ASSUME NEW i \in 1 .. n - 1
      PROVE  r[i] = IF i < k THEN seq[i] ELSE seq[i + 1]
  <2>1. CASE i < k
    BY <1>1, <1>2, <1>5, <2>1
  <2>2. CASE i >= k
    <3>1. i - (k - 1) \in 1 .. n - k /\ k + (i - (k - 1)) = i + 1 /\ i \in k .. n - 1
      BY <1>1, <2>2
    <3> QED
      BY <1>1, <1>3, <1>5, <2>2, <3>1
  <2> QED
    BY <1>1, <2>1, <2>2
<1> QED
  BY <1>1, <1>4, <1>5, <1>6 DEF n

(* Nothing is there twice.                                                 *)
Distinct(seq) == \A i, j \in 1 .. Len(seq) : seq[i] = seq[j] => i = j
=============================================================================
