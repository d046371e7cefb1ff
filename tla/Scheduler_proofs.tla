--------------------------- MODULE Scheduler_proofs ---------------------------
(***************************************************************************)
(* What the scheduler keeps for every design in which the delays of a net  *)
(* are all zero or all positive.  First, what each operation of            *)
(* schedule.cc makes of the lists of SCBs: unlinking, threading and the    *)
(* walks.                                                                  *)
(***************************************************************************)
EXTENDS Scheduler, Lemmas

-----------------------------------------------------------------------------
(* What unlinking s leaves of a list, and what threading s makes of it.     *)
Unlinked(seq, u, s) ==
  /\ Distinct(u)
  /\ \A i \in 1 .. Len(u) : u[i] # s
  /\ \A i \in 1 .. Len(u) : \E j \in 1 .. Len(seq) : u[i] = seq[j]
  /\ \A j \in 1 .. Len(seq) : seq[j] # s => \E i \in 1 .. Len(u) : u[i] = seq[j]
  /\ \A i, j \in 1 .. Len(u) : i <= j =>
       \E k, l \in 1 .. Len(seq) : k <= l /\ u[i] = seq[k] /\ u[j] = seq[l]
  /\ (\A i \in 1 .. Len(seq) : seq[i] # s) => u = seq
  /\ \A k \in 1 .. Len(seq) : seq[k] = s =>
       /\ Len(u) = Len(seq) - 1
       /\ \A i \in 1 .. Len(seq) - 1 : u[i] = IF i < k THEN seq[i] ELSE seq[i + 1]

LEMMA UnlinkFacts ==
  ASSUME NEW S, NEW seq \in Seq(S), Distinct(seq), NEW s
  PROVE  Unlink(seq, s) \in Seq(S) /\ Unlinked(seq, Unlink(seq, s), s)
<1>1. Len(seq) \in Nat /\ DOMAIN seq = 1 .. Len(seq) /\ \A i \in 1 .. Len(seq) : seq[i] \in S
  BY LenProperties
<1>2. CASE \A i \in 1 .. Len(seq) : seq[i] # s
  <2>1. Unlink(seq, s) = seq
    BY <1>1, <1>2 DEF Unlink, Range
  <2> QED
    BY <1>2, <2>1 DEF Distinct, Unlinked
<1>3. ASSUME NEW k \in 1 .. Len(seq), seq[k] = s
      PROVE  /\ Unlink(seq, s) \in Seq(S) /\ Len(Unlink(seq, s)) = Len(seq) - 1
             /\ \A i \in 1 .. Len(seq) - 1 : Unlink(seq, s)[i] = IF i < k THEN seq[i] ELSE seq[i + 1]
  <2>1. PositionOf(seq, s) = k
    BY <1>1, <1>3 DEF PositionOf, Distinct
  <2>2. Unlink(seq, s) = RemoveAt(seq, k)
    BY <1>1, <1>3, <2>1 DEF Unlink, Range
  <2> QED
    BY <2>2, RemoveAtFacts
<1>4. ASSUME NEW k \in 1 .. Len(seq), seq[k] = s
      PROVE  /\ Distinct(Unlink(seq, s))
             /\ \A i \in 1 .. Len(Unlink(seq, s)) : Unlink(seq, s)[i] # s
             /\ \A i \in 1 .. Len(Unlink(seq, s)) : \E j \in 1 .. Len(seq) : Unlink(seq, s)[i] = seq[j]
             /\ \A j \in 1 .. Len(seq) : seq[j] # s => \E i \in 1 .. Len(Unlink(seq, s)) : Unlink(seq, s)[i] = seq[j]
             /\ \A i, j \in 1 .. Len(Unlink(seq, s)) : i <= j =>
                  \E h, l \in 1 .. Len(seq) : h <= l /\ Unlink(seq, s)[i] = seq[h] /\ Unlink(seq, s)[j] = seq[l]
  <2> DEFINE u == Unlink(seq, s)
             n == Len(seq)
             from(i) == IF i < k THEN i ELSE i + 1
  <2>1. Len(u) = n - 1 /\ n \in Nat /\ \A i \in 1 .. n - 1 : u[i] = seq[from(i)]
    BY <1>1, <1>3, <1>4
  <2>2. \A i \in 1 .. n - 1 : from(i) \in 1 .. n /\ from(i) # k
    BY <1>1
  <2>3. \A i, j \in 1 .. n - 1 : (i <= j => from(i) <= from(j)) /\ (from(i) = from(j) => i = j)
    BY <1>1
  <2>4. \A j \in 1 .. n : j # k => \E i \in 1 .. n - 1 : from(i) = j
    <3> SUFFICES ASSUME NEW j \in 1 .. n, j # k PROVE \E i \in 1 .. n - 1 : from(i) = j
      OBVIOUS
    <3>1. CASE j < k
      BY <1>1, <3>1
    <3>2. CASE j > k
      <4>1. j - 1 \in 1 .. n - 1 /\ from(j - 1) = j
        BY <1>1, <3>2
      <4> QED
        BY <4>1
    <3> QED
      BY <1>1, <3>1, <3>2
  <2> HIDE DEF u, n, from
  <2>5. Distinct(u)
    BY <2>1, <2>2, <2>3 DEF Distinct, n
  <2>6. \A i \in 1 .. Len(u) : u[i] # s
    BY <1>4, <2>1, <2>2 DEF Distinct, n
  <2>7. \A i \in 1 .. Len(u) : \E j \in 1 .. n : u[i] = seq[j]
    BY <2>1, <2>2
  <2>8. \A j \in 1 .. n : seq[j] # s => \E i \in 1 .. Len(u) : u[i] = seq[j]
    BY <1>4, <2>1, <2>4
  <2>9. \A i, j \in 1 .. Len(u) : i <= j =>
          \E h, l \in 1 .. n : h <= l /\ u[i] = seq[h] /\ u[j] = seq[l]
    BY <2>1, <2>2, <2>3
  <2> QED
    BY <2>5, <2>6, <2>7, <2>8, <2>9 DEF u, n
<1>5. CASE \E k \in 1 .. Len(seq) : seq[k] = s
  <2>1. PICK k \in 1 .. Len(seq) : seq[k] = s
    BY <1>5
  <2>2. \A m \in 1 .. Len(seq) : seq[m] = s =>
          /\ Len(Unlink(seq, s)) = Len(seq) - 1
          /\ \A i \in 1 .. Len(seq) - 1 : Unlink(seq, s)[i] = IF i < m THEN seq[i] ELSE seq[i + 1]
    BY <1>3
  <2> QED
    BY <1>3, <1>4, <2>1, <2>2 DEF Unlinked
<1> QED
  BY <1>2, <1>5

-----------------------------------------------------------------------------
(* The lists as they are between operations, and while s is on none.       *)

Threads(c) ==
  /\ OneListEach(c)
  /\ c.readylist_last = LastOf(Readylist(c))
  /\ Netlist(c) # <<>> => c.netlist_last = LastOf(Netlist(c))

TailInGroup(c) ==
  IF Timelist(c) = <<>> THEN c.timelist_currentTail = NULL
  ELSE /\ c.timelist_currentTail \in Range(Timelist(c))
       /\ c.time[c.timelist_currentTail] = c.time[Timelist(c)[1]]

Planned(c) == TailInGroup(c) /\ Sorted(c)

Detached(c, s) ==
  /\ \A l \in Queue : Distinct(c.on[l])
  /\ \A l \in Queue : \A i \in 1 .. Len(c.on[l]) : c.on[l][i] # s /\ c.list[c.on[l][i]] = l
  /\ \A r \in SCB \ {s} : c.list[r] \in Queue => \E i \in 1 .. Len(c.on[c.list[r]]) : c.on[c.list[r]][i] = r
  /\ c.readylist_last = LastOf(Readylist(c))
  /\ Netlist(c) # <<>> => c.netlist_last = LastOf(Netlist(c))

(* The walk of REMOVE_LIST_SCB stops in the first group of the time list.  *)
LEMMA GroupEndFacts ==
  ASSUME NEW tl \in Seq(SCB), tl # <<>>, NEW time \in [SCB -> Nat]
  PROVE  \E k \in 1 .. Len(tl) : GroupEnd(tl, time) = tl[k] /\ time[tl[k]] = time[tl[1]]
<1> DEFINE n == Len(tl)
           S == {k \in 1 .. n : k = n \/ time[tl[k]] # time[tl[k + 1]]}
           m == Min(S)
<1>1. n \in Nat /\ n # 0 /\ \A i \in 1 .. n : tl[i] \in SCB
  BY LenProperties, EmptySeq
<1>2. m \in S /\ \A k \in S : m <= k
  <2>1. n \in S /\ S \in SUBSET Nat
    BY <1>1
  <2> HIDE DEF S
  <2> QED
    BY <2>1, MinExists
<1>3. GroupEnd(tl, time) = tl[m]
  BY DEF GroupEnd
<1>4. m \in 1 .. n /\ \A k \in 1 .. m - 1 : time[tl[k]] = time[tl[k + 1]]
  <2>1. m \in 1 .. n
    BY <1>2
  <2>2. ASSUME NEW k \in 1 .. m - 1 PROVE time[tl[k]] = time[tl[k + 1]]
    <3>1. k \in 1 .. n /\ k # n /\ ~(m <= k)
      BY <1>1, <2>1
    <3>2. k \notin S
      BY <1>2, <3>1
    <3> QED
      BY <3>1, <3>2
  <2> QED
    BY <2>1, <2>2
<1>5. time[tl[m]] = time[tl[1]]
  <2> DEFINE T == {k \in 0 .. m - 1 : time[tl[k + 1]] = time[tl[1]]}
  <2> HIDE DEF m, S
  <2>1. 0 \in T
    BY <1>4
  <2>2. ASSUME NEW k \in 0 .. m - 1 - 1, k \in T PROVE k + 1 \in T
    <3>1. k + 1 \in 1 .. m - 1 /\ k + 1 \in 0 .. m - 1
      BY <1>1, <1>4
    <3>2. time[tl[k + 1]] = time[tl[k + 1 + 1]]
      BY <1>4, <3>1
    <3> QED
      BY <2>2, <3>1, <3>2
  <2>3. m - 1 \in Nat /\ m - 1 \in 0 .. m - 1 /\ m - 1 + 1 = m
    BY <1>1, <1>4
  <2> HIDE DEF T
  <2>4. 0 .. m - 1 \subseteq T
    BY <2>1, <2>2, <2>3, Induction
  <2>5. m - 1 \in T
    BY <2>3, <2>4
  <2> QED
    BY <2>3, <2>5 DEF T
<1> QED
  BY <1>3, <1>4, <1>5

LEMMA SetTwice ==
  ASSUME NEW f \in [SCB -> Nat], NEW s \in SCB, NEW a, NEW b,
         NEW g, g = [f EXCEPT ![s] = a], NEW h, h = [g EXCEPT ![s] = b]
  PROVE  h = [f EXCEPT ![s] = b]
OBVIOUS

LEMMA FieldTypes ==
  ASSUME NEW c \in ListState
  PROVE  /\ \A l \in Queue : c.on[l] \in Seq(SCB) /\ Len(c.on[l]) \in Nat
         /\ \A l \in Queue : \A i \in 1 .. Len(c.on[l]) : c.on[l][i] \in SCB
         /\ c.list \in [SCB -> Tag] /\ c.time \in [SCB -> Nat]
         /\ c.readylist_last \in SCB \cup {NULL} /\ c.netlist_last \in SCB \cup {NULL}
         /\ c.timelist_currentTail \in SCB \cup {NULL}
<1>1. c.on \in [Queue -> Seq(SCB)]
  BY DEF ListState
<1>2. \A l \in Queue : c.on[l] \in Seq(SCB)
  BY <1>1
<1>3. \A l \in Queue : Len(c.on[l]) \in Nat /\ \A i \in 1 .. Len(c.on[l]) : c.on[l][i] \in SCB
  BY <1>2, LenProperties
<1> QED
  BY <1>2, <1>3 DEF ListState

LEMMA LastOfType ==
  ASSUME NEW seq \in Seq(SCB)
  PROVE  LastOf(seq) \in SCB \cup {NULL}
BY LenProperties, EmptySeq DEF LastOf


(* REMOVE_LIST_SCB, with the time overwritten before as in Schedule.       *)
LEMMA RemoveDetaches ==
  ASSUME NEW c \in ListState, Threads(c), Planned(c), NEW s \in SCB, NEW t \in Nat,
         c.list[s] = "NET" => s = Netlist(c)[1],
         NEW u, u = RemoveSCB([c EXCEPT !.time[s] = t], s)
  PROVE  /\ u \in ListState /\ Detached(u, s) /\ Planned(u)
         /\ u.list = c.list /\ u.time = [c.time EXCEPT ![s] = t]
         /\ \A l \in Queue : Unlinked(c.on[l], u.on[l], s)
         /\ u.netlist_last = c.netlist_last
<1> DEFINE v == [c EXCEPT !.time[s] = t]
           on == [l \in Queue |-> Unlink(c.on[l], s)]
<1>1. /\ \A l \in Queue : c.on[l] \in Seq(SCB) /\ Distinct(c.on[l]) /\ Len(c.on[l]) \in Nat
      /\ \A l \in Queue : \A i \in 1 .. Len(c.on[l]) : c.list[c.on[l][i]] = l /\ c.on[l][i] \in SCB
      /\ c.time \in [SCB -> Nat] /\ c.list \in [SCB -> Tag]
  <2>1. \A l \in Queue : Distinct(c.on[l])
    BY DEF Threads, OneListEach, Distinct
  <2>2. \A l \in Queue : \A i \in 1 .. Len(c.on[l]) : c.list[c.on[l][i]] = l
    BY DEF Threads, OneListEach
  <2> QED
    BY <2>1, <2>2, FieldTypes
<1>2. /\ v.on = c.on /\ v.list = c.list /\ v.time = [c.time EXCEPT ![s] = t]
      /\ v.readylist_last = c.readylist_last /\ v.netlist_last = c.netlist_last
      /\ v.timelist_currentTail = c.timelist_currentTail
  BY DEF ListState
<1>3. v.time \in [SCB -> Nat] /\ \A r \in SCB : r # s => v.time[r] = c.time[r]
  BY <1>1, <1>2
<1>4. \A l \in Queue : on[l] \in Seq(SCB) /\ Len(on[l]) \in Nat /\ Unlinked(c.on[l], on[l], s)
  <2> SUFFICES ASSUME NEW l \in Queue
               PROVE  Unlink(c.on[l], s) \in Seq(SCB) /\ Unlinked(c.on[l], Unlink(c.on[l], s), s)
    BY LenProperties
  <2> QED
    BY <1>1, UnlinkFacts
<1>5. /\ u.on = on /\ u.list = c.list /\ u.time = v.time /\ u.netlist_last = c.netlist_last
      /\ u.readylist_last = ReadyLast(v, s, on["READY"])
      /\ u.timelist_currentTail = IF c.list[s] = "TIME" /\ c.timelist_currentTail = s
                                    THEN GroupEnd(on["TIME"], v.time) ELSE c.timelist_currentTail
  BY <1>2 DEF RemoveSCB, ListState
<1> HIDE DEF v, on
<1> DEFINE rl == c.on["READY"]
           nl == c.on["NET"]
           tl == c.on["TIME"]
           url == on["READY"]
           unl == on["NET"]
           ul == on["TIME"]
<1>6. u.readylist_last = LastOf(url)
  <2>1. c.readylist_last = LastOf(rl) /\ "READY" \in Queue
    BY DEF Threads, Readylist, Queue
  <2>2. /\ Unlinked(rl, url, s) /\ Len(rl) \in Nat /\ Len(url) \in Nat /\ url \in Seq(SCB)
        /\ \A i \in 1 .. Len(rl) : c.list[rl[i]] = "READY"
    BY <1>1, <1>4, <2>1
  <2>3. CASE c.list[s] = "READY" /\ c.readylist_last = s
    BY <1>2, <1>5, <2>3 DEF ReadyLast
  <2>4. CASE ~(c.list[s] = "READY" /\ c.readylist_last = s)
    <3>1. u.readylist_last = c.readylist_last
      BY <1>2, <1>5, <2>4 DEF ReadyLast
    <3> HIDE DEF rl, url
    <3>2. CASE \A i \in 1 .. Len(rl) : rl[i] # s
      BY <2>1, <2>2, <3>1, <3>2 DEF Unlinked
    <3>3. ASSUME NEW k \in 1 .. Len(rl), rl[k] = s PROVE LastOf(url) = c.readylist_last
      <4>1. c.readylist_last # s
        BY <2>2, <2>4, <3>3
      <4>2. rl # <<>>
        BY <3>3
      <4>3. c.readylist_last = rl[Len(rl)]
        BY <2>1, <4>2 DEF LastOf
      <4>4. k # Len(rl)
        BY <3>3, <4>1, <4>3
      <4>5. /\ Len(url) = Len(rl) - 1
            /\ \A i \in 1 .. Len(rl) - 1 : url[i] = IF i < k THEN rl[i] ELSE rl[i + 1]
        BY <2>2, <3>3 DEF Unlinked
      <4>6. Len(rl) - 1 \in 1 .. Len(rl) - 1 /\ ~(Len(rl) - 1 < k) /\ Len(rl) - 1 + 1 = Len(rl)
        BY <2>2, <3>3, <4>4
      <4>7. url[Len(url)] = rl[Len(rl)]
        BY <4>5, <4>6
      <4>8. url # <<>>
        BY <2>2, <4>5, <4>6, EmptySeq
      <4> QED
        BY <4>3, <4>7, <4>8 DEF LastOf
    <3> QED
      BY <3>1, <3>2, <3>3
  <2> QED
    BY <2>3, <2>4
<1>7. unl # <<>> => c.netlist_last = LastOf(unl)
  <2>1. "NET" \in Queue /\ (nl # <<>> => c.netlist_last = LastOf(nl))
    BY DEF Threads, Netlist, Queue
  <2>2. /\ Unlinked(nl, unl, s) /\ Len(nl) \in Nat /\ Len(unl) \in Nat /\ unl \in Seq(SCB)
        /\ \A i \in 1 .. Len(nl) : c.list[nl[i]] = "NET"
        /\ (c.list[s] = "NET" => s = nl[1])
    BY <1>1, <1>4, <2>1 DEF Netlist
  <2> HIDE DEF nl, unl
  <2>3. CASE \A i \in 1 .. Len(nl) : nl[i] # s
    BY <2>1, <2>2, <2>3 DEF Unlinked
  <2>4. ASSUME NEW k \in 1 .. Len(nl), nl[k] = s, unl # <<>> PROVE c.netlist_last = LastOf(unl)
    <3>1. s = nl[1] /\ 1 \in 1 .. Len(nl) /\ nl # <<>>
      BY <2>2, <2>4
    <3>2. /\ Len(unl) = Len(nl) - 1
          /\ \A i \in 1 .. Len(nl) - 1 : unl[i] = IF i < 1 THEN nl[i] ELSE nl[i + 1]
      BY <2>2, <3>1 DEF Unlinked
    <3>3. Len(unl) # 0
      BY <2>2, <2>4, EmptySeq
    <3>4. Len(nl) - 1 \in 1 .. Len(nl) - 1 /\ ~(Len(nl) - 1 < 1) /\ Len(nl) - 1 + 1 = Len(nl)
      BY <2>2, <3>2, <3>3
    <3>5. unl[Len(unl)] = nl[Len(nl)]
      BY <3>2, <3>4
    <3> QED
      BY <2>1, <2>4, <3>1, <3>5 DEF LastOf
  <2> QED
    BY <2>3, <2>4
<1>8. ASSUME NEW l \in Queue, NEW r \in SCB \ {s}, c.list[r] = l
      PROVE  \E i \in 1 .. Len(on[l]) : on[l][i] = r
  <2>1. PICK j \in 1 .. Len(c.on[l]) : c.on[l][j] = r
    BY <1>8 DEF Threads, OneListEach
  <2>2. Unlinked(c.on[l], on[l], s)
    BY <1>4, <1>8
  <2>3. c.on[l][j] # s
    BY <2>1
  <2> QED
    BY <2>1, <2>2, <2>3 DEF Unlinked
<1>9. Detached(u, s)
  <2>1. ASSUME NEW l \in Queue
        PROVE  Distinct(on[l]) /\ \A i \in 1 .. Len(on[l]) : on[l][i] # s /\ c.list[on[l][i]] = l
    <3>1. Unlinked(c.on[l], on[l], s)
      BY <1>4
    <3>2. Distinct(on[l]) /\ \A i \in 1 .. Len(on[l]) : on[l][i] # s
      BY <3>1 DEF Unlinked
    <3>3. ASSUME NEW i \in 1 .. Len(on[l]) PROVE c.list[on[l][i]] = l
      <4>1. PICK j \in 1 .. Len(c.on[l]) : on[l][i] = c.on[l][j]
        BY <3>1 DEF Unlinked
      <4> QED
        BY <1>1, <4>1
    <3> QED
      BY <3>2, <3>3
  <2>2. u.readylist_last = LastOf(Readylist(u))
    BY <1>5, <1>6, <1>7, <1>8, <2>1 DEF Readylist
  <2>3. Netlist(u) # <<>> => u.netlist_last = LastOf(Netlist(u))
    BY <1>5, <1>6, <1>7, <1>8, <2>1 DEF Netlist
  <2> QED
    BY <1>5, <1>6, <1>7, <1>8, <2>1, <2>2, <2>3, SMTT(30) DEF Detached
<1>10. /\ tl \in Seq(SCB) /\ ul \in Seq(SCB) /\ Len(tl) \in Nat /\ Len(ul) \in Nat
       /\ \A i \in 1 .. Len(tl) : tl[i] \in SCB /\ c.list[tl[i]] = "TIME"
       /\ \A i \in 1 .. Len(ul) : ul[i] \in SCB /\ ul[i] # s
       /\ Unlinked(tl, ul, s)
       /\ DOMAIN tl = 1 .. Len(tl) /\ DOMAIN ul = 1 .. Len(ul)
       /\ (tl = <<>> <=> Len(tl) = 0) /\ (ul = <<>> <=> Len(ul) = 0)
  <2>1. "TIME" \in Queue
    BY DEF Queue
  <2>2. tl \in Seq(SCB) /\ ul \in Seq(SCB) /\ Unlinked(tl, ul, s)
    BY <1>1, <1>4, <2>1
  <2>3. \A i \in 1 .. Len(ul) : ul[i] # s
    BY <2>2 DEF Unlinked
  <2>4. \A i \in 1 .. Len(tl) : c.list[tl[i]] = "TIME"
    BY <1>1, <2>1
  <2> QED
    BY <2>2, <2>3, <2>4, LenProperties, EmptySeq
<1>11. /\ \A i, j \in 1 .. Len(tl) : i <= j => c.time[tl[i]] <= c.time[tl[j]]
       /\ tl = <<>> => c.timelist_currentTail = NULL
       /\ tl # <<>> => \E k \in 1 .. Len(tl) : /\ c.timelist_currentTail = tl[k]
                                               /\ c.time[tl[k]] = c.time[tl[1]]
  <2>1. \A i \in 1 .. Len(tl) : \A j \in i .. Len(tl) : c.time[tl[i]] <= c.time[tl[j]]
    BY DEF Planned, Sorted, Timelist
  <2>2. tl = <<>> => c.timelist_currentTail = NULL
    BY DEF Planned, TailInGroup, Timelist
  <2>3. tl # <<>> => /\ c.timelist_currentTail \in Range(tl)
                     /\ c.time[c.timelist_currentTail] = c.time[tl[1]]
    BY DEF Planned, TailInGroup, Timelist
  <2> HIDE DEF tl
  <2>4. ASSUME NEW i \in 1 .. Len(tl), NEW j \in 1 .. Len(tl), i <= j PROVE c.time[tl[i]] <= c.time[tl[j]]
    <3>1. j \in i .. Len(tl)
      BY <1>10, <2>4
    <3> QED
      BY <2>1, <3>1
  <2> QED
    BY <1>10, <2>2, <2>3, <2>4 DEF Range
<1>12. \A i \in 1 .. Len(tl) : tl[i] # s => v.time[tl[i]] = c.time[tl[i]]
  BY <1>3, <1>10
<1>13. \A i \in 1 .. Len(tl) : c.time[tl[i]] \in Nat
  BY <1>1, <1>10
<1>14. /\ u.on["TIME"] = ul /\ u.time = v.time
       /\ u.timelist_currentTail = IF c.list[s] = "TIME" /\ c.timelist_currentTail = s
                                     THEN GroupEnd(ul, v.time) ELSE c.timelist_currentTail
  BY <1>5
<1> HIDE DEF tl, ul
<1>15. \A i, j \in 1 .. Len(ul) : i <= j => v.time[ul[i]] <= v.time[ul[j]]
  <2> SUFFICES ASSUME NEW i \in 1 .. Len(ul), NEW j \in 1 .. Len(ul), i <= j
               PROVE  v.time[ul[i]] <= v.time[ul[j]]
    OBVIOUS
  <2>1. \A a, b \in 1 .. Len(ul) : a <= b => \E k, l \in 1 .. Len(tl) : k <= l /\ ul[a] = tl[k] /\ ul[b] = tl[l]
    BY <1>10 DEF Unlinked
  <2>2. PICK k, l \in 1 .. Len(tl) : k <= l /\ ul[i] = tl[k] /\ ul[j] = tl[l]
    BY <2>1
  <2>3. tl[k] # s /\ tl[l] # s
    BY <1>10, <2>2
  <2> QED
    BY <1>11, <1>12, <2>2, <2>3
<1>16. Sorted(u)
  <2>1. ASSUME NEW i \in 1 .. Len(ul), NEW j \in i .. Len(ul) PROVE v.time[ul[i]] <= v.time[ul[j]]
    <3>1. j \in 1 .. Len(ul) /\ i <= j
      BY <1>10
    <3> QED
      BY <1>15, <3>1
  <2> QED
    BY <1>14, <2>1 DEF Sorted, Timelist
<1>17. /\ ul = <<>> => u.timelist_currentTail = NULL
       /\ ul # <<>> => \E k \in 1 .. Len(ul) : /\ u.timelist_currentTail = ul[k]
                                               /\ v.time[ul[k]] = v.time[ul[1]]
  <2> DEFINE tail == c.timelist_currentTail
  <2>1. CASE c.list[s] = "TIME" /\ tail = s
    <3>1. u.timelist_currentTail = GroupEnd(ul, v.time)
      BY <1>14, <2>1
    <3>2. CASE ul = <<>>
      BY <3>1, <3>2 DEF GroupEnd
    <3>3. CASE ul # <<>>
      <4>1. \E k \in 1 .. Len(ul) : GroupEnd(ul, v.time) = ul[k] /\ v.time[ul[k]] = v.time[ul[1]]
        BY <1>3, <1>10, <3>3, GroupEndFacts
      <4> QED
        BY <3>1, <3>3, <4>1
    <3> QED
      BY <3>2, <3>3
  <2>2. CASE tl = <<>>
    <3>1. \A i \in 1 .. Len(tl) : tl[i] # s
      BY <1>10, <2>2
    <3>2. ul = tl
      BY <1>10, <3>1 DEF Unlinked
    <3>3. tail = NULL /\ tail # s
      BY <1>11, <2>2, NullIsNotSCB
    <3> QED
      BY <1>14, <2>2, <3>2, <3>3
  <2>3. CASE tl # <<>> /\ ~(c.list[s] = "TIME" /\ tail = s)
    <3>1. PICK p \in 1 .. Len(tl) : tail = tl[p] /\ c.time[tl[p]] = c.time[tl[1]]
      BY <1>11, <2>3
    <3>2. tl[p] # s
      BY <1>10, <2>3, <3>1
    <3>3. PICK k \in 1 .. Len(ul) : ul[k] = tl[p]
      BY <1>10, <3>2 DEF Unlinked
    <3>4. ul # <<>> /\ 1 \in 1 .. Len(ul) /\ 1 \in 1 .. Len(tl)
      BY <1>10, <3>1, <3>3
    <3>5. v.time[ul[1]] <= v.time[ul[k]]
      BY <1>10, <1>15, <3>3, <3>4
    <3>6. PICK j \in 1 .. Len(tl) : ul[1] = tl[j]
      BY <1>10, <3>4 DEF Unlinked
    <3>7. tl[j] # s
      BY <1>10, <3>4, <3>6
    <3>8. c.time[tl[1]] <= c.time[tl[j]]
      BY <1>10, <1>11, <3>4, <3>6
    <3>9. v.time[ul[1]] = c.time[tl[j]] /\ v.time[ul[k]] = c.time[tl[p]]
      BY <1>12, <3>2, <3>3, <3>6, <3>7
    <3>10. c.time[tl[j]] = c.time[tl[p]]
      BY <1>13, <3>1, <3>5, <3>6, <3>8, <3>9
    <3>11. u.timelist_currentTail = tail
      BY <1>14, <2>3
    <3> QED
      BY <3>1, <3>3, <3>4, <3>9, <3>10, <3>11
  <2> QED
    BY <2>1, <2>2, <2>3
<1>18. TailInGroup(u)
  BY <1>10, <1>14, <1>17 DEF TailInGroup, Timelist, Range
<1>19. u \in ListState
  <2>1. u.readylist_last \in SCB \cup {NULL}
    BY <1>4, <1>6, LastOfType DEF Queue
  <2>2. u.timelist_currentTail \in SCB \cup {NULL}
    BY <1>10, <1>17
  <2>3. on \in [Queue -> Seq(SCB)]
    BY <1>4 DEF on
  <2>4. u.netlist_last \in SCB \cup {NULL} /\ u.list \in [SCB -> Tag] /\ u.time \in [SCB -> Nat]
    BY <1>1, <1>3, <1>5, FieldTypes
  <2>5. u.on \in [Queue -> Seq(SCB)]
    BY <1>5, <2>3
  <2>6. v \in ListState
    BY DEF ListState, v
  <2>7. u = [v EXCEPT !.on = u.on, !.readylist_last = u.readylist_last,
                      !.timelist_currentTail = u.timelist_currentTail]
    BY DEF RemoveSCB, ListState, v
  <2> QED
    BY <2>1, <2>2, <2>4, <2>5, <2>6, <2>7 DEF ListState
<1>20. \A l \in Queue : Unlinked(c.on[l], u.on[l], s)
  BY <1>4, <1>5
<1> QED
  BY <1>2, <1>5, <1>9, <1>16, <1>18, <1>19, <1>20 DEF Planned

-----------------------------------------------------------------------------
(* What an operation on s makes of the lists.                              *)

(* Nobody takes the turn of the first SCB of the ready list.               *)
HeadStays(c, v, s) ==
  Readylist(c) # <<>> /\ Readylist(c)[1] # s
    => Readylist(v) # <<>> /\ Readylist(v)[1] = Readylist(c)[1]

Step(c, v, s, tag, t) ==
  /\ v \in ListState /\ Threads(v) /\ Planned(v)
  /\ v.list = [c.list EXCEPT ![s] = tag] /\ v.time = [c.time EXCEPT ![s] = t]
  /\ HeadStays(c, v, s)

LEMMA InsertedFacts ==
  ASSUME NEW seq \in Seq(SCB), NEW k \in 1 .. Len(seq) + 1, NEW s \in SCB,
         Distinct(seq), \A i \in 1 .. Len(seq) : seq[i] # s,
         NEW u, u = InsertAt(seq, k, s)
  PROVE  /\ u \in Seq(SCB) /\ Widened(seq, u, k, s) /\ Distinct(u) /\ u # <<>>
         /\ \A i \in 1 .. Len(u) : i # k => \E j \in 1 .. Len(seq) : u[i] = seq[j]
         /\ \A j \in 1 .. Len(seq) : \E i \in 1 .. Len(u) : u[i] = seq[j]
         /\ k \in 1 .. Len(u) /\ u[k] = s
<1>1. Len(seq) \in Nat
  BY LenProperties
<1>2. u \in Seq(SCB) /\ Widened(seq, u, k, s)
  BY InsertAtFacts
<1> DEFINE n == Len(seq)
           from(i) == IF i < k THEN i ELSE i - 1
<1>3. Len(u) = n + 1 /\ n \in Nat /\ k \in 1 .. n + 1
  BY <1>1, <1>2 DEF Widened
<1>4. \A i \in 1 .. n + 1 : u[i] = IF i < k THEN seq[i] ELSE IF i = k THEN s ELSE seq[i - 1]
  BY <1>2 DEF Widened
<1>5. \A i \in 1 .. n + 1 : i # k => from(i) \in 1 .. n /\ u[i] = seq[from(i)]
  BY <1>3, <1>4
<1>6. \A i, j \in 1 .. n + 1 : i # k /\ j # k /\ from(i) = from(j) => i = j
  BY <1>3
<1>7. \A j \in 1 .. n : \E i \in 1 .. n + 1 : i # k /\ from(i) = j
  <2> SUFFICES ASSUME NEW j \in 1 .. n PROVE \E i \in 1 .. n + 1 : i # k /\ from(i) = j
    OBVIOUS
  <2>1. CASE j < k
    BY <1>3, <2>1
  <2>2. CASE j >= k
    <3>1. j + 1 \in 1 .. n + 1 /\ j + 1 # k /\ from(j + 1) = j
      BY <1>3, <2>2
    <3> QED
      BY <3>1
  <2> QED
    BY <1>3, <2>1, <2>2
<1>8. k \in 1 .. n + 1 /\ u[k] = s
  BY <1>3, <1>4
<1> HIDE DEF from, n
<1>9. \A i \in 1 .. n + 1 : i # k => u[i] # s
  BY <1>5 DEF n
<1>10. Distinct(u)
  <2> SUFFICES ASSUME NEW i \in 1 .. n + 1, NEW j \in 1 .. n + 1, u[i] = u[j] PROVE i = j
    BY <1>3 DEF Distinct
  <2>1. CASE i = k \/ j = k
    BY <1>8, <1>9, <2>1
  <2>2. CASE i # k /\ j # k
    <3>1. from(i) = from(j)
      BY <1>5, <2>2 DEF Distinct, n
    <3> QED
      BY <1>6, <2>2, <3>1
  <2> QED
    BY <2>1, <2>2
<1>11. \A i \in 1 .. n + 1 : i # k => \E j \in 1 .. n : u[i] = seq[j]
  BY <1>5
<1>12. \A j \in 1 .. n : \E i \in 1 .. n + 1 : u[i] = seq[j]
  BY <1>5, <1>7
<1>13. u # <<>>
  <2>1. Len(u) # 0
    BY <1>3
  <2> QED
    BY <2>1, EmptySeq
<1> QED
  BY <1>2, <1>3, <1>8, <1>10, <1>11, <1>12, <1>13 DEF n

LEMMA HeadOfRest ==
  ASSUME NEW c \in ListState, NEW u \in ListState, NEW s,
         Unlinked(c.on["READY"], u.on["READY"], s)
  PROVE  HeadStays(c, u, s)
<1> DEFINE rl == c.on["READY"]
           ul == u.on["READY"]
<1>1. rl \in Seq(SCB) /\ ul \in Seq(SCB) /\ Len(rl) \in Nat /\ Len(ul) \in Nat
  BY FieldTypes DEF Queue
<1>2. SUFFICES ASSUME rl # <<>>, rl[1] # s PROVE ul # <<>> /\ ul[1] = rl[1]
  BY DEF HeadStays, Readylist
<1> HIDE DEF rl, ul
<1>3. Unlinked(rl, ul, s)
  BY DEF rl, ul
<1>4. 1 \in 1 .. Len(rl)
  BY <1>1, <1>2, EmptySeq
<1>5. CASE \A i \in 1 .. Len(rl) : rl[i] # s
  BY <1>2, <1>3, <1>5 DEF Unlinked
<1>6. ASSUME NEW k \in 1 .. Len(rl), rl[k] = s PROVE ul # <<>> /\ ul[1] = rl[1]
  <2>1. Len(ul) = Len(rl) - 1 /\ \A i \in 1 .. Len(rl) - 1 : ul[i] = IF i < k THEN rl[i] ELSE rl[i + 1]
    BY <1>3, <1>6 DEF Unlinked
  <2>2. 1 \in 1 .. Len(rl) - 1 /\ 1 < k /\ Len(ul) # 0
    BY <1>1, <1>2, <1>4, <1>6, <2>1
  <2> QED
    BY <1>1, <2>1, <2>2, EmptySeq
<1> QED
  BY <1>5, <1>6

LEMMA HeadStaysTwice ==
  ASSUME NEW c, NEW u, NEW v, NEW s, HeadStays(c, u, s), HeadStays(u, v, s)
  PROVE  HeadStays(c, v, s)
BY DEF HeadStays

(* ADD_LIST_SCB.                                                           *)
LEMMA AddThreads ==
  ASSUME NEW c \in ListState, NEW s \in SCB, Detached(c, s), Planned(c),
         NEW l \in Queue, NEW k \in 1 .. Len(c.on[l]) + 1,
         l # "TIME" => k = Len(c.on[l]) + 1,
         l = "TIME" => \A i \in 1 .. Len(c.on[l]) :
                         IF i < k THEN c.time[c.on[l][i]] <= c.time[s] ELSE c.time[s] <= c.time[c.on[l][i]],
         NEW v, v = [AddSCB(c, l, l, k, s) EXCEPT !.netlist_last = IF l = "NET" THEN s ELSE c.netlist_last]
  PROVE  Step(c, v, s, l, c.time[s])
<1> DEFINE ol == c.on[l]
           nl == InsertAt(ol, k, s)
<1>1. /\ \A m \in Queue : c.on[m] \in Seq(SCB) /\ Distinct(c.on[m]) /\ Len(c.on[m]) \in Nat
      /\ \A m \in Queue : \A i \in 1 .. Len(c.on[m]) : c.on[m][i] \in SCB
      /\ \A m \in Queue : \A i \in 1 .. Len(c.on[m]) : c.on[m][i] # s
      /\ \A m \in Queue : \A i \in 1 .. Len(c.on[m]) : c.list[c.on[m][i]] = m
      /\ \A r \in SCB \ {s} : c.list[r] \in Queue => \E i \in 1 .. Len(c.on[c.list[r]]) : c.on[c.list[r]][i] = r
  <2>1. \A m \in Queue : Distinct(c.on[m])
    BY DEF Detached
  <2>2. \A m \in Queue : \A i \in 1 .. Len(c.on[m]) : c.on[m][i] # s /\ c.list[c.on[m][i]] = m
    BY DEF Detached
  <2>3. \A r \in SCB \ {s} : c.list[r] \in Queue => \E i \in 1 .. Len(c.on[c.list[r]]) : c.on[c.list[r]][i] = r
    BY DEF Detached
  <2> QED
    BY <2>1, <2>2, <2>3, FieldTypes
<1>2. /\ v.on = [c.on EXCEPT ![l] = nl]
      /\ v.list = [c.list EXCEPT ![s] = l]
      /\ v.time = c.time
      /\ v.readylist_last = IF l = "READY" /\ k > Len(ol) THEN s ELSE c.readylist_last
      /\ v.timelist_currentTail = IF l = "TIME" /\ TakesTail(c, s) THEN s ELSE c.timelist_currentTail
      /\ v.netlist_last = IF l = "NET" THEN s ELSE c.netlist_last
  BY DEF AddSCB, ListState
<1>3. v = [c EXCEPT !.on = v.on, !.list = v.list, !.readylist_last = v.readylist_last,
                    !.timelist_currentTail = v.timelist_currentTail, !.netlist_last = v.netlist_last]
  BY DEF AddSCB, ListState
<1>4. ol \in Seq(SCB) /\ Distinct(ol) /\ Len(ol) \in Nat /\ \A i \in 1 .. Len(ol) : ol[i] # s
  BY <1>1
<1>5. /\ nl \in Seq(SCB) /\ Widened(ol, nl, k, s) /\ Distinct(nl) /\ nl # <<>>
      /\ \A i \in 1 .. Len(nl) : i # k => \E j \in 1 .. Len(ol) : nl[i] = ol[j]
      /\ \A j \in 1 .. Len(ol) : \E i \in 1 .. Len(nl) : nl[i] = ol[j]
      /\ k \in 1 .. Len(nl) /\ nl[k] = s
  <2> HIDE DEF ol
  <2>1. k \in 1 .. Len(ol) + 1
    BY DEF ol
  <2> QED
    BY <1>4, <2>1, InsertedFacts
<1> HIDE DEF nl
<1>6. v.on[l] = nl /\ \A m \in Queue : m # l => v.on[m] = c.on[m]
  <2>1. c.on \in [Queue -> Seq(SCB)]
    BY DEF ListState
  <2> QED
    BY <1>2, <2>1
<1>7. v.list[s] = l /\ \A r \in SCB : r # s => v.list[r] = c.list[r]
  <2>1. c.list \in [SCB -> Tag]
    BY DEF ListState
  <2> QED
    BY <1>2, <2>1
<1>8. \A m \in Queue : v.on[m] \in Seq(SCB) /\ Distinct(v.on[m])
  BY <1>1, <1>5, <1>6
<1>9. ASSUME NEW m \in Queue, NEW i \in 1 .. Len(v.on[m]) PROVE v.list[v.on[m][i]] = m
  <2>1. CASE m # l
    <3>1. v.on[m] = c.on[m] /\ i \in 1 .. Len(c.on[m])
      BY <1>6, <2>1
    <3>2. c.on[m][i] \in SCB /\ c.on[m][i] # s /\ c.list[c.on[m][i]] = m
      BY <1>1, <3>1
    <3> QED
      BY <1>7, <3>1, <3>2
  <2>2. CASE m = l /\ i = k
    BY <1>5, <1>6, <1>7, <2>2
  <2>3. CASE m = l /\ i # k
    <3>1. i \in 1 .. Len(nl) /\ v.on[m][i] = nl[i]
      BY <1>6, <2>3
    <3>2. PICK j \in 1 .. Len(ol) : nl[i] = ol[j]
      BY <1>5, <2>3, <3>1
    <3>3. ol[j] \in SCB /\ ol[j] # s /\ c.list[ol[j]] = l
      BY <1>1
    <3>4. v.list[ol[j]] = l
      BY <1>7, <3>3
    <3> QED
      BY <2>3, <3>1, <3>2, <3>4
  <2> QED
    BY <2>1, <2>2, <2>3
<1>10. ASSUME NEW m \in Queue, NEW r \in SCB, v.list[r] = m PROVE \E i \in 1 .. Len(v.on[m]) : v.on[m][i] = r
  <2>1. CASE r = s
    BY <1>5, <1>6, <1>7, <1>10, <2>1
  <2>2. CASE r # s
    <3>1. PICK j \in 1 .. Len(c.on[m]) : c.on[m][j] = r
      BY <1>1, <1>7, <1>10, <2>2
    <3>2. CASE m = l
      <4>1. \E i \in 1 .. Len(nl) : nl[i] = ol[j]
        BY <1>5, <3>1, <3>2
      <4> QED
        BY <1>6, <3>1, <3>2, <4>1
    <3>3. CASE m # l
      BY <1>6, <3>1, <3>3
    <3> QED
      BY <3>2, <3>3
  <2> QED
    BY <2>1, <2>2
<1>11. OneListEach(v)
  <2>1. \A m \in Queue : \A i, j \in 1 .. Len(v.on[m]) : v.on[m][i] = v.on[m][j] => i = j
    BY <1>8 DEF Distinct
  <2> QED
    BY <1>9, <1>10, <2>1 DEF OneListEach
<1>12. Len(nl) = Len(ol) + 1 /\ (k = Len(ol) + 1 => LastOf(nl) = s)
  BY <1>5 DEF Widened, LastOf
<1>13. v.readylist_last = LastOf(v.on["READY"]) /\ (v.on["NET"] # <<>> => v.netlist_last = LastOf(v.on["NET"]))
  <2>1. /\ c.readylist_last = LastOf(c.on["READY"])
        /\ c.on["NET"] # <<>> => c.netlist_last = LastOf(c.on["NET"])
        /\ "READY" \in Queue /\ "NET" \in Queue
    BY DEF Detached, Readylist, Netlist, Queue
  <2>2. v.readylist_last = LastOf(v.on["READY"])
    <3>1. CASE l = "READY"
      <4>1. k > Len(ol)
        BY <1>4, <3>1
      <4> QED
        BY <1>2, <1>6, <1>12, <3>1, <4>1
    <3>2. CASE l # "READY"
      BY <1>2, <1>6, <2>1, <3>2
    <3> QED
      BY <3>1, <3>2
  <2>3. v.on["NET"] # <<>> => v.netlist_last = LastOf(v.on["NET"])
    BY <1>2, <1>6, <1>12, <2>1
  <2> QED
    BY <2>2, <2>3
<1>14. Threads(v)
  BY <1>11, <1>13 DEF Threads, Readylist, Netlist
<1>15. HeadStays(c, v, s)
  <2>1. "READY" \in Queue
    BY DEF Queue
  <2>2. CASE l # "READY"
    BY <1>6, <2>1, <2>2 DEF HeadStays, Readylist
  <2>3. CASE l = "READY"
    <3>1. SUFFICES ASSUME ol # <<>> PROVE nl # <<>> /\ nl[1] = ol[1]
      BY <1>6, <2>3 DEF HeadStays, Readylist
    <3>2. 1 \in 1 .. Len(ol) + 1 /\ 1 < k
      BY <1>4, <2>3, <3>1, EmptySeq
    <3>3. nl[1] = ol[1]
      BY <1>5, <3>2 DEF Widened
    <3> QED
      BY <1>5, <3>3
  <2> QED
    BY <2>2, <2>3
<1>16. Planned(v)
  <2>1. "TIME" \in Queue
    BY DEF Queue
  <2>2. CASE l # "TIME"
    <3>1. v.on["TIME"] = c.on["TIME"] /\ v.time = c.time /\ v.timelist_currentTail = c.timelist_currentTail
      BY <1>2, <1>6, <2>1, <2>2
    <3> QED
      BY <3>1 DEF Planned, TailInGroup, Sorted, Timelist
  <2>3. CASE l = "TIME"
    <3> DEFINE tail == c.timelist_currentTail
    <3>1. /\ \A i \in 1 .. Len(ol) : \A j \in i .. Len(ol) : c.time[ol[i]] <= c.time[ol[j]]
          /\ ol = <<>> => tail = NULL
          /\ ol # <<>> => tail \in Range(ol) /\ c.time[tail] = c.time[ol[1]]
      BY <2>3 DEF Planned, TailInGroup, Sorted, Timelist
    <3>2. /\ v.on["TIME"] = nl /\ v.time = c.time
          /\ v.timelist_currentTail = IF TakesTail(c, s) THEN s ELSE tail
      BY <1>2, <1>6, <2>3
    <3>3. /\ c.time \in [SCB -> Nat] /\ c.time[s] \in Nat
          /\ \A i \in 1 .. Len(ol) : ol[i] \in SCB /\ c.time[ol[i]] \in Nat
          /\ k \in 1 .. Len(ol) + 1
      BY <1>1, FieldTypes
    <3>4. \A i \in 1 .. Len(ol) :
            /\ i < k => c.time[ol[i]] <= c.time[s]
            /\ ~(i < k) => c.time[s] <= c.time[ol[i]]
      BY <2>3
    <3>5. \A i \in 1 .. Len(ol) + 1 :
            /\ i < k => nl[i] = ol[i] /\ i \in 1 .. Len(ol)
            /\ i = k => nl[i] = s
            /\ i > k => nl[i] = ol[i - 1] /\ i - 1 \in 1 .. Len(ol) /\ ~(i - 1 < k)
      <4>1. \A i \in 1 .. Len(ol) + 1 : nl[i] = IF i < k THEN ol[i] ELSE IF i = k THEN s ELSE ol[i - 1]
        BY <1>5 DEF Widened
      <4> HIDE DEF ol
      <4> QED
        BY <1>4, <3>3, <4>1
    <3>6. DOMAIN ol = 1 .. Len(ol) /\ DOMAIN nl = 1 .. Len(nl) /\ (ol = <<>> <=> Len(ol) = 0)
      BY <1>4, <1>5, LenProperties, EmptySeq
    <3>7. TakesTail(c, s) <=> tail = NULL \/ c.time[tail] >= c.time[s]
      BY DEF TakesTail
    <3> HIDE DEF ol
    <3>8. ASSUME NEW i \in 1 .. Len(nl), NEW j \in i .. Len(nl) PROVE c.time[nl[i]] <= c.time[nl[j]]
      <4>1. i \in 1 .. Len(ol) + 1 /\ j \in 1 .. Len(ol) + 1 /\ i <= j
        BY <1>4, <1>12
      <4>2. CASE j < k
        <5>1. nl[i] = ol[i] /\ nl[j] = ol[j] /\ i \in 1 .. Len(ol) /\ j \in i .. Len(ol)
          BY <1>4, <3>3, <3>5, <4>1, <4>2
        <5> QED
          BY <3>1, <5>1
      <4>3. CASE j = k /\ i < k
        BY <3>4, <3>5, <4>1, <4>3
      <4>4. CASE j = k /\ i = k
        BY <3>3, <3>5, <4>1, <4>4
      <4>5. CASE j > k /\ i = k
        BY <3>4, <3>5, <4>1, <4>5
      <4>6. CASE j > k /\ i < k
        <5>1. nl[i] = ol[i] /\ i \in 1 .. Len(ol) /\ c.time[ol[i]] <= c.time[s]
          BY <3>4, <3>5, <4>1, <4>6
        <5>2. nl[j] = ol[j - 1] /\ j - 1 \in 1 .. Len(ol) /\ c.time[s] <= c.time[ol[j - 1]]
          BY <3>4, <3>5, <4>1, <4>6
        <5> QED
          BY <3>3, <5>1, <5>2
      <4>7. CASE j > k /\ i > k
        <5>1. nl[i] = ol[i - 1] /\ nl[j] = ol[j - 1] /\ i - 1 \in 1 .. Len(ol) /\ j - 1 \in i - 1 .. Len(ol)
          BY <1>4, <3>3, <3>5, <4>1, <4>7
        <5> QED
          BY <3>1, <5>1
      <4> QED
        BY <3>3, <4>1, <4>2, <4>3, <4>4, <4>5, <4>6, <4>7
    <3>9. Sorted(v)
      BY <3>2, <3>8 DEF Sorted, Timelist
    <3>10. \E i \in 1 .. Len(nl) : v.timelist_currentTail = nl[i] /\ c.time[nl[i]] = c.time[nl[1]]
      <4>3. 1 \in 1 .. Len(nl) /\ k \in 1 .. Len(nl) /\ nl[k] = s
        BY <1>4, <1>5, <1>12
      <4>1. CASE ol = <<>>
        <5>1. k = 1 /\ TakesTail(c, s)
          BY <3>1, <3>3, <3>6, <3>7, <4>1
        <5> QED
          BY <3>2, <4>3, <5>1
      <4>2. CASE ol # <<>>
        <5>1. PICK p \in 1 .. Len(ol) : tail = ol[p] /\ c.time[ol[p]] = c.time[ol[1]] /\ 1 \in 1 .. Len(ol)
          <6>1. tail \in Range(ol) /\ c.time[tail] = c.time[ol[1]]
            BY <3>1, <4>2
          <6>2. PICK p \in 1 .. Len(ol) : tail = ol[p]
            BY <3>6, <6>1 DEF Range
          <6>3. 1 \in 1 .. Len(ol)
            BY <1>4, <6>2
          <6> QED
            BY <6>1, <6>2, <6>3
        <5>2. tail # NULL
          BY <3>3, <5>1, NullIsNotSCB
        <5>3. CASE TakesTail(c, s)
          <6>1. c.time[ol[1]] >= c.time[s]
            BY <3>7, <5>1, <5>2, <5>3
          <6>2. c.time[s] = c.time[nl[1]]
            <7>1. CASE k = 1
              BY <4>3, <7>1
            <7>2. CASE 1 < k
              BY <1>12, <3>3, <3>4, <3>5, <4>3, <5>1, <6>1, <7>2
            <7> QED
              BY <3>3, <7>1, <7>2
          <6> QED
            BY <3>2, <4>3, <5>3, <6>2
        <5>4. CASE ~TakesTail(c, s)
          <6>1. ~(c.time[ol[1]] >= c.time[s])
            BY <3>7, <5>1, <5>2, <5>4
          <6>2. 1 < k
            BY <3>3, <3>4, <5>1, <6>1
          <6>3. nl[1] = ol[1]
            BY <1>12, <3>5, <4>3, <6>2
          <6>4. PICK i \in 1 .. Len(nl) : nl[i] = ol[p]
            BY <1>5, <5>1 DEF ol
          <6> QED
            BY <3>2, <5>1, <5>4, <6>3, <6>4
        <5> QED
          BY <5>3, <5>4
      <4> QED
        BY <4>1, <4>2
    <3>11. TailInGroup(v)
      <4>1. nl # <<>> /\ Timelist(v) = nl
        BY <1>5, <3>2 DEF Timelist
      <4>2. PICK i \in 1 .. Len(nl) : v.timelist_currentTail = nl[i] /\ c.time[nl[i]] = c.time[nl[1]]
        BY <3>10
      <4>3. nl[i] \in Range(nl)
        BY <1>5, LenProperties DEF Range
      <4> QED
        BY <3>2, <4>1, <4>2, <4>3 DEF TailInGroup
    <3> QED
      BY <3>9, <3>11 DEF Planned
  <2> QED
    BY <2>2, <2>3
<1>17. v \in ListState
  <2>1. v.on \in [Queue -> Seq(SCB)]
    <3>1. c.on \in [Queue -> Seq(SCB)]
      BY DEF ListState
    <3>2. nl \in Seq(SCB)
      BY <1>5
    <3>3. v.on = [c.on EXCEPT ![l] = nl]
      BY <1>2
    <3> QED
      BY <3>1, <3>2, <3>3
  <2>2. v.list \in [SCB -> Tag]
    <3>1. c.list \in [SCB -> Tag] /\ l \in Tag
      BY DEF ListState, Tag
    <3> QED
      BY <1>2, <3>1
  <2>3. /\ v.readylist_last \in SCB \cup {NULL} /\ v.netlist_last \in SCB \cup {NULL}
        /\ v.timelist_currentTail \in SCB \cup {NULL}
    BY <1>2, FieldTypes
  <2> QED
    BY <1>3, <2>1, <2>2, <2>3 DEF ListState
<1>18. v.time = [c.time EXCEPT ![s] = c.time[s]]
  BY <1>2, FieldTypes
<1> QED
  BY <1>2, <1>14, <1>15, <1>16, <1>17, <1>18 DEF Step

(* An operation on s after s was unlinked.                                 *)
LEMMA Composed ==
  ASSUME NEW c \in ListState, NEW u \in ListState, NEW s \in SCB, NEW t \in Nat,
         u.list = c.list, u.time = [c.time EXCEPT ![s] = t], HeadStays(c, u, s),
         NEW v, NEW tag, NEW t2, Step(u, v, s, tag, t2)
  PROVE  Step(c, v, s, tag, t2)
<1>1. v.list = [c.list EXCEPT ![s] = tag]
  BY DEF Step
<1>2. v.time = [c.time EXCEPT ![s] = t2]
  BY FieldTypes DEF Step
<1>3. HeadStays(c, v, s)
  BY HeadStaysTwice DEF Step
<1> QED
  BY <1>1, <1>2, <1>3 DEF Step

LEMMA RemoveKeepsHead ==
  ASSUME NEW c \in ListState, Threads(c), Planned(c), NEW s \in SCB, c.list[s] = "NET" => s = Netlist(c)[1],
         NEW u, u = RemoveSCB(c, s)
  PROVE  /\ u \in ListState /\ Detached(u, s) /\ Planned(u) /\ HeadStays(c, u, s)
         /\ u.list = c.list /\ u.time = [c.time EXCEPT ![s] = c.time[s]] /\ u.netlist_last = c.netlist_last
<1>1. [c EXCEPT !.time[s] = c.time[s]] = c
  BY DEF ListState
<1>2. u = RemoveSCB([c EXCEPT !.time[s] = c.time[s]], s)
  BY <1>1
<1>3. c.time[s] \in Nat
  BY FieldTypes
<1>4. /\ u \in ListState /\ Detached(u, s) /\ Planned(u)
      /\ u.list = c.list /\ u.time = [c.time EXCEPT ![s] = c.time[s]] /\ u.netlist_last = c.netlist_last
      /\ Unlinked(c.on["READY"], u.on["READY"], s)
  BY <1>2, <1>3, RemoveDetaches DEF Queue
<1> QED
  BY <1>4, HeadOfRest

LEMMA RestingDetached ==
  ASSUME NEW c \in ListState, Threads(c), NEW s \in SCB, c.list[s] \notin Queue
  PROVE  Detached(c, s)
<1>1. \A l \in Queue : \A i \in 1 .. Len(c.on[l]) : c.on[l][i] # s /\ c.list[c.on[l][i]] = l
  BY DEF Threads, OneListEach
<1>2. \A r \in SCB \ {s} : c.list[r] \in Queue => \E i \in 1 .. Len(c.on[c.list[r]]) : c.on[c.list[r]][i] = r
  BY DEF Threads, OneListEach
<1>3. \A l \in Queue : Distinct(c.on[l])
  BY DEF Threads, OneListEach, Distinct
<1> QED
  BY <1>1, <1>2, <1>3 DEF Detached, Threads

LEMMA RestDetached ==
  ASSUME NEW c \in ListState, NEW s \in SCB, Detached(c, s), Planned(c), NEW tag \in Resting
  PROVE  Step(c, Rest(c, tag, s), s, tag, c.time[s])
<1> DEFINE v == Rest(c, tag, s)
<1>1. /\ v.on = c.on /\ v.list = [c.list EXCEPT ![s] = tag] /\ v.time = c.time
      /\ v.readylist_last = c.readylist_last /\ v.netlist_last = c.netlist_last
      /\ v.timelist_currentTail = c.timelist_currentTail
  BY DEF Rest, ListState
<1>2. v \in ListState
  BY DEF Rest, ListState, Tag
<1>3. v.time = [c.time EXCEPT ![s] = c.time[s]]
  BY <1>1, FieldTypes
<1>4. HeadStays(c, v, s) /\ Planned(v)
  BY <1>1 DEF HeadStays, Readylist, Planned, TailInGroup, Sorted, Timelist
<1>5. tag \notin Queue
  BY DEF Resting, Queue
<1>6. v.list[s] = tag /\ \A r \in SCB : r # s => v.list[r] = c.list[r]
  BY <1>1, FieldTypes
<1> HIDE DEF v
<1>7. \A l \in Queue : \A i \in 1 .. Len(v.on[l]) : v.list[v.on[l][i]] = l
  <2>1. \A l \in Queue : \A i \in 1 .. Len(c.on[l]) : c.on[l][i] # s /\ c.list[c.on[l][i]] = l
    BY DEF Detached
  <2> QED
    BY <1>1, <1>6, <2>1, FieldTypes
<1>8. ASSUME NEW l \in Queue, NEW r \in SCB, v.list[r] = l PROVE \E i \in 1 .. Len(v.on[l]) : v.on[l][i] = r
  <2>1. r # s /\ c.list[r] = l
    BY <1>5, <1>6, <1>8
  <2> QED
    BY <1>1, <2>1 DEF Detached
<1>9. \A l \in Queue : \A i, j \in 1 .. Len(v.on[l]) : v.on[l][i] = v.on[l][j] => i = j
  BY <1>1 DEF Detached, Distinct
<1>10. Threads(v)
  <2>1. OneListEach(v)
    BY <1>7, <1>8, <1>9 DEF OneListEach
  <2>2. /\ v.readylist_last = LastOf(Readylist(v))
        /\ Netlist(v) # <<>> => v.netlist_last = LastOf(Netlist(v))
    BY <1>1 DEF Detached, Readylist, Netlist
  <2> QED
    BY <2>1, <2>2 DEF Threads
<1> QED
  BY <1>1, <1>2, <1>3, <1>4, <1>10 DEF Step, v

(* The time of an SCB that is not on the time list can be overwritten.     *)
At(c, s, t) == [c EXCEPT !.time[s] = t]

LEMMA Retimed ==
  ASSUME NEW c \in ListState, Planned(c), NEW s \in SCB, NEW t \in Nat,
         \A i \in 1 .. Len(c.on["TIME"]) : c.on["TIME"][i] # s,
         NEW v, v = At(c, s, t)
  PROVE  /\ v \in ListState /\ Planned(v) /\ v.on = c.on /\ v.list = c.list
         /\ v.time = [c.time EXCEPT ![s] = t] /\ v.time[s] = t
         /\ v.readylist_last = c.readylist_last /\ v.netlist_last = c.netlist_last
<1>1. /\ v.on = c.on /\ v.list = c.list /\ v.time = [c.time EXCEPT ![s] = t]
      /\ v.readylist_last = c.readylist_last /\ v.netlist_last = c.netlist_last
      /\ v.timelist_currentTail = c.timelist_currentTail
  BY DEF ListState, At
<1>2. v \in ListState
  BY DEF ListState, At
<1> DEFINE tl == c.on["TIME"]
<1>3. tl \in Seq(SCB) /\ Len(tl) \in Nat /\ DOMAIN tl = 1 .. Len(tl) /\ (tl = <<>> <=> Len(tl) = 0)
  BY FieldTypes, LenProperties, EmptySeq DEF Queue
<1>4. \A i \in 1 .. Len(tl) : tl[i] \in SCB /\ tl[i] # s
  BY FieldTypes DEF Queue
<1>5. v.time[s] = t /\ \A i \in 1 .. Len(tl) : v.time[tl[i]] = c.time[tl[i]]
  BY <1>1, <1>4, FieldTypes
<1>6. Sorted(v)
  <2>1. \A i \in 1 .. Len(tl) : \A j \in i .. Len(tl) : c.time[tl[i]] <= c.time[tl[j]]
    BY DEF Planned, Sorted, Timelist
  <2>2. \A i \in 1 .. Len(tl) : \A j \in i .. Len(tl) : j \in 1 .. Len(tl)
    BY <1>3
  <2>3. \A i \in 1 .. Len(tl) : \A j \in i .. Len(tl) : v.time[tl[i]] <= v.time[tl[j]]
    BY <1>5, <2>1, <2>2
  <2> QED
    BY <1>1, <2>3 DEF Sorted, Timelist
<1>7. TailInGroup(v)
  <2>1. CASE tl = <<>>
    BY <1>1, <2>1 DEF TailInGroup, Timelist, Planned
  <2>2. CASE tl # <<>>
    <3>1. c.timelist_currentTail \in Range(tl) /\ c.time[c.timelist_currentTail] = c.time[tl[1]]
      BY <2>2 DEF TailInGroup, Timelist, Planned
    <3>2. PICK p \in 1 .. Len(tl) : c.timelist_currentTail = tl[p]
      BY <1>3, <3>1 DEF Range
    <3>3. v.time[tl[p]] = v.time[tl[1]]
      <4>1. 1 \in 1 .. Len(tl)
        BY <1>3, <2>2
      <4> QED
        BY <1>5, <3>1, <3>2, <4>1
    <3> QED
      BY <1>1, <2>2, <3>1, <3>2, <3>3 DEF TailInGroup, Timelist
  <2> QED
    BY <2>1, <2>2
<1> QED
  BY <1>1, <1>2, <1>5, <1>6, <1>7 DEF Planned

LEMMA AddWhereItIs ==
  ASSUME NEW c \in ListState, NEW s \in SCB, Detached(c, s), NEW l \in Queue, NEW k \in 1 .. Len(c.on[l])
  PROVE  AddAfter(c, l, c.on[l][k], s) = AddSCB(c, l, l, k + 1, s)
<1> DEFINE p == c.on[l][k]
<1>1. \A m \in Queue : DOMAIN c.on[m] = 1 .. Len(c.on[m])
  BY FieldTypes, LenProperties
<1>2. \A m \in Queue : \A i \in 1 .. Len(c.on[m]) : c.list[c.on[m][i]] = m
  BY DEF Detached
<1>3. Distinct(c.on[l])
  BY DEF Detached
<1>4. p \in Range(c.on[l])
  BY <1>1 DEF Range
<1>5. \A m \in Queue : p \in Range(c.on[m]) => m = l
  BY <1>1, <1>2 DEF Range
<1>6. PositionOf(c.on[l], p) = k
  BY <1>1, <1>3 DEF PositionOf, Distinct
<1>7. (CHOOSE m \in Queue : p \in Range(c.on[m])) = l
  BY <1>4, <1>5
<1> HIDE DEF p
<1>8. AddAfter(c, l, p, s) = AddSCB(c, l, l, k + 1, s)
  BY <1>4, <1>6, <1>7 DEF AddAfter
<1> QED
  BY <1>8 DEF p

(* ADD_LIST_SCB(READY_LIST, LAST_SCB(READY_LIST), s).                      *)
LEMMA AppendDetached ==
  ASSUME NEW c \in ListState, NEW s \in SCB, Detached(c, s), Planned(c)
  PROVE  Step(c, AppendReady(c, s), s, "READY", c.time[s])
<1> DEFINE rl == c.on["READY"]
<1>1. /\ "READY" \in Queue /\ rl \in Seq(SCB) /\ Len(rl) \in Nat /\ (rl = <<>> <=> Len(rl) = 0)
      /\ \A i \in 1 .. Len(rl) : rl[i] \in SCB
      /\ c.readylist_last = LastOf(rl)
  BY FieldTypes, EmptySeq DEF Queue, Detached, Readylist
<1>2. AppendReady(c, s) = AddSCB(c, "READY", "READY", Len(rl) + 1, s)
  <2>1. CASE rl = <<>>
    BY <1>1, <2>1 DEF AppendReady, LastOf
  <2>2. CASE rl # <<>>
    <3>1. Len(rl) \in 1 .. Len(rl) /\ c.readylist_last = rl[Len(rl)]
      BY <1>1, <2>2 DEF LastOf
    <3>2. c.readylist_last # NULL
      BY <1>1, <3>1, NullIsNotSCB
    <3>3. AddAfter(c, "READY", rl[Len(rl)], s) = AddSCB(c, "READY", "READY", Len(rl) + 1, s)
      BY <1>1, <3>1, AddWhereItIs
    <3> QED
      BY <3>1, <3>2, <3>3 DEF AppendReady
  <2> QED
    BY <2>1, <2>2
<1> DEFINE v == AddSCB(c, "READY", "READY", Len(rl) + 1, s)
<1>3. v = [v EXCEPT !.netlist_last = IF "READY" = "NET" THEN s ELSE c.netlist_last]
  BY DEF AddSCB, ListState
<1>4. Len(rl) + 1 \in 1 .. Len(rl) + 1
  BY <1>1
<1> HIDE DEF v
<1>5. Step(c, v, s, "READY", c.time[s])
  BY <1>1, <1>3, <1>4, AddThreads DEF v
<1> QED
  BY <1>2, <1>5 DEF v

(* Where the walk along the time list stops.                               *)
LEMMA WalkFacts ==
  ASSUME NEW c \in ListState, Planned(c), NEW t \in Nat, NEW prepend \in BOOLEAN, ~BeforeAll(c, t)
  PROVE  /\ WalkPast(c, t, prepend) \in 1 .. Len(c.on["TIME"]) + 1
         /\ \A i \in 1 .. Len(c.on["TIME"]) :
              IF i < WalkPast(c, t, prepend) THEN c.time[c.on["TIME"][i]] <= t ELSE t <= c.time[c.on["TIME"][i]]
<1> DEFINE tl == c.on["TIME"]
           n == Len(tl)
           time(i) == c.time[tl[i]]
           S == StopsAt(c, t, prepend)
           m == Min(S)
<1>1. tl \in Seq(SCB) /\ n \in Nat /\ n # 0 /\ \A i \in 1 .. n : time(i) \in Nat
  <2>1. tl \in Seq(SCB) /\ n \in Nat /\ tl # <<>>
    BY FieldTypes DEF Queue, BeforeAll, Timelist
  <2>2. \A i \in 1 .. n : time(i) \in Nat
    BY FieldTypes DEF Queue
  <2> QED
    BY <2>1, <2>2, EmptySeq
<1>2. \A i \in 1 .. n : \A j \in i .. n : time(i) <= time(j)
  BY DEF Planned, Sorted, Timelist
<1>3. ~(t < time(1))
  BY DEF BeforeAll, Timelist
<1>4. \A k \in Nat : k \in S <=> k \in 1 .. n /\ (k = n \/ IF prepend THEN t <= time(k + 1) ELSE t < time(k + 1))
  BY <1>1 DEF StopsAt, Timelist
<1>5. S \in SUBSET Nat /\ n \in S
  BY <1>1 DEF StopsAt, Timelist
<1>6. WalkPast(c, t, prepend) = m + 1
  BY DEF WalkPast
<1> HIDE DEF S, n, time, tl
<1>7. m \in S /\ \A k \in S : m <= k
  BY <1>5, MinExists
<1> HIDE DEF m
<1>8. m \in 1 .. n
  BY <1>4, <1>5, <1>7
<1>9. ASSUME NEW i \in 1 .. n PROVE IF i < m + 1 THEN time(i) <= t ELSE t <= time(i)
  <2>1. CASE i = 1
    BY <1>1, <1>3, <1>8, <2>1
  <2>2. CASE i < m + 1 /\ i # 1
    <3>1. i - 1 \in Nat /\ i - 1 \in 1 .. n /\ i - 1 # n /\ ~(m <= i - 1) /\ i - 1 + 1 = i
      BY <1>1, <1>8, <2>2
    <3>2. i - 1 \notin S
      BY <1>7, <3>1
    <3>3. ~(IF prepend THEN t <= time(i - 1 + 1) ELSE t < time(i - 1 + 1))
      BY <1>4, <3>1, <3>2
    <3>4. ~(IF prepend THEN t <= time(i) ELSE t < time(i))
      BY <3>1, <3>3
    <3> QED
      BY <1>1, <2>2, <3>4
  <2>3. CASE ~(i < m + 1)
    <3>1. m + 1 \in 1 .. n /\ i \in m + 1 .. n /\ m # n /\ m \in Nat
      BY <1>1, <1>8, <2>3
    <3>2. IF prepend THEN t <= time(m + 1) ELSE t < time(m + 1)
      BY <1>4, <1>7, <3>1
    <3>3. time(m + 1) <= time(i)
      BY <1>2, <3>1
    <3> QED
      BY <1>1, <2>3, <3>1, <3>2, <3>3
  <2> QED
    BY <2>1, <2>2, <2>3
<1>10. m + 1 \in 1 .. n + 1
  BY <1>1, <1>8
<1> QED
  BY <1>6, <1>9, <1>10 DEF n, tl, time

(* Threading s on the time list, where the walk or the shortcut puts it.   *)
LEMMA AddTimeThreads ==
  ASSUME NEW c \in ListState, NEW s \in SCB, Detached(c, s), Planned(c),
         NEW k \in 1 .. Len(c.on["TIME"]) + 1,
         \A i \in 1 .. Len(c.on["TIME"]) :
           IF i < k THEN c.time[c.on["TIME"][i]] <= c.time[s] ELSE c.time[s] <= c.time[c.on["TIME"][i]]
  PROVE  Step(c, AddSCB(c, "TIME", "TIME", k, s), s, "TIME", c.time[s])
<1> DEFINE v == AddSCB(c, "TIME", "TIME", k, s)
<1>1. v = [v EXCEPT !.netlist_last = IF "TIME" = "NET" THEN s ELSE c.netlist_last]
  BY DEF AddSCB, ListState
<1>2. "TIME" \in Queue
  BY DEF Queue
<1> HIDE DEF v
<1> QED
  BY <1>1, <1>2, AddThreads DEF v

LEMMA AddFirst ==
  ASSUME NEW c \in ListState, NEW s \in SCB, Detached(c, s), Planned(c), BeforeAll(c, c.time[s])
  PROVE  Step(c, AddSCB(c, "TIME", "TIME", 1, s), s, "TIME", c.time[s])
<1> DEFINE tl == c.on["TIME"]
<1>1. Len(tl) \in Nat /\ tl \in Seq(SCB) /\ (tl = <<>> <=> Len(tl) = 0) /\ \A i \in 1 .. Len(tl) : tl[i] \in SCB
  BY FieldTypes, EmptySeq DEF Queue
<1>2. \A i \in 1 .. Len(tl) : \A j \in i .. Len(tl) : c.time[tl[i]] <= c.time[tl[j]]
  BY DEF Planned, Sorted, Timelist
<1>3. tl = <<>> \/ c.time[s] < c.time[tl[1]]
  BY DEF BeforeAll, Timelist
<1>4. c.time[s] \in Nat /\ \A i \in 1 .. Len(tl) : c.time[tl[i]] \in Nat
  BY <1>1, FieldTypes
<1> HIDE DEF tl
<1>5. ASSUME NEW i \in 1 .. Len(tl) PROVE c.time[s] <= c.time[tl[i]]
  <2>1. 1 \in 1 .. Len(tl) /\ i \in 1 .. Len(tl)
    BY <1>1
  <2>2. c.time[tl[1]] <= c.time[tl[i]]
    BY <1>1, <1>2, <2>1
  <2>3. c.time[s] < c.time[tl[1]]
    BY <1>1, <1>3, <2>1
  <2> QED
    BY <1>4, <2>1, <2>2, <2>3
<1>6. 1 \in 1 .. Len(tl) + 1 /\ \A i \in 1 .. Len(tl) :
        IF i < 1 THEN c.time[tl[i]] <= c.time[s] ELSE c.time[s] <= c.time[tl[i]]
  BY <1>1, <1>5
<1> QED
  BY <1>6, AddTimeThreads DEF tl

LEMMA AddWalked ==
  ASSUME NEW c \in ListState, NEW s \in SCB, Detached(c, s), Planned(c), NEW prepend \in BOOLEAN,
         ~BeforeAll(c, c.time[s])
  PROVE  Step(c, AddSCB(c, "TIME", "TIME", WalkPast(c, c.time[s], prepend), s), s, "TIME", c.time[s])
<1>1. c.time[s] \in Nat
  BY FieldTypes
<1> QED
  BY <1>1, WalkFacts, AddTimeThreads

(* dispatcher(TIME_LIST).                                                  *)
LEMMA PutDetached ==
  ASSUME NEW c \in ListState, NEW s \in SCB, Detached(c, s), Planned(c)
  PROVE  Step(c, PutOnTimelist(c, s), s, "TIME", c.time[s])
BY AddFirst, AddWalked DEF PutOnTimelist

(* Schedule and ScheduleDelta64.                                           *)
LEMMA ScheduleSteps ==
  ASSUME NEW c \in ListState, Threads(c), Planned(c), NEW s \in SCB, NEW t \in Nat, NEW prepend \in BOOLEAN,
         c.list[s] = "NET" => s = Netlist(c)[1]
  PROVE  Step(c, Schedule(c, t, s, prepend), s, "TIME", t)
<1> DEFINE u == RemoveSCB([c EXCEPT !.time[s] = t], s)
           v == Schedule(c, t, s, prepend)
           tl == u.on["TIME"]
<1>1. /\ u \in ListState /\ Detached(u, s) /\ Planned(u)
      /\ u.list = c.list /\ u.time = [c.time EXCEPT ![s] = t]
      /\ Unlinked(c.on["READY"], u.on["READY"], s)
  BY RemoveDetaches DEF Queue
<1>2. v = IF BeforeAll(u, t) THEN AddSCB(u, "TIME", "TIME", 1, s)
          ELSE IF ~prepend /\ u.time[u.timelist_currentTail] = t
            THEN AddAfter(u, "TIME", u.timelist_currentTail, s)
          ELSE AddSCB(u, "TIME", "TIME", WalkPast(u, t, prepend), s)
  BY DEF Schedule
<1> HIDE DEF u, v
<1>3. HeadStays(c, u, s)
  BY <1>1, HeadOfRest
<1>4. u.time[s] = t
  BY <1>1, FieldTypes
<1>5. Step(u, v, s, "TIME", t)
  <2>1. CASE BeforeAll(u, t)
    BY <1>1, <1>2, <1>4, <2>1, AddFirst
  <2>2. CASE ~BeforeAll(u, t) /\ ~(~prepend /\ u.time[u.timelist_currentTail] = t)
    <3>1. v = AddSCB(u, "TIME", "TIME", WalkPast(u, u.time[s], prepend), s)
      BY <1>2, <1>4, <2>2
    <3> QED
      BY <1>1, <1>4, <2>2, <3>1, AddWalked
  <2>3. CASE ~BeforeAll(u, t) /\ ~prepend /\ u.time[u.timelist_currentTail] = t
    <3>1. /\ tl \in Seq(SCB) /\ Len(tl) \in Nat /\ DOMAIN tl = 1 .. Len(tl) /\ "TIME" \in Queue
          /\ \A i \in 1 .. Len(tl) : tl[i] \in SCB
      BY <1>1, FieldTypes, LenProperties DEF Queue
    <3>2. tl # <<>>
      BY <2>3 DEF BeforeAll, Timelist
    <3>3. u.timelist_currentTail \in Range(tl) /\ \A i \in 1 .. Len(tl) : \A j \in i .. Len(tl) : u.time[tl[i]] <= u.time[tl[j]]
      BY <1>1, <3>2 DEF Planned, TailInGroup, Sorted, Timelist
    <3> HIDE DEF tl
    <3>4. PICK p \in 1 .. Len(tl) : u.timelist_currentTail = tl[p]
      BY <3>1, <3>3 DEF Range
    <3>5. AddAfter(u, "TIME", tl[p], s) = AddSCB(u, "TIME", "TIME", p + 1, s)
      BY <1>1, <3>1, AddWhereItIs DEF tl
    <3>6. \A i \in 1 .. Len(tl) : IF i < p + 1 THEN u.time[tl[i]] <= t ELSE t <= u.time[tl[i]]
      <4> SUFFICES ASSUME NEW i \in 1 .. Len(tl)
                   PROVE  IF i < p + 1 THEN u.time[tl[i]] <= t ELSE t <= u.time[tl[i]]
        OBVIOUS
      <4>1. u.time[tl[p]] = t
        BY <2>3, <3>4
      <4>2. CASE i < p + 1
        <5>1. p \in i .. Len(tl)
          BY <3>1, <4>2
        <5> QED
          BY <3>3, <4>1, <4>2, <5>1
      <4>3. CASE ~(i < p + 1)
        <5>1. i \in p .. Len(tl)
          BY <3>1, <4>3
        <5> QED
          BY <3>3, <4>1, <4>3, <5>1
      <4> QED
        BY <4>2, <4>3
    <3>7. p + 1 \in 1 .. Len(tl) + 1
      BY <3>1
    <3>8. Step(u, AddSCB(u, "TIME", "TIME", p + 1, s), s, "TIME", u.time[s])
      BY <1>1, <1>4, <3>6, <3>7, AddTimeThreads DEF tl
    <3> QED
      BY <1>2, <1>4, <2>3, <3>4, <3>5, <3>8
  <2> QED
    BY <2>1, <2>2, <2>3
<1> QED
  BY <1>1, <1>3, <1>5, Composed DEF v

(* An SCB that waits or ends is put on a list nobody reads in order.       *)
LEMMA RestSteps ==
  ASSUME NEW c \in ListState, Threads(c), Planned(c), NEW s \in SCB, c.list[s] # "NET", NEW tag \in Resting
  PROVE  Step(c, Rest(RemoveSCB(c, s), tag, s), s, tag, c.time[s])
<1> DEFINE u == RemoveSCB(c, s)
<1>1. /\ u \in ListState /\ Detached(u, s) /\ Planned(u) /\ HeadStays(c, u, s)
      /\ u.list = c.list /\ u.time = [c.time EXCEPT ![s] = c.time[s]]
  BY RemoveKeepsHead
<1> HIDE DEF u
<1>2. u.time[s] = c.time[s] /\ c.time[s] \in Nat
  BY <1>1, FieldTypes
<1>3. Step(u, Rest(u, tag, s), s, tag, c.time[s])
  BY <1>1, <1>2, RestDetached
<1>4. Step(c, Rest(u, tag, s), s, tag, c.time[s])
  BY <1>1, <1>2, <1>3, Composed
<1> QED
  BY <1>4 DEF u

LEMMA RestAgain ==
  ASSUME NEW c \in ListState, Threads(c), Planned(c), NEW s \in SCB, c.list[s] \notin Queue, NEW tag \in Resting
  PROVE  Step(c, Rest(c, tag, s), s, tag, c.time[s])
BY RestingDetached, RestDetached

(* An SCB that waits for a time.                                           *)
LEMMA WaitSteps ==
  ASSUME NEW c \in ListState, Threads(c), Planned(c), NEW s \in SCB, c.list[s] # "NET", NEW t \in Nat
  PROVE  Step(c, PutOnTimelist([RemoveSCB(c, s) EXCEPT !.time[s] = t], s), s, "TIME", t)
<1> DEFINE u == RemoveSCB(c, s)
           v == [u EXCEPT !.time[s] = t]
<1>1. /\ u \in ListState /\ Detached(u, s) /\ Planned(u) /\ HeadStays(c, u, s)
      /\ u.list = c.list /\ u.time = [c.time EXCEPT ![s] = c.time[s]]
  BY RemoveKeepsHead
<1> HIDE DEF u
<1>2. \A i \in 1 .. Len(u.on["TIME"]) : u.on["TIME"][i] # s
  BY <1>1 DEF Detached, Queue
<1>9. v = At(u, s, t)
  BY DEF At
<1> HIDE DEF v
<1>3. /\ v \in ListState /\ Planned(v) /\ v.on = u.on /\ v.list = u.list
      /\ v.time = [u.time EXCEPT ![s] = t] /\ v.time[s] = t
      /\ v.readylist_last = u.readylist_last /\ v.netlist_last = u.netlist_last
  BY <1>1, <1>2, <1>9, Retimed
<1>4. Detached(v, s)
  BY <1>1, <1>3 DEF Detached, Readylist, Netlist
<1>5. HeadStays(c, v, s)
  <2>1. Readylist(v) = Readylist(u)
    BY <1>3 DEF Readylist
  <2> QED
    BY <1>1, <2>1 DEF HeadStays
<1>6. v.list = c.list /\ v.time = [c.time EXCEPT ![s] = t]
  <2>1. c.time \in [SCB -> Nat]
    BY FieldTypes
  <2>2. u.time = [c.time EXCEPT ![s] = c.time[s]] /\ v.time = [u.time EXCEPT ![s] = t]
    BY <1>1, <1>3
  <2>3. v.time = [c.time EXCEPT ![s] = t]
    BY <2>1, <2>2, SetTwice
  <2> QED
    BY <1>1, <1>3, <2>3
<1>7. Step(v, PutOnTimelist(v, s), s, "TIME", t)
  <2>1. v \in ListState /\ Planned(v) /\ v.time[s] = t
    BY <1>3
  <2>2. Step(v, PutOnTimelist(v, s), s, "TIME", v.time[s])
    BY <1>4, <2>1, PutDetached
  <2> QED
    BY <2>1, <2>2
<1>8. Step(c, PutOnTimelist(v, s), s, "TIME", t)
  BY <1>3, <1>5, <1>6, <1>7, Composed
<1> QED
  BY <1>8 DEF v, u

(* An SCB that is notified, or whose time has come.                        *)
LEMMA WakeSteps ==
  ASSUME NEW c \in ListState, Threads(c), Planned(c), NEW s \in SCB, c.list[s] # "NET"
  PROVE  Step(c, AppendReady(RemoveSCB(c, s), s), s, "READY", c.time[s])
<1> DEFINE u == RemoveSCB(c, s)
<1>1. /\ u \in ListState /\ Detached(u, s) /\ Planned(u) /\ HeadStays(c, u, s)
      /\ u.list = c.list /\ u.time = [c.time EXCEPT ![s] = c.time[s]]
  BY RemoveKeepsHead
<1> HIDE DEF u
<1>2. u.time[s] = c.time[s] /\ c.time[s] \in Nat
  BY <1>1, FieldTypes
<1>3. Step(u, AppendReady(u, s), s, "READY", c.time[s])
  BY <1>1, <1>2, AppendDetached
<1>4. Step(c, AppendReady(u, s), s, "READY", c.time[s])
  BY <1>1, <1>2, <1>3, Composed
<1> QED
  BY <1>4 DEF u

LEMMA Listed ==
  ASSUME NEW c \in ListState, Threads(c), NEW l \in Queue
  PROVE  /\ c.on[l] # <<>> => c.on[l][1] \in SCB /\ c.list[c.on[l][1]] = l
         /\ \A s \in SCB : c.list[s] = l => c.on[l] # <<>>
<1>1. c.on[l] \in Seq(SCB) /\ Len(c.on[l]) \in Nat /\ (c.on[l] = <<>> <=> Len(c.on[l]) = 0)
  BY FieldTypes, EmptySeq
<1>2. ASSUME c.on[l] # <<>> PROVE c.on[l][1] \in SCB /\ c.list[c.on[l][1]] = l
  <2>1. 1 \in 1 .. Len(c.on[l])
    BY <1>1, <1>2
  <2> QED
    BY <2>1, FieldTypes DEF Threads, OneListEach
<1>3. ASSUME NEW s \in SCB, c.list[s] = l PROVE c.on[l] # <<>>
  <2>1. PICK i \in 1 .. Len(c.on[l]) : c.on[l][i] = s
    BY <1>3 DEF Threads, OneListEach
  <2> QED
    BY <1>1, <2>1
<1> QED
  BY <1>2, <1>3

LEMMA EarliestFirst ==
  ASSUME NEW c \in ListState, Threads(c), Planned(c), NEW s \in SCB, c.list[s] = "TIME"
  PROVE  c.time[Timelist(c)[1]] <= c.time[s]
<1>1. PICK i \in 1 .. Len(c.on["TIME"]) : c.on["TIME"][i] = s
  BY DEF Threads, OneListEach, Queue
<1>2. 1 \in 1 .. Len(c.on["TIME"]) /\ i \in 1 .. Len(c.on["TIME"])
  BY <1>1, FieldTypes DEF Queue
<1> QED
  BY <1>1, <1>2 DEF Planned, Sorted, Timelist

LEMMA MoveTimeSteps ==
  ASSUME NEW c \in ListState, Threads(c), Planned(c), Timelist(c) # <<>>, NEW s, s = Timelist(c)[1]
  PROVE  s \in SCB /\ c.list[s] = "TIME" /\ Step(c, TimeToReady(c), s, "READY", c.time[s])
<1>1. s \in SCB /\ c.list[s] = "TIME"
  BY Listed DEF Queue, Timelist
<1>2. Step(c, AppendReady(RemoveSCB(c, s), s), s, "READY", c.time[s])
  BY <1>1, WakeSteps
<1> QED
  BY <1>1, <1>2 DEF TimeToReady

(* The loop that drains the net list.                                      *)
LEMMA MoveNetSteps ==
  ASSUME NEW c \in ListState, Threads(c), Planned(c), Netlist(c) # <<>>, NEW s, s = Netlist(c)[1]
  PROVE  s \in SCB /\ c.list[s] = "NET" /\ Step(c, NetToReady(c), s, "READY", c.time[s])
<1>1. s \in SCB /\ c.list[s] = "NET"
  BY Listed DEF Queue, Netlist
<1> DEFINE u == RemoveSCB(c, s)
           v == [u EXCEPT !.netlist_last = IF Netlist(u) = <<>> THEN NULL ELSE @]
<1>2. /\ u \in ListState /\ Detached(u, s) /\ Planned(u) /\ HeadStays(c, u, s)
      /\ u.list = c.list /\ u.time = [c.time EXCEPT ![s] = c.time[s]]
  BY <1>1, RemoveKeepsHead
<1>3. NetToReady(c) = AppendReady(v, s)
  BY DEF NetToReady
<1> HIDE DEF u
<1>4. /\ v \in ListState /\ v.on = u.on /\ v.list = u.list /\ v.time = u.time
      /\ v.readylist_last = u.readylist_last /\ v.timelist_currentTail = u.timelist_currentTail
      /\ Netlist(u) # <<>> => v.netlist_last = u.netlist_last
  BY <1>2 DEF ListState
<1> HIDE DEF v
<1>5. Detached(v, s)
  BY <1>2, <1>4 DEF Detached, Readylist, Netlist
<1>6. Planned(v)
  BY <1>2, <1>4 DEF Planned, TailInGroup, Sorted, Timelist
<1>7. HeadStays(c, v, s)
  <2>1. Readylist(v) = Readylist(u)
    BY <1>4 DEF Readylist
  <2> QED
    BY <1>2, <2>1 DEF HeadStays
<1>8. v.time[s] = c.time[s] /\ c.time[s] \in Nat
  BY <1>1, <1>2, <1>4, FieldTypes
<1>9. Step(v, AppendReady(v, s), s, "READY", c.time[s])
  BY <1>1, <1>4, <1>5, <1>6, <1>8, AppendDetached
<1>10. Step(c, AppendReady(v, s), s, "READY", c.time[s])
  BY <1>1, <1>2, <1>4, <1>7, <1>8, <1>9, Composed
<1> QED
  BY <1>1, <1>3, <1>10

(* The zero-delay branch of ScheduleNet.                                   *)
LEMMA AppendNetSteps ==
  ASSUME NEW c \in ListState, Threads(c), Planned(c), NEW s \in SCB, c.list[s] # "NET", NEW now \in Nat
  PROVE  Step(c, AppendNet(c, now, s), s, "NET", now)
<1> DEFINE u == RemoveSCB(c, s)
           nl == u.on["NET"]
           w == AddSCB(u, "NET", "NET", Len(nl) + 1, s)
           v == [w EXCEPT !.netlist_last = s]
<1>1. /\ u \in ListState /\ Detached(u, s) /\ Planned(u) /\ HeadStays(c, u, s)
      /\ u.list = c.list /\ u.time = [c.time EXCEPT ![s] = c.time[s]]
  BY RemoveKeepsHead
<1>2. LinkNet(c, s) = [(IF Netlist(u) # <<>> THEN AddAfter(u, "NET", u.netlist_last, s)
                        ELSE AddSCB(u, "NET", "NET", 1, s)) EXCEPT !.netlist_last = s]
  BY DEF LinkNet
<1> HIDE DEF u
<1>3. "NET" \in Queue /\ nl \in Seq(SCB) /\ Len(nl) \in Nat /\ (nl = <<>> <=> Len(nl) = 0)
  BY <1>1, FieldTypes, EmptySeq DEF Queue
<1>4. LinkNet(c, s) = v
  <2>1. CASE nl = <<>>
    BY <1>2, <1>3, <2>1 DEF Netlist
  <2>2. CASE nl # <<>>
    <3>1. Len(nl) \in 1 .. Len(nl) /\ u.netlist_last = nl[Len(nl)]
      BY <1>1, <1>3, <2>2 DEF Detached, Netlist, LastOf
    <3>2. AddAfter(u, "NET", nl[Len(nl)], s) = w
      BY <1>1, <1>3, <3>1, AddWhereItIs
    <3> QED
      BY <1>2, <2>2, <3>1, <3>2 DEF Netlist
  <2> QED
    BY <2>1, <2>2
<1>5. Step(u, v, s, "NET", u.time[s])
  <2>1. v = [w EXCEPT !.netlist_last = IF "NET" = "NET" THEN s ELSE u.netlist_last]
    OBVIOUS
  <2>2. Len(nl) + 1 \in 1 .. Len(nl) + 1
    BY <1>3
  <2> HIDE DEF v
  <2> QED
    BY <1>1, <1>3, <2>1, <2>2, AddThreads
<1> HIDE DEF v, w
<1>6. u.time[s] = c.time[s] /\ c.time[s] \in Nat
  BY <1>1, FieldTypes
<1>7. Step(c, v, s, "NET", c.time[s])
  BY <1>1, <1>5, <1>6, Composed
<1>8. /\ v \in ListState /\ Threads(v) /\ Planned(v) /\ HeadStays(c, v, s)
      /\ v.list = [c.list EXCEPT ![s] = "NET"] /\ v.time = [c.time EXCEPT ![s] = c.time[s]]
  BY <1>7 DEF Step
<1> DEFINE x == [v EXCEPT !.time[s] = now]
<1>9. AppendNet(c, now, s) = x
  BY <1>4 DEF AppendNet
<1>10. \A i \in 1 .. Len(v.on["TIME"]) : v.on["TIME"][i] # s
  <2>1. v.list[s] = "NET"
    BY <1>8, FieldTypes
  <2>2. \A i \in 1 .. Len(v.on["TIME"]) : v.list[v.on["TIME"][i]] = "TIME"
    BY <1>8 DEF Threads, OneListEach, Queue
  <2> QED
    BY <2>1, <2>2
<1>11. /\ x \in ListState /\ Planned(x) /\ x.on = v.on /\ x.list = v.list
       /\ x.time = [v.time EXCEPT ![s] = now]
       /\ x.readylist_last = v.readylist_last /\ x.netlist_last = v.netlist_last
  <2>1. x = At(v, s, now)
    BY DEF At
  <2>2. v \in ListState /\ Planned(v)
    BY <1>8
  <2> HIDE DEF x, nl
  <2>3. /\ x \in ListState /\ Planned(x) /\ x.on = v.on /\ x.list = v.list
        /\ x.time = [v.time EXCEPT ![s] = now] /\ x.time[s] = now
        /\ x.readylist_last = v.readylist_last /\ x.netlist_last = v.netlist_last
    BY <1>10, <2>1, <2>2, Retimed
  <2> QED
    BY <2>3
<1> HIDE DEF x
<1>12. Threads(x)
  <2>1. OneListEach(v) /\ v.on = x.on /\ v.list = x.list
    BY <1>8, <1>11 DEF Threads
  <2>2. OneListEach(x)
    BY <2>1 DEF OneListEach
  <2>3. /\ x.readylist_last = LastOf(Readylist(x))
        /\ Netlist(x) # <<>> => x.netlist_last = LastOf(Netlist(x))
    BY <1>8, <1>11 DEF Threads, Readylist, Netlist
  <2> QED
    BY <2>2, <2>3 DEF Threads
<1>13. HeadStays(c, x, s)
  <2>1. Readylist(x) = Readylist(v)
    BY <1>11 DEF Readylist
  <2> QED
    BY <1>8, <2>1 DEF HeadStays
<1>14. x.time = [c.time EXCEPT ![s] = now] /\ x.list = [c.list EXCEPT ![s] = "NET"]
  <2>1. c.time \in [SCB -> Nat]
    BY FieldTypes
  <2>2. v.time = [c.time EXCEPT ![s] = c.time[s]] /\ x.time = [v.time EXCEPT ![s] = now]
    BY <1>8, <1>11
  <2>3. x.time = [c.time EXCEPT ![s] = now]
    BY <2>1, <2>2, SetTwice
  <2>4. x.list = v.list /\ v.list = [c.list EXCEPT ![s] = "NET"]
    BY <1>8, <1>11
  <2> QED
    BY <2>3, <2>4
<1> QED
  BY <1>9, <1>11, <1>12, <1>13, <1>14 DEF Step

ZeroDelay(n) == \A v \in VALUE : NetDelay[n][v] = 0

(* No net is moved from the net list to the time list.  A net that can be, *)
(* leaves netlist_last behind (MCScheduler, run sched_nets).               *)
UniformDelays == \A n \in NET : ZeroDelay(n) \/ \A v \in VALUE : NetDelay[n][v] > 0

-----------------------------------------------------------------------------
(* The inductive invariant.  It speaks of the tags of the SCBs, which say  *)
(* where an SCB is because of Threads.                                     *)

(* What runs next, and when: the SCBs that wait for a time are those that  *)
(* set CurrentTime when they run.                                          *)
Kinds ==
  /\ \A n \in NET : pc[n] = "net"
  /\ \A a \in ASSIGN : pc[a] = "assign"
  /\ \A s \in SCB \ (NET \cup ASSIGN) : pc[s] \notin {"net", "assign"}
  /\ \A s \in SCB : q.list[s] = "TIME" => pc[s] \in Timed
  /\ \A s \in SCB : q.list[s] = "NET" => s \in NET /\ ZeroDelay(s)

(* Stores are made by somebody, and dispatcher puts away whom it should.   *)
Turn ==
  /\ actor # NULL => phase \in {"exec", "gates", "idle", "idleEnd", "final", "finalEnd"}
  /\ walk # <<>> => actor # NULL
  /\ phase = "exec" => actor \in SCB
  /\ phase = "exec" /\ pc[actor] \in {"run", "nba"} => Readylist(q) # <<>> /\ Readylist(q)[1] = actor
  /\ phase = "exec" /\ pc[actor] = "net" /\ retrigger # NULL =>
       Readylist(q) # <<>> /\ Readylist(q)[1] = retrigger /\ ZeroDelay(retrigger)

(* A process is threaded once on every variable it waits on.               *)
ChainedOnce == \A e \in EVENT : Distinct(chain[e])

(* What is said of time holds until a final strobe is late.                *)
Ahead ==
  ~late =>
    /\ \A s \in SCB : q.list[s] = "TIME" => q.time[s] >= CurrentTime
    /\ \A s \in SCB : q.list[s] = "NET" => q.time[s] = CurrentTime
    /\ \A g \in GATE : gateTime[g] # NONE => gateTime[g] >= CurrentTime

(* Between AdvanceToTimelist and the first SCB that runs at the new time,  *)
(* CurrentTime is still the old one.                                       *)
Moved ==
  /\ phase \in {"move", "go"} /\ actor = NULL /\ idle = {} /\ batch = {}
  /\ \E s \in SCB : q.list[s] = "READY"
  /\ \A s \in SCB : q.list[s] = "READY" => pc[s] \in Timed /\ q.time[s] = new_time
  /\ \A s \in SCB : q.list[s] # "NET"
  /\ \A s \in SCB : q.list[s] = "TIME" => q.time[s] >= new_time
  /\ \A g \in GATE : gateTime[g] # NONE => gateTime[g] >= new_time
NotMoved == phase # "move" /\ \A s \in SCB : q.list[s] = "READY" /\ pc[s] \in Timed => q.time[s] = CurrentTime
Present == ~late => IF new_time > CurrentTime THEN Moved ELSE NotMoved

(* The last part of the loop runs only while something is planned, and     *)
(* its end only when nothing is left to do at this time.                   *)
Busy == ~late /\ phase \in {"now1", "idle", "now2", "final", "advance"} => \E s \in SCB : q.list[s] \in Queue
Over ==
  ~late /\ phase \in {"final", "advance"} =>
    /\ idle = {} /\ (phase = "advance" => actor = NULL /\ batch = {})
    /\ \A s \in SCB : q.list[s] \notin {"READY", "NET"}
    /\ \A s \in SCB : q.list[s] = "TIME" => q.time[s] > CurrentTime
    /\ \A g \in GATE : gateTime[g] # NONE => gateTime[g] > CurrentTime

IInv ==
  /\ TypeOK /\ Threads(q) /\ Planned(q)
  /\ Kinds /\ Turn /\ ChainedOnce /\ WaitersThreaded
  /\ Ahead /\ Present /\ Busy /\ Over

-----------------------------------------------------------------------------
(* What the invariant says of the lists, in the words of the tags.         *)

LEMMA StepFacts ==
  ASSUME NEW p \in ListState, NEW v, NEW s \in SCB, NEW tag, NEW t, Step(p, v, s, tag, t)
  PROVE  /\ v \in ListState /\ Threads(v) /\ Planned(v) /\ HeadStays(p, v, s)
         /\ v.list[s] = tag /\ v.time[s] = t
         /\ \A r \in SCB : r # s => v.list[r] = p.list[r] /\ v.time[r] = p.time[r]
BY FieldTypes DEF Step

LEMMA ListTypes ==
  ASSUME IInv
  PROVE  /\ q \in ListState /\ Threads(q) /\ Planned(q)
         /\ q.list \in [SCB -> Tag] /\ q.time \in [SCB -> Nat]
         /\ \A s \in SCB : q.list[s] \in Tag /\ q.time[s] \in Nat /\ q.time[s] <= MaxTime
         /\ CurrentTime \in Nat /\ CurrentTime <= MaxTime /\ new_time \in Nat
         /\ MaxTime \in Nat
         /\ \A g \in GATE : gateTime[g] # NONE => gateTime[g] \in Nat /\ gateTime[g] <= MaxTime
         /\ pc \in [SCB -> Statement]
BY FieldTypes, DesignAssumption DEF IInv, TypeOK, Times

LEMMA Heads ==
  ASSUME IInv
  PROVE  /\ Readylist(q) # <<>> => Readylist(q)[1] \in SCB /\ q.list[Readylist(q)[1]] = "READY"
         /\ Netlist(q) # <<>> => Netlist(q)[1] \in SCB /\ q.list[Netlist(q)[1]] = "NET"
         /\ Timelist(q) # <<>> => /\ Timelist(q)[1] \in SCB /\ q.list[Timelist(q)[1]] = "TIME"
                                  /\ \A s \in SCB : q.list[s] = "TIME" => q.time[Timelist(q)[1]] <= q.time[s]
         /\ \A s \in SCB : /\ q.list[s] = "READY" => Readylist(q) # <<>>
                           /\ q.list[s] = "NET" => Netlist(q) # <<>>
                           /\ q.list[s] = "TIME" => Timelist(q) # <<>>
<1>1. q \in ListState /\ Threads(q) /\ Planned(q)
  BY DEF IInv, TypeOK
<1>2. "READY" \in Queue /\ "NET" \in Queue /\ "TIME" \in Queue
  BY DEF Queue
<1> QED
  BY <1>1, <1>2, Listed, EarliestFirst DEF Readylist, Netlist, Timelist

LEMMA DesignFacts ==
  /\ NET \subseteq SCB /\ ASSIGN \subseteq SCB /\ PROC \subseteq SCB
  /\ NET \cap ASSIGN = {} /\ PROC \cap NET = {} /\ PROC \cap ASSIGN = {}
  /\ SCB \cap GATE = {} /\ SCB \cap MONITOR = {} /\ NULL \notin GATE /\ NULL \notin MONITOR /\ NULL \notin SCB
  /\ \A n \in NET, v \in VALUE : NetDelay[n][v] \in Nat
  /\ \A a \in ASSIGN, v \in VALUE : AssignDelay[a][v] \in Nat
  /\ \A d \in DELAYS : d \in Nat
  /\ NONE \notin Nat /\ MaxTime \in Nat
<1>1. PROC \subseteq SCB
  BY DesignAssumption, LenProperties DEF PROC, Range
<1>2. \A n \in NET, v \in VALUE : NetDelay[n][v] \in Nat
  BY DesignAssumption
<1>3. \A a \in ASSIGN, v \in VALUE : AssignDelay[a][v] \in Nat
  BY DesignAssumption
<1> QED
  BY <1>1, <1>2, <1>3, DesignAssumption, NullIsNotSCB

(* Whoever stores, time stands still.                                      *)
LEMMA StoringNow ==
  ASSUME IInv, actor # NULL
  PROVE  /\ ~late => NotMoved /\ ~(new_time > CurrentTime)
         /\ phase \in {"exec", "gates", "idle", "idleEnd", "final", "finalEnd"}
         /\ phase \notin {"advance", "now1", "now2", "go", "move"}
BY DEF IInv, Turn, Present, Moved

-----------------------------------------------------------------------------
(* s is threaded anew while somebody stores.                               *)

LEMMA Replanned ==
  ASSUME IInv, actor # NULL,
         NEW s \in SCB, NEW tag \in Queue, NEW t \in Nat, t <= MaxTime, NEW w \in Statement,
         Step(q, q', s, tag, t), pc' = [pc EXCEPT ![s] = w],
         tag = "TIME" => t >= CurrentTime /\ w \in Timed,
         tag = "NET" => t = CurrentTime /\ s \in NET /\ ZeroDelay(s),
         tag = "READY" /\ w \in Timed => t = CurrentTime,
         s \in NET => w = "net", s \in ASSIGN => w = "assign",
         s \notin NET \cup ASSIGN => w \notin {"net", "assign"},
         w = pc[s] \/ s # actor,
         phase = "exec" /\ pc[actor] \in {"run", "nba"} => s # actor,
         phase = "exec" /\ pc[actor] = "net" /\ retrigger' # NULL =>
           s # retrigger' /\ Readylist(q) # <<>> /\ Readylist(q)[1] = retrigger' /\ ZeroDelay(retrigger'),
         walk' # <<>> => walk # <<>>,
         late => late', phase \in FinalPass /\ ~late' => tag = "TIME" /\ t > CurrentTime,
         UNCHANGED <<CurrentTime, phase, actor, new_time, gateTime, idle>>
  PROVE  /\ q' \in ListState /\ \A r \in SCB : q'.time[r] <= MaxTime
         /\ pc' \in [SCB -> Statement]
         /\ Threads(q') /\ Planned(q') /\ Kinds' /\ Turn' /\ Ahead' /\ Present' /\ Busy' /\ Over'
<1>1. /\ q' \in ListState /\ Threads(q') /\ Planned(q') /\ HeadStays(q, q', s)
      /\ q'.list[s] = tag /\ q'.time[s] = t
      /\ \A r \in SCB : r # s => q'.list[r] = q.list[r] /\ q'.time[r] = q.time[r]
  <2>1. q \in ListState
    BY ListTypes
  <2> QED
    BY <2>1, StepFacts
<1>2. pc' \in [SCB -> Statement] /\ pc'[s] = w /\ \A r \in SCB : r # s => pc'[r] = pc[r]
  BY ListTypes
<1>3. \A r \in SCB : q'.time[r] <= MaxTime
  BY <1>1, ListTypes
<1>4. Kinds'
  <2>1. \A r \in SCB : r \in NET => pc'[r] = "net"
    BY <1>2, DesignFacts DEF IInv, Kinds
  <2>2. \A r \in SCB : r \in ASSIGN => pc'[r] = "assign"
    BY <1>2, DesignFacts DEF IInv, Kinds
  <2>3. \A r \in SCB \ (NET \cup ASSIGN) : pc'[r] \notin {"net", "assign"}
    BY <1>2 DEF IInv, Kinds
  <2>4. \A r \in SCB : q'.list[r] = "TIME" => pc'[r] \in Timed
    BY <1>1, <1>2 DEF IInv, Kinds
  <2>5. \A r \in SCB : q'.list[r] = "NET" => r \in NET /\ ZeroDelay(r)
    BY <1>1, <1>2 DEF IInv, Kinds
  <2> QED
    BY <2>1, <2>2, <2>3, <2>4, <2>5, DesignFacts DEF Kinds
<1>5. Turn'
  BY <1>1, <1>2 DEF IInv, Turn, HeadStays
<1>6. Ahead'
  BY <1>1 DEF IInv, Ahead
<1>7. Present'
  BY <1>1, <1>2, StoringNow DEF Present, NotMoved
<1>8. Busy' /\ Over'
  BY <1>1, StoringNow DEF IInv, Busy, Over, FinalPass
<1> QED
  BY <1>1, <1>2, <1>3, <1>4, <1>5, <1>6, <1>7, <1>8

-----------------------------------------------------------------------------
(* The stores.                                                             *)

(* Nobody who waits is threaded anew, and no variable is waited on.        *)
LEMMA StillWaiting ==
  ASSUME IInv, NEW s \in SCB, q.list[s] # "EVENT", pc[s] # "event" \/ walk = <<>>, NEW tag, tag # "EVENT", NEW t, NEW w,
         Step(q, q', s, tag, t), pc' = [pc EXCEPT ![s] = w], UNCHANGED <<chain, walk>>
  PROVE  ChainedOnce' /\ WaitersThreaded'
<1>9. /\ q'.list[s] = tag
      /\ \A r \in SCB : r # s => q'.list[r] = q.list[r] /\ pc'[r] = pc[r]
  <2>1. q \in ListState /\ pc \in [SCB -> Statement]
    BY ListTypes
  <2>2. q'.list[s] = tag /\ \A r \in SCB : r # s => q'.list[r] = q.list[r]
    BY <2>1, StepFacts
  <2>3. \A r \in SCB : r # s => pc'[r] = pc[r]
    BY <2>1
  <2> QED
    BY <2>2, <2>3
<1>1. ChainedOnce'
  BY DEF IInv, ChainedOnce, Distinct
<1>2. /\ \A r \in SCB : q.list[r] = "EVENT" => \E e \in EVENT : r \in Range(chain[e])
      /\ \A e \in EVENT : \A r \in Range(chain[e]) : q.list[r] = "EVENT" /\ pc[r] = "event"
      /\ \A r \in Range(walk) : q.list[r] \in {"EVENT", "READY"} /\ pc[r] = "event"
  BY DEF IInv, WaitersThreaded
<1>3. \A e \in EVENT : \A r \in Range(chain[e]) : r \in SCB
  BY DEF IInv, TypeOK, Range
<1>4. \A r \in Range(walk) : r \in SCB
  BY DEF IInv, TypeOK, Range
<1>5. \A r \in SCB : q'.list[r] = "EVENT" => \E e \in EVENT : r \in Range(chain'[e])
  BY <1>9, <1>2
<1>6. \A e \in EVENT : \A r \in Range(chain'[e]) : q'.list[r] = "EVENT" /\ pc'[r] = "event"
  BY <1>9, <1>2, <1>3
<1>7. \A r \in Range(walk') : q'.list[r] \in {"EVENT", "READY"} /\ pc'[r] = "event"
  <2>1. \A r \in Range(walk) : r # s
    <3>1. walk = <<>> => \A r \in Range(walk) : FALSE
      BY DEF Range
    <3> QED
      BY <1>2, <3>1
  <2> QED
    BY <1>9, <1>2, <1>4, <2>1
<1> QED
  BY <1>1, <1>5, <1>6, <1>7 DEF WaitersThreaded

LEMMA ScheduleNetKeeps ==
  ASSUME UniformDelays, IInv, NEW n \in NET, NEW v \in VALUE, ScheduleNet(n, v)
  PROVE  IInv'
<1> DEFINE delay == NetDelay[n][v]
<1>1. /\ delay \in Nat /\ n \in SCB /\ pc[n] = "net" /\ pc[n] \in Statement /\ "net" \in Timed
      /\ n \notin ASSIGN /\ "TIME" \in Queue /\ "NET" \in Queue
      /\ (delay > 0 => ~ZeroDelay(n)) /\ (~(delay > 0) => delay = 0 /\ ZeroDelay(n))
  <2>1. delay \in Nat /\ n \in SCB /\ n \notin ASSIGN
    BY DesignFacts
  <2>2. pc[n] = "net" /\ pc[n] \in Statement /\ "net" \in Timed /\ "TIME" \in Queue /\ "NET" \in Queue
    BY DEF IInv, Kinds, Statement, Timed, Queue
  <2> QED
    BY <2>1, <2>2 DEF UniformDelays, ZeroDelay
<1>2. /\ actor # NULL /\ After(delay) \in Nat /\ After(delay) >= CurrentTime /\ After(delay) <= MaxTime
      /\ steps' \in Nat
      /\ retrigger' = IF delay = 0 /\ RunningNet(n) THEN n ELSE retrigger
      /\ q' = IF delay > 0 THEN Schedule(q, After(delay), n, FALSE)
              ELSE IF RunningNet(n) \/ q.list[n] = "NET" THEN q
              ELSE AppendNet(q, CurrentTime, n)
      /\ late' \in BOOLEAN /\ (late => late') /\ (delay > 0 => After(delay) > CurrentTime)
      /\ phase \in FinalPass /\ ~late' => delay > 0
      /\ UNCHANGED <<CurrentTime, pc, phase, actor, new_time, chain, walk, gateTime, idle, final, batch>>
  <2>1. late' \in BOOLEAN /\ (late => late') /\ (phase \in FinalPass /\ ~late' => delay # 0)
    BY DEF ScheduleNet, LateIf, IInv, TypeOK
  <2>2. steps' \in Nat
    BY DEF ScheduleNet, Storing, IInv, TypeOK
  <2>3. /\ actor # NULL /\ After(delay) <= MaxTime
        /\ retrigger' = IF delay = 0 /\ RunningNet(n) THEN n ELSE retrigger
        /\ q' = IF delay > 0 THEN Schedule(q, After(delay), n, FALSE)
                ELSE IF RunningNet(n) \/ q.list[n] = "NET" THEN q
                ELSE AppendNet(q, CurrentTime, n)
        /\ UNCHANGED <<CurrentTime, pc, phase, actor, new_time, chain, walk, gateTime, idle, final, batch>>
    BY DEF ScheduleNet, Storing, waiting, strobes
  <2>4. After(delay) \in Nat /\ After(delay) >= CurrentTime /\ (delay > 0 => After(delay) > CurrentTime)
    BY <1>1, ListTypes DEF After
  <2> HIDE DEF delay
  <2>5. phase \in FinalPass /\ ~late' => delay > 0
    BY <1>1, <2>1
  <2> QED
    BY <2>1, <2>2, <2>3, <2>4, <2>5
<1> HIDE DEF delay
<1>3. retrigger' \in NET \cup {NULL}
  BY <1>2 DEF IInv, TypeOK
<1>4. pc' = [pc EXCEPT ![n] = pc[n]]
  BY <1>2, ListTypes
<1>5. q.list[n] # "EVENT"
  BY <1>1 DEF IInv, WaitersThreaded, TypeOK, Range
<1>6. phase = "exec" /\ pc[actor] = "net" /\ retrigger' # NULL =>
        Readylist(q) # <<>> /\ Readylist(q)[1] = retrigger' /\ ZeroDelay(retrigger')
  BY <1>1, <1>2 DEF IInv, Turn, RunningNet
<1>7. phase = "exec" /\ pc[actor] \in {"run", "nba"} => n # actor
  BY <1>1
<1>8. CASE delay > 0
  <2>1. Step(q, Schedule(q, After(delay), n, FALSE), n, "TIME", After(delay))
    <3>1. q.list[n] # "NET"
      BY <1>1, <1>8 DEF IInv, Kinds
    <3> QED
      BY <1>1, <1>2, <3>1, ListTypes, ScheduleSteps
  <2>2. Step(q, q', n, "TIME", After(delay))
    BY <1>2, <1>8, <2>1
  <2>3. /\ q' \in ListState /\ \A r \in SCB : q'.time[r] <= MaxTime
        /\ pc' \in [SCB -> Statement]
        /\ Threads(q') /\ Planned(q') /\ Kinds' /\ Turn' /\ Ahead' /\ Present' /\ Busy' /\ Over'
    BY <1>1, <1>2, <1>4, <1>6, <1>7, <1>8, <2>2, Replanned
  <2>4. ChainedOnce' /\ WaitersThreaded'
    BY <1>1, <1>2, <1>4, <1>5, <2>2, StillWaiting
  <2> QED
    BY <1>2, <1>3, <2>3, <2>4 DEF IInv, TypeOK
<1>9. CASE ~(delay > 0) /\ ~(RunningNet(n) \/ q.list[n] = "NET")
  <2>1. Step(q, AppendNet(q, CurrentTime, n), n, "NET", CurrentTime)
    BY <1>1, <1>9, ListTypes, AppendNetSteps
  <2>2. Step(q, q', n, "NET", CurrentTime)
    BY <1>2, <1>9, <2>1
  <2>3. /\ q' \in ListState /\ \A r \in SCB : q'.time[r] <= MaxTime
        /\ pc' \in [SCB -> Statement]
        /\ Threads(q') /\ Planned(q') /\ Kinds' /\ Turn' /\ Ahead' /\ Present' /\ Busy' /\ Over'
    <3>1. phase = "exec" /\ pc[actor] = "net" /\ retrigger' # NULL => n # retrigger'
      BY <1>6, <1>9 DEF RunningNet
    <3> QED
      BY <1>1, <1>2, <1>4, <1>6, <1>7, <1>9, <2>2, <3>1, ListTypes, Replanned
  <2>4. ChainedOnce' /\ WaitersThreaded'
    BY <1>1, <1>2, <1>4, <1>5, <2>2, StillWaiting
  <2> QED
    BY <1>2, <1>3, <2>3, <2>4 DEF IInv, TypeOK
<1>10. CASE ~(delay > 0) /\ (RunningNet(n) \/ q.list[n] = "NET")
  <2>1. q' = q
    BY <1>2, <1>10
  <2>2. Turn'
    BY <1>2, <1>6, <2>1 DEF IInv, Turn
  <2>3. TypeOK' /\ Threads(q') /\ Planned(q')
    BY <1>2, <1>3, <2>1 DEF IInv, TypeOK
  <2>4. Kinds' /\ ChainedOnce' /\ WaitersThreaded'
    BY <1>2, <2>1 DEF IInv, Kinds, ChainedOnce, WaitersThreaded
  <2>5. Ahead' /\ Present'
    BY <1>2, <2>1 DEF IInv, Ahead, Present, Moved, NotMoved
  <2>6. Busy' /\ Over'
    BY <1>2, <2>1 DEF IInv, Busy, Over
  <2> QED
    BY <2>2, <2>3, <2>4, <2>5, <2>6 DEF IInv
<1> QED
  BY <1>8, <1>9, <1>10

LEMMA ScheduleAssignKeeps ==
  ASSUME IInv, NEW a \in ASSIGN, NEW v \in VALUE, ScheduleAssign(a, v)
  PROVE  IInv'
<1> DEFINE t == After(AssignDelay[a][v])
<1>1. /\ AssignDelay[a][v] \in Nat /\ a \in SCB /\ pc[a] = "assign" /\ pc[a] \in Statement
      /\ pc[a] \in Timed /\ a \notin NET /\ "TIME" \in Queue
  BY DesignFacts DEF IInv, Kinds, Statement, Timed, Queue
<1>2. /\ actor # NULL /\ t \in Nat /\ t >= CurrentTime /\ t <= MaxTime
      /\ steps' \in Nat
      /\ q' = Schedule(q, t, a, TRUE)
      /\ late' \in BOOLEAN /\ (late => late') /\ (phase \in FinalPass /\ ~late' => t > CurrentTime)
      /\ UNCHANGED <<CurrentTime, pc, phase, actor, retrigger, new_time, chain, walk, gateTime, idle, final, batch>>
  <2>1. steps' \in Nat
    BY DEF ScheduleAssign, Storing, IInv, TypeOK
  <2>2. t \in Nat /\ t >= CurrentTime
    BY <1>1, ListTypes DEF After
  <2>3. late' \in BOOLEAN /\ (late => late') /\ (phase \in FinalPass /\ ~late' => t # CurrentTime)
    BY DEF ScheduleAssign, LateIf, IInv, TypeOK
  <2> QED
    BY <2>1, <2>2, <2>3, ListTypes DEF ScheduleAssign, Storing, waiting, strobes
<1> HIDE DEF t
<1>3. pc' = [pc EXCEPT ![a] = pc[a]]
  BY <1>2, ListTypes
<1>4. q.list[a] # "EVENT" /\ q.list[a] # "NET"
  BY <1>1 DEF IInv, WaitersThreaded, TypeOK, Range, Kinds
<1>5. phase = "exec" /\ pc[actor] = "net" /\ retrigger' # NULL =>
        a # retrigger' /\ Readylist(q) # <<>> /\ Readylist(q)[1] = retrigger' /\ ZeroDelay(retrigger')
  BY <1>1, <1>2 DEF IInv, Turn, TypeOK
<1>6. phase = "exec" /\ pc[actor] \in {"run", "nba"} => a # actor
  BY <1>1
<1>7. Step(q, q', a, "TIME", t)
  BY <1>1, <1>2, <1>4, ListTypes, ScheduleSteps
<1>8. /\ q' \in ListState /\ \A r \in SCB : q'.time[r] <= MaxTime
      /\ pc' \in [SCB -> Statement]
      /\ Threads(q') /\ Planned(q') /\ Kinds' /\ Turn' /\ Ahead' /\ Present' /\ Busy' /\ Over'
  BY <1>1, <1>2, <1>3, <1>5, <1>6, <1>7, Replanned
<1>9. ChainedOnce' /\ WaitersThreaded'
  BY <1>1, <1>2, <1>3, <1>4, <1>7, StillWaiting
<1> QED
  BY <1>2, <1>8, <1>9 DEF IInv, TypeOK

LEMMA ScheduleGateKeeps ==
  ASSUME IInv, NEW g \in GATE, NEW d \in DELAYS, ScheduleGate(g, d)
  PROVE  IInv'
<1>1. /\ actor # NULL /\ steps' \in Nat
      /\ gateTime' = [gateTime EXCEPT ![g] = After(d)]
      /\ late' \in BOOLEAN /\ (late => late') /\ (phase \in FinalPass /\ ~late' => d # 0)
      /\ UNCHANGED <<q, CurrentTime, pc, phase, actor, retrigger, new_time, chain, walk, idle, final, batch>>
  <2>1. late' \in BOOLEAN /\ (late => late') /\ (phase \in FinalPass /\ ~late' => d # 0)
    BY DEF ScheduleGate, LateIf, IInv, TypeOK
  <2>2. steps' \in Nat
    BY DEF ScheduleGate, Storing, IInv, TypeOK
  <2> QED
    BY <2>1, <2>2 DEF ScheduleGate, Storing, waiting, strobes
<1>2. /\ After(d) \in Nat /\ After(d) >= CurrentTime /\ After(d) \in Times
      /\ d # 0 => After(d) > CurrentTime
  BY DesignFacts, ListTypes DEF After, ScheduleGate, Times
<1>3. gateTime \in [GATE -> Times \cup {NONE}]
  BY DEF IInv, TypeOK
<1>4. gateTime' \in [GATE -> Times \cup {NONE}]
  BY <1>1, <1>2, <1>3
<1>5. gateTime'[g] = After(d) /\ \A h \in GATE : h # g => gateTime'[h] = gateTime[h]
  BY <1>1, <1>3
<1>6. TypeOK'
  BY <1>1, <1>4 DEF IInv, TypeOK
<1>7. Ahead'
  BY <1>1, <1>2, <1>5 DEF IInv, Ahead
<1>8. Present' /\ Over'
  BY <1>1, <1>2, <1>5, StoringNow DEF IInv, Present, NotMoved, Over, FinalPass
<1>9. Threads(q') /\ Planned(q') /\ Kinds' /\ Turn' /\ ChainedOnce' /\ WaitersThreaded' /\ Busy'
  BY <1>1 DEF IInv, Kinds, Turn, ChainedOnce, WaitersThreaded, Busy
<1> QED
  BY <1>6, <1>7, <1>8, <1>9 DEF IInv

LEMMA TickleKeeps ==
  ASSUME IInv, NEW m \in MONITOR, TickleIdle(m) \/ TickleFinal(m)
  PROVE  IInv'
<1>1. /\ actor # NULL /\ steps' \in Nat /\ idle' \subseteq MONITOR /\ final' \subseteq MONITOR
      /\ late' \in BOOLEAN /\ (late => late') /\ (phase \in FinalPass /\ ~late' => idle' = idle)
      /\ UNCHANGED <<q, CurrentTime, pc, phase, actor, retrigger, new_time, chain, walk, gateTime, batch>>
  <2>1. CASE TickleIdle(m)
    <3>1. late' \in BOOLEAN /\ (late => late') /\ ~(phase \in FinalPass /\ ~late')
      BY <2>1 DEF TickleIdle, LateIf, IInv, TypeOK
    <3>2. steps' \in Nat /\ idle' \subseteq MONITOR /\ final' \subseteq MONITOR
      BY <2>1 DEF TickleIdle, Storing, IInv, TypeOK
    <3> QED
      BY <2>1, <3>1, <3>2 DEF TickleIdle, Storing, waiting
  <2>2. CASE TickleFinal(m)
    <3>1. late' \in BOOLEAN /\ (late => late')
      BY <2>2 DEF TickleFinal, IInv, TypeOK
    <3>2. steps' \in Nat /\ idle' \subseteq MONITOR /\ final' \subseteq MONITOR
      BY <2>2 DEF TickleFinal, Storing, IInv, TypeOK
    <3> QED
      BY <2>2, <3>1, <3>2 DEF TickleFinal, Storing, waiting
  <2> QED
    BY <2>1, <2>2
<1>2. TypeOK'
  BY <1>1 DEF IInv, TypeOK
<1>3. Present' /\ Over'
  BY <1>1, StoringNow DEF IInv, Present, NotMoved, Over, FinalPass
<1>4. Threads(q') /\ Planned(q') /\ Kinds' /\ Turn' /\ ChainedOnce' /\ WaitersThreaded' /\ Ahead' /\ Busy'
  BY <1>1 DEF IInv, Kinds, Turn, ChainedOnce, WaitersThreaded, Ahead, Busy
<1> QED
  BY <1>2, <1>3, <1>4 DEF IInv

LEMMA NotifyEventKeeps ==
  ASSUME IInv, NEW e \in EVENT, NotifyEvent(e)
  PROVE  IInv'
<1>1. /\ actor # NULL /\ steps' \in Nat /\ walk' = chain[e] \o walk
      /\ UNCHANGED <<q, CurrentTime, pc, phase, actor, retrigger, new_time, chain, gateTime, idle, final, batch, late>>
  BY DEF NotifyEvent, Storing, strobes, IInv, TypeOK
<1>2. chain[e] \in Seq(SCB) /\ walk \in Seq(SCB)
  BY DEF IInv, TypeOK
<1>3. walk' \in Seq(SCB) /\ \A r \in Range(walk') : r \in Range(chain[e]) \/ r \in Range(walk)
  <2> DEFINE a == chain[e]
             b == walk
             c == a \o b
  <2>1. /\ Len(a) \in Nat /\ Len(b) \in Nat /\ DOMAIN a = 1 .. Len(a) /\ DOMAIN b = 1 .. Len(b)
    BY <1>2, LenProperties
  <2>2. /\ c \in Seq(SCB) /\ Len(c) = Len(a) + Len(b)
        /\ \A i \in 1 .. Len(a) : c[i] = a[i]
        /\ \A i \in Len(a) + 1 .. Len(a) + Len(b) : c[i] = b[i - Len(a)]
    <3> HIDE DEF a, b
    <3>1. a \in Seq(SCB) /\ b \in Seq(SCB)
      BY <1>2 DEF a, b
    <3> QED
      BY <2>1, <3>1, Concat
  <2>3. DOMAIN c = 1 .. Len(a) + Len(b)
    BY <2>2, LenProperties
  <2>4. walk' = c
    BY <1>1
  <2> HIDE DEF a, b, c
  <2>5. ASSUME NEW i \in 1 .. Len(a) + Len(b) PROVE c[i] \in Range(a) \/ c[i] \in Range(b)
    <3>1. CASE i <= Len(a)
      BY <2>1, <2>2, <3>1 DEF Range
    <3>2. CASE ~(i <= Len(a))
      <4>1. i \in Len(a) + 1 .. Len(a) + Len(b) /\ i - Len(a) \in 1 .. Len(b)
        BY <2>1, <3>2
      <4> QED
        BY <2>1, <2>2, <4>1 DEF Range
    <3> QED
      BY <3>1, <3>2
  <2>6. \A r \in Range(c) : r \in Range(a) \/ r \in Range(b)
    BY <2>3, <2>5 DEF Range
  <2> QED
    BY <2>2, <2>4, <2>6 DEF a, b
<1>4. WaitersThreaded'
  BY <1>1, <1>3 DEF IInv, WaitersThreaded
<1>5. TypeOK'
  BY <1>1, <1>3 DEF IInv, TypeOK
<1>6. Present' /\ Over' /\ Turn'
  BY <1>1, StoringNow DEF Present, NotMoved, Over, IInv, Turn
<1>7. Threads(q') /\ Planned(q') /\ Kinds' /\ ChainedOnce' /\ Ahead' /\ Busy'
  BY <1>1 DEF IInv, Kinds, ChainedOnce, Ahead, Busy
<1> QED
  BY <1>4, <1>5, <1>6, <1>7 DEF IInv

(* A process that is woken waits on nothing any more.                      *)
LEMMA UnthreadFacts ==
  ASSUME IInv, NEW s
  PROVE  /\ Unthread(s) \in [EVENT -> Seq(SCB)]
         /\ \A e \in EVENT : /\ Distinct(Unthread(s)[e]) /\ s \notin Range(Unthread(s)[e])
                             /\ \A r : r # s => (r \in Range(Unthread(s)[e]) <=> r \in Range(chain[e]))
<1> SUFFICES ASSUME NEW e \in EVENT
             PROVE  /\ Unlink(chain[e], s) \in Seq(SCB)
                    /\ Distinct(Unlink(chain[e], s)) /\ s \notin Range(Unlink(chain[e], s))
                    /\ \A r : r # s => (r \in Range(Unlink(chain[e], s)) <=> r \in Range(chain[e]))
  BY DEF Unthread
<1> DEFINE a == chain[e]
           u == Unlink(a, s)
<1>1. a \in Seq(SCB) /\ Distinct(a)
  BY DEF IInv, TypeOK, ChainedOnce
<1> HIDE DEF a
<1>2. u \in Seq(SCB) /\ Unlinked(a, u, s)
  BY <1>1, UnlinkFacts
<1> HIDE DEF u
<1>3. DOMAIN a = 1 .. Len(a) /\ DOMAIN u = 1 .. Len(u)
  BY <1>1, <1>2, LenProperties
<1>4. Distinct(u) /\ \A i \in 1 .. Len(u) : u[i] # s
  BY <1>2 DEF Unlinked
<1>5. \A i \in 1 .. Len(u) : \E j \in 1 .. Len(a) : u[i] = a[j]
  BY <1>2 DEF Unlinked
<1>6. \A j \in 1 .. Len(a) : a[j] # s => \E i \in 1 .. Len(u) : u[i] = a[j]
  BY <1>2 DEF Unlinked
<1>7. s \notin Range(u)
  BY <1>3, <1>4 DEF Range
<1>8. ASSUME NEW r, r # s PROVE r \in Range(u) <=> r \in Range(a)
  <2>1. ASSUME r \in Range(u) PROVE r \in Range(a)
    BY <1>3, <1>5, <2>1 DEF Range
  <2>2. ASSUME r \in Range(a) PROVE r \in Range(u)
    <3>1. PICK j \in 1 .. Len(a) : r = a[j]
      BY <1>3, <2>2 DEF Range
    <3>2. PICK i \in 1 .. Len(u) : u[i] = a[j]
      BY <1>6, <1>8, <3>1
    <3> QED
      BY <1>3, <3>1, <3>2 DEF Range
  <2> QED
    BY <2>1, <2>2
<1> QED
  BY <1>2, <1>4, <1>7, <1>8 DEF a, u

LEMMA NotifyNextKeeps ==
  ASSUME IInv, NEW test \in BOOLEAN, NotifyNext(test)
  PROVE  IInv'
<1> DEFINE p == Head(walk)
           woken == q.list[p] # "READY" /\ test
<1>1. /\ walk # <<>> /\ walk' = Tail(walk)
      /\ q' = IF woken THEN AppendReady(RemoveSCB(q, p), p) ELSE q
      /\ chain' = IF woken THEN Unthread(p) ELSE chain
      /\ late' \in BOOLEAN /\ (late => late') /\ (phase \in FinalPass /\ woken => late')
      /\ UNCHANGED <<CurrentTime, pc, phase, actor, retrigger, new_time, gateTime, idle, final, batch, steps>>
  BY DEF NotifyNext, LateIf, strobes, IInv, TypeOK
<1>2. walk \in Seq(SCB)
  BY DEF IInv, TypeOK
<1>3. walk' \in Seq(SCB) /\ p \in Range(walk) /\ \A r \in Range(walk') : r \in Range(walk)
  <2> DEFINE w == walk
  <2>1. w \in Seq(SCB) /\ w # <<>> /\ Len(w) \in Nat /\ DOMAIN w = 1 .. Len(w) /\ Len(w) # 0
    BY <1>1, <1>2, LenProperties, EmptySeq
  <2>2. Tail(w) \in Seq(SCB) /\ Len(Tail(w)) = Len(w) - 1 /\ \A i \in 1 .. Len(w) - 1 : Tail(w)[i] = w[i + 1]
    BY <2>1, HeadTailProperties
  <2>3. Head(w) = w[1] /\ 1 \in 1 .. Len(w)
    BY <2>1, HeadTailProperties
  <2>4. DOMAIN Tail(w) = 1 .. Len(w) - 1 /\ \A i \in 1 .. Len(w) - 1 : i + 1 \in 1 .. Len(w)
    BY <2>1, <2>2, LenProperties
  <2>5. p \in Range(w)
    BY <2>1, <2>3 DEF Range
  <2>6. \A r \in Range(Tail(w)) : r \in Range(w)
    BY <2>1, <2>2, <2>4 DEF Range
  <2> QED
    BY <1>1, <2>2, <2>5, <2>6
<1>4. p \in SCB /\ q.list[p] \in {"EVENT", "READY"} /\ pc[p] = "event"
  BY <1>2, <1>3, LenProperties DEF IInv, WaitersThreaded, Range
<1>5. actor # NULL
  BY <1>1 DEF IInv, Turn
<1> HIDE DEF p
<1>6. CASE ~woken
  <2>1. q' = q /\ chain' = chain
    BY <1>1, <1>6
  <2>2. WaitersThreaded' /\ TypeOK' /\ Turn'
    BY <1>1, <1>3, <1>5, <2>1 DEF IInv, WaitersThreaded, TypeOK, Turn
  <2>3. Threads(q') /\ Planned(q') /\ Kinds' /\ ChainedOnce' /\ Ahead' /\ Present' /\ Busy' /\ Over'
    BY <1>1, <2>1 DEF IInv, Kinds, ChainedOnce, Ahead, Present, Moved, NotMoved, Busy, Over
  <2> QED
    BY <2>2, <2>3 DEF IInv
<1>7. CASE woken
  <2>1. q' = AppendReady(RemoveSCB(q, p), p) /\ chain' = Unthread(p) /\ q.list[p] = "EVENT"
    BY <1>1, <1>4, <1>7
  <2>2. Step(q, q', p, "READY", q.time[p])
    BY <1>4, <2>1, ListTypes, WakeSteps
  <2>3. /\ q' \in ListState /\ \A r \in SCB : q'.time[r] <= MaxTime
        /\ pc' \in [SCB -> Statement]
        /\ Threads(q') /\ Planned(q') /\ Kinds' /\ Turn' /\ Ahead' /\ Present' /\ Busy' /\ Over'
    <3>1. "READY" \in Queue /\ "event" \in Statement /\ "event" \notin Timed
      BY DEF Queue, Statement, Timed
    <3>2. p \notin NET /\ p \notin ASSIGN /\ q.time[p] \in Nat /\ q.time[p] <= MaxTime
      BY <1>4, ListTypes DEF IInv, Kinds
    <3>3. pc' = [pc EXCEPT ![p] = "event"]
      BY <1>1, <1>4, ListTypes
    <3>4. phase = "exec" /\ pc[actor] \in {"run", "nba"} => p # actor
      BY <1>4
    <3>5. phase = "exec" /\ pc[actor] = "net" /\ retrigger' # NULL =>
            p # retrigger' /\ Readylist(q) # <<>> /\ Readylist(q)[1] = retrigger' /\ ZeroDelay(retrigger')
      BY <1>1, <3>2 DEF IInv, Turn, TypeOK
    <3> QED
      BY <1>1, <1>4, <1>5, <1>7, <2>2, <3>1, <3>2, <3>3, <3>4, <3>5, Replanned
  <2>4. /\ q'.list[p] = "READY" /\ \A r \in SCB : r # p => q'.list[r] = q.list[r]
    <3>1. q \in ListState
      BY ListTypes
    <3> QED
      BY <1>4, <2>2, <3>1, StepFacts
  <2>5. chain' \in [EVENT -> Seq(SCB)] /\ ChainedOnce'
    BY <2>1, UnthreadFacts DEF ChainedOnce
  <2>6. /\ \A e \in EVENT : p \notin Range(chain'[e])
        /\ \A e \in EVENT : \A r : r # p => (r \in Range(chain'[e]) <=> r \in Range(chain[e]))
    BY <2>1, UnthreadFacts
  <2>7. \A e \in EVENT : \A r \in Range(chain'[e]) : r \in SCB
    <3>1. \A e \in EVENT : chain'[e] \in Seq(SCB)
      BY <2>5
    <3> QED
      BY <3>1, LenProperties DEF Range
  <2>8. WaitersThreaded'
    <3>1. /\ \A s \in SCB : q.list[s] = "EVENT" => \E e \in EVENT : s \in Range(chain[e])
          /\ \A e \in EVENT : \A s \in Range(chain[e]) : q.list[s] = "EVENT" /\ pc[s] = "event"
          /\ \A s \in Range(walk) : q.list[s] \in {"EVENT", "READY"} /\ pc[s] = "event"
      BY DEF IInv, WaitersThreaded
    <3>2. \A s \in SCB : q'.list[s] = "EVENT" => \E e \in EVENT : s \in Range(chain'[e])
      BY <2>4, <2>6, <3>1
    <3>3. \A e \in EVENT : \A s \in Range(chain'[e]) : q'.list[s] = "EVENT" /\ pc'[s] = "event"
      BY <1>1, <2>4, <2>6, <2>7, <3>1
    <3>4. \A s \in Range(walk') : s \in SCB
      BY <1>3, LenProperties DEF Range
    <3>5. \A s \in Range(walk') : q'.list[s] \in {"EVENT", "READY"} /\ pc'[s] = "event"
      BY <1>1, <1>3, <2>4, <3>1, <3>4
    <3> QED
      BY <3>2, <3>3, <3>5 DEF WaitersThreaded
  <2>9. TypeOK'
    BY <1>1, <1>3, <2>3, <2>5 DEF IInv, TypeOK
  <2> QED
    BY <2>3, <2>5, <2>8, <2>9 DEF IInv
<1> QED
  BY <1>6, <1>7

-----------------------------------------------------------------------------
(* The statements.                                                         *)

LEMMA ExecuteKeeps ==
  ASSUME IInv, Execute
  PROVE  IInv'
<1> DEFINE s == Readylist(q)[1]
           now == IF pc[s] \in Timed THEN q.time[s] ELSE CurrentTime
<1>1. /\ phase = "go" /\ Readylist(q) # <<>>
      /\ actor' = s /\ CurrentTime' = now /\ phase' = "exec"
      /\ steps' = IF now = CurrentTime \/ late THEN steps ELSE 0
      /\ pc' = IF pc[s] \in {"delay", "event"} THEN [pc EXCEPT ![s] = "run"] ELSE pc
      /\ retrigger' = IF pc[s] = "net" THEN NULL ELSE retrigger
      /\ UNCHANGED <<q, new_time, chain, walk, gateTime, idle, final, batch, late>>
  BY DEF Execute, waiting, strobes
<1>2. s \in SCB /\ q.list[s] = "READY"
  BY <1>1, Heads
<1> HIDE DEF s
<1>3. actor = NULL /\ walk = <<>>
  BY <1>1 DEF IInv, Turn
<1>4. pc \in [SCB -> Statement] /\ "run" \in Statement /\ "run" \notin Timed
  BY DEF IInv, TypeOK, Statement, Timed
<1>5. /\ pc' \in [SCB -> Statement] /\ \A r \in SCB : r # s => pc'[r] = pc[r]
      /\ pc'[s] = IF pc[s] \in {"delay", "event"} THEN "run" ELSE pc[s]
  BY <1>1, <1>2, <1>4
<1>6. ~late => /\ new_time > CurrentTime => now = new_time /\ Moved
               /\ ~(new_time > CurrentTime) => now = CurrentTime /\ NotMoved
  BY <1>2 DEF IInv, Present, Moved, NotMoved
<1>7. now \in Nat /\ now <= MaxTime /\ now \in Times
  BY <1>2, ListTypes DEF Times
<1> HIDE DEF now
<1>8. TypeOK'
  BY <1>1, <1>2, <1>5, <1>7 DEF IInv, TypeOK, Phase
<1>9. Kinds'
  BY <1>1, <1>2, <1>4, <1>5, DesignFacts DEF IInv, Kinds
<1>10. Turn'
  BY <1>1, <1>2, <1>3, <1>5 DEF IInv, Turn, s
<1>11. ChainedOnce' /\ Busy' /\ Over'
  BY <1>1 DEF IInv, ChainedOnce, Busy, Over
<1>12. WaitersThreaded'
  <2>1. /\ \A r \in SCB : q.list[r] = "EVENT" => \E e \in EVENT : r \in Range(chain[e])
        /\ \A e \in EVENT : \A r \in Range(chain[e]) : q.list[r] = "EVENT" /\ pc[r] = "event" /\ r \in SCB
    BY LenProperties DEF IInv, WaitersThreaded, TypeOK, Range
  <2>2. \A e \in EVENT : \A r \in Range(chain'[e]) : q'.list[r] = "EVENT" /\ pc'[r] = "event"
    BY <1>1, <1>2, <1>5, <2>1
  <2>3. \A r \in Range(walk') : FALSE
    BY <1>1, <1>3 DEF Range
  <2> QED
    BY <1>1, <2>1, <2>2, <2>3 DEF WaitersThreaded
<1>13. Ahead'
  <2>1. CASE new_time > CurrentTime
    BY <1>1, <1>6, <2>1 DEF Ahead, Moved
  <2>2. CASE ~(new_time > CurrentTime)
    BY <1>1, <1>6, <2>2 DEF IInv, Ahead
  <2> QED
    BY <2>1, <2>2
<1>14. Present'
  <2>1. CASE new_time > CurrentTime
    BY <1>1, <1>5, <1>6, <1>7, <2>1 DEF Present, Moved, NotMoved
  <2>2. CASE ~(new_time > CurrentTime)
    BY <1>1, <1>4, <1>5, <1>6, <2>2 DEF Present, NotMoved
  <2> QED
    BY <2>1, <2>2
<1> QED
  BY <1>1, <1>8, <1>9, <1>10, <1>11, <1>12, <1>13, <1>14 DEF IInv

(* A free SCB takes up a nonblocking assignment.                           *)
LEMMA NonblockingSteps ==
  ASSUME IInv, NEW b \in SCB, NEW d \in DELAYS, AssignNonblocking(b, d)
  PROVE  /\ Step(q, q', b, "TIME", After(d))
         /\ After(d) \in Nat /\ After(d) >= CurrentTime /\ After(d) <= MaxTime
<1> DEFINE u == Rest(q, "NOLIST", b)
           t == After(d)
<1>1. q.list[b] = "FREE" /\ t <= MaxTime /\ q' = Schedule(u, t, b, FALSE)
  BY DEF AssignNonblocking
<1>2. t \in Nat /\ t >= CurrentTime
  BY DesignFacts, ListTypes DEF After
<1>3. "NOLIST" \in Resting /\ "FREE" \notin Queue /\ "NOLIST" # "NET"
  BY DEF Resting, Queue
<1> HIDE DEF t, u
<1>4. Step(q, u, b, "NOLIST", q.time[b])
  BY <1>1, <1>3, ListTypes, RestAgain DEF u
<1>5. u \in ListState /\ Threads(u) /\ Planned(u) /\ u.list[b] = "NOLIST"
  BY <1>4, ListTypes, StepFacts
<1>6. Step(u, q', b, "TIME", t)
  BY <1>1, <1>2, <1>3, <1>5, ScheduleSteps
<1>7. u.list = [q.list EXCEPT ![b] = "NOLIST"] /\ u.time = [q.time EXCEPT ![b] = q.time[b]] /\ HeadStays(q, u, b)
  BY <1>4 DEF Step
<1>8. q'.list = [u.list EXCEPT ![b] = "TIME"] /\ q'.time = [u.time EXCEPT ![b] = t] /\ HeadStays(u, q', b)
  BY <1>6 DEF Step
<1>9. q'.list = [q.list EXCEPT ![b] = "TIME"] /\ q'.time = [q.time EXCEPT ![b] = t]
  BY <1>7, <1>8, ListTypes
<1>10. HeadStays(q, q', b)
  BY <1>7, <1>8, HeadStaysTwice
<1>11. Step(q, q', b, "TIME", t)
  BY <1>6, <1>9, <1>10 DEF Step
<1> QED
  BY <1>1, <1>2, <1>11 DEF t

LEMMA AssignNonblockingKeeps ==
  ASSUME IInv, NEW b \in SCB \ (NET \cup ASSIGN), NEW d \in DELAYS, AssignNonblocking(b, d)
  PROVE  IInv'
<1>1. /\ phase = "exec" /\ walk = <<>> /\ pc[actor] = "run" /\ steps' \in Nat
      /\ q.list[b] = "FREE" /\ pc' = [pc EXCEPT ![b] = "nba"]
      /\ UNCHANGED <<CurrentTime, phase, actor, retrigger, new_time, chain, walk, gateTime, idle, final, batch, late>>
  BY DEF AssignNonblocking, Executing, waiting, strobes, IInv, TypeOK
<1>2. actor \in SCB /\ actor # NULL /\ q.list[actor] = "READY"
  BY <1>1, Heads, DesignFacts DEF IInv, Turn
<1>3. "FREE" \notin Queue /\ "TIME" \in Queue /\ "nba" \in Statement /\ "nba" \in Timed
  BY DEF Queue, Statement, Timed
<1>a. phase \notin FinalPass
  BY <1>1 DEF FinalPass
<1>4. /\ Step(q, q', b, "TIME", After(d))
      /\ After(d) \in Nat /\ After(d) >= CurrentTime /\ After(d) <= MaxTime
  BY NonblockingSteps
<1>5. /\ q' \in ListState /\ \A r \in SCB : q'.time[r] <= MaxTime
      /\ pc' \in [SCB -> Statement]
      /\ Threads(q') /\ Planned(q') /\ Kinds' /\ Turn' /\ Ahead' /\ Present' /\ Busy' /\ Over'
  BY <1>a, <1>1, <1>2, <1>3, <1>4, Replanned
<1>6. ChainedOnce' /\ WaitersThreaded'
  BY <1>1, <1>4, StillWaiting
<1> QED
  BY <1>1, <1>5, <1>6 DEF IInv, TypeOK

(* dispatcher() puts the SCB that executed on the list where it waits.     *)
LEMMA PutAway ==
  ASSUME IInv, phase = "exec", NEW s \in SCB, q.list[s] = "READY",
         NEW tag \in Resting \cup {"TIME"}, NEW t \in Nat, t <= MaxTime, NEW w \in Statement,
         Step(q, q', s, tag, t), pc' = [pc EXCEPT ![s] = w],
         tag = "TIME" => t >= CurrentTime /\ w \in Timed,
         w = pc[s] \/ (s \notin NET \cup ASSIGN /\ w \notin {"net", "assign"}),
         phase' = "go", actor' = NULL, walk = <<>>,
         UNCHANGED <<CurrentTime, new_time, walk, gateTime, late>>
  PROVE  /\ q' \in ListState /\ \A r \in SCB : q'.time[r] <= MaxTime
         /\ pc' \in [SCB -> Statement]
         /\ Threads(q') /\ Planned(q') /\ Kinds' /\ Turn' /\ Ahead' /\ Present' /\ Busy' /\ Over'
<1>1. /\ q' \in ListState /\ Threads(q') /\ Planned(q')
      /\ q'.list[s] = tag /\ q'.time[s] = t
      /\ \A r \in SCB : r # s => q'.list[r] = q.list[r] /\ q'.time[r] = q.time[r]
  <2>1. q \in ListState
    BY ListTypes
  <2> QED
    BY <2>1, StepFacts
<1>2. pc' \in [SCB -> Statement] /\ pc'[s] = w /\ \A r \in SCB : r # s => pc'[r] = pc[r]
  BY ListTypes
<1>3. tag # "READY" /\ tag # "NET"
  BY DEF Resting
<1>4. \A r \in SCB : q'.time[r] <= MaxTime
  BY <1>1, ListTypes
<1>5. Kinds'
  BY <1>1, <1>2, <1>3, DesignFacts DEF IInv, Kinds
<1>6. Turn' /\ Busy' /\ Over'
  BY DEF Turn, Busy, Over
<1>7. Ahead'
  BY <1>1, <1>3 DEF IInv, Ahead
<1>8. Present'
  <2>1. ~late => NotMoved /\ ~(new_time > CurrentTime)
    BY DEF IInv, Present, Moved
  <2> QED
    BY <1>1, <1>2, <1>3, <2>1 DEF Present, NotMoved
<1> QED
  BY <1>1, <1>2, <1>4, <1>5, <1>6, <1>7, <1>8

LEMMA FatalKeeps ==
  ASSUME IInv, phase = "exec", walk = <<>>, phase' = "fatal", actor' = NULL, retrigger' \in NET \cup {NULL},
         UNCHANGED <<q, CurrentTime, pc, new_time, chain, walk, gateTime, idle, final, batch, steps, late>>
  PROVE  IInv'
<1>1. TypeOK'
  BY DEF IInv, TypeOK, Phase
<1>2. Turn' /\ Busy' /\ Over'
  BY DEF Turn, Busy, Over
<1>3. Present'
  <2>1. ~late => NotMoved /\ ~(new_time > CurrentTime)
    BY DEF IInv, Present, Moved
  <2> QED
    BY <2>1 DEF Present, NotMoved
<1>4. Threads(q') /\ Planned(q') /\ Kinds' /\ ChainedOnce' /\ WaitersThreaded' /\ Ahead'
  BY DEF IInv, Kinds, ChainedOnce, WaitersThreaded, Ahead
<1> QED
  BY <1>1, <1>2, <1>3, <1>4 DEF IInv

LEMMA IncomingFacts ==
  ASSUME IInv, Readylist(q) # <<>>
  PROVE  Incoming = Readylist(q)[1] /\ Incoming \in SCB /\ q.list[Incoming] = "READY"
<1>1. Readylist(q) \in Seq(SCB)
  BY ListTypes, FieldTypes DEF Readylist, Queue
<1>2. Incoming = Readylist(q)[1]
  BY <1>1, HeadTailProperties DEF Incoming
<1> QED
  BY <1>2, Heads

(* dispatcher with a list whose order nobody reads, or with TIME_LIST.     *)
LEMMA Rested ==
  ASSUME IInv, Readylist(q) # <<>>, NEW tag \in Resting
  PROVE  Step(q, RestOn(tag), Incoming, tag, q.time[Incoming])
<1>1. Incoming \in SCB /\ q.list[Incoming] # "NET"
  BY IncomingFacts
<1>2. Step(q, Rest(RemoveSCB(q, Incoming), tag, Incoming), Incoming, tag, q.time[Incoming])
  BY <1>1, ListTypes, RestSteps
<1> QED
  BY <1>2 DEF RestOn, Suspended

LEMMA Waited ==
  ASSUME IInv, Readylist(q) # <<>>, NEW t \in Nat
  PROVE  Step(q, WaitUntil(t), Incoming, "TIME", t)
<1>1. Incoming \in SCB /\ q.list[Incoming] # "NET"
  BY IncomingFacts
<1>2. Step(q, PutOnTimelist([RemoveSCB(q, Incoming) EXCEPT !.time[Incoming] = t], Incoming), Incoming, "TIME", t)
  BY <1>1, ListTypes, WaitSteps
<1> QED
  BY <1>2 DEF WaitUntil, Suspended

(* A process that executes is the one dispatcher puts away.                *)
LEMMA OwnTurn ==
  ASSUME IInv, Executing("run") \/ Executing("nba")
  PROVE  /\ phase = "exec" /\ walk = <<>> /\ Readylist(q) # <<>> /\ Incoming = actor
         /\ actor \in SCB /\ q.list[actor] = "READY" /\ actor \notin NET \cup ASSIGN
         /\ pc[actor] \notin {"net", "assign", "event"}
<1>1. phase = "exec" /\ walk = <<>> /\ pc[actor] \in {"run", "nba"}
  BY DEF Executing
<1>2. Readylist(q) # <<>> /\ Readylist(q)[1] = actor
  BY <1>1 DEF IInv, Turn
<1>3. actor \notin NET \cup ASSIGN
  BY <1>1 DEF IInv, Kinds
<1> QED
  BY <1>1, <1>2, <1>3, IncomingFacts

LEMMA DelayKeeps ==
  ASSUME IInv, NEW d \in DELAYS, Delay(d)
  PROVE  IInv'
<1> DEFINE t == After(d)
<1>1. /\ phase = "exec" /\ walk = <<>> /\ Readylist(q) # <<>> /\ Incoming = actor
      /\ actor \in SCB /\ q.list[actor] = "READY" /\ actor \notin NET \cup ASSIGN
      /\ pc[actor] \notin {"net", "assign", "event"}
  BY OwnTurn DEF Delay
<1>2. /\ t <= MaxTime /\ q' = WaitUntil(t) /\ phase' = "go" /\ actor' = NULL
      /\ pc' = [pc EXCEPT ![actor] = "delay"]
      /\ UNCHANGED <<CurrentTime, retrigger, new_time, chain, walk, gateTime, idle, final, batch, late>>
  BY <1>1 DEF Delay, DispatchFrom, strobes
<1>3. t \in Nat /\ t >= CurrentTime
  BY DesignFacts, ListTypes DEF After
<1>4. steps' \in Nat
  BY DEF Delay, IInv, TypeOK
<1> HIDE DEF t
<1>5. Step(q, q', actor, "TIME", t)
  BY <1>1, <1>2, <1>3, Waited
<1>6. "delay" \in Statement /\ "delay" \in Timed /\ "go" \in Phase
  BY DEF Statement, Timed, Phase
<1>7. /\ q' \in ListState /\ \A r \in SCB : q'.time[r] <= MaxTime
      /\ pc' \in [SCB -> Statement]
      /\ Threads(q') /\ Planned(q') /\ Kinds' /\ Turn' /\ Ahead' /\ Present' /\ Busy' /\ Over'
  BY <1>1, <1>2, <1>3, <1>5, <1>6, PutAway
<1>8. ChainedOnce' /\ WaitersThreaded'
  BY <1>1, <1>2, <1>5, StillWaiting
<1> QED
  BY <1>2, <1>4, <1>6, <1>7, <1>8 DEF IInv, TypeOK

(* A statement after which the SCB that executed is done.                  *)
LEMMA EndKeeps ==
  ASSUME IInv, EndProcess \/ EndNonblocking
  PROVE  IInv'
<1>1. /\ phase = "exec" /\ walk = <<>> /\ Readylist(q) # <<>> /\ Incoming = actor
      /\ actor \in SCB /\ q.list[actor] = "READY" /\ actor \notin NET \cup ASSIGN
      /\ pc[actor] \notin {"net", "assign", "event"}
  BY OwnTurn DEF EndProcess, EndNonblocking
<1>2. /\ q' = RestOn("FREE") /\ phase' = "go" /\ actor' = NULL
      /\ pc' = [pc EXCEPT ![actor] = "free"]
      /\ UNCHANGED <<CurrentTime, retrigger, new_time, chain, walk, gateTime, idle, final, batch, steps, late>>
  BY <1>1 DEF EndProcess, EndNonblocking, DispatchFrom, strobes
<1>3. "FREE" \in Resting /\ "free" \in Statement /\ "go" \in Phase
  BY DEF Resting, Statement, Phase
<1>4. Step(q, q', actor, "FREE", q.time[actor])
  BY <1>1, <1>2, <1>3, Rested
<1>5. /\ q' \in ListState /\ \A r \in SCB : q'.time[r] <= MaxTime
      /\ pc' \in [SCB -> Statement]
      /\ Threads(q') /\ Planned(q') /\ Kinds' /\ Turn' /\ Ahead' /\ Present' /\ Busy' /\ Over'
  BY <1>1, <1>2, <1>3, <1>4, ListTypes, PutAway
<1>6. ChainedOnce' /\ WaitersThreaded'
  BY <1>1, <1>2, <1>4, StillWaiting
<1> QED
  BY <1>2, <1>3, <1>5, <1>6 DEF IInv, TypeOK

LEMMA EndAssignKeeps ==
  ASSUME IInv, EndAssign
  PROVE  IInv'
<1>1. phase = "exec" /\ walk = <<>>
  BY DEF EndAssign, Executing
<1>2. /\ IF Readylist(q) = <<>> THEN q' = q /\ phase' = "fatal" ELSE q' = RestOn("NOLIST") /\ phase' = "go"
      /\ actor' = NULL
      /\ UNCHANGED <<CurrentTime, pc, retrigger, new_time, chain, walk, gateTime, idle, final, batch, steps, late>>
  BY DEF EndAssign, DispatchFrom, strobes
<1>3. CASE Readylist(q) = <<>>
  BY <1>1, <1>2, <1>3, FatalKeeps DEF IInv, TypeOK
<1>4. CASE Readylist(q) # <<>>
  <2> DEFINE s == Incoming
  <2>1. s \in SCB /\ q.list[s] = "READY" /\ "NOLIST" \in Resting /\ "go" \in Phase /\ pc[s] \in Statement
    BY <1>4, IncomingFacts, ListTypes DEF Resting, Phase
  <2>2. Step(q, q', s, "NOLIST", q.time[s])
    BY <1>2, <1>4, <2>1, Rested
  <2> HIDE DEF s
  <2>3. pc' = [pc EXCEPT ![s] = pc[s]]
    BY <1>2, <2>1, ListTypes
  <2>4. /\ q' \in ListState /\ \A r \in SCB : q'.time[r] <= MaxTime
        /\ pc' \in [SCB -> Statement]
        /\ Threads(q') /\ Planned(q') /\ Kinds' /\ Turn' /\ Ahead' /\ Present' /\ Busy' /\ Over'
    BY <1>1, <1>2, <1>4, <2>1, <2>2, <2>3, ListTypes, PutAway
  <2>5. ChainedOnce' /\ WaitersThreaded'
    BY <1>1, <1>2, <2>1, <2>2, <2>3, StillWaiting
  <2> QED
    BY <1>2, <1>4, <2>1, <2>4, <2>5 DEF IInv, TypeOK
<1> QED
  BY <1>3, <1>4

LEMMA EndNetKeeps ==
  ASSUME IInv, EndNet
  PROVE  IInv'
<1> DEFINE s == Incoming
<1>1. phase = "exec" /\ walk = <<>> /\ pc[actor] = "net" /\ retrigger' = NULL
  BY DEF EndNet, Executing
<1>2. /\ Readylist(q) = <<>> => q' = q /\ phase' = "fatal"
      /\ Readylist(q) # <<>> =>
           /\ phase' = "go"
           /\ q' = IF retrigger # NULL THEN WaitUntil(CurrentTime) ELSE RestOn("NOLIST")
      /\ actor' = NULL
      /\ UNCHANGED <<CurrentTime, pc, new_time, chain, walk, gateTime, idle, final, batch, steps, late>>
  BY DEF EndNet, DispatchFrom, strobes
<1>3. CASE Readylist(q) = <<>>
  BY <1>1, <1>2, <1>3, FatalKeeps
<1>4. CASE Readylist(q) # <<>>
  <2>1. s \in SCB /\ q.list[s] = "READY" /\ "NOLIST" \in Resting /\ "go" \in Phase /\ pc[s] \in Statement
    BY <1>4, IncomingFacts, ListTypes DEF Resting, Phase
  <2>2. pc' = [pc EXCEPT ![s] = pc[s]]
    BY <1>2, <2>1, ListTypes
  <2>3. retrigger # NULL => pc[s] \in Timed
    <3>1. retrigger # NULL => s = retrigger /\ retrigger \in NET
      BY <1>1, <1>4, IncomingFacts DEF IInv, Turn, TypeOK
    <3> QED
      BY <3>1 DEF IInv, Kinds, Timed
  <2>4. CASE retrigger # NULL
    <3>1. Step(q, q', s, "TIME", CurrentTime)
      BY <1>2, <1>4, <2>4, ListTypes, Waited
    <3> HIDE DEF s
    <3>2. /\ q' \in ListState /\ \A r \in SCB : q'.time[r] <= MaxTime
          /\ pc' \in [SCB -> Statement]
          /\ Threads(q') /\ Planned(q') /\ Kinds' /\ Turn' /\ Ahead' /\ Present' /\ Busy' /\ Over'
      <4>1. CurrentTime \in Nat /\ CurrentTime <= MaxTime /\ CurrentTime >= CurrentTime
        BY ListTypes
      <4>2. "TIME" \in Resting \cup {"TIME"} /\ pc[s] \in Timed
        BY <2>3, <2>4
      <4>3. phase' = "go" /\ actor' = NULL /\ UNCHANGED <<CurrentTime, new_time, walk, gateTime, late>>
        BY <1>2, <1>4
      <4> QED
        BY <1>1, <2>1, <2>2, <3>1, <4>1, <4>2, <4>3, PutAway
    <3>3. ChainedOnce' /\ WaitersThreaded'
      BY <1>1, <1>2, <2>1, <2>2, <3>1, StillWaiting
    <3> QED
      BY <1>1, <1>2, <1>4, <2>1, <3>2, <3>3 DEF IInv, TypeOK
  <2>5. CASE retrigger = NULL
    <3>1. Step(q, q', s, "NOLIST", q.time[s])
      BY <1>2, <1>4, <2>1, <2>5, Rested
    <3> HIDE DEF s
    <3>2. /\ q' \in ListState /\ \A r \in SCB : q'.time[r] <= MaxTime
          /\ pc' \in [SCB -> Statement]
          /\ Threads(q') /\ Planned(q') /\ Kinds' /\ Turn' /\ Ahead' /\ Present' /\ Busy' /\ Over'
      BY <1>1, <1>2, <1>4, <2>1, <2>2, <3>1, ListTypes, PutAway
    <3>3. ChainedOnce' /\ WaitersThreaded'
      BY <1>1, <1>2, <2>1, <2>2, <3>1, StillWaiting
    <3> QED
      BY <1>1, <1>2, <1>4, <2>1, <3>2, <3>3 DEF IInv, TypeOK
  <2> QED
    BY <2>4, <2>5
<1> QED
  BY <1>3, <1>4

LEMMA WaitOnEventKeeps ==
  ASSUME IInv, NEW es \in (SUBSET EVENT) \ {{}}, WaitOnEvent(es)
  PROVE  IInv'
<1>1. /\ phase = "exec" /\ walk = <<>> /\ Readylist(q) # <<>> /\ Incoming = actor
      /\ actor \in SCB /\ q.list[actor] = "READY" /\ actor \notin NET \cup ASSIGN
      /\ pc[actor] \notin {"net", "assign", "event"}
  BY OwnTurn DEF WaitOnEvent
<1>2. /\ q' = RestOn("EVENT") /\ phase' = "go" /\ actor' = NULL
      /\ pc' = [pc EXCEPT ![actor] = "event"]
      /\ chain' = [e \in EVENT |-> IF e \in es THEN Append(chain[e], actor) ELSE chain[e]]
      /\ UNCHANGED <<CurrentTime, retrigger, new_time, walk, gateTime, idle, final, batch, steps, late>>
  BY <1>1 DEF WaitOnEvent, DispatchFrom, strobes
<1>3. "EVENT" \in Resting /\ "event" \in Statement /\ "go" \in Phase
  BY DEF Resting, Statement, Phase
<1>4. Step(q, q', actor, "EVENT", q.time[actor])
  BY <1>1, <1>2, <1>3, Rested
<1>5. /\ q' \in ListState /\ \A r \in SCB : q'.time[r] <= MaxTime
      /\ pc' \in [SCB -> Statement]
      /\ Threads(q') /\ Planned(q') /\ Kinds' /\ Turn' /\ Ahead' /\ Present' /\ Busy' /\ Over'
  BY <1>1, <1>2, <1>3, <1>4, ListTypes, PutAway
<1>6. /\ q'.list[actor] = "EVENT" /\ \A r \in SCB : r # actor => q'.list[r] = q.list[r]
      /\ pc'[actor] = "event" /\ \A r \in SCB : r # actor => pc'[r] = pc[r]
  <2>1. q \in ListState /\ pc \in [SCB -> Statement]
    BY ListTypes
  <2>2. q'.list[actor] = "EVENT" /\ \A r \in SCB : r # actor => q'.list[r] = q.list[r]
    BY <1>1, <1>4, <2>1, StepFacts
  <2> QED
    BY <1>1, <1>2, <2>1, <2>2
<1>7. /\ \A s \in SCB : q.list[s] = "EVENT" => \E e \in EVENT : s \in Range(chain[e])
      /\ \A e \in EVENT : \A s \in Range(chain[e]) : q.list[s] = "EVENT" /\ pc[s] = "event" /\ s \in SCB
  BY LenProperties DEF IInv, WaitersThreaded, TypeOK, Range
<1>8. ASSUME NEW e \in EVENT
      PROVE  /\ chain'[e] \in Seq(SCB) /\ Distinct(chain'[e])
             /\ \A s \in Range(chain'[e]) : s \in Range(chain[e]) \/ s = actor
             /\ \A s \in Range(chain[e]) : s \in Range(chain'[e])
             /\ e \in es => actor \in Range(chain'[e])
  <2> DEFINE a == chain[e]
             x == actor
             b == Append(a, x)
  <2>1. a \in Seq(SCB) /\ Distinct(a) /\ x \in SCB /\ x \notin Range(a)
    BY <1>1, <1>7 DEF IInv, TypeOK, ChainedOnce
  <2>2. chain'[e] = IF e \in es THEN b ELSE a
    BY <1>2
  <2> HIDE DEF a, x
  <2>3. /\ b \in Seq(SCB) /\ Len(b) = Len(a) + 1 /\ b[Len(a) + 1] = x
        /\ \A i \in 1 .. Len(a) : b[i] = a[i]
        /\ Len(a) \in Nat /\ DOMAIN a = 1 .. Len(a)
    BY <2>1, AppendProperties, LenProperties
  <2> HIDE DEF b
  <2>4. DOMAIN b = 1 .. Len(a) + 1 /\ \A i \in 1 .. Len(a) + 1 : i \in 1 .. Len(a) \/ i = Len(a) + 1
    BY <2>3, LenProperties
  <2>5. \A i \in 1 .. Len(a) : a[i] # x
    BY <2>1, <2>3 DEF Range
  <2>6. Distinct(b)
    <3> SUFFICES ASSUME NEW i \in 1 .. Len(a) + 1, NEW j \in 1 .. Len(a) + 1, b[i] = b[j] PROVE i = j
      BY <2>3 DEF Distinct
    <3> QED
      BY <2>1, <2>3, <2>4, <2>5 DEF Distinct
  <2>7. x \in Range(b)
    BY <2>3, <2>4 DEF Range
  <2>8. \A s \in Range(b) : s \in Range(a) \/ s = x
    BY <2>3, <2>4 DEF Range
  <2>9. \A s \in Range(a) : s \in Range(b)
    BY <2>3, <2>4 DEF Range
  <2>10. chain'[e] \in Seq(SCB) /\ Distinct(chain'[e])
    BY <2>1, <2>2, <2>3, <2>6
  <2>11. \A s \in Range(chain'[e]) : s \in Range(a) \/ s = x
    BY <2>2, <2>8
  <2>12. \A s \in Range(a) : s \in Range(chain'[e])
    BY <2>2, <2>9
  <2>13. e \in es => x \in Range(chain'[e])
    BY <2>2, <2>7
  <2> QED
    BY <2>10, <2>11, <2>12, <2>13 DEF a, x
<1>9. ChainedOnce' /\ chain' \in [EVENT -> Seq(SCB)]
  <2>1. ChainedOnce'
    BY <1>8 DEF ChainedOnce
  <2>2. chain' = [e \in EVENT |-> chain'[e]]
    BY <1>2
  <2> QED
    BY <1>8, <2>1, <2>2
<1>10. WaitersThreaded'
  <2>1. ASSUME NEW s \in SCB, q'.list[s] = "EVENT" PROVE \E e \in EVENT : s \in Range(chain'[e])
    <3>1. CASE s = actor
      <4>1. \E e \in EVENT : e \in es
        OBVIOUS
      <4> QED
        BY <1>8, <3>1, <4>1
    <3>2. CASE s # actor
      BY <1>6, <1>7, <1>8, <2>1, <3>2
    <3> QED
      BY <3>1, <3>2
  <2>2. ASSUME NEW e \in EVENT, NEW s \in Range(chain'[e]) PROVE q'.list[s] = "EVENT" /\ pc'[s] = "event"
    BY <1>6, <1>7, <1>8
  <2>3. \A s \in Range(walk') : FALSE
    BY <1>1, <1>2 DEF Range
  <2> QED
    BY <2>1, <2>2, <2>3 DEF WaitersThreaded
<1> QED
  BY <1>2, <1>3, <1>5, <1>9, <1>10 DEF IInv, TypeOK

-----------------------------------------------------------------------------
(* The rest of dispatcher().                                               *)

(* Nothing is threaded or unthreaded.                                      *)
LEMMA SameLists ==
  ASSUME IInv, UNCHANGED <<q, pc, chain, walk>>
  PROVE  Threads(q') /\ Planned(q') /\ Kinds' /\ ChainedOnce' /\ WaitersThreaded'
BY DEF IInv, Kinds, ChainedOnce, WaitersThreaded

LEMMA GoToKeeps ==
  ASSUME IInv, NEW p, GoTo(p), p \in Phase, p \notin {"exec", "move", "final", "advance"},
         actor = NULL \/ p = phase, ~late => NotMoved /\ ~(new_time > CurrentTime),
         ~late /\ p \in {"now1", "idle", "now2"} => \E s \in SCB : q.list[s] \in Queue
  PROVE  IInv'
<1>1. phase' = p /\ UNCHANGED <<q, CurrentTime, pc, actor, retrigger, new_time, chain, walk, gateTime,
                                idle, final, batch, steps, late>>
  BY DEF GoTo, waiting, strobes
<1>2. TypeOK'
  BY <1>1 DEF IInv, TypeOK
<1>3. Turn' /\ Busy' /\ Over'
  BY <1>1 DEF IInv, Turn, Busy, Over
<1>4. Ahead' /\ Present'
  BY <1>1 DEF IInv, Ahead, Present, NotMoved
<1> QED
  BY <1>1, <1>2, <1>3, <1>4, SameLists DEF IInv

LEMMA OnlyGoMoves ==
  ASSUME IInv, phase # "move", phase # "go" \/ Readylist(q) = <<>>
  PROVE  ~late => NotMoved /\ ~(new_time > CurrentTime)
BY Heads DEF IInv, Present, Moved

LEMMA LoopKeeps ==
  ASSUME IInv, LookAtGates \/ GatesDone \/ IdleDone
  PROVE  IInv'
<1>1. "gates" \in Phase /\ "go" \in Phase /\ "nets" \in Phase /\ "now2" \in Phase
  BY DEF Phase
<1>2. CASE LookAtGates
  <2>1. phase = "go" /\ Readylist(q) = <<>> /\ GoTo("gates")
    BY <1>2 DEF LookAtGates
  <2>2. actor = NULL
    BY <2>1 DEF IInv, Turn
  <2> QED
    BY <1>1, <2>1, <2>2, OnlyGoMoves, GoToKeeps
<1>3. CASE GatesDone
  <2>1. phase = "gates" /\ actor = NULL /\ GoTo(IF Readylist(q) # <<>> THEN "go" ELSE "nets")
    BY <1>3 DEF GatesDone
  <2>2. CASE Readylist(q) # <<>>
    <3>1. GoTo("go")
      BY <2>1, <2>2
    <3> QED
      BY <1>1, <2>1, <3>1, OnlyGoMoves, GoToKeeps
  <2>3. CASE ~(Readylist(q) # <<>>)
    <3>1. GoTo("nets")
      BY <2>1, <2>3
    <3> QED
      BY <1>1, <2>1, <3>1, OnlyGoMoves, GoToKeeps
  <2> QED
    BY <2>2, <2>3
<1>4. CASE IdleDone
  <2>1. phase = "idle" /\ actor = NULL /\ GoTo(IF Readylist(q) # <<>> THEN "go" ELSE "now2")
    BY <1>4 DEF IdleDone
  <2>2. CASE Readylist(q) # <<>>
    <3>1. GoTo("go")
      BY <2>1, <2>2
    <3> QED
      BY <1>1, <2>1, <3>1, OnlyGoMoves, GoToKeeps
  <2>3. CASE ~(Readylist(q) # <<>>)
    <3>1. GoTo("now2")
      BY <2>1, <2>3
    <3>2. ~late => \E s \in SCB : q.list[s] \in Queue
      BY <2>1 DEF IInv, Busy
    <3> QED
      BY <1>1, <2>1, <3>1, <3>2, OnlyGoMoves, GoToKeeps
  <2> QED
    BY <2>2, <2>3
<1> QED
  BY <1>2, <1>3, <1>4

LEMMA FireGateKeeps ==
  ASSUME IInv, NEW g \in GATE, FireGate(g)
  PROVE  IInv'
<1>1. /\ phase = "gates" /\ actor = NULL /\ actor' = g
      /\ gateTime' = [gateTime EXCEPT ![g] = NONE]
      /\ UNCHANGED <<q, CurrentTime, pc, phase, retrigger, new_time, chain, walk, idle, final, batch, steps, late>>
  BY DEF FireGate, waiting, strobes
<1>2. gateTime \in [GATE -> Times \cup {NONE}] /\ g # NULL
  BY DesignFacts DEF IInv, TypeOK
<1>3. gateTime' \in [GATE -> Times \cup {NONE}] /\ \A h \in GATE : gateTime'[h] # NONE => gateTime'[h] = gateTime[h]
  BY <1>1, <1>2
<1>4. TypeOK'
  BY <1>1, <1>3 DEF IInv, TypeOK
<1>5. Ahead'
  BY <1>1, <1>3 DEF IInv, Ahead
<1>6. Present'
  BY <1>1, OnlyGoMoves DEF Present, NotMoved
<1>7. Turn' /\ Busy' /\ Over'
  BY <1>1, <1>2 DEF Turn, Busy, Over
<1> QED
  BY <1>1, <1>4, <1>5, <1>6, <1>7, SameLists DEF IInv

LEMMA FinishedKeeps ==
  ASSUME IInv, Finished
  PROVE  IInv'
<1>1. /\ phase \in {"gates", "idle", "idleEnd", "final", "finalEnd"} /\ walk = <<>> /\ actor' = NULL
      /\ UNCHANGED <<q, CurrentTime, pc, phase, retrigger, new_time, chain, walk, gateTime, idle, final, batch, steps, late>>
  BY DEF Finished, waiting, strobes
<1>2. TypeOK' /\ Ahead' /\ Busy'
  BY <1>1 DEF IInv, TypeOK, Ahead, Busy
<1>3. Present'
  BY <1>1, OnlyGoMoves DEF Present, NotMoved
<1>4. Turn' /\ Over'
  BY <1>1 DEF IInv, Turn, Over
<1> QED
  BY <1>1, <1>2, <1>3, <1>4, SameLists DEF IInv

LEMMA NetsDoneKeeps ==
  ASSUME IInv, NetsDone
  PROVE  IInv'
<1>1. phase = "nets" /\ actor = NULL
  BY DEF NetsDone, IInv, Turn
<1>2. "go" \in Phase /\ "now1" \in Phase /\ "idleEnd" \in Phase
  BY DEF Phase
<1>3. CASE Readylist(q) # <<>>
  <2>1. GoTo("go")
    BY <1>3 DEF NetsDone
  <2> QED
    BY <1>1, <1>2, <2>1, OnlyGoMoves, GoToKeeps
<1>4. CASE Readylist(q) = <<>> /\ Timelist(q) # <<>>
  <2>1. GoTo("now1")
    BY <1>4 DEF NetsDone
  <2>2. \E s \in SCB : q.list[s] \in Queue
    BY <1>4, Heads DEF Queue
  <2> QED
    BY <1>1, <1>2, <2>1, <2>2, OnlyGoMoves, GoToKeeps
<1>5. CASE Readylist(q) = <<>> /\ Timelist(q) = <<>>
  <2>1. /\ phase' = "idleEnd" /\ batch' = idle
        /\ UNCHANGED <<q, CurrentTime, pc, actor, retrigger, new_time, chain, walk, gateTime, idle, final, steps, late>>
    BY <1>5 DEF NetsDone, CheckStrobe, waiting
  <2>2. TypeOK' /\ Ahead'
    BY <1>2, <2>1 DEF IInv, TypeOK, Ahead
  <2>3. Present'
    BY <1>1, <2>1, OnlyGoMoves DEF Present, NotMoved
  <2>4. Turn' /\ Over' /\ Busy'
    BY <1>1, <2>1 DEF IInv, Turn, Over, Busy
  <2> QED
    BY <2>1, <2>2, <2>3, <2>4, SameLists DEF IInv
<1> QED
  BY <1>3, <1>4, <1>5

LEMMA Now1DoneKeeps ==
  ASSUME IInv, Now1Done
  PROVE  IInv'
<1>1. phase = "now1" /\ actor = NULL
  BY DEF Now1Done, IInv, Turn
<1>2. "go" \in Phase /\ "idle" \in Phase
  BY DEF Phase
<1>3. CASE MoreNow
  <2>1. GoTo("go")
    BY <1>3 DEF Now1Done
  <2> QED
    BY <1>1, <1>2, <2>1, OnlyGoMoves, GoToKeeps
<1>4. CASE ~MoreNow
  <2>1. /\ phase' = "idle" /\ batch' = idle
        /\ UNCHANGED <<q, CurrentTime, pc, actor, retrigger, new_time, chain, walk, gateTime, idle, final, steps, late>>
    BY <1>4 DEF Now1Done, CheckStrobe, waiting
  <2>2. TypeOK' /\ Ahead'
    BY <1>2, <2>1 DEF IInv, TypeOK, Ahead
  <2>3. Present'
    BY <1>1, <2>1, OnlyGoMoves DEF Present, NotMoved
  <2>4. Turn' /\ Over' /\ Busy'
    BY <1>1, <2>1 DEF IInv, Turn, Over, Busy
  <2> QED
    BY <2>1, <2>2, <2>3, <2>4, SameLists DEF IInv
<1> QED
  BY <1>3, <1>4

LEMMA RunIdleKeeps ==
  ASSUME IInv, NEW m \in MONITOR, RunIdle(m)
  PROVE  IInv'
<1>1. /\ phase \in {"idle", "idleEnd"} /\ actor' = m /\ idle' = idle \ {m} /\ batch' = batch \ {m}
      /\ UNCHANGED <<q, CurrentTime, pc, phase, retrigger, new_time, chain, walk, gateTime, final, steps, late>>
  BY DEF RunIdle, Dequeue, waiting
<1>2. m # NULL
  BY DesignFacts
<1>3. TypeOK' /\ Ahead' /\ Busy'
  BY <1>1 DEF IInv, TypeOK, Ahead, Busy
<1>4. Present'
  BY <1>1, OnlyGoMoves DEF Present, NotMoved
<1>5. Turn' /\ Over'
  BY <1>1, <1>2 DEF Turn, Over
<1> QED
  BY <1>1, <1>3, <1>4, <1>5, SameLists DEF IInv

LEMMA EndOfTimeKeeps ==
  ASSUME IInv, EndOfTime
  PROVE  IInv'
<1>1. phase = "idleEnd" /\ actor = NULL
  BY DEF EndOfTime
<1>2. "go" \in Phase /\ "finalEnd" \in Phase
  BY DEF Phase
<1>3. CASE PliAdded \/ IdleAgain
  <2>1. GoTo("go")
    BY <1>3 DEF EndOfTime
  <2> QED
    BY <1>1, <1>2, <2>1, OnlyGoMoves, GoToKeeps
<1>4. CASE ~(PliAdded \/ IdleAgain)
  <2>1. /\ phase' = "finalEnd" /\ batch' = final
        /\ UNCHANGED <<q, CurrentTime, pc, actor, retrigger, new_time, chain, walk, gateTime, idle, final, steps, late>>
    BY <1>4 DEF EndOfTime, CheckStrobe, waiting
  <2>2. TypeOK' /\ Ahead'
    BY <1>2, <2>1 DEF IInv, TypeOK, Ahead
  <2>3. Present'
    BY <1>1, <2>1, OnlyGoMoves DEF Present, NotMoved
  <2>4. Turn' /\ Over' /\ Busy'
    BY <1>1, <2>1 DEF IInv, Turn, Over, Busy
  <2> QED
    BY <2>1, <2>2, <2>3, <2>4, SameLists DEF IInv
<1> QED
  BY <1>3, <1>4

(* When the present is over, everything is due later.                      *)
LEMMA Now2DoneKeeps ==
  ASSUME IInv, Now2Done
  PROVE  IInv'
<1>1. phase = "now2" /\ actor = NULL /\ ~TimeIsNow
  BY DEF Now2Done, IInv, Turn
<1>2. "go" \in Phase /\ "final" \in Phase
  BY DEF Phase
<1>3. CASE MoreNow \/ IdleAgain
  <2>1. GoTo("go")
    BY <1>3 DEF Now2Done
  <2> QED
    BY <1>1, <1>2, <2>1, OnlyGoMoves, GoToKeeps
<1>4. CASE ~(MoreNow \/ IdleAgain)
  <2>1. /\ phase' = "final" /\ batch' = final
        /\ UNCHANGED <<q, CurrentTime, pc, actor, retrigger, new_time, chain, walk, gateTime, idle, final, steps, late>>
    BY <1>4 DEF Now2Done, CheckStrobe, waiting
  <2>2. TypeOK' /\ Ahead' /\ Busy'
    BY <1>1, <1>2, <2>1 DEF IInv, TypeOK, Ahead, Busy
  <2>3. Present'
    BY <1>1, <2>1, OnlyGoMoves DEF Present, NotMoved
  <2>4. Turn'
    BY <1>1, <2>1 DEF IInv, Turn
  <2>5. idle = {} /\ Readylist(q) = <<>> /\ Netlist(q) = <<>> /\ ~IsGateReady
    BY <1>4 DEF MoreNow, IdleAgain
  <2>6. \A s \in SCB : q.list[s] \notin {"READY", "NET"}
    BY <2>5, Heads
  <2>7. ASSUME ~late, NEW s \in SCB, q.list[s] = "TIME" PROVE q.time[s] > CurrentTime
    <3>1. /\ Timelist(q) # <<>> /\ Timelist(q)[1] \in SCB /\ q.list[Timelist(q)[1]] = "TIME"
          /\ q.time[Timelist(q)[1]] <= q.time[s]
      BY <2>7, Heads
    <3>2. q.time[Timelist(q)[1]] # CurrentTime
      BY <1>1, <3>1 DEF TimeIsNow
    <3>3. q.time[Timelist(q)[1]] >= CurrentTime
      BY <2>7, <3>1 DEF IInv, Ahead
    <3> QED
      BY <3>1, <3>2, <3>3, ListTypes
  <2>8. ASSUME ~late, NEW g \in GATE, gateTime[g] # NONE PROVE gateTime[g] > CurrentTime
    <3>1. \A h \in GATE : gateTime[h] # NONE => gateTime[h] >= CurrentTime
      BY <2>8 DEF IInv, Ahead
    <3>2. gateTime[g] # CurrentTime
      BY <2>5, <2>8, <3>1 DEF IsGateReady, NextGate
    <3> QED
      BY <2>8, <3>1, <3>2, ListTypes
  <2>9. Over'
    BY <1>1, <2>1, <2>5, <2>6, <2>7, <2>8 DEF Over
  <2> QED
    BY <2>1, <2>2, <2>3, <2>4, <2>9, SameLists DEF IInv
<1> QED
  BY <1>3, <1>4

LEMMA RunFinalKeeps ==
  ASSUME IInv, NEW m \in MONITOR, RunFinal(m)
  PROVE  IInv'
<1>1. /\ phase \in {"final", "finalEnd"} /\ actor' = m /\ final' = final \ {m} /\ batch' = batch \ {m}
      /\ UNCHANGED <<q, CurrentTime, pc, phase, retrigger, new_time, chain, walk, gateTime, idle, steps, late>>
  BY DEF RunFinal, FinalPass, waiting
<1>2. m # NULL
  BY DesignFacts
<1>3. TypeOK' /\ Ahead' /\ Busy'
  BY <1>1 DEF IInv, TypeOK, Ahead, Busy
<1>4. Present'
  BY <1>1, OnlyGoMoves DEF Present, NotMoved
<1>5. Turn' /\ Over'
  BY <1>1, <1>2 DEF IInv, Turn, Over
<1> QED
  BY <1>1, <1>3, <1>4, <1>5, SameLists DEF IInv

LEMMA FinalDoneKeeps ==
  ASSUME IInv, FinalDone
  PROVE  IInv'
<1>1. /\ phase \in {"final", "finalEnd"} /\ actor = NULL /\ batch = {}
      /\ phase' = IF phase = "final" THEN "advance" ELSE "done"
      /\ UNCHANGED <<q, CurrentTime, pc, actor, retrigger, new_time, chain, walk, gateTime,
                     idle, final, batch, steps, late>>
  BY DEF FinalDone, FinalPass, GoTo, waiting, strobes
<1>2. TypeOK' /\ Ahead' /\ Busy'
  BY <1>1 DEF IInv, TypeOK, Ahead, Busy, Phase
<1>3. Present'
  BY <1>1, OnlyGoMoves DEF Present, NotMoved
<1>4. Turn' /\ Over'
  BY <1>1 DEF IInv, Turn, Over
<1> QED
  BY <1>1, <1>2, <1>3, <1>4, SameLists DEF IInv

(* A net, or an SCB whose time has come, becomes ready.                    *)
LEMMA Readied ==
  ASSUME IInv, actor = NULL, NEW s \in SCB, q.list[s] \in {"TIME", "NET"},
         Step(q, q', s, "READY", q.time[s]), UNCHANGED <<pc, chain, walk>>
  PROVE  /\ q' \in ListState /\ \A r \in SCB : q'.time[r] = q.time[r]
         /\ q'.list[s] = "READY" /\ \A r \in SCB : r # s => q'.list[r] = q.list[r]
         /\ Threads(q') /\ Planned(q') /\ Kinds' /\ ChainedOnce' /\ WaitersThreaded'
<1>1. q \in ListState /\ pc \in [SCB -> Statement]
  BY ListTypes
<1>2. /\ q' \in ListState /\ Threads(q') /\ Planned(q')
      /\ q'.list[s] = "READY" /\ q'.time[s] = q.time[s]
      /\ \A r \in SCB : r # s => q'.list[r] = q.list[r] /\ q'.time[r] = q.time[r]
  BY <1>1, StepFacts
<1>3. walk = <<>>
  BY DEF IInv, Turn
<1>4. pc' = [pc EXCEPT ![s] = pc[s]]
  BY <1>1
<1>5. ChainedOnce' /\ WaitersThreaded'
  BY <1>3, <1>4, StillWaiting
<1>6. Kinds'
  BY <1>2 DEF IInv, Kinds
<1> QED
  BY <1>2, <1>5, <1>6

LEMMA MoveNetKeeps ==
  ASSUME IInv, MoveNet
  PROVE  IInv'
<1> DEFINE s == Netlist(q)[1]
<1>1. /\ phase = "nets" /\ actor = NULL /\ Netlist(q) # <<>> /\ q' = NetToReady(q)
      /\ UNCHANGED <<CurrentTime, pc, phase, actor, retrigger, new_time, chain, walk, gateTime, idle, final, batch, steps, late>>
  BY DEF MoveNet, waiting, strobes, IInv, Turn
<1>2. s \in SCB /\ q.list[s] = "NET" /\ Step(q, q', s, "READY", q.time[s])
  BY <1>1, ListTypes, MoveNetSteps
<1> HIDE DEF s
<1>3. /\ q' \in ListState /\ \A r \in SCB : q'.time[r] = q.time[r]
      /\ q'.list[s] = "READY" /\ \A r \in SCB : r # s => q'.list[r] = q.list[r]
      /\ Threads(q') /\ Planned(q') /\ Kinds' /\ ChainedOnce' /\ WaitersThreaded'
  BY <1>1, <1>2, Readied
<1>4. ~late => NotMoved /\ ~(new_time > CurrentTime)
  BY <1>1, OnlyGoMoves
<1>5. ~late => q.time[s] = CurrentTime
  BY <1>2 DEF IInv, Ahead
<1>6. TypeOK'
  BY <1>1, <1>3 DEF IInv, TypeOK
<1>7. Ahead'
  BY <1>1, <1>3 DEF IInv, Ahead
<1>8. Present'
  BY <1>1, <1>3, <1>4, <1>5 DEF Present, NotMoved
<1>9. Turn' /\ Busy' /\ Over'
  BY <1>1 DEF IInv, Turn, Busy, Over
<1> QED
  BY <1>3, <1>6, <1>7, <1>8, <1>9 DEF IInv

LEMMA MoveNowKeeps ==
  ASSUME IInv, MoveNow
  PROVE  IInv'
<1> DEFINE s == Timelist(q)[1]
<1>1. /\ phase \in {"now1", "now2"} /\ actor = NULL /\ Timelist(q) # <<>> /\ q.time[s] = CurrentTime
      /\ q' = TimeToReady(q)
      /\ UNCHANGED <<CurrentTime, pc, phase, actor, retrigger, new_time, chain, walk, gateTime, idle, final, batch, steps, late>>
  BY DEF MoveNow, TimeIsNow, waiting, strobes, IInv, Turn
<1>2. s \in SCB /\ q.list[s] = "TIME" /\ Step(q, q', s, "READY", q.time[s])
  BY <1>1, ListTypes, MoveTimeSteps
<1> HIDE DEF s
<1>3. /\ q' \in ListState /\ \A r \in SCB : q'.time[r] = q.time[r]
      /\ q'.list[s] = "READY" /\ \A r \in SCB : r # s => q'.list[r] = q.list[r]
      /\ Threads(q') /\ Planned(q') /\ Kinds' /\ ChainedOnce' /\ WaitersThreaded'
  BY <1>1, <1>2, Readied
<1>4. ~late => NotMoved /\ ~(new_time > CurrentTime)
  BY <1>1, OnlyGoMoves
<1>5. TypeOK'
  BY <1>1, <1>3 DEF IInv, TypeOK
<1>6. Ahead'
  BY <1>1, <1>3 DEF IInv, Ahead
<1>7. Present'
  BY <1>1, <1>3, <1>4 DEF Present, NotMoved
<1>8. Turn' /\ Busy' /\ Over'
  BY <1>1, <1>2, <1>3 DEF IInv, Turn, Busy, Over, Queue
<1> QED
  BY <1>3, <1>5, <1>6, <1>7, <1>8 DEF IInv

(* Time moves when nothing is left to do, to what is due first.            *)
LEMMA Advancing ==
  ASSUME IInv, phase = "advance"
  PROVE  /\ actor = NULL /\ walk = <<>>
         /\ ~late =>
              /\ idle = {} /\ batch = {}
              /\ NotMoved /\ ~(new_time > CurrentTime)
              /\ Readylist(q) = <<>> /\ Netlist(q) = <<>> /\ Timelist(q) # <<>>
              /\ \A s \in SCB : q.list[s] \notin {"READY", "NET"}
              /\ \A s \in SCB : q.list[s] = "TIME" => q.time[s] > CurrentTime /\ q.time[s] >= q.time[Timelist(q)[1]]
              /\ \A g \in GATE : gateTime[g] # NONE => gateTime[g] > CurrentTime
<1>1. actor = NULL /\ walk = <<>>
  BY DEF IInv, Turn
<1>2. ASSUME ~late
      PROVE  /\ idle = {} /\ batch = {}
             /\ \A s \in SCB : q.list[s] \notin {"READY", "NET"}
             /\ \A s \in SCB : q.list[s] = "TIME" => q.time[s] > CurrentTime
             /\ \A g \in GATE : gateTime[g] # NONE => gateTime[g] > CurrentTime
  BY <1>2 DEF IInv, Over
<1>3. ~late => NotMoved /\ ~(new_time > CurrentTime)
  BY OnlyGoMoves
<1>4. ~late => Readylist(q) = <<>> /\ Netlist(q) = <<>>
  BY <1>2, Heads
<1>5. ~late => Timelist(q) # <<>>
  BY <1>2, Heads DEF IInv, Busy, Queue
<1>6. ~late => \A s \in SCB : q.list[s] = "TIME" => q.time[s] >= q.time[Timelist(q)[1]]
  BY <1>5, Heads, ListTypes
<1> QED
  BY <1>1, <1>2, <1>3, <1>4, <1>5, <1>6

LEMMA AdvanceToGateKeeps ==
  ASSUME IInv, NEW g \in GATE, AdvanceToGate(g)
  PROVE  /\ IInv' /\ late' = late
         /\ ~late => /\ CurrentTime' > CurrentTime
                     /\ \A s \in SCB : q.list[s] = "TIME" => q.time[s] >= CurrentTime'
                     /\ \A h \in GATE : gateTime[h] # NONE => gateTime[h] >= CurrentTime'
<1>1. /\ phase = "advance" /\ phase' = "go" /\ CurrentTime' = gateTime[g]
      /\ steps' = (IF late THEN steps ELSE 0) /\ GateFirst(g)
      /\ UNCHANGED <<q, pc, actor, retrigger, new_time, chain, walk, gateTime, idle, final, batch, late>>
  BY DEF AdvanceToGate, waiting, strobes
<1>2. /\ gateTime[g] # NONE /\ Timelist(q) # <<>> /\ gateTime[g] < q.time[Timelist(q)[1]]
      /\ \A h \in GATE : gateTime[h] # NONE => gateTime[h] >= gateTime[g]
  BY <1>1, ListTypes DEF GateFirst, NextGate
<1>3. gateTime[g] \in Nat /\ gateTime[g] \in Times /\ (~late => gateTime[g] > CurrentTime)
  BY <1>1, <1>2, Advancing DEF IInv, TypeOK, Times
<1>4. /\ Timelist(q)[1] \in SCB /\ q.time[Timelist(q)[1]] \in Nat
      /\ \A s \in SCB : q.list[s] = "TIME" => q.time[s] \in Nat /\ q.time[s] >= q.time[Timelist(q)[1]]
  BY <1>2, Heads, ListTypes
<1>5. \A s \in SCB : q.list[s] = "TIME" => q.time[s] >= gateTime[g]
  BY <1>2, <1>3, <1>4
<1>6. TypeOK'
  BY <1>1, <1>3 DEF IInv, TypeOK, Phase
<1>7. Ahead'
  BY <1>1, <1>2, <1>5, Advancing DEF Ahead
<1>8. Present'
  <2>1. ~late => ~(new_time > gateTime[g])
    BY <1>1, <1>3, Advancing, ListTypes
  <2> QED
    BY <1>1, <2>1, Advancing DEF Present, NotMoved
<1>9. Turn' /\ Busy' /\ Over'
  BY <1>1, Advancing DEF Turn, Busy, Over
<1> QED
  BY <1>1, <1>2, <1>3, <1>5, <1>6, <1>7, <1>8, <1>9, SameLists DEF IInv

LEMMA AdvanceToTimelistKeeps ==
  ASSUME IInv, AdvanceToTimelist
  PROVE  IInv' /\ CurrentTime' = CurrentTime /\ late' = late /\ (~late => new_time' > CurrentTime)
<1>a. CASE Timelist(q) = <<>>
  <2>1. /\ phase = "advance" /\ phase' = "fatal"
        /\ UNCHANGED <<q, CurrentTime, pc, actor, retrigger, new_time, chain, walk, gateTime,
                       idle, final, batch, steps, late>>
    BY <1>a DEF AdvanceToTimelist, waiting, strobes
  <2>2. late
    BY <1>a, <2>1, Advancing
  <2>3. TypeOK'
    BY <2>1 DEF IInv, TypeOK, Phase
  <2>4. Turn'
    BY <2>1, Advancing DEF Turn
  <2>5. Ahead' /\ Present' /\ Busy' /\ Over'
    BY <2>1, <2>2 DEF Ahead, Present, Busy, Over
  <2> QED
    BY <2>1, <2>2, <2>3, <2>4, <2>5, SameLists DEF IInv
<1>b. SUFFICES ASSUME Timelist(q) # <<>>
      PROVE  IInv' /\ CurrentTime' = CurrentTime /\ late' = late /\ (~late => new_time' > CurrentTime)
  BY <1>a
<1> DEFINE s == Timelist(q)[1]
           t == q.time[s]
<1>1. /\ phase = "advance" /\ phase' = "move" /\ new_time' = t /\ q' = TimeToReady(q)
      /\ ~\E g \in GATE : GateFirst(g)
      /\ UNCHANGED <<CurrentTime, pc, actor, retrigger, chain, walk, gateTime, idle, final, batch, steps, late>>
  BY <1>b DEF AdvanceToTimelist, waiting, strobes
<1>2. s \in SCB /\ q.list[s] = "TIME" /\ Step(q, q', s, "READY", t)
  BY <1>b, <1>1, ListTypes, MoveTimeSteps
<1>3. t \in Nat /\ t \in Times /\ (~late => t > CurrentTime) /\ CurrentTime \in Nat
  BY <1>1, <1>2, Advancing, ListTypes DEF Times
<1>4. \A r \in SCB : q.list[r] = "TIME" => q.time[r] >= t
  BY <1>b, Heads, ListTypes
<1>5. ASSUME NEW g \in GATE, gateTime[g] # NONE PROVE gateTime[g] >= t
  <2> DEFINE S == {x \in Nat : \E h \in GATE : gateTime[h] # NONE /\ gateTime[h] = x}
             m == Min(S)
  <2>1. gateTime[g] \in S /\ S \in SUBSET Nat
    BY <1>5, ListTypes
  <2>2. \A h \in GATE : gateTime[h] # NONE => gateTime[h] \in S
    BY ListTypes
  <2> HIDE DEF S
  <2>3. m \in S /\ \A x \in S : m <= x
    BY <2>1, MinExists
  <2>4. PICK h \in GATE : gateTime[h] # NONE /\ gateTime[h] = m
    BY <2>3 DEF S
  <2> HIDE DEF m
  <2>5. NextGate(h)
    BY <2>2, <2>3, <2>4 DEF NextGate
  <2>6. ~(m < t)
    BY <1>b, <1>1, <2>4, <2>5 DEF GateFirst
  <2>7. m \in Nat /\ gateTime[g] \in Nat /\ m <= gateTime[g]
    BY <2>1, <2>3
  <2> QED
    BY <1>3, <2>6, <2>7
<1> HIDE DEF s, t
<1>6. t = q.time[s]
  BY DEF t
<1>7. /\ q' \in ListState /\ \A r \in SCB : q'.time[r] = q.time[r]
      /\ q'.list[s] = "READY" /\ \A r \in SCB : r # s => q'.list[r] = q.list[r]
      /\ Threads(q') /\ Planned(q') /\ Kinds' /\ ChainedOnce' /\ WaitersThreaded'
  BY <1>1, <1>2, <1>6, Advancing, Readied
<1>8. TypeOK'
  BY <1>1, <1>3, <1>7 DEF IInv, TypeOK, Phase
<1>9. Ahead'
  BY <1>1, <1>7, Advancing DEF IInv, Ahead
<1>10. Present'
  <2>1. pc[s] \in Timed
    BY <1>2 DEF IInv, Kinds
  <2>2. ~late => Moved'
    BY <1>1, <1>2, <1>4, <1>5, <1>6, <1>7, <2>1, Advancing DEF Moved
  <2> QED
    BY <1>1, <1>3, <2>2 DEF Present
<1>11. Turn' /\ Busy' /\ Over'
  BY <1>1, Advancing DEF Turn, Busy, Over
<1> QED
  BY <1>1, <1>3, <1>7, <1>8, <1>9, <1>10, <1>11 DEF IInv

LEMMA MoveNewTimeKeeps ==
  ASSUME IInv, MoveNewTime
  PROVE  IInv'
<1> DEFINE s == Timelist(q)[1]
           more == Timelist(q) # <<>> /\ q.time[s] = new_time
<1>1. /\ phase = "move"
      /\ IF more THEN q' = TimeToReady(q) /\ phase' = phase ELSE q' = q /\ phase' = "go"
      /\ UNCHANGED <<CurrentTime, pc, actor, retrigger, new_time, chain, walk, gateTime, idle, final, batch, steps, late>>
  BY DEF MoveNewTime, waiting, strobes
<1>2. (~late => Moved /\ new_time > CurrentTime) /\ actor = NULL /\ walk = <<>>
  BY <1>1 DEF IInv, Present, NotMoved, Moved, Turn
<1>3. CASE more
  <2>1. s \in SCB /\ q.list[s] = "TIME" /\ Step(q, q', s, "READY", q.time[s]) /\ q.time[s] = new_time /\ phase' = phase
    BY <1>1, <1>3, ListTypes, MoveTimeSteps
  <2> HIDE DEF s
  <2>2. /\ q' \in ListState /\ \A r \in SCB : q'.time[r] = q.time[r]
        /\ q'.list[s] = "READY" /\ \A r \in SCB : r # s => q'.list[r] = q.list[r]
        /\ Threads(q') /\ Planned(q') /\ Kinds' /\ ChainedOnce' /\ WaitersThreaded'
    BY <1>1, <1>2, <2>1, Readied
  <2>3. TypeOK'
    BY <1>1, <2>1, <2>2 DEF IInv, TypeOK
  <2>4. Ahead'
    BY <1>1, <2>2 DEF IInv, Ahead
  <2>5. Present'
    <3>1. pc[s] \in Timed
      BY <2>1 DEF IInv, Kinds
    <3> QED
      BY <1>1, <1>2, <2>1, <2>2, <3>1 DEF Present, Moved
  <2>6. Turn' /\ Busy' /\ Over'
    BY <1>1, <1>2, <2>1 DEF Turn, Busy, Over
  <2> QED
    BY <2>2, <2>3, <2>4, <2>5, <2>6 DEF IInv
<1>4. CASE ~more
  <2>1. q' = q /\ phase' = "go"
    BY <1>1, <1>4
  <2>2. TypeOK'
    BY <1>1, <2>1 DEF IInv, TypeOK, Phase
  <2>3. Ahead'
    BY <1>1, <2>1 DEF IInv, Ahead
  <2>4. Present'
    BY <1>1, <1>2, <2>1 DEF Present, Moved
  <2>5. Turn' /\ Busy' /\ Over'
    BY <1>1, <1>2, <2>1 DEF Turn, Busy, Over
  <2> QED
    BY <1>1, <2>1, <2>2, <2>3, <2>4, <2>5, SameLists DEF IInv
<1> QED
  BY <1>3, <1>4

-----------------------------------------------------------------------------
(* The invariant holds at the start and after every step.                  *)

LEMMA InitIInv ==
  ASSUME Init
  PROVE  IInv
<1>1. /\ q = [ on |-> [l \in Queue |-> IF l = "READY" THEN Blocks ELSE <<>>],
               list |-> [s \in SCB |-> IF s \in PROC THEN "READY"
                                       ELSE IF s \in NET \cup ASSIGN THEN "NOLIST" ELSE "FREE"],
               time |-> [s \in SCB |-> 0],
               readylist_last |-> LastOf(Blocks),
               netlist_last |-> NULL,
               timelist_currentTail |-> NULL ]
      /\ CurrentTime = 0
      /\ pc = [s \in SCB |-> IF s \in PROC THEN "run" ELSE IF s \in NET THEN "net"
                             ELSE IF s \in ASSIGN THEN "assign" ELSE "free"]
      /\ phase = "go"
      /\ actor = NULL /\ retrigger = NULL /\ new_time = 0
      /\ chain = [e \in EVENT |-> <<>>] /\ walk = <<>>
      /\ gateTime = [g \in GATE |-> NONE]
      /\ idle = {} /\ final = {} /\ batch = {}
      /\ steps = 0 /\ late = FALSE
  BY DEF Init
<1>2. Blocks \in Seq(SCB) /\ Distinct(Blocks)
  BY DesignAssumption DEF Distinct
<1>3. /\ Len(Blocks) \in Nat /\ \A i \in 1 .. Len(Blocks) : Blocks[i] \in SCB /\ Blocks[i] \in PROC
      /\ \A s \in PROC : \E i \in 1 .. Len(Blocks) : Blocks[i] = s
      /\ \A s \in PROC : s \in SCB
  BY <1>2, LenProperties DEF PROC, Range
<1>4. /\ q.on["READY"] = Blocks /\ q.on["NET"] = <<>> /\ q.on["TIME"] = <<>>
      /\ \A s \in SCB : q.list[s] = IF s \in PROC THEN "READY"
                                    ELSE IF s \in NET \cup ASSIGN THEN "NOLIST" ELSE "FREE"
      /\ \A s \in SCB : q.time[s] = 0
      /\ q.readylist_last = LastOf(Blocks) /\ q.netlist_last = NULL /\ q.timelist_currentTail = NULL
  BY <1>1 DEF Queue
<1>5. q \in ListState
  <2>1. LastOf(Blocks) \in SCB \cup {NULL}
    BY <1>2, LastOfType
  <2>2. [l \in Queue |-> IF l = "READY" THEN Blocks ELSE <<>>] \in [Queue -> Seq(SCB)]
    BY <1>2, EmptySeq
  <2>3. [s \in SCB |-> IF s \in PROC THEN "READY" ELSE IF s \in NET \cup ASSIGN THEN "NOLIST" ELSE "FREE"] \in [SCB -> Tag]
    BY DEF Tag, Queue, Resting
  <2> QED
    BY <1>1, <2>1, <2>2, <2>3 DEF ListState
<1>6. Threads(q)
  <2>1. \A l \in Queue : \A i \in 1 .. Len(q.on[l]) : q.list[q.on[l][i]] = l
    BY <1>3, <1>4 DEF Queue
  <2>2. ASSUME NEW s \in SCB, q.list[s] \in Queue PROVE \E i \in 1 .. Len(q.on[q.list[s]]) : q.on[q.list[s]][i] = s
    <3>1. s \in PROC /\ q.list[s] = "READY"
      BY <1>4, <2>2 DEF Queue
    <3> QED
      BY <1>3, <1>4, <3>1
  <2>3. \A l \in Queue : \A i, j \in 1 .. Len(q.on[l]) : q.on[l][i] = q.on[l][j] => i = j
    BY <1>2, <1>4 DEF Queue, Distinct
  <2>4. OneListEach(q)
    BY <2>1, <2>2, <2>3 DEF OneListEach
  <2> QED
    BY <1>4, <2>4 DEF Threads, Readylist, Netlist
<1>7. Planned(q)
  BY <1>4 DEF Planned, TailInGroup, Sorted, Timelist
<1>8. pc \in [SCB -> Statement]
  BY <1>1 DEF Statement
<1>9. TypeOK
  <2>1. chain \in [EVENT -> Seq(SCB)] /\ walk \in Seq(SCB)
    BY <1>1, EmptySeq
  <2>2. gateTime \in [GATE -> Times \cup {NONE}]
    BY <1>1
  <2>3. 0 \in Times /\ 0 <= MaxTime
    BY DesignFacts DEF Times
  <2> QED
    BY <1>1, <1>4, <1>5, <1>8, <2>1, <2>2, <2>3 DEF TypeOK, Phase
<1>10. Kinds
  BY <1>1, <1>4, DesignFacts DEF Kinds
<1>11. Turn /\ Busy /\ Over
  BY <1>1 DEF Turn, Busy, Over
<1>12. ChainedOnce /\ WaitersThreaded
  <2>1. \A e \in EVENT : chain[e] = <<>>
    BY <1>1
  <2>2. \A e \in EVENT : \A s \in Range(chain[e]) : FALSE
    BY <2>1 DEF Range
  <2>3. \A s \in Range(walk) : FALSE
    BY <1>1 DEF Range
  <2>4. Distinct(<<>>)
    BY DEF Distinct
  <2>5. ChainedOnce
    BY <2>1, <2>4 DEF ChainedOnce
  <2>6. \A s \in SCB : q.list[s] # "EVENT"
    BY <1>4
  <2>7. WaitersThreaded
    BY Zenon, <2>2, <2>3, <2>6 DEF WaitersThreaded
  <2> QED
    BY <2>5, <2>7
<1>13. Ahead
  BY <1>1, <1>4 DEF Ahead
<1>14. Present
  <2>1. \A s \in SCB : q.list[s] = "READY" => pc[s] = "run"
    BY <1>1, <1>4
  <2> QED
    BY <1>1, <2>1 DEF Present, NotMoved, Timed
<1> QED
  BY <1>6, <1>7, <1>9, <1>10, <1>11, <1>12, <1>13, <1>14 DEF IInv

LEMMA StutterIInv ==
  ASSUME IInv, UNCHANGED vars
  PROVE  IInv'
<1>1. UNCHANGED <<q, CurrentTime, pc, phase, actor, retrigger, new_time, chain, walk, gateTime, idle, final, batch, steps, late>>
  BY DEF vars
<1>2. TypeOK'
  BY <1>1 DEF IInv, TypeOK
<1>3. Turn' /\ Ahead' /\ Present' /\ Busy' /\ Over'
  BY <1>1 DEF IInv, Turn, Ahead, Present, Moved, NotMoved, Busy, Over
<1> QED
  BY <1>1, <1>2, <1>3, SameLists DEF IInv

LEMMA NextIInv ==
  ASSUME UniformDelays, IInv, [Next]_vars
  PROVE  IInv'
<1>1. CASE Store
  <2>1. ASSUME NEW n \in NET, NEW v \in VALUE, ScheduleNet(n, v) PROVE IInv'
    BY <2>1, ScheduleNetKeeps
  <2>2. ASSUME NEW a \in ASSIGN, NEW v \in VALUE, ScheduleAssign(a, v) PROVE IInv'
    BY <2>2, ScheduleAssignKeeps
  <2>3. ASSUME NEW g \in GATE, NEW d \in DELAYS, ScheduleGate(g, d) PROVE IInv'
    BY <2>3, ScheduleGateKeeps
  <2>4. ASSUME NEW e \in EVENT, NotifyEvent(e) PROVE IInv'
    BY <2>4, NotifyEventKeeps
  <2>5. ASSUME NEW test \in BOOLEAN, NotifyNext(test) PROVE IInv'
    BY <2>5, NotifyNextKeeps
  <2>6. ASSUME NEW m \in MONITOR, TickleIdle(m) \/ TickleFinal(m) PROVE IInv'
    BY <2>6, TickleKeeps
  <2> QED
    BY <1>1, <2>1, <2>2, <2>3, <2>4, <2>5, <2>6 DEF Store
<1>2. CASE Exec
  <2>1. ASSUME NEW b \in SCB \ (NET \cup ASSIGN), NEW d \in DELAYS, AssignNonblocking(b, d) PROVE IInv'
    BY <2>1, AssignNonblockingKeeps
  <2>2. ASSUME NEW d \in DELAYS, Delay(d) PROVE IInv'
    BY <2>2, DelayKeeps
  <2>3. ASSUME NEW es \in (SUBSET EVENT) \ {{}}, WaitOnEvent(es) PROVE IInv'
    BY <2>3, WaitOnEventKeeps
  <2> QED
    BY <1>2, <2>1, <2>2, <2>3, ExecuteKeeps, EndKeeps, EndAssignKeeps, EndNetKeeps DEF Exec
<1>3. CASE Dispatch
  <2>1. ASSUME NEW g \in GATE, FireGate(g) PROVE IInv'
    BY <2>1, FireGateKeeps
  <2>2. ASSUME NEW m \in MONITOR, RunIdle(m) \/ RunFinal(m) PROVE IInv'
    BY <2>2, RunIdleKeeps, RunFinalKeeps
  <2>3. ASSUME NEW g \in GATE, AdvanceToGate(g) PROVE IInv'
    BY <2>3, AdvanceToGateKeeps
  <2>4. ASSUME Stopped PROVE IInv'
    BY <2>4, StutterIInv DEF Stopped
  <2> QED
    BY <1>3, <2>1, <2>2, <2>3, <2>4, LoopKeeps, FinishedKeeps, MoveNetKeeps, NetsDoneKeeps, MoveNowKeeps,
       Now1DoneKeeps, Now2DoneKeeps, FinalDoneKeeps, AdvanceToTimelistKeeps, MoveNewTimeKeeps, EndOfTimeKeeps
       DEF Dispatch
<1> QED
  BY <1>1, <1>2, <1>3, StutterIInv DEF Next

-----------------------------------------------------------------------------
(* The theorems.                                                           *)

LEMMA SpecIInv ==
  ASSUME UniformDelays
  PROVE  Spec => []IInv
BY InitIInv, NextIInv, PTL DEF Spec

(* What is on a list says so.                                              *)
LEMMA OnListHasTag ==
  ASSUME IInv, NEW l \in Queue
  PROVE  \A i \in 1 .. Len(q.on[l]) : q.on[l][i] \in SCB /\ q.list[q.on[l][i]] = l
<1>1. q \in ListState /\ OneListEach(q)
  BY DEF IInv, TypeOK, Threads
<1>2. q.on[l] \in Seq(SCB)
  BY <1>1 DEF ListState
<1> QED
  BY <1>1, <1>2 DEF OneListEach

(* Only two steps of the program set CurrentTime.                          *)
LEMMA TimeStands ==
  ASSUME [Next]_vars, ~Execute, ~\E g \in GATE : AdvanceToGate(g)
  PROVE  CurrentTime' = CurrentTime
<1>1. CASE Store
  BY <1>1 DEF Store, ScheduleNet, ScheduleAssign, ScheduleGate, NotifyEvent, NotifyNext, TickleIdle, TickleFinal
<1>2. CASE Exec
  BY <1>2 DEF Exec, AssignNonblocking, Delay, WaitOnEvent, EndProcess, EndNonblocking, EndAssign, EndNet, DispatchFrom
<1>3. CASE Dispatch
  BY <1>3 DEF Dispatch, LookAtGates, FireGate, Finished, GatesDone, MoveNet, NetsDone, MoveNow, Now1Done, RunIdle,
     IdleDone, Now2Done, RunFinal, FinalDone, AdvanceToTimelist, MoveNewTime, EndOfTime, Stopped, GoTo, CheckStrobe, vars
<1>4. CASE UNCHANGED vars
  BY <1>4 DEF vars
<1> QED
  BY <1>1, <1>2, <1>3, <1>4 DEF Next

LEMMA IInvLists ==
  ASSUME IInv
  PROVE  ListsConsistent
BY DEF IInv, Threads, ListsConsistent, ThreadedOnce, LastPointers

LEMMA IInvAhead ==
  ASSUME IInv
  PROVE  PlansAhead
<1>1. TailInFirstGroup /\ TimelistSorted
  BY DEF IInv, Planned, TailInGroup, TailInFirstGroup, TimelistSorted
<1>2. \A i \in 1 .. Len(Timelist(q)) : Timelist(q)[i] \in SCB /\ q.list[Timelist(q)[i]] = "TIME"
  BY OnListHasTag DEF Timelist, Queue
<1>3. \A i \in 1 .. Len(Netlist(q)) : Netlist(q)[i] \in SCB /\ q.list[Netlist(q)[i]] = "NET"
  BY OnListHasTag DEF Netlist, Queue
<1> QED
  BY <1>1, <1>2, <1>3 DEF IInv, Ahead, NothingInPast, PlansAhead

(* At every moment the lists agree with what every SCB believes: it is     *)
(* threaded once and where it says, the last pointers of the lists point   *)
(* to their ends, and who waits for an event is threaded on a variable     *)
(* (REMOVE_LIST_SCB, ADD_LIST_SCB, Schedule, ScheduleNet, NotifyEvent and  *)
(* dispatcher of schedule.cc), when a net's delays are zero or positive.   *)
THEOREM ListsStayConsistent ==
  ASSUME UniformDelays
  PROVE  Spec => []ListsConsistent
BY SpecIInv, IInvLists, PTL

(* The time list stays in order and timelist_currentTail in its first      *)
(* group, and until a final strobe is late what is planned is never in the *)
(* past, so that the shortcut of Schedule and dispatcher's comparison with *)
(* CurrentTime find what is due.                                           *)
THEOREM PlansStayAhead ==
  ASSUME UniformDelays
  PROVE  Spec => []PlansAhead
BY SpecIInv, IInvAhead, PTL

(* Until a final strobe is late, time moves only forward and only when     *)
(* nothing is left to do at the present: no net, no idle strobe, no final  *)
(* strobe of this pass, no SCB or gate of this time (dispatcher of         *)
(* schedule.cc and GateConditionalAdvanceTime of nsched.cc).               *)
THEOREM TimeMovesWhenOver ==
  ASSUME UniformDelays
  PROVE  Spec => AdvanceWhenOver
<1> DEFINE A == ~late /\ CurrentTime' # CurrentTime => CurrentTime' > CurrentTime /\ PresentIsOver
<1>1. ASSUME IInv, ~late, Execute, CurrentTime' # CurrentTime
      PROVE  CurrentTime' > CurrentTime /\ PresentIsOver
  <2> DEFINE s == Readylist(q)[1]
  <2>1. Readylist(q) # <<>> /\ CurrentTime' = (IF pc[s] \in Timed THEN q.time[s] ELSE CurrentTime)
    BY <1>1 DEF Execute
  <2>2. s \in SCB /\ q.list[s] = "READY" /\ pc[s] \in Timed /\ CurrentTime' = q.time[s]
    BY <1>1, <2>1, Heads
  <2> HIDE DEF s
  <2>3. new_time > CurrentTime /\ Moved
    BY <1>1, <2>2 DEF IInv, Present, NotMoved
  <2>4. CurrentTime' = new_time
    BY <2>2, <2>3 DEF Moved
  <2>5. Netlist(q) = <<>>
    BY <1>1, <2>3, Heads DEF Moved
  <2>6. \A i \in 1 .. Len(Timelist(q)) : Timelist(q)[i] \in SCB /\ q.list[Timelist(q)[i]] = "TIME"
    BY <1>1, OnListHasTag DEF Timelist, Queue
  <2>7. \A i \in 1 .. Len(Readylist(q)) : Readylist(q)[i] \in SCB /\ q.list[Readylist(q)[i]] = "READY"
    BY <1>1, OnListHasTag DEF Readylist, Queue
  <2> QED
    BY <2>3, <2>4, <2>5, <2>6, <2>7 DEF Moved, PresentIsOver
<1>2. ASSUME IInv, ~late, NEW g \in GATE, AdvanceToGate(g)
      PROVE  CurrentTime' > CurrentTime /\ PresentIsOver
  <2>1. phase = "advance"
    BY <1>2 DEF AdvanceToGate
  <2>2. Netlist(q) = <<>> /\ Readylist(q) = <<>> /\ idle = {} /\ batch = {} /\ actor = NULL
    BY <1>2, <2>1, Advancing
  <2>3. /\ CurrentTime' > CurrentTime
        /\ \A s \in SCB : q.list[s] = "TIME" => q.time[s] >= CurrentTime'
        /\ \A h \in GATE : gateTime[h] # NONE => gateTime[h] >= CurrentTime'
    BY <1>2, AdvanceToGateKeeps
  <2>4. \A i \in 1 .. Len(Timelist(q)) : Timelist(q)[i] \in SCB /\ q.list[Timelist(q)[i]] = "TIME"
    BY <1>2, OnListHasTag DEF Timelist, Queue
  <2> QED
    BY <2>2, <2>3, <2>4 DEF PresentIsOver
<1>3. ASSUME IInv, [Next]_vars, ~Execute, ~\E g \in GATE : AdvanceToGate(g)
      PROVE  CurrentTime' = CurrentTime
  BY <1>3, TimeStands
<1>4. IInv /\ [Next]_vars => A
  BY <1>1, <1>2, <1>3
<1>5. IInv /\ [Next]_vars => [A]_vars
  BY <1>4
<1> QED
  BY <1>5, SpecIInv, PTL DEF Spec, AdvanceWhenOver

(* After the final strobes have run, and stored whatever they store to     *)
(* nets, assignments, gates and processes, the next thing that happens is  *)
(* that time moves, unless one of them has planned something for the time  *)
(* it shows: what $strobe and $monitor show of a time is final.            *)
THEOREM FinalStrobesAreLast ==
  ASSUME UniformDelays
  PROVE  Spec => FinalIsLast
<1> DEFINE A == ~late /\ phase = "advance" => CurrentTime' > CurrentTime \/ new_time' > CurrentTime
<1>1. ASSUME IInv, Next, phase = "advance"
      PROVE  AdvanceToTimelist \/ \E g \in GATE : AdvanceToGate(g)
  <2>1. actor = NULL /\ walk = <<>>
    BY <1>1, Advancing
  <2>2. ~Store
    BY <2>1 DEF Store, ScheduleNet, ScheduleAssign, ScheduleGate, NotifyEvent, NotifyNext, TickleIdle, TickleFinal, Storing
  <2>3. ~Exec
    BY <1>1 DEF Exec, Execute, AssignNonblocking, Delay, WaitOnEvent, EndProcess, EndNonblocking, EndAssign, EndNet, Executing
  <2>4. Dispatch => AdvanceToTimelist \/ \E g \in GATE : AdvanceToGate(g)
    BY <1>1 DEF Dispatch, LookAtGates, FireGate, Finished, GatesDone, MoveNet, NetsDone, MoveNow, Now1Done, RunIdle,
       IdleDone, Now2Done, RunFinal, FinalDone, FinalPass, MoveNewTime, EndOfTime, Stopped
  <2> QED
    BY <1>1, <2>2, <2>3, <2>4 DEF Next
<1>2. IInv /\ Next => A
  BY <1>1, AdvanceToGateKeeps, AdvanceToTimelistKeeps
<1>3. IInv /\ [Next]_vars => [A]_vars
  BY <1>2
<1> QED
  BY <1>3, SpecIInv, PTL DEF Spec, FinalIsLast

-----------------------------------------------------------------------------
(***************************************************************************)
(* The scheduler implements the calendar, and takes nobody's turn, for     *)
(* every design in which nothing that has a delay feeds itself.            *)
(***************************************************************************)

(* A net or an assignment that has a delay and notifies itself leaves the  *)
(* ready list while it executes; dispatcher then puts away whoever is      *)
(* first.                                                                  *)
NoDelayedFeedback == \A x \in NET \cup ASSIGN : x \in Fanout[x] => x \in NET /\ ZeroDelay(x)

-----------------------------------------------------------------------------
(* An SCB executes in no phase but that of exec_.                          *)
Actors == actor \in SCB => phase = "exec"

(* The SCB that executes is the first of the ready list until it is put    *)
(* away, so that it is the one dispatcher takes.                           *)
HeadExecutes == phase = "exec" => Readylist(q) # <<>> /\ Readylist(q)[1] = actor

(* What the calendar allows as long as no final strobe has been late.      *)
CalendarStep == Calendar!InTime \/ UNCHANGED <<CurrentTime, due>>

TurnsKept ==
  \A s \in SCB : q.list[s] = "READY" /\ s # actor =>
     \/ q'.list[s] = "READY"
     \/ s \in NET /\ q'.list[s] \in {"NET", "TIME"}
     \/ s \in ASSIGN /\ q'.list[s] = "TIME"

-----------------------------------------------------------------------------
(* What a step does to the moments at which things are due.                *)

LEMMA DueValues ==
  /\ \A g \in GATE : due[g] = gateTime[g] /\ due'[g] = gateTime'[g]
  /\ \A s \in SCB :
       /\ due[s] = IF s = actor \/ q.list[s] \in Resting THEN NONE
                   ELSE IF q.list[s] = "READY" /\ pc[s] \notin Timed THEN CurrentTime ELSE q.time[s]
       /\ due'[s] = IF s = actor' \/ q'.list[s] \in Resting THEN NONE
                    ELSE IF q'.list[s] = "READY" /\ pc'[s] \notin Timed THEN CurrentTime' ELSE q'.time[s]
  /\ due = [x \in SCB \cup GATE |-> due[x]]
  /\ due' = [x \in SCB \cup GATE |-> due'[x]]
BY DesignFacts DEF due

LEMMA Extensional ==
  ASSUME NEW D, NEW f, NEW g, f = [x \in D |-> f[x]], g = [x \in D |-> g[x]],
         NEW i \in D, \A x \in D : x # i => g[x] = f[x]
  PROVE  g = [f EXCEPT ![i] = g[i]]
OBVIOUS

(* Nothing is due at another time.                                         *)
LEMMA DueKept ==
  ASSUME CurrentTime' = CurrentTime, \A x \in SCB \cup GATE : due'[x] = due[x]
  PROVE  CalendarStep
<1> DEFINE f == due
           g == due'
<1>1. f = [x \in SCB \cup GATE |-> f[x]] /\ g = [x \in SCB \cup GATE |-> g[x]] /\ \A x \in SCB \cup GATE : g[x] = f[x]
  BY DueValues
<1> HIDE DEF f, g
<1>2. g = f
  BY <1>1
<1> QED
  BY <1>2 DEF CalendarStep, f, g

(* One item is planned.                                                    *)
LEMMA DuePlanned ==
  ASSUME NEW i \in SCB \cup GATE, NEW t \in Times, t >= CurrentTime, CurrentTime' = CurrentTime,
         due'[i] = t, \A x \in SCB \cup GATE : x # i => due'[x] = due[x]
  PROVE  CalendarStep
<1> DEFINE f == due
           g == due'
<1>1. /\ f = [x \in SCB \cup GATE |-> f[x]] /\ g = [x \in SCB \cup GATE |-> g[x]]
      /\ g[i] = t /\ \A x \in SCB \cup GATE : x # i => g[x] = f[x]
  BY DueValues
<1> HIDE DEF f, g
<1>2. g = [f EXCEPT ![i] = t]
  BY <1>1, Extensional
<1>3. Calendar!Plan(i, t)
  BY <1>2 DEF Calendar!Plan, f, g
<1> QED
  BY <1>3 DEF CalendarStep, Calendar!InTime

(* One item runs that is due first.                                        *)
LEMMA DueRuns ==
  ASSUME NEW i \in SCB \cup GATE, due[i] # NONE, CurrentTime' = due[i], due'[i] = NONE,
         \A x \in SCB \cup GATE : due[x] # NONE => due[i] <= due[x],
         \A x \in SCB \cup GATE : x # i => due'[x] = due[x]
  PROVE  CalendarStep
<1> DEFINE f == due
           g == due'
<1>1. /\ f = [x \in SCB \cup GATE |-> f[x]] /\ g = [x \in SCB \cup GATE |-> g[x]]
      /\ g[i] = NONE /\ \A x \in SCB \cup GATE : x # i => g[x] = f[x]
  BY DueValues
<1> HIDE DEF f, g
<1>2. g = [f EXCEPT ![i] = NONE]
  BY <1>1, Extensional
<1>3. Calendar!Run(i)
  BY <1>2 DEF Calendar!Run, Calendar!Planned, f, g
<1> QED
  BY <1>3 DEF CalendarStep, Calendar!InTime

(* While time is not being moved nothing is due before CurrentTime.        *)
LEMMA DueAhead ==
  ASSUME IInv, ~late, NotMoved
  PROVE  \A x \in SCB \cup GATE : due[x] # NONE => due[x] >= CurrentTime
<1>1. \A g \in GATE : due[g] # NONE => due[g] >= CurrentTime
  BY DueValues DEF IInv, Ahead
<1>2. ASSUME NEW s \in SCB, due[s] # NONE
      PROVE  due[s] >= CurrentTime
  <2>1. /\ q.list[s] \in Queue /\ CurrentTime \in Nat /\ q.time[s] \in Nat
        /\ due[s] = IF q.list[s] = "READY" /\ pc[s] \notin Timed THEN CurrentTime ELSE q.time[s]
    BY <1>2, DueValues, ListTypes DEF Tag
  <2> QED
    BY <2>1 DEF IInv, Ahead, NotMoved, Queue
<1> QED
  BY <1>1, <1>2

(* An SCB is threaded anew, or rests.                                      *)
LEMMA DueElsewhere ==
  ASSUME IInv, NEW s \in SCB, NEW tag \in Tag, NEW t \in Nat, NEW w \in Statement,
         Step(q, q', s, tag, t), pc' = [pc EXCEPT ![s] = w],
         CurrentTime' = CurrentTime, gateTime' = gateTime,
         actor' = actor \/ (actor' = NULL /\ actor = s) \/ (actor' = NULL /\ actor \notin SCB)
  PROVE  /\ \A x \in SCB \cup GATE : x # s => due'[x] = due[x]
         /\ q'.list[s] = tag /\ q'.time[s] = t /\ pc'[s] = w
         /\ \A r \in SCB : r # s => q'.list[r] = q.list[r]
<1>1. /\ q'.list[s] = tag /\ q'.time[s] = t
      /\ \A r \in SCB : r # s => q'.list[r] = q.list[r] /\ q'.time[r] = q.time[r]
  <2>1. q \in ListState
    BY ListTypes
  <2> QED
    BY <2>1, StepFacts
<1>2. pc'[s] = w /\ \A r \in SCB : r # s => pc'[r] = pc[r]
  BY ListTypes
<1>3. ASSUME NEW r \in SCB, r # s PROVE due'[r] = due[r]
  <2>1. r = actor' <=> r = actor
    BY <1>3, DesignFacts
  <2> QED
    BY <1>1, <1>2, <1>3, <2>1, DueValues
<1>4. \A g \in GATE : due'[g] = due[g]
  BY DueValues
<1> QED
  BY <1>1, <1>2, <1>3, <1>4

(* No SCB is touched.                                                      *)
LEMMA SameSCBs ==
  ASSUME q' = q, pc' = pc, CurrentTime' = CurrentTime,
         actor' = actor \/ (actor \notin SCB /\ actor' \notin SCB)
  PROVE  TurnsKept /\ \A s \in SCB : due'[s] = due[s]
<1>1. TurnsKept
  BY DEF TurnsKept
<1>2. ASSUME NEW s \in SCB PROVE due'[s] = due[s]
  <2>1. s = actor' <=> s = actor
    OBVIOUS
  <2> QED
    BY <2>1, DueValues
<1> QED
  BY <1>1, <1>2

LEMMA SameDue ==
  ASSUME q' = q, pc' = pc, CurrentTime' = CurrentTime, gateTime' = gateTime,
         actor' = actor \/ (actor \notin SCB /\ actor' \notin SCB)
  PROVE  TurnsKept /\ CalendarStep
<1>1. \A g \in GATE : due'[g] = due[g]
  BY DueValues
<1> QED
  BY <1>1, SameSCBs, DueKept

-----------------------------------------------------------------------------
(* The stores.                                                             *)

(* A net or an assignment that is notified is not the one that stores.     *)
LEMMA NotifiesOther ==
  ASSUME NoDelayedFeedback, NEW x \in NET \cup ASSIGN, Reaches(x), x \notin NET \/ ~ZeroDelay(x)
  PROVE  x # actor
<1>1. DOMAIN Fanout = NET \cup ASSIGN \cup GATE \cup MONITOR
  BY DesignAssumption
<1> QED
  BY <1>1 DEF Reaches, NoDelayedFeedback

LEMMA HeadStaysThere ==
  ASSUME IInv, HeadExecutes, NEW s \in SCB, s # actor \/ phase # "exec", NEW tag, NEW t, Step(q, q', s, tag, t),
         phase' = phase, actor' = actor
  PROVE  HeadExecutes'
BY DEF HeadExecutes, Step, HeadStays

LEMMA NetCalendar ==
  ASSUME UniformDelays, NoDelayedFeedback, IInv, Actors, HeadExecutes, NEW n \in NET, NEW v \in VALUE, ScheduleNet(n, v)
  PROVE  HeadExecutes' /\ TurnsKept /\ CalendarStep
<1> DEFINE delay == NetDelay[n][v]
<1>1. /\ delay \in Nat /\ n \in SCB /\ pc[n] = "net" /\ "net" \in Timed
      /\ (delay > 0 => ~ZeroDelay(n)) /\ (~(delay > 0) => delay = 0 /\ ZeroDelay(n))
  <2>1. delay \in Nat /\ n \in SCB
    BY DesignFacts
  <2> QED
    BY <2>1 DEF UniformDelays, ZeroDelay, IInv, Kinds, Timed
<1>2. /\ actor # NULL /\ Reaches(n)
      /\ After(delay) \in Nat /\ After(delay) >= CurrentTime /\ After(delay) <= MaxTime
      /\ q' = IF delay > 0 THEN Schedule(q, After(delay), n, FALSE)
              ELSE IF RunningNet(n) \/ q.list[n] = "NET" THEN q
              ELSE AppendNet(q, CurrentTime, n)
      /\ UNCHANGED <<CurrentTime, pc, phase, actor, gateTime>>
  BY <1>1, ListTypes DEF ScheduleNet, After, Storing
<1> HIDE DEF delay
<1>3. CurrentTime \in Times /\ After(delay) \in Times
  BY <1>2, ListTypes DEF Times
<1>4. pc' = [pc EXCEPT ![n] = "net"]
  BY <1>1, <1>2, ListTypes
<1>5. CASE delay > 0
  <2>1. q.list[n] # "NET" /\ n # actor
    BY <1>1, <1>2, <1>5, NotifiesOther DEF IInv, Kinds
  <2>2. Step(q, Schedule(q, After(delay), n, FALSE), n, "TIME", After(delay))
    BY <1>1, <1>2, <2>1, ListTypes, ScheduleSteps
  <2>3. Step(q, q', n, "TIME", After(delay))
    BY <1>2, <1>5, <2>2
  <2>4. HeadExecutes'
    BY <1>1, <1>2, <2>1, <2>3, HeadStaysThere
  <2>5. /\ \A x \in SCB \cup GATE : x # n => due'[x] = due[x]
        /\ q'.list[n] = "TIME" /\ q'.time[n] = After(delay)
        /\ \A r \in SCB : r # n => q'.list[r] = q.list[r]
    BY <1>1, <1>2, <1>4, <2>3, ListTypes, DueElsewhere DEF Tag, Queue, Statement
  <2>6. due'[n] = After(delay)
    BY <1>1, <1>2, <2>1, <2>5, DueValues DEF Resting
  <2>7. CalendarStep
    BY <1>1, <1>2, <1>3, <2>5, <2>6, DuePlanned
  <2>8. TurnsKept
    BY <2>5 DEF TurnsKept
  <2> QED
    BY <2>4, <2>7, <2>8
<1>6. CASE ~(delay > 0) /\ (RunningNet(n) \/ q.list[n] = "NET")
  <2>1. q' = q
    BY <1>2, <1>6
  <2> QED
    BY <1>2, <2>1, SameDue DEF HeadExecutes
<1>7. CASE ~(delay > 0) /\ ~(RunningNet(n) \/ q.list[n] = "NET")
  <2>1. n # actor
    BY <1>1, <1>7 DEF HeadExecutes, RunningNet, Actors
  <2>2. Step(q, AppendNet(q, CurrentTime, n), n, "NET", CurrentTime)
    BY <1>1, <1>7, ListTypes, AppendNetSteps
  <2>3. Step(q, q', n, "NET", CurrentTime)
    BY <1>2, <1>7, <2>2
  <2>4. HeadExecutes'
    BY <1>1, <1>2, <2>1, <2>3, HeadStaysThere
  <2>5. /\ \A x \in SCB \cup GATE : x # n => due'[x] = due[x]
        /\ q'.list[n] = "NET" /\ q'.time[n] = CurrentTime
        /\ \A r \in SCB : r # n => q'.list[r] = q.list[r]
    BY <1>1, <1>2, <1>4, <2>3, ListTypes, DueElsewhere DEF Tag, Queue, Statement
  <2>6. due'[n] = CurrentTime
    BY <1>1, <1>2, <2>1, <2>5, DueValues DEF Resting
  <2>7. CalendarStep
    BY <1>1, <1>2, <1>3, <2>5, <2>6, ListTypes, DuePlanned
  <2>8. TurnsKept
    BY <2>5 DEF TurnsKept
  <2> QED
    BY <2>4, <2>7, <2>8
<1> QED
  BY <1>5, <1>6, <1>7

LEMMA AssignCalendar ==
  ASSUME NoDelayedFeedback, IInv, HeadExecutes, NEW a \in ASSIGN, NEW v \in VALUE, ScheduleAssign(a, v)
  PROVE  HeadExecutes' /\ TurnsKept /\ CalendarStep
<1> DEFINE t == After(AssignDelay[a][v])
<1>1. a \in SCB /\ a \notin NET /\ pc[a] = "assign" /\ AssignDelay[a][v] \in Nat
  BY DesignFacts DEF IInv, Kinds
<1>2. /\ t \in Nat /\ t >= CurrentTime /\ t <= MaxTime /\ Reaches(a)
      /\ q' = Schedule(q, t, a, TRUE)
      /\ UNCHANGED <<CurrentTime, pc, phase, actor, gateTime>>
  BY <1>1, ListTypes DEF ScheduleAssign, After
<1> HIDE DEF t
<1>3. t \in Times /\ pc' = [pc EXCEPT ![a] = "assign"]
  BY <1>1, <1>2, ListTypes DEF Times
<1>4. q.list[a] # "NET" /\ a # actor
  BY <1>1, <1>2, NotifiesOther DEF IInv, Kinds
<1>5. Step(q, Schedule(q, t, a, TRUE), a, "TIME", t)
  BY <1>1, <1>2, <1>4, ListTypes, ScheduleSteps
<1>6. Step(q, q', a, "TIME", t)
  BY <1>2, <1>5
<1>7. HeadExecutes'
  BY <1>1, <1>2, <1>4, <1>6, HeadStaysThere
<1>8. /\ \A x \in SCB \cup GATE : x # a => due'[x] = due[x]
      /\ q'.list[a] = "TIME" /\ q'.time[a] = t
      /\ \A r \in SCB : r # a => q'.list[r] = q.list[r]
  BY <1>1, <1>2, <1>3, <1>6, DueElsewhere DEF Tag, Queue, Statement
<1>9. due'[a] = t
  BY <1>1, <1>2, <1>4, <1>8, DueValues DEF Resting
<1>10. CalendarStep
  BY <1>1, <1>2, <1>3, <1>8, <1>9, DuePlanned
<1>11. TurnsKept
  BY <1>8 DEF TurnsKept
<1> QED
  BY <1>7, <1>10, <1>11

LEMMA GateCalendar ==
  ASSUME IInv, HeadExecutes, NEW g \in GATE, NEW d \in DELAYS, ScheduleGate(g, d)
  PROVE  HeadExecutes' /\ TurnsKept /\ CalendarStep
<1>1. /\ After(d) \in Nat /\ After(d) >= CurrentTime /\ After(d) <= MaxTime
      /\ gateTime' = [gateTime EXCEPT ![g] = After(d)]
      /\ UNCHANGED <<q, CurrentTime, pc, phase, actor>>
  BY DesignFacts, ListTypes DEF ScheduleGate, After
<1>2. gateTime'[g] = After(d) /\ \A h \in GATE : h # g => gateTime'[h] = gateTime[h]
  BY <1>1 DEF IInv, TypeOK
<1>3. TurnsKept /\ \A s \in SCB : due'[s] = due[s]
  BY <1>1, SameSCBs
<1>4. due'[g] = After(d) /\ \A x \in SCB \cup GATE : x # g => due'[x] = due[x]
  BY <1>2, <1>3, DueValues
<1>5. CalendarStep
  BY <1>1, <1>4, DuePlanned, DesignFacts DEF Times
<1> QED
  BY <1>1, <1>3, <1>5 DEF HeadExecutes

(* A process that is woken is planned for now.                             *)
LEMMA NotifyNextCalendar ==
  ASSUME IInv, HeadExecutes, NEW test \in BOOLEAN, NotifyNext(test)
  PROVE  HeadExecutes' /\ TurnsKept /\ CalendarStep
<1> DEFINE p == Head(walk)
           woken == q.list[p] # "READY" /\ test
<1>1. /\ walk # <<>>
      /\ q' = IF woken THEN AppendReady(RemoveSCB(q, p), p) ELSE q
      /\ UNCHANGED <<CurrentTime, pc, phase, actor, gateTime>>
  BY DEF NotifyNext
<1>2. walk \in Seq(SCB)
  BY DEF IInv, TypeOK
<1>3. p \in Range(walk) /\ p \in SCB
  <2> DEFINE w == walk
  <2>1. w \in Seq(SCB) /\ w # <<>> /\ Len(w) \in Nat /\ DOMAIN w = 1 .. Len(w) /\ Len(w) # 0
    BY <1>1, <1>2, LenProperties, EmptySeq
  <2>2. Head(w) = w[1] /\ 1 \in 1 .. Len(w)
    BY <2>1, HeadTailProperties
  <2>3. w[1] \in SCB /\ p \in Range(w)
    BY <2>1, <2>2 DEF Range
  <2> QED
    BY <2>2, <2>3
<1>4. q.list[p] \in {"EVENT", "READY"} /\ pc[p] = "event"
  BY <1>3 DEF IInv, WaitersThreaded
<1> HIDE DEF p
<1>5. CASE ~woken
  <2>1. q' = q
    BY <1>1, <1>5
  <2> QED
    BY <1>1, <2>1, SameDue DEF HeadExecutes
<1>6. CASE woken
  <2>1. q' = AppendReady(RemoveSCB(q, p), p) /\ q.list[p] = "EVENT"
    BY <1>1, <1>4, <1>6
  <2>2. p # actor \/ phase # "exec"
    BY <2>1, Heads DEF HeadExecutes
  <2>3. Step(q, q', p, "READY", q.time[p])
    BY <1>3, <2>1, ListTypes, WakeSteps
  <2>4. pc' = [pc EXCEPT ![p] = "event"]
    BY <1>1, <1>4, ListTypes
  <2>5. HeadExecutes'
    BY <1>1, <1>3, <2>2, <2>3, HeadStaysThere
  <2>6. /\ \A x \in SCB \cup GATE : x # p => due'[x] = due[x]
        /\ q'.list[p] = "READY" /\ pc'[p] = "event"
        /\ \A r \in SCB : r # p => q'.list[r] = q.list[r]
    BY <1>1, <1>3, <2>3, <2>4, ListTypes, DueElsewhere DEF Tag, Queue, Statement
  <2>7. CASE p = actor
    <3>1. due'[p] = due[p]
      BY <1>1, <1>3, <2>7, DueValues
    <3>2. CalendarStep
      BY <1>1, <2>6, <3>1, DueKept
    <3> QED
      BY <2>5, <2>6, <3>2 DEF TurnsKept
  <2>8. CASE p # actor
    <3>1. due'[p] = CurrentTime
      BY <1>1, <1>3, <2>6, <2>8, DueValues DEF Resting, Timed
    <3>2. CurrentTime \in Times /\ CurrentTime >= CurrentTime
      BY ListTypes DEF Times
    <3>3. CalendarStep
      BY <1>1, <1>3, <2>6, <3>1, <3>2, DuePlanned
    <3> QED
      BY <2>5, <2>6, <3>3 DEF TurnsKept
  <2> QED
    BY <2>7, <2>8
<1> QED
  BY <1>5, <1>6

-----------------------------------------------------------------------------
(* The statements.                                                         *)

LEMMA ExecuteCalendar ==
  ASSUME IInv, Execute
  PROVE  HeadExecutes' /\ TurnsKept /\ (~late => CalendarStep)
<1> DEFINE s == Readylist(q)[1]
<1>1. /\ phase = "go" /\ Readylist(q) # <<>> /\ actor' = s /\ phase' = "exec"
      /\ CurrentTime' = IF pc[s] \in Timed THEN q.time[s] ELSE CurrentTime
      /\ pc' = IF pc[s] \in {"delay", "event"} THEN [pc EXCEPT ![s] = "run"] ELSE pc
      /\ UNCHANGED <<q, gateTime>>
  BY DEF Execute
<1>2. HeadExecutes' /\ TurnsKept
  BY <1>1 DEF HeadExecutes, TurnsKept
<1>3. s \in SCB /\ q.list[s] = "READY" /\ actor = NULL /\ "READY" \notin Resting
  BY <1>1, Heads DEF IInv, Turn, Resting
<1> HIDE DEF s
<1>a. SUFFICES ASSUME ~late PROVE CalendarStep
  BY <1>2
<1>4. due[s] = CurrentTime' /\ due[s] \in Nat /\ due'[s] = NONE
  BY <1>1, <1>3, DueValues, ListTypes, DesignFacts
<1>5. \A r \in SCB : r # s => pc'[r] = pc[r]
  BY <1>1, ListTypes
<1>6. CASE new_time > CurrentTime
  <2>1. Moved
    BY <1>6, <1>a DEF IInv, Present
  <2>2. CurrentTime' = new_time
    BY <1>1, <1>3, <2>1 DEF Moved
  <2>3. ASSUME NEW r \in SCB
        PROVE  /\ due[r] # NONE => new_time <= due[r]
               /\ r # s => due'[r] = due[r]
    <3>1. q.list[r] = "READY" => pc[r] \in Timed /\ q.time[r] = new_time
      BY <2>1 DEF Moved
    <3>2. q.list[r] \in Queue \cup Resting /\ q.list[r] # "NET" /\ (q.list[r] = "TIME" => q.time[r] >= new_time)
      BY <2>1, ListTypes DEF Moved, Tag
    <3> QED
      BY <1>1, <1>3, <1>5, <3>1, <3>2, DueValues, ListTypes, DesignFacts DEF Queue
  <2>4. ASSUME NEW g \in GATE
        PROVE  (due[g] # NONE => new_time <= due[g]) /\ due'[g] = due[g]
    BY <1>1, <2>1, DueValues, ListTypes DEF Moved
  <2>5. \A x \in SCB \cup GATE : due[x] # NONE => due[s] <= due[x]
    BY <1>4, <2>2, <2>3, <2>4
  <2>6. \A x \in SCB \cup GATE : x # s => due'[x] = due[x]
    BY <2>3, <2>4
  <2>7. CalendarStep
    BY <1>3, <1>4, <2>5, <2>6, DueRuns, DesignFacts
  <2> QED
    BY <1>2, <2>7
<1>7. CASE ~(new_time > CurrentTime)
  <2>1. NotMoved
    BY <1>7, <1>a DEF IInv, Present
  <2>2. CurrentTime' = CurrentTime
    BY <1>1, <1>3, <2>1 DEF NotMoved
  <2>3. ASSUME NEW r \in SCB, r # s PROVE due'[r] = due[r]
    BY <1>1, <1>3, <1>5, <2>2, <2>3, DueValues, DesignFacts
  <2>4. \A g \in GATE : due'[g] = due[g]
    BY <1>1, DueValues
  <2>5. \A x \in SCB \cup GATE : due[x] # NONE => due[s] <= due[x]
    <3>1. \A x \in SCB \cup GATE : due[x] # NONE => due[x] >= CurrentTime
      BY <1>a, <2>1, DueAhead
    <3>2. \A x \in SCB \cup GATE : due[x] # NONE => due[x] \in Nat
      BY DueValues, ListTypes
    <3> QED
      BY <1>4, <2>2, <3>1, <3>2
  <2>6. CalendarStep
    BY <1>3, <1>4, <2>3, <2>4, <2>5, DueRuns, DesignFacts
  <2> QED
    BY <1>2, <2>6
<1> QED
  BY <1>6, <1>7

LEMMA NonblockingCalendar ==
  ASSUME IInv, HeadExecutes, NEW b \in SCB \ (NET \cup ASSIGN), NEW d \in DELAYS, AssignNonblocking(b, d)
  PROVE  HeadExecutes' /\ TurnsKept /\ CalendarStep
<1>1. /\ phase = "exec" /\ q.list[b] = "FREE" /\ pc' = [pc EXCEPT ![b] = "nba"]
      /\ UNCHANGED <<CurrentTime, phase, actor, gateTime>>
  BY DEF AssignNonblocking, Executing
<1>2. /\ Step(q, q', b, "TIME", After(d))
      /\ After(d) \in Nat /\ After(d) >= CurrentTime /\ After(d) <= MaxTime
  BY NonblockingSteps
<1>3. b # actor
  BY <1>1, Heads DEF HeadExecutes
<1>4. HeadExecutes'
  BY <1>1, <1>2, <1>3, HeadStaysThere
<1>5. /\ \A x \in SCB \cup GATE : x # b => due'[x] = due[x]
      /\ q'.list[b] = "TIME" /\ q'.time[b] = After(d)
      /\ \A r \in SCB : r # b => q'.list[r] = q.list[r]
  BY <1>1, <1>2, DueElsewhere DEF Tag, Queue, Statement
<1>6. due'[b] = After(d)
  BY <1>1, <1>3, <1>5, DueValues DEF Resting
<1>7. After(d) \in Times
  BY <1>2, DesignFacts DEF Times
<1>8. CalendarStep
  BY <1>1, <1>2, <1>5, <1>6, <1>7, DuePlanned
<1>9. TurnsKept
  BY <1>1, <1>5 DEF TurnsKept
<1> QED
  BY <1>4, <1>8, <1>9

(* The SCB that executed is put where it waits.                            *)
LEMMA PutAwayCalendar ==
  ASSUME IInv, NEW s \in SCB, s = actor, NEW tag \in Resting \cup {"TIME"}, NEW t \in Nat, t <= MaxTime, NEW w \in Statement,
         Step(q, q', s, tag, t), pc' = [pc EXCEPT ![s] = w],
         tag = "TIME" => t >= CurrentTime /\ w \in Timed,
         phase' = "go", actor' = NULL, CurrentTime' = CurrentTime, gateTime' = gateTime
  PROVE  HeadExecutes' /\ TurnsKept /\ CalendarStep
<1>1. tag \in Tag
  BY DEF Tag, Queue
<1>2. /\ \A x \in SCB \cup GATE : x # s => due'[x] = due[x]
      /\ q'.list[s] = tag /\ q'.time[s] = t /\ pc'[s] = w
      /\ \A r \in SCB : r # s => q'.list[r] = q.list[r]
  BY <1>1, DueElsewhere
<1>3. HeadExecutes' /\ TurnsKept
  BY <1>2 DEF HeadExecutes, TurnsKept
<1>4. s # NULL
  BY DesignFacts
<1>5. CASE tag \in Resting
  <2>1. due'[s] = due[s]
    BY <1>2, <1>4, <1>5, DueValues
  <2> QED
    BY <1>2, <1>3, <2>1, DueKept
<1>6. CASE tag = "TIME"
  <2>1. due'[s] = t /\ t >= CurrentTime
    BY <1>2, <1>4, <1>6, DueValues DEF Resting
  <2>2. t \in Times
    BY ListTypes DEF Times
  <2>3. CalendarStep
    BY <1>2, <2>1, <2>2, DuePlanned
  <2> QED
    BY <1>3, <2>3
<1> QED
  BY <1>5, <1>6

LEMMA ExecutingActor ==
  ASSUME IInv, HeadExecutes, phase = "exec"
  PROVE  /\ Readylist(q) # <<>> /\ Incoming = actor /\ actor \in SCB
         /\ q.time[actor] \in Nat /\ q.time[actor] <= MaxTime /\ pc[actor] \in Statement
         /\ CurrentTime \in Nat /\ CurrentTime <= MaxTime
<1>1. Readylist(q) # <<>> /\ Incoming = actor
  BY IncomingFacts DEF HeadExecutes
<1> QED
  BY <1>1, IncomingFacts, ListTypes

LEMMA DelayCalendar ==
  ASSUME IInv, HeadExecutes, NEW d \in DELAYS, Delay(d)
  PROVE  HeadExecutes' /\ TurnsKept /\ CalendarStep
<1>1. phase = "exec" /\ After(d) <= MaxTime
  BY DEF Delay, Executing
<1>2. Readylist(q) # <<>> /\ Incoming = actor /\ actor \in SCB
  BY <1>1, ExecutingActor
<1>3. /\ q' = WaitUntil(After(d)) /\ phase' = "go" /\ actor' = NULL
      /\ pc' = [pc EXCEPT ![actor] = "delay"] /\ CurrentTime' = CurrentTime /\ gateTime' = gateTime
  BY <1>2 DEF Delay, DispatchFrom
<1>4. After(d) \in Nat /\ After(d) >= CurrentTime
  BY DesignFacts, ListTypes DEF After
<1>5. Step(q, q', actor, "TIME", After(d))
  BY <1>2, <1>3, <1>4, Waited
<1> QED
  BY <1>1, <1>2, <1>3, <1>4, <1>5, PutAwayCalendar DEF Statement, Timed

LEMMA WaitCalendar ==
  ASSUME IInv, HeadExecutes, NEW es, WaitOnEvent(es)
  PROVE  HeadExecutes' /\ TurnsKept /\ CalendarStep
<1>1. phase = "exec"
  BY DEF WaitOnEvent, Executing
<1>2. /\ Readylist(q) # <<>> /\ Incoming = actor /\ actor \in SCB
      /\ q.time[actor] \in Nat /\ q.time[actor] <= MaxTime
  BY <1>1, ExecutingActor
<1>3. /\ q' = RestOn("EVENT") /\ phase' = "go" /\ actor' = NULL
      /\ pc' = [pc EXCEPT ![actor] = "event"] /\ CurrentTime' = CurrentTime /\ gateTime' = gateTime
  BY <1>2 DEF WaitOnEvent, DispatchFrom
<1>4. "EVENT" \in Resting /\ "event" \in Statement /\ "EVENT" # "TIME"
  BY DEF Resting, Statement
<1>5. Step(q, q', actor, "EVENT", q.time[actor])
  BY <1>2, <1>3, <1>4, Rested
<1> QED
  BY <1>2, <1>3, <1>4, <1>5, PutAwayCalendar

LEMMA EndCalendar ==
  ASSUME IInv, HeadExecutes, EndProcess \/ EndNonblocking
  PROVE  HeadExecutes' /\ TurnsKept /\ CalendarStep
<1>1. phase = "exec"
  BY DEF EndProcess, EndNonblocking, Executing
<1>2. /\ Readylist(q) # <<>> /\ Incoming = actor /\ actor \in SCB
      /\ q.time[actor] \in Nat /\ q.time[actor] <= MaxTime
  BY <1>1, ExecutingActor
<1>3. /\ q' = RestOn("FREE") /\ phase' = "go" /\ actor' = NULL
      /\ pc' = [pc EXCEPT ![actor] = "free"] /\ CurrentTime' = CurrentTime /\ gateTime' = gateTime
  BY <1>2 DEF EndProcess, EndNonblocking, DispatchFrom
<1>4. "FREE" \in Resting /\ "free" \in Statement /\ "FREE" # "TIME"
  BY DEF Resting, Statement
<1>5. Step(q, q', actor, "FREE", q.time[actor])
  BY <1>2, <1>3, <1>4, Rested
<1> QED
  BY <1>2, <1>3, <1>4, <1>5, PutAwayCalendar

LEMMA EndAssignCalendar ==
  ASSUME IInv, HeadExecutes, EndAssign
  PROVE  HeadExecutes' /\ TurnsKept /\ CalendarStep
<1>1. phase = "exec"
  BY DEF EndAssign, Executing
<1>2. /\ Readylist(q) # <<>> /\ Incoming = actor /\ actor \in SCB
      /\ q.time[actor] \in Nat /\ q.time[actor] <= MaxTime /\ pc[actor] \in Statement
  BY <1>1, ExecutingActor
<1>3. /\ q' = RestOn("NOLIST") /\ phase' = "go" /\ actor' = NULL
      /\ pc' = pc /\ CurrentTime' = CurrentTime /\ gateTime' = gateTime
  BY <1>2 DEF EndAssign, DispatchFrom
<1>4. "NOLIST" \in Resting /\ "NOLIST" # "TIME"
  BY DEF Resting
<1>5. Step(q, q', actor, "NOLIST", q.time[actor])
  BY <1>2, <1>3, <1>4, Rested
<1>6. pc' = [pc EXCEPT ![actor] = pc[actor]]
  BY <1>2, <1>3, ListTypes
<1> QED
  BY <1>2, <1>3, <1>4, <1>5, <1>6, PutAwayCalendar

LEMMA EndNetCalendar ==
  ASSUME IInv, HeadExecutes, EndNet
  PROVE  HeadExecutes' /\ TurnsKept /\ CalendarStep
<1>1. phase = "exec" /\ pc[actor] = "net"
  BY DEF EndNet, Executing
<1>2. /\ Readylist(q) # <<>> /\ Incoming = actor /\ actor \in SCB
      /\ q.time[actor] \in Nat /\ q.time[actor] <= MaxTime /\ pc[actor] \in Statement
      /\ CurrentTime \in Nat /\ CurrentTime <= MaxTime
  BY <1>1, ExecutingActor
<1>3. /\ q' = IF retrigger # NULL THEN WaitUntil(CurrentTime) ELSE RestOn("NOLIST")
      /\ phase' = "go" /\ actor' = NULL
      /\ pc' = pc /\ CurrentTime' = CurrentTime /\ gateTime' = gateTime
  BY <1>2 DEF EndNet, DispatchFrom
<1>4. "NOLIST" \in Resting /\ "NOLIST" # "TIME" /\ "net" \in Timed
  BY DEF Resting, Timed
<1>5. pc' = [pc EXCEPT ![actor] = pc[actor]]
  BY <1>2, <1>3, ListTypes
<1>6. CASE retrigger # NULL
  <2>1. Step(q, q', actor, "TIME", CurrentTime)
    BY <1>2, <1>3, <1>6, Waited
  <2>2. CurrentTime >= CurrentTime /\ "TIME" \in Resting \cup {"TIME"} /\ pc[actor] \in Timed
    BY <1>1, <1>2, <1>4
  <2> QED
    BY <1>2, <1>3, <1>5, <2>1, <2>2, PutAwayCalendar
<1>7. CASE retrigger = NULL
  <2>1. Step(q, q', actor, "NOLIST", q.time[actor])
    BY <1>2, <1>3, <1>4, <1>7, Rested
  <2> QED
    BY <1>2, <1>3, <1>4, <1>5, <2>1, PutAwayCalendar
<1> QED
  BY <1>6, <1>7

-----------------------------------------------------------------------------
(* dispatcher().                                                           *)

(* What is moved to the ready list is due when it was.                     *)
LEMMA ReadiedCalendar ==
  ASSUME IInv, actor = NULL, NEW s \in SCB, q.list[s] \in {"TIME", "NET"}, Step(q, q', s, "READY", q.time[s]),
         phase' # "exec", actor' = NULL, UNCHANGED <<CurrentTime, pc, gateTime>>
  PROVE  HeadExecutes' /\ TurnsKept /\ CalendarStep
<1> DEFINE t == q.time[s]
           w == pc[s]
<1>1. /\ "READY" \in Tag /\ t \in Nat /\ w \in Statement /\ pc' = [pc EXCEPT ![s] = w]
      /\ Step(q, q', s, "READY", t)
      /\ CurrentTime' = CurrentTime /\ gateTime' = gateTime /\ actor' = actor
  BY ListTypes DEF Tag, Queue
<1> HIDE DEF t, w
<1>2. /\ \A x \in SCB \cup GATE : x # s => due'[x] = due[x]
      /\ q'.list[s] = "READY" /\ q'.time[s] = t
      /\ \A r \in SCB : r # s => q'.list[r] = q.list[r]
  BY <1>1, DueElsewhere, ZenonT(30)
<1> USE DEF t, w
<1>3. pc[s] \in Timed
  BY DEF IInv, Kinds, Timed
<1>4. due'[s] = due[s]
  BY <1>2, <1>3, DueValues, DesignFacts DEF Resting
<1>5. CalendarStep
  BY <1>2, <1>4, DueKept
<1> QED
  BY <1>2, <1>5 DEF HeadExecutes, TurnsKept

LEMMA MoveCalendar ==
  ASSUME IInv, MoveNet \/ MoveNow \/ AdvanceToTimelist \/ MoveNewTime
  PROVE  HeadExecutes' /\ TurnsKept /\ CalendarStep
<1>1. CASE MoveNet
  <2>1. /\ phase = "nets" /\ actor = NULL /\ Netlist(q) # <<>> /\ q' = NetToReady(q)
        /\ UNCHANGED <<CurrentTime, pc, phase, actor, gateTime>>
    BY <1>1 DEF MoveNet, IInv, Turn
  <2> DEFINE s == Netlist(q)[1]
  <2>2. s \in SCB /\ q.list[s] = "NET" /\ Step(q, q', s, "READY", q.time[s])
    BY <2>1, ListTypes, MoveNetSteps
  <2> HIDE DEF s
  <2> QED
    BY <2>1, <2>2, ReadiedCalendar
<1>2. CASE MoveNow
  <2>1. /\ phase \in {"now1", "now2"} /\ actor = NULL /\ Timelist(q) # <<>> /\ q' = TimeToReady(q)
        /\ UNCHANGED <<CurrentTime, pc, phase, actor, gateTime>>
    BY <1>2 DEF MoveNow, TimeIsNow, IInv, Turn
  <2> DEFINE s == Timelist(q)[1]
  <2>2. s \in SCB /\ q.list[s] = "TIME" /\ Step(q, q', s, "READY", q.time[s])
    BY <2>1, ListTypes, MoveTimeSteps
  <2> HIDE DEF s
  <2> QED
    BY <2>1, <2>2, ReadiedCalendar
<1>3. CASE AdvanceToTimelist
  <2>1. /\ phase = "advance" /\ phase' \in {"move", "fatal"}
        /\ q' = IF Timelist(q) = <<>> THEN q ELSE TimeToReady(q)
        /\ UNCHANGED <<CurrentTime, pc, actor, gateTime>>
    BY <1>3 DEF AdvanceToTimelist
  <2>2. actor = NULL
    BY <2>1, Advancing
  <2>3. CASE Timelist(q) = <<>>
    BY <2>1, <2>3, SameDue DEF HeadExecutes
  <2>4. CASE Timelist(q) # <<>>
    <3> DEFINE s == Timelist(q)[1]
    <3>1. s \in SCB /\ q.list[s] = "TIME" /\ Step(q, q', s, "READY", q.time[s])
      BY <2>1, <2>4, ListTypes, MoveTimeSteps
    <3> HIDE DEF s
    <3> QED
      BY <2>1, <2>2, <3>1, ReadiedCalendar
  <2> QED
    BY <2>3, <2>4
<1>4. CASE MoveNewTime
  <2> DEFINE s == Timelist(q)[1]
             more == Timelist(q) # <<>> /\ q.time[s] = new_time
  <2>1. /\ phase = "move" /\ phase' # "exec"
        /\ IF more THEN q' = TimeToReady(q) ELSE q' = q
        /\ UNCHANGED <<CurrentTime, pc, actor, gateTime>>
    BY <1>4 DEF MoveNewTime
  <2>2. actor = NULL
    BY <2>1 DEF IInv, Turn
  <2>3. CASE more
    <3>1. s \in SCB /\ q.list[s] = "TIME" /\ Step(q, q', s, "READY", q.time[s])
      BY <2>1, <2>3, ListTypes, MoveTimeSteps
    <3> HIDE DEF s
    <3> QED
      BY <2>1, <2>2, <3>1, ReadiedCalendar
  <2>4. CASE ~more
    BY <2>1, <2>4, SameDue DEF HeadExecutes
  <2> QED
    BY <2>3, <2>4
<1> QED
  BY <1>1, <1>2, <1>3, <1>4

LEMMA FireCalendar ==
  ASSUME IInv, NEW g \in GATE, FireGate(g)
  PROVE  HeadExecutes' /\ TurnsKept /\ (~late => CalendarStep)
<1>1. /\ phase = "gates" /\ actor = NULL /\ gateTime[g] # NONE /\ gateTime[g] = CurrentTime
      /\ gateTime' = [gateTime EXCEPT ![g] = NONE] /\ actor' = g
      /\ UNCHANGED <<q, CurrentTime, pc, phase>>
  BY DEF FireGate, NextGate
<1>2. actor \notin SCB /\ actor' \notin SCB
  BY <1>1, DesignFacts
<1>3. TurnsKept /\ \A s \in SCB : due'[s] = due[s]
  BY <1>1, <1>2, SameSCBs
<1>4. gateTime'[g] = NONE /\ \A h \in GATE : h # g => gateTime'[h] = gateTime[h]
  BY <1>1 DEF IInv, TypeOK
<1>5. /\ due[g] = CurrentTime /\ due[g] # NONE /\ due'[g] = NONE
      /\ \A x \in SCB \cup GATE : x # g => due'[x] = due[x]
  BY <1>1, <1>3, <1>4, DueValues
<1>6. ASSUME ~late
      PROVE  \A x \in SCB \cup GATE : due[x] # NONE => due[g] <= due[x]
  <2>1. NotMoved
    BY <1>1, <1>6, OnlyGoMoves
  <2>2. \A x \in SCB \cup GATE : due[x] # NONE => due[x] >= CurrentTime
    BY <1>6, <2>1, DueAhead
  <2>3. \A x \in SCB \cup GATE : due[x] # NONE => due[x] \in Nat
    BY DueValues, ListTypes
  <2> QED
    BY <1>5, <2>2, <2>3, ListTypes
<1>7. ~late => CalendarStep
  BY <1>1, <1>5, <1>6, DueRuns
<1> QED
  BY <1>1, <1>3, <1>7 DEF HeadExecutes

LEMMA AdvanceCalendar ==
  ASSUME IInv, NEW g \in GATE, AdvanceToGate(g)
  PROVE  HeadExecutes' /\ TurnsKept /\ (~late => CalendarStep)
<1>1. /\ phase = "advance" /\ phase' = "go" /\ CurrentTime' = gateTime[g]
      /\ gateTime[g] # NONE
      /\ UNCHANGED <<q, pc, actor, gateTime>>
  BY DEF AdvanceToGate, GateFirst, NextGate
<1>2. HeadExecutes' /\ TurnsKept
  BY <1>1 DEF HeadExecutes, TurnsKept
<1>a. SUFFICES ASSUME ~late PROVE CalendarStep
  BY <1>2
<1>3. actor = NULL /\ \A s \in SCB : q.list[s] \notin {"READY", "NET"}
  BY <1>1, <1>a, Advancing
<1>4. /\ \A s \in SCB : q.list[s] = "TIME" => q.time[s] >= CurrentTime'
      /\ \A h \in GATE : gateTime[h] # NONE => gateTime[h] >= CurrentTime'
  BY <1>a, AdvanceToGateKeeps
<1>5. ASSUME NEW s \in SCB
      PROVE  due'[s] = due[s] /\ (due[s] # NONE => due[s] >= CurrentTime')
  BY <1>1, <1>3, <1>4, DueValues, ListTypes DEF Tag, Queue
<1>6. \A h \in GATE : due'[h] = due[h] /\ (due[h] # NONE => due[h] >= CurrentTime')
  BY <1>1, <1>4, DueValues
<1> DEFINE f == due
           h == due'
<1>7. /\ f = [x \in SCB \cup GATE |-> f[x]] /\ h = [x \in SCB \cup GATE |-> h[x]]
      /\ \A x \in SCB \cup GATE : h[x] = f[x]
  BY <1>5, <1>6, DueValues
<1> HIDE DEF f, h
<1>8. h = f
  BY <1>7
<1>9. due[g] = CurrentTime' /\ due[g] # NONE /\ \A x \in SCB \cup GATE : due[x] # NONE => due[g] <= due[x]
  <2>1. \A x \in SCB \cup GATE : due[x] # NONE => due[x] \in Nat
    BY DueValues, ListTypes
  <2> QED
    BY <1>1, <1>5, <1>6, <2>1, DueValues
<1>10. Calendar!Advance(g)
  BY <1>8, <1>9 DEF Calendar!Advance, Calendar!Planned, f, h
<1> QED
  BY <1>10 DEF CalendarStep, Calendar!InTime

(* The steps that only move dispatcher along.                              *)
LEMMA LoopCalendar ==
  ASSUME IInv, Actors, HeadExecutes,
         \/ LookAtGates \/ GatesDone \/ NetsDone \/ Now1Done \/ IdleDone \/ Now2Done \/ FinalDone \/ EndOfTime
         \/ Finished \/ \E m \in MONITOR : RunIdle(m) \/ RunFinal(m)
  PROVE  HeadExecutes' /\ TurnsKept /\ CalendarStep
<1>1. q' = q /\ pc' = pc /\ CurrentTime' = CurrentTime /\ gateTime' = gateTime /\ phase' # "exec"
  BY DEF LookAtGates, GatesDone, NetsDone, Now1Done, IdleDone, Now2Done, RunFinal, FinalDone, EndOfTime, Finished,
     RunIdle, GoTo, CheckStrobe, FinalPass
<1>2. actor' = actor \/ (actor \notin SCB /\ actor' \notin SCB)
  <2>1. CASE Finished
    BY <2>1, DesignFacts DEF Finished, Actors
  <2>2. ASSUME NEW m \in MONITOR, RunIdle(m) \/ RunFinal(m) PROVE actor \notin SCB /\ actor' \notin SCB
    BY <2>2, DesignFacts DEF RunIdle, RunFinal
  <2>3. CASE LookAtGates \/ GatesDone \/ NetsDone \/ Now1Done \/ IdleDone \/ Now2Done \/ FinalDone \/ EndOfTime
    BY <2>3 DEF LookAtGates, GatesDone, NetsDone, Now1Done, IdleDone, Now2Done, FinalDone, EndOfTime, GoTo, CheckStrobe
  <2> QED
    BY <2>1, <2>2, <2>3
<1> QED
  BY <1>1, <1>2, SameDue DEF HeadExecutes

-----------------------------------------------------------------------------
(* Every step.                                                             *)

LEMMA InitActors ==
  ASSUME Init
  PROVE  Actors /\ HeadExecutes
BY DesignFacts DEF Init, Actors, HeadExecutes

LEMMA NextActors ==
  ASSUME IInv, Actors, [Next]_vars
  PROVE  Actors'
<1>1. CASE Store
  BY <1>1 DEF Store, ScheduleNet, ScheduleAssign, ScheduleGate, NotifyEvent, NotifyNext, TickleIdle, TickleFinal, Actors
<1>2. CASE Execute
  BY <1>2 DEF Execute, Actors
<1>3. CASE \E b \in SCB \ (NET \cup ASSIGN), d \in DELAYS : AssignNonblocking(b, d)
  BY <1>3 DEF AssignNonblocking, Actors
<1>4. CASE \/ (\E d \in DELAYS : Delay(d)) \/ (\E es \in (SUBSET EVENT) \ {{}} : WaitOnEvent(es))
           \/ EndProcess \/ EndNonblocking \/ EndAssign \/ EndNet
  <2>1. actor' = NULL /\ phase' \in {"go", "fatal"}
    BY <1>4 DEF Delay, WaitOnEvent, EndProcess, EndNonblocking, EndAssign, EndNet, DispatchFrom
  <2> QED
    BY <2>1, DesignFacts DEF Actors
<1>5. CASE LookAtGates \/ GatesDone \/ NetsDone \/ Now1Done \/ IdleDone \/ Now2Done \/ FinalDone \/ EndOfTime
  <2>1. actor' = actor /\ phase # "exec"
    BY <1>5 DEF LookAtGates, GatesDone, NetsDone, Now1Done, IdleDone, Now2Done, FinalDone, FinalPass, EndOfTime, GoTo,
       CheckStrobe
  <2> QED
    BY <2>1 DEF Actors
<1>6. CASE Finished \/ (\E g \in GATE : FireGate(g)) \/ \E m \in MONITOR : RunIdle(m) \/ RunFinal(m)
  BY <1>6, DesignFacts DEF Finished, FireGate, RunIdle, RunFinal, Actors
<1>7. CASE MoveNet \/ MoveNow \/ MoveNewTime \/ AdvanceToTimelist \/ \E g \in GATE : AdvanceToGate(g)
  BY <1>7 DEF MoveNet, MoveNow, MoveNewTime, AdvanceToTimelist, AdvanceToGate, Actors
<1>8. CASE UNCHANGED vars
  BY <1>8 DEF vars, Actors
<1>9. CASE Exec
  BY <1>2, <1>3, <1>4, <1>9 DEF Exec
<1>10. CASE Dispatch
  BY <1>5, <1>6, <1>7, <1>8, <1>10 DEF Dispatch, Stopped
<1> QED
  BY <1>1, <1>8, <1>9, <1>10 DEF Next

LEMMA NextCalendar ==
  ASSUME UniformDelays, NoDelayedFeedback, IInv, Actors, HeadExecutes, [Next]_vars
  PROVE  HeadExecutes' /\ TurnsKept /\ (~late => CalendarStep)
<1> DEFINE Good == HeadExecutes' /\ TurnsKept /\ (~late => CalendarStep)
<1>1. CASE Store
  <2>1. ASSUME NEW n \in NET, NEW v \in VALUE, ScheduleNet(n, v) PROVE Good
    BY <2>1, NetCalendar
  <2>2. ASSUME NEW a \in ASSIGN, NEW v \in VALUE, ScheduleAssign(a, v) PROVE Good
    BY <2>2, AssignCalendar
  <2>3. ASSUME NEW g \in GATE, NEW d \in DELAYS, ScheduleGate(g, d) PROVE Good
    BY <2>3, GateCalendar
  <2>4. ASSUME NEW test \in BOOLEAN, NotifyNext(test) PROVE Good
    BY <2>4, NotifyNextCalendar
  <2>5. CASE (\E e \in EVENT : NotifyEvent(e)) \/ \E m \in MONITOR : TickleIdle(m) \/ TickleFinal(m)
    <3>1. UNCHANGED <<q, pc, CurrentTime, gateTime, actor, phase>>
      BY <2>5 DEF NotifyEvent, TickleIdle, TickleFinal
    <3> QED
      BY <3>1, SameDue DEF HeadExecutes
  <2> QED
    BY <1>1, <2>1, <2>2, <2>3, <2>4, <2>5 DEF Store
<1>2. CASE Exec
  <2>1. ASSUME NEW b \in SCB \ (NET \cup ASSIGN), NEW d \in DELAYS, AssignNonblocking(b, d) PROVE Good
    BY <2>1, NonblockingCalendar
  <2>2. ASSUME NEW d \in DELAYS, Delay(d) PROVE Good
    BY <2>2, DelayCalendar
  <2>3. ASSUME NEW es \in (SUBSET EVENT) \ {{}}, WaitOnEvent(es) PROVE Good
    BY <2>3, WaitCalendar
  <2>4. CASE Execute \/ EndProcess \/ EndNonblocking \/ EndAssign \/ EndNet
    BY <2>4, ExecuteCalendar, EndCalendar, EndAssignCalendar, EndNetCalendar
  <2> QED
    BY <1>2, <2>1, <2>2, <2>3, <2>4 DEF Exec
<1>3. CASE UNCHANGED vars
  <2>1. UNCHANGED <<q, pc, CurrentTime, gateTime, actor, phase>>
    BY <1>3 DEF vars
  <2> QED
    BY <2>1, SameDue DEF HeadExecutes
<1>4. CASE Dispatch
  <2>1. ASSUME NEW g \in GATE, FireGate(g) PROVE Good
    BY <2>1, FireCalendar
  <2>2. ASSUME NEW g \in GATE, AdvanceToGate(g) PROVE Good
    BY <2>2, AdvanceCalendar
  <2>3. CASE MoveNet \/ MoveNow \/ AdvanceToTimelist \/ MoveNewTime
    BY <2>3, MoveCalendar
  <2>4. CASE \/ LookAtGates \/ GatesDone \/ NetsDone \/ Now1Done \/ IdleDone \/ Now2Done \/ FinalDone \/ EndOfTime
             \/ Finished \/ \E m \in MONITOR : RunIdle(m) \/ RunFinal(m)
    BY <2>4, LoopCalendar
  <2>5. CASE Stopped
    BY <1>3, <2>5 DEF Stopped
  <2> QED
    BY <1>4, <2>1, <2>2, <2>3, <2>4, <2>5 DEF Dispatch
<1> QED
  BY <1>1, <1>2, <1>3, <1>4 DEF Next

(* A final strobe that was late was late for good.                         *)
LEMMA LateStays ==
  ASSUME IInv, [Next]_vars
  PROVE  late' \in BOOLEAN /\ late \in BOOLEAN /\ (late => late')
<1>1. late \in BOOLEAN
  BY DEF IInv, TypeOK
<1>2. CASE Store
  BY <1>1, <1>2 DEF Store, ScheduleNet, ScheduleAssign, ScheduleGate, NotifyEvent, NotifyNext, TickleIdle, TickleFinal,
     LateIf
<1>3. CASE Exec
  BY <1>1, <1>3 DEF Exec, Execute, AssignNonblocking, Delay, WaitOnEvent, EndProcess, EndNonblocking, EndAssign, EndNet,
     DispatchFrom
<1>4. CASE Dispatch
  BY <1>1, <1>4 DEF Dispatch, LookAtGates, FireGate, Finished, GatesDone, MoveNet, NetsDone, MoveNow, Now1Done, RunIdle,
     IdleDone, Now2Done, RunFinal, FinalDone, AdvanceToGate, AdvanceToTimelist, MoveNewTime, EndOfTime, Stopped, GoTo,
     CheckStrobe, vars
<1>5. CASE UNCHANGED vars
  BY <1>1, <1>5 DEF vars
<1> QED
  BY <1>2, <1>3, <1>4, <1>5 DEF Next

-----------------------------------------------------------------------------
(* The theorems.                                                           *)

LEMMA SpecHeads ==
  ASSUME UniformDelays, NoDelayedFeedback
  PROVE  Spec => [](IInv /\ Actors /\ HeadExecutes)
<1>1. Init => IInv /\ Actors /\ HeadExecutes
  BY InitIInv, InitActors
<1>2. IInv /\ Actors /\ HeadExecutes /\ [Next]_vars => (IInv /\ Actors /\ HeadExecutes)'
  BY NextIInv, NextActors, NextCalendar
<1> QED
  BY <1>1, <1>2, PTL DEF Spec

(* When each item is due, before and after a step.                         *)
(* The lists, pointers and loops of schedule.cc and nsched.cc implement    *)
(* the calendar: whatever runs, an SCB or a gate, was planned, and was     *)
(* among what was due first, and the clock moves to nothing else, until a  *)
(* final strobe plans something for the time it shows.                     *)
THEOREM SchedulerImplementsCalendar ==
  ASSUME UniformDelays, NoDelayedFeedback
  PROVE  Spec => RunsInDueOrder
<1>1. Init => Calendar!Init
  <2> SUFFICES ASSUME Init PROVE Calendar!Init
    OBVIOUS
  <2>1. \A g \in GATE : due[g] = NONE
    BY DueValues DEF Init
  <2>2. ASSUME NEW s \in SCB PROVE due[s] \in {0, NONE}
    BY DueValues DEF Init, Resting, Timed
  <2> DEFINE f == due
  <2>3. f = [x \in SCB \cup GATE |-> f[x]] /\ \A x \in SCB \cup GATE : f[x] \in {0, NONE}
    BY <2>1, <2>2, DueValues
  <2> HIDE DEF f
  <2>4. f \in [SCB \cup GATE -> {0, NONE}]
    BY <2>3
  <2> QED
    BY <2>4 DEF Init, Calendar!Init, f
<1>2. IInv /\ Actors /\ HeadExecutes /\ [Next]_vars => [Calendar!Next]_(Calendar!calendar)
  <2> SUFFICES ASSUME IInv, Actors, HeadExecutes, [Next]_vars
               PROVE  [Calendar!Next]_(Calendar!calendar)
    OBVIOUS
  <2>1. CASE late'
    BY <2>1 DEF Calendar!Next
  <2>2. CASE ~late'
    <3>1. ~late /\ late' = late
      BY <2>2, LateStays
    <3>2. CalendarStep
      BY <3>1, NextCalendar
    <3> QED
      BY <3>1, <3>2 DEF CalendarStep, Calendar!Next, Calendar!calendar
  <2> QED
    BY <2>1, <2>2
<1> QED
  BY <1>1, <1>2, SpecHeads, PTL DEF Spec, RunsInDueOrder, Calendar!Spec

(* The times of the calendar are numbers, and NONE is none of them.        *)
LEMMA CalendarTimes == Calendar!TimeAssumption
  BY DesignAssumption DEF Times, Calendar!TimeAssumption

(* A step of the calendar keeps every planned time at or after the clock,  *)
(* and moves the clock no further than to the earliest of them, unless     *)
(* something was late.                                                     *)
LEMMA CalendarAhead ==
  ASSUME Calendar!TimeAssumption, Calendar!NeverOverdue, [Calendar!Next]_(Calendar!calendar)
  PROVE  /\ Calendar!NeverOverdue'
         /\ ~late' => /\ CurrentTime' >= CurrentTime
                      /\ \A i \in Calendar!Planned : due[i] >= CurrentTime'
<1> DEFINE f == due
           g == due'
           Item == SCB \cup GATE
           Plans == \A i \in Item : f[i] # NONE => f[i] >= CurrentTime'
           Kept == /\ CurrentTime' \in Nat
                   /\ g \in [Item -> Nat \cup {NONE}]
                   /\ \A i \in Item : g[i] # NONE => g[i] >= CurrentTime'
<1>a. CASE late'
  BY <1>a DEF Calendar!NeverOverdue
<1>b. CASE ~late'
  <2>1. /\ ~late
        /\ Calendar!InTime \/ (CurrentTime' = CurrentTime /\ due' = due)
    BY <1>b DEF Calendar!Next, Calendar!calendar
  <2>2. /\ NONE \notin Nat /\ Times \subseteq Nat /\ CurrentTime \in Nat
        /\ f \in [Item -> Nat \cup {NONE}]
        /\ \A i \in Item : f[i] # NONE => f[i] >= CurrentTime
    BY <2>1 DEF Calendar!TimeAssumption, Calendar!NeverOverdue, Calendar!Planned
  <2>3. \/ CurrentTime' = CurrentTime /\ g = f
        \/ \E i \in Item, t \in Times : CurrentTime' = CurrentTime /\ t >= CurrentTime /\ g = [f EXCEPT ![i] = t]
        \/ \E i \in Item : /\ f[i] # NONE /\ CurrentTime' = f[i]
                           /\ \A j \in Item : f[j] # NONE => f[i] <= f[j]
                           /\ g = f \/ g = [f EXCEPT ![i] = NONE]
    <3> HIDE DEF Item
    <3>1. ASSUME NEW i \in SCB \cup GATE, NEW t \in Times, Calendar!Plan(i, t)
          PROVE  CurrentTime' = CurrentTime /\ t >= CurrentTime /\ g = [f EXCEPT ![i] = t]
      BY <3>1 DEF Calendar!Plan
    <3>2. ASSUME NEW i \in SCB \cup GATE, Calendar!Run(i) \/ Calendar!Advance(i)
          PROVE  /\ f[i] # NONE /\ CurrentTime' = f[i]
                 /\ \A j \in SCB \cup GATE : f[j] # NONE => f[i] <= f[j]
                 /\ g = f \/ g = [f EXCEPT ![i] = NONE]
      BY <3>2 DEF Calendar!Run, Calendar!Advance, Calendar!Planned
    <3>3. CASE CurrentTime' = CurrentTime /\ due' = due
      BY <3>3
    <3> HIDE DEF f, g
    <3> QED
      BY <2>1, <3>1, <3>2, <3>3 DEF Calendar!InTime, Item
  <2> HIDE DEF f, g, Item
  <2>4. Kept /\ CurrentTime' >= CurrentTime /\ Plans
    BY <2>2, <2>3
  <2> QED
    BY <2>4 DEF Calendar!NeverOverdue, Calendar!Planned, f, g, Item
<1> QED
  BY <1>a, <1>b

(* What the calendar promises holds for the scheduler: until a final       *)
(* strobe is late nothing that is planned, be it an SCB or a gate, is ever *)
(* overdue.                                                                *)
THEOREM NothingIsOverdue ==
  ASSUME UniformDelays, NoDelayedFeedback
  PROVE  Spec => []Calendar!NeverOverdue
<1>1. Calendar!Init => Calendar!NeverOverdue
  BY CalendarTimes DEF Calendar!TimeAssumption, Calendar!Init, Calendar!NeverOverdue, Calendar!Planned
<1>2. Calendar!NeverOverdue /\ [Calendar!Next]_(Calendar!calendar) => Calendar!NeverOverdue'
  BY CalendarTimes, CalendarAhead
<1> QED
  BY <1>1, <1>2, SchedulerImplementsCalendar, PTL DEF RunsInDueOrder, Calendar!Spec

(* Until a final strobe is late the clock never goes back and never passes *)
(* what is planned.                                                        *)
THEOREM ClockIsKept ==
  ASSUME UniformDelays, NoDelayedFeedback
  PROVE  Spec => Calendar!ClockNeverSkips
<1>1. Calendar!NeverOverdue /\ [Calendar!Next]_(Calendar!calendar)
        => [~late' => CurrentTime' >= CurrentTime /\ \A i \in Calendar!Planned : due[i] >= CurrentTime']_(Calendar!calendar)
  BY CalendarTimes, CalendarAhead
<1> QED
  BY <1>1, SchedulerImplementsCalendar, NothingIsOverdue, PTL
  DEF RunsInDueOrder, Calendar!Spec, Calendar!ClockNeverSkips

(* Only the SCB that executes is taken from the ready list; dispatcher     *)
(* puts away nobody else (schedule.cc, suspend_current_process and         *)
(* WaitOnTime64), and a notification leaves who is ready where he is.      *)
THEOREM TurnsAreKept ==
  ASSUME UniformDelays, NoDelayedFeedback
  PROVE  Spec => NoTurnLost
<1>1. IInv /\ Actors /\ HeadExecutes /\ [Next]_vars => TurnsKept
  BY NextCalendar
<1>2. IInv /\ Actors /\ HeadExecutes /\ [Next]_vars
        => [\A s \in SCB : q.list[s] = "READY" /\ s # actor =>
              \/ q'.list[s] = "READY"
              \/ s \in NET /\ q'.list[s] \in {"NET", "TIME"}
              \/ s \in ASSIGN /\ q'.list[s] = "TIME"]_vars
  BY <1>1 DEF TurnsKept
<1> QED
  BY <1>2, SpecHeads, PTL DEF Spec, NoTurnLost

-----------------------------------------------------------------------------
(* What comes last at its time.  The shortcut of Schedule appends behind   *)
(* timelist_currentTail, which must therefore be the last entry of the     *)
(* first time of the list, as long as nothing is prepended to its time.    *)
TailEnds(c) ==
  \A j, k \in 1 .. Len(c.on["TIME"]) :
     c.timelist_currentTail = c.on["TIME"][j] /\ j < k => c.time[c.on["TIME"][j]] < c.time[c.on["TIME"][k]]

ComesLast(v, s) ==
  \A i, j \in 1 .. Len(v.on["TIME"]) : v.on["TIME"][i] = s /\ i < j => v.time[s] < v.time[v.on["TIME"][j]]

Appended(c, v) == TailEnds(v) /\ \A s \in SCB : c.list[s] # "TIME" /\ v.list[s] = "TIME" => ComesLast(v, s)

LEMMA TimelistFacts ==
  ASSUME NEW c \in ListState, NEW tl, tl = c.on["TIME"]
  PROVE  /\ tl \in Seq(SCB) /\ Len(tl) \in Nat /\ DOMAIN tl = 1 .. Len(tl) /\ (tl = <<>> <=> Len(tl) = 0)
         /\ \A i \in 1 .. Len(tl) : tl[i] \in SCB /\ c.time[tl[i]] \in Nat
         /\ Sorted(c) => \A i, j \in 1 .. Len(tl) : i <= j => c.time[tl[i]] <= c.time[tl[j]]
<1>1. "TIME" \in Queue
  BY DEF Queue
<1>2. tl \in Seq(SCB) /\ Len(tl) \in Nat /\ DOMAIN tl = 1 .. Len(tl) /\ (tl = <<>> <=> Len(tl) = 0)
  BY <1>1, FieldTypes, LenProperties, EmptySeq
<1>3. \A i \in 1 .. Len(tl) : tl[i] \in SCB
  BY <1>1, FieldTypes
<1>4. \A i \in 1 .. Len(tl) : tl[i] \in SCB /\ c.time[tl[i]] \in Nat
  BY <1>3, FieldTypes
<1>5. ASSUME Sorted(c), NEW i \in 1 .. Len(tl), NEW j \in 1 .. Len(tl), i <= j PROVE c.time[tl[i]] <= c.time[tl[j]]
  <2>1. j \in i .. Len(tl)
    BY <1>2, <1>5
  <2> QED
    BY <1>5, <2>1 DEF Sorted, Timelist
<1> QED
  BY <1>2, <1>4, <1>5

(* The list stays as it is.                                                *)
LEMMA TailStays ==
  ASSUME NEW c, NEW v, TailEnds(c), v.on["TIME"] = c.on["TIME"],
         v.timelist_currentTail = c.timelist_currentTail,
         \A i \in 1 .. Len(c.on["TIME"]) : v.time[c.on["TIME"][i]] = c.time[c.on["TIME"][i]]
  PROVE  TailEnds(v)
<1> DEFINE tl == c.on["TIME"]
<1>1. v.on["TIME"] = tl /\ v.timelist_currentTail = c.timelist_currentTail
      /\ (\A i \in 1 .. Len(tl) : v.time[tl[i]] = c.time[tl[i]])
      /\ \A j, k \in 1 .. Len(tl) : c.timelist_currentTail = tl[j] /\ j < k => c.time[tl[j]] < c.time[tl[k]]
  BY DEF TailEnds
<1> HIDE DEF tl
<1> QED
  BY <1>1 DEF TailEnds

(* The walk of REMOVE_LIST_SCB stops where the time changes.               *)
LEMMA GroupEndLast ==
  ASSUME NEW tl \in Seq(SCB), NEW time \in [SCB -> Nat], Distinct(tl),
         \A i, j \in 1 .. Len(tl) : i <= j => time[tl[i]] <= time[tl[j]],
         NEW j \in 1 .. Len(tl), NEW k \in 1 .. Len(tl), GroupEnd(tl, time) = tl[j], j < k
  PROVE  time[tl[j]] < time[tl[k]]
<1> DEFINE n == Len(tl)
           S == {i \in 1 .. n : i = n \/ time[tl[i]] # time[tl[i + 1]]}
           m == Min(S)
<1>1. n \in Nat /\ n # 0 /\ tl # <<>> /\ \A i \in 1 .. n : tl[i] \in SCB /\ time[tl[i]] \in Nat
  BY LenProperties, EmptySeq
<1>2. m \in S
  <2>1. n \in S /\ S \in SUBSET Nat
    BY <1>1
  <2> HIDE DEF S
  <2> QED
    BY <2>1, MinExists
<1>3. tl[j] = tl[m] /\ m \in 1 .. n
  BY <1>1, <1>2 DEF GroupEnd
<1>4. m = n \/ time[tl[m]] # time[tl[m + 1]]
  BY <1>2
<1> HIDE DEF m, S
<1>5. j = m
  BY <1>3 DEF Distinct
<1>6. j + 1 \in 1 .. n /\ j # n
  BY <1>1
<1>7. time[tl[j]] <= time[tl[j + 1]] /\ time[tl[j + 1]] <= time[tl[k]]
  BY <1>1, <1>6
<1> QED
  BY <1>1, <1>4, <1>5, <1>6, <1>7

(* REMOVE_LIST_SCB.                                                        *)
LEMMA RemoveTail ==
  ASSUME NEW c \in ListState, Threads(c), Planned(c), TailEnds(c), NEW s \in SCB, NEW t \in Nat,
         c.list[s] = "NET" => s = Netlist(c)[1],
         NEW u, u = RemoveSCB([c EXCEPT !.time[s] = t], s)
  PROVE  TailEnds(u)
<1> DEFINE tl == c.on["TIME"]
           ul == u.on["TIME"]
<1>1. /\ u \in ListState /\ Detached(u, s) /\ Planned(u)
      /\ u.list = c.list /\ u.time = [c.time EXCEPT ![s] = t]
      /\ \A l \in Queue : Unlinked(c.on[l], u.on[l], s)
  BY RemoveDetaches
<1>2. Unlinked(tl, ul, s) /\ Distinct(ul) /\ \A i \in 1 .. Len(ul) : ul[i] # s
  BY <1>1 DEF Queue, Detached
<1>3. u.timelist_currentTail = IF c.list[s] = "TIME" /\ c.timelist_currentTail = s
                                 THEN GroupEnd(ul, u.time) ELSE c.timelist_currentTail
  BY DEF RemoveSCB, ListState
<1>4. /\ ul \in Seq(SCB) /\ Len(ul) \in Nat
      /\ \A i \in 1 .. Len(ul) : ul[i] \in SCB /\ u.time[ul[i]] = c.time[ul[i]]
      /\ \A i, j \in 1 .. Len(ul) : i <= j => u.time[ul[i]] <= u.time[ul[j]]
  <2>1. /\ ul \in Seq(SCB) /\ Len(ul) \in Nat /\ \A i \in 1 .. Len(ul) : ul[i] \in SCB
        /\ \A i, j \in 1 .. Len(ul) : i <= j => u.time[ul[i]] <= u.time[ul[j]]
    BY <1>1, TimelistFacts DEF Planned
  <2>2. c.time \in [SCB -> Nat]
    BY FieldTypes
  <2> QED
    BY <1>1, <1>2, <2>1, <2>2
<1>5. u.time \in [SCB -> Nat]
  BY <1>1, FieldTypes
<1>6. \A j, k \in 1 .. Len(tl) : c.timelist_currentTail = tl[j] /\ j < k => c.time[tl[j]] < c.time[tl[k]]
  BY DEF TailEnds
<1>7. Len(tl) \in Nat
  BY TimelistFacts
<1> HIDE DEF tl, ul
<1>8. ASSUME NEW j \in 1 .. Len(ul), NEW k \in 1 .. Len(ul), u.timelist_currentTail = ul[j], j < k
      PROVE  u.time[ul[j]] < u.time[ul[k]]
  <2>1. CASE c.list[s] = "TIME" /\ c.timelist_currentTail = s
    BY <1>2, <1>3, <1>4, <1>5, <1>8, <2>1, GroupEndLast
  <2>2. CASE ~(c.list[s] = "TIME" /\ c.timelist_currentTail = s)
    <3>1. PICK a, b \in 1 .. Len(tl) : a <= b /\ ul[j] = tl[a] /\ ul[k] = tl[b]
      <4>1. j <= k
        BY <1>4, <1>8
      <4> QED
        BY <1>2, <4>1 DEF Unlinked
    <3>2. ul[j] # ul[k]
      BY <1>2, <1>4, <1>8 DEF Distinct
    <3>3. a < b
      BY <1>7, <3>1, <3>2
    <3>4. c.time[tl[a]] < c.time[tl[b]]
      BY <1>3, <1>6, <1>8, <2>2, <3>1, <3>3
    <3> QED
      BY <1>4, <3>1, <3>4
  <2> QED
    BY <2>1, <2>2
<1> QED
  BY <1>8 DEF TailEnds, ul

LEMMA RemoveTailToo ==
  ASSUME NEW c \in ListState, Threads(c), Planned(c), TailEnds(c), NEW s \in SCB,
         c.list[s] = "NET" => s = Netlist(c)[1]
  PROVE  TailEnds(RemoveSCB(c, s))
<1>1. [c EXCEPT !.time[s] = c.time[s]] = c
  BY DEF ListState
<1>2. c.time[s] \in Nat
  BY FieldTypes
<1> QED
  BY <1>1, <1>2, RemoveTail

(* ADD_LIST_SCB at the end of the time of s.                               *)
LEMMA AddLast ==
  ASSUME NEW c \in ListState, NEW s \in SCB, Detached(c, s), Planned(c), TailEnds(c),
         NEW k \in 1 .. Len(c.on["TIME"]) + 1,
         \A i \in 1 .. Len(c.on["TIME"]) :
           IF i < k THEN c.time[c.on["TIME"][i]] <= c.time[s] ELSE c.time[s] < c.time[c.on["TIME"][i]],
         NEW v, v = AddSCB(c, "TIME", "TIME", k, s)
  PROVE  TailEnds(v) /\ ComesLast(v, s)
<1> DEFINE ol == c.on["TIME"]
           nl == InsertAt(ol, k, s)
           tail == c.timelist_currentTail
           time(r) == c.time[r]
<1>1. /\ v.on = [c.on EXCEPT !["TIME"] = nl] /\ v.time = c.time
      /\ v.timelist_currentTail = IF TakesTail(c, s) THEN s ELSE tail
  BY DEF AddSCB, ListState
<1>2. v.on["TIME"] = nl
  <2>1. "TIME" \in Queue /\ c.on \in [Queue -> Seq(SCB)]
    BY DEF ListState, Queue
  <2> QED
    BY <1>1, <2>1
<1>3. /\ ol \in Seq(SCB) /\ Distinct(ol) /\ Len(ol) \in Nat /\ (\A i \in 1 .. Len(ol) : ol[i] # s)
      /\ (\A i \in 1 .. Len(ol) : ol[i] \in SCB /\ time(ol[i]) \in Nat) /\ time(s) \in Nat
  <2>1. Distinct(ol) /\ \A i \in 1 .. Len(ol) : ol[i] # s
    BY DEF Detached, Queue
  <2>2. /\ ol \in Seq(SCB) /\ Len(ol) \in Nat
        /\ \A i \in 1 .. Len(ol) : ol[i] \in SCB /\ c.time[ol[i]] \in Nat
    BY TimelistFacts
  <2>3. time(s) \in Nat
    BY FieldTypes
  <2> QED
    BY <2>1, <2>2, <2>3
<1>4. TakesTail(c, s) <=> tail = NULL \/ time(tail) >= time(s)
  BY DEF TakesTail
<1>5. \A i, j \in 1 .. Len(ol) : tail = ol[i] /\ i < j => time(ol[i]) < time(ol[j])
  BY DEF TailEnds
<1>6. \A i \in 1 .. Len(ol) : /\ i < k => time(ol[i]) <= time(s)
                              /\ ~(i < k) => time(s) < time(ol[i])
  OBVIOUS
<1>7. k \in 1 .. Len(ol) + 1
  OBVIOUS
<1> HIDE DEF ol
<1>8. Widened(ol, nl, k, s) /\ Distinct(nl) /\ k \in 1 .. Len(nl) /\ nl[k] = s
  BY <1>3, <1>7, InsertedFacts
<1>9. Len(nl) = Len(ol) + 1 /\ \A i \in 1 .. Len(nl) : nl[i] = IF i < k THEN ol[i] ELSE IF i = k THEN s ELSE ol[i - 1]
  BY <1>8 DEF Widened
<1> HIDE DEF nl, tail
<1>10. \A i \in 1 .. Len(nl) :
         /\ i < k => i \in 1 .. Len(ol) /\ nl[i] = ol[i]
         /\ i > k => i - 1 \in 1 .. Len(ol) /\ ~(i - 1 < k) /\ nl[i] = ol[i - 1]
  BY <1>3, <1>7, <1>9
<1>11. ASSUME NEW i \in 1 .. Len(nl), NEW j \in 1 .. Len(nl), nl[i] = s, i < j PROVE time(s) < time(nl[j])
  <2>1. i = k
    BY <1>8, <1>11 DEF Distinct
  <2>2. j > k
    BY <1>3, <1>7, <1>9, <1>11, <2>1
  <2> QED
    BY <1>6, <1>10, <2>2
<1>12. ASSUME NEW i \in 1 .. Len(nl), NEW j \in 1 .. Len(nl), v.timelist_currentTail = nl[i], i < j
       PROVE  time(nl[i]) < time(nl[j])
  <2>1. CASE TakesTail(c, s)
    BY <1>1, <1>11, <1>12, <2>1
  <2>2. CASE ~TakesTail(c, s)
    <3>1. tail = nl[i] /\ ~(time(tail) >= time(s))
      BY <1>1, <1>4, <1>12, <2>2
    <3>2. i # k
      BY <1>3, <1>8, <3>1
    <3>3. i < k
      <4>1. ~(i > k)
        <5> SUFFICES ASSUME i > k PROVE FALSE
          OBVIOUS
        <5>1. i - 1 \in 1 .. Len(ol) /\ nl[i] = ol[i - 1] /\ time(s) < time(ol[i - 1])
          BY <1>6, <1>10
        <5>2. time(tail) = time(ol[i - 1]) /\ time(tail) \in Nat
          BY <1>3, <3>1, <5>1
        <5> HIDE DEF time
        <5> QED
          BY <1>3, <3>1, <5>1, <5>2
      <4> QED
        BY <1>3, <1>7, <1>9, <3>2, <4>1
    <3>4. i \in 1 .. Len(ol) /\ nl[i] = ol[i] /\ tail = ol[i]
      BY <1>10, <3>1, <3>3
    <3>5. time(ol[i]) \in Nat /\ time(ol[i]) < time(s)
      <4>1. time(tail) = time(ol[i]) /\ time(ol[i]) \in Nat
        BY <1>3, <3>4
      <4> HIDE DEF time
      <4> QED
        BY <1>3, <3>1, <4>1
    <3>6. CASE j = k
      BY <1>8, <3>4, <3>5, <3>6
    <3>7. CASE j < k
      BY <1>5, <1>10, <1>12, <3>4, <3>7
    <3>8. CASE j > k
      <4>1. j - 1 \in 1 .. Len(ol) /\ nl[j] = ol[j - 1] /\ i < j - 1
        BY <1>3, <1>7, <1>9, <1>10, <3>3, <3>8
      <4> QED
        BY <1>5, <3>4, <4>1
    <3> QED
      BY <1>3, <1>7, <1>9, <3>6, <3>7, <3>8
  <2> QED
    BY <2>1, <2>2
<1>13. TailEnds(v)
  BY <1>1, <1>2, <1>12 DEF TailEnds
<1>14. ComesLast(v, s)
  BY <1>1, <1>2, <1>11 DEF ComesLast
<1> QED
  BY <1>13, <1>14

(* A walk that does not prepend stops before what is due later.            *)
LEMMA WalkStrict ==
  ASSUME NEW c \in ListState, Planned(c), NEW t \in Nat, ~BeforeAll(c, t)
  PROVE  /\ WalkPast(c, t, FALSE) \in 1 .. Len(c.on["TIME"]) + 1
         /\ \A i \in 1 .. Len(c.on["TIME"]) :
              IF i < WalkPast(c, t, FALSE) THEN c.time[c.on["TIME"][i]] <= t ELSE t < c.time[c.on["TIME"][i]]
<1> DEFINE tl == c.on["TIME"]
           n == Len(tl)
           time(i) == c.time[tl[i]]
           S == StopsAt(c, t, FALSE)
           m == Min(S)
           k == WalkPast(c, t, FALSE)
<1>1. /\ n \in Nat /\ (\A i \in 1 .. n : time(i) \in Nat)
      /\ (\A i, j \in 1 .. n : i <= j => time(i) <= time(j))
  BY TimelistFacts DEF Planned
<1>2. k \in 1 .. n + 1 /\ \A i \in 1 .. n : i < k => time(i) <= t
  BY WalkFacts
<1>3. k = m + 1
  BY DEF WalkPast
<1>4. m \in S
  <2>1. tl # <<>> /\ n # 0
    BY TimelistFacts DEF BeforeAll, Timelist
  <2>2. n \in S /\ S \in SUBSET Nat
    BY <1>1, <2>1 DEF StopsAt, Timelist
  <2> HIDE DEF S
  <2> QED
    BY <2>2, MinExists
<1>5. m \in 1 .. n /\ (m = n \/ t < time(m + 1))
  BY <1>4 DEF StopsAt, Timelist
<1> HIDE DEF n, time, S, m, k
<1>6. ASSUME NEW i \in 1 .. n, ~(i < k) PROVE t < time(i)
  <2>1. m + 1 \in 1 .. n /\ m + 1 <= i /\ m # n
    BY <1>1, <1>3, <1>5, <1>6
  <2>2. time(m + 1) <= time(i)
    BY <1>1, <2>1
  <2> QED
    BY <1>1, <1>5, <2>1, <2>2
<1> QED
  BY <1>2, <1>6 DEF n, time, k

LEMMA AddFirstLast ==
  ASSUME NEW c \in ListState, NEW s \in SCB, Detached(c, s), Planned(c), TailEnds(c), BeforeAll(c, c.time[s]),
         NEW v, v = AddSCB(c, "TIME", "TIME", 1, s)
  PROVE  TailEnds(v) /\ ComesLast(v, s)
<1> DEFINE tl == c.on["TIME"]
           n == Len(tl)
<1>1. /\ n \in Nat /\ (tl = <<>> <=> n = 0) /\ (\A i \in 1 .. n : c.time[tl[i]] \in Nat)
      /\ (\A i, j \in 1 .. n : i <= j => c.time[tl[i]] <= c.time[tl[j]])
  BY TimelistFacts DEF Planned
<1>2. tl = <<>> \/ c.time[s] < c.time[tl[1]]
  BY DEF BeforeAll, Timelist
<1>3. c.time[s] \in Nat
  BY FieldTypes
<1> HIDE DEF tl, n
<1>4. ASSUME NEW i \in 1 .. n PROVE c.time[s] < c.time[tl[i]]
  <2>1. 1 \in 1 .. n /\ 1 <= i
    BY <1>1
  <2>2. c.time[tl[1]] <= c.time[tl[i]] /\ c.time[s] < c.time[tl[1]]
    BY <1>1, <1>2, <2>1
  <2> QED
    BY <1>1, <1>3, <2>1, <2>2
<1>5. 1 \in 1 .. n + 1 /\ \A i \in 1 .. n : ~(i < 1)
  BY <1>1
<1> QED
  BY <1>4, <1>5, AddLast DEF tl, n

LEMMA AddWalkedLast ==
  ASSUME NEW c \in ListState, NEW s \in SCB, Detached(c, s), Planned(c), TailEnds(c), ~BeforeAll(c, c.time[s]),
         NEW v, v = AddSCB(c, "TIME", "TIME", WalkPast(c, c.time[s], FALSE), s)
  PROVE  TailEnds(v) /\ ComesLast(v, s)
<1> DEFINE k == WalkPast(c, c.time[s], FALSE)
<1>1. c.time[s] \in Nat
  BY FieldTypes
<1>2. /\ k \in 1 .. Len(c.on["TIME"]) + 1
      /\ \A i \in 1 .. Len(c.on["TIME"]) :
           IF i < k THEN c.time[c.on["TIME"][i]] <= c.time[s] ELSE c.time[s] < c.time[c.on["TIME"][i]]
  BY <1>1, WalkStrict
<1>3. v = AddSCB(c, "TIME", "TIME", k, s)
  OBVIOUS
<1> HIDE DEF k
<1> QED
  BY <1>2, <1>3, AddLast

(* dispatcher(TIME_LIST).                                                  *)
LEMMA PutLast ==
  ASSUME NEW c \in ListState, NEW s \in SCB, Detached(c, s), Planned(c), TailEnds(c),
         NEW v, v = PutOnTimelist(c, s)
  PROVE  TailEnds(v) /\ ComesLast(v, s)
<1>1. CASE BeforeAll(c, c.time[s])
  BY <1>1, AddFirstLast DEF PutOnTimelist
<1>2. CASE ~BeforeAll(c, c.time[s])
  BY <1>2, AddWalkedLast DEF PutOnTimelist
<1> QED
  BY <1>1, <1>2

LEMMA WaitLast ==
  ASSUME NEW c \in ListState, Threads(c), Planned(c), TailEnds(c), NEW s \in SCB, c.list[s] # "NET", NEW t \in Nat,
         NEW w, w = PutOnTimelist([RemoveSCB(c, s) EXCEPT !.time[s] = t], s)
  PROVE  TailEnds(w) /\ ComesLast(w, s)
<1> DEFINE u == RemoveSCB(c, s)
           v == At(u, s, t)
<1>1. u \in ListState /\ Detached(u, s) /\ Planned(u)
  BY RemoveKeepsHead
<1>2. TailEnds(u)
  BY RemoveTailToo
<1>0. w = PutOnTimelist(v, s)
  BY DEF At
<1> HIDE DEF u
<1>3. \A i \in 1 .. Len(u.on["TIME"]) : u.on["TIME"][i] # s /\ u.on["TIME"][i] \in SCB
  BY <1>1, TimelistFacts DEF Detached, Queue
<1>4. /\ v \in ListState /\ Planned(v) /\ v.on = u.on /\ v.list = u.list /\ v.time = [u.time EXCEPT ![s] = t]
      /\ v.readylist_last = u.readylist_last /\ v.netlist_last = u.netlist_last
  BY <1>1, <1>3, Retimed
<1>5. v.timelist_currentTail = u.timelist_currentTail
  BY <1>1 DEF ListState, At
<1> HIDE DEF v
<1>6. Detached(v, s)
  BY <1>1, <1>4 DEF Detached, Readylist, Netlist
<1>7. \A i \in 1 .. Len(u.on["TIME"]) : v.time[u.on["TIME"][i]] = u.time[u.on["TIME"][i]]
  BY <1>1, <1>3, <1>4, FieldTypes
<1>8. TailEnds(v)
  BY <1>2, <1>4, <1>5, <1>7, TailStays
<1> QED
  BY <1>0, <1>4, <1>6, <1>8, PutLast

(* Schedule and ScheduleDelta64, when they do not prepend.                 *)
LEMMA ScheduleLast ==
  ASSUME NEW c \in ListState, Threads(c), Planned(c), TailEnds(c), NEW s \in SCB, NEW t \in Nat,
         c.list[s] = "NET" => s = Netlist(c)[1],
         NEW v, v = Schedule(c, t, s, FALSE)
  PROVE  TailEnds(v) /\ ComesLast(v, s)
<1> DEFINE u == RemoveSCB([c EXCEPT !.time[s] = t], s)
           tl == u.on["TIME"]
<1>1. u \in ListState /\ Detached(u, s) /\ Planned(u) /\ u.time = [c.time EXCEPT ![s] = t]
  BY RemoveDetaches
<1>2. TailEnds(u)
  BY RemoveTail
<1>3. v = IF BeforeAll(u, t) THEN AddSCB(u, "TIME", "TIME", 1, s)
          ELSE IF u.time[u.timelist_currentTail] = t
            THEN AddAfter(u, "TIME", u.timelist_currentTail, s)
          ELSE AddSCB(u, "TIME", "TIME", WalkPast(u, t, FALSE), s)
  BY DEF Schedule
<1> HIDE DEF u
<1>4. u.time[s] = t
  BY <1>1, FieldTypes
<1>5. CASE BeforeAll(u, t)
  BY <1>1, <1>2, <1>3, <1>4, <1>5, AddFirstLast
<1>6. CASE ~BeforeAll(u, t) /\ u.time[u.timelist_currentTail] # t
  <2>1. v = AddSCB(u, "TIME", "TIME", WalkPast(u, u.time[s], FALSE), s)
    BY <1>3, <1>4, <1>6
  <2> QED
    BY <1>1, <1>2, <1>4, <1>6, <2>1, AddWalkedLast
<1>7. CASE ~BeforeAll(u, t) /\ u.time[u.timelist_currentTail] = t
  <2>1. /\ Len(tl) \in Nat /\ DOMAIN tl = 1 .. Len(tl) /\ (\A i \in 1 .. Len(tl) : u.time[tl[i]] \in Nat)
        /\ \A i, j \in 1 .. Len(tl) : i <= j => u.time[tl[i]] <= u.time[tl[j]]
    BY <1>1, TimelistFacts DEF Planned
  <2>2. tl # <<>>
    BY <1>7 DEF BeforeAll, Timelist
  <2>3. u.timelist_currentTail \in Range(tl)
    BY <1>1, <2>2 DEF Planned, TailInGroup, Timelist
  <2>4. \A j, k \in 1 .. Len(tl) : u.timelist_currentTail = tl[j] /\ j < k => u.time[tl[j]] < u.time[tl[k]]
    BY <1>2 DEF TailEnds
  <2>5. \A p \in 1 .. Len(tl) : AddAfter(u, "TIME", tl[p], s) = AddSCB(u, "TIME", "TIME", p + 1, s)
    BY <1>1, AddWhereItIs DEF Queue
  <2> HIDE DEF tl
  <2>6. PICK p \in 1 .. Len(tl) : u.timelist_currentTail = tl[p]
    BY <2>1, <2>3 DEF Range
  <2>7. p + 1 \in 1 .. Len(tl) + 1 /\ u.time[tl[p]] = t
    BY <1>7, <2>1, <2>6
  <2>8. ASSUME NEW i \in 1 .. Len(tl) PROVE IF i < p + 1 THEN u.time[tl[i]] <= t ELSE t < u.time[tl[i]]
    <3>1. CASE i < p + 1
      <4>1. i <= p
        BY <2>1, <3>1
      <4> QED
        BY <2>1, <2>7, <3>1, <4>1
    <3>2. CASE ~(i < p + 1)
      <4>1. p < i
        BY <2>1, <3>2
      <4> QED
        BY <2>4, <2>6, <2>7, <3>2, <4>1
    <3> QED
      BY <3>1, <3>2
  <2>9. v = AddSCB(u, "TIME", "TIME", p + 1, s)
    BY <1>3, <1>7, <2>5, <2>6
  <2> QED
    BY <1>1, <1>2, <1>4, <2>7, <2>8, <2>9, AddLast DEF tl
<1> QED
  BY <1>5, <1>6, <1>7

(* ADD_LIST_SCB(READY_LIST, ...) and ADD_LIST_SCB(NET_LIST, ...) leave the *)
(* time list alone.                                                        *)
SameTimelist(c, v) ==
  v.on["TIME"] = c.on["TIME"] /\ v.time = c.time /\ v.timelist_currentTail = c.timelist_currentTail

LEMMA SameTail ==
  ASSUME NEW c, NEW v, TailEnds(c), SameTimelist(c, v)
  PROVE  TailEnds(v)
BY TailStays DEF SameTimelist

LEMMA AddElsewhere ==
  ASSUME NEW c \in ListState, NEW l \in Queue, l # "TIME", NEW k, NEW s
  PROVE  SameTimelist(c, AddSCB(c, l, l, k, s))
<1> DEFINE v == AddSCB(c, l, l, k, s)
<1>1. /\ v.on = [c.on EXCEPT ![l] = InsertAt(@, k, s)] /\ v.time = c.time
      /\ v.timelist_currentTail = c.timelist_currentTail
  BY DEF AddSCB, ListState
<1>2. c.on \in [Queue -> Seq(SCB)] /\ "TIME" \in Queue
  BY DEF ListState, Queue
<1> QED
  BY <1>1, <1>2 DEF SameTimelist

LEMMA ReadyTail ==
  ASSUME NEW c \in ListState, NEW s \in SCB, Detached(c, s)
  PROVE  SameTimelist(c, AppendReady(c, s))
<1> DEFINE rl == c.on["READY"]
<1>1. /\ "READY" \in Queue /\ rl \in Seq(SCB) /\ Len(rl) \in Nat /\ (rl = <<>> <=> Len(rl) = 0)
      /\ \A i \in 1 .. Len(rl) : rl[i] \in SCB
      /\ c.readylist_last = LastOf(rl)
  BY FieldTypes, EmptySeq DEF Queue, Detached, Readylist
<1>2. PICK k : AppendReady(c, s) = AddSCB(c, "READY", "READY", k, s)
  <2>1. CASE rl = <<>>
    BY <1>1, <2>1 DEF AppendReady, LastOf
  <2>2. CASE rl # <<>>
    <3>1. Len(rl) \in 1 .. Len(rl) /\ c.readylist_last = rl[Len(rl)]
      BY <1>1, <2>2 DEF LastOf
    <3>2. c.readylist_last # NULL
      BY <1>1, <3>1, NullIsNotSCB
    <3>3. AddAfter(c, "READY", rl[Len(rl)], s) = AddSCB(c, "READY", "READY", Len(rl) + 1, s)
      BY <1>1, <3>1, AddWhereItIs
    <3> QED
      BY <3>1, <3>2, <3>3 DEF AppendReady
  <2> QED
    BY <2>1, <2>2
<1> QED
  BY <1>1, <1>2, AddElsewhere

LEMMA WakeTail ==
  ASSUME NEW c \in ListState, Threads(c), Planned(c), TailEnds(c), NEW s \in SCB, c.list[s] # "NET"
  PROVE  TailEnds(AppendReady(RemoveSCB(c, s), s))
<1> DEFINE u == RemoveSCB(c, s)
<1>1. u \in ListState /\ Detached(u, s)
  BY RemoveKeepsHead
<1>2. TailEnds(u)
  BY RemoveTailToo
<1> HIDE DEF u
<1>3. SameTimelist(u, AppendReady(u, s))
  BY <1>1, ReadyTail
<1>4. TailEnds(AppendReady(u, s))
  BY <1>2, <1>3, SameTail
<1> QED
  BY <1>4 DEF u

LEMMA RestTail ==
  ASSUME NEW c \in ListState, TailEnds(c), NEW tag, NEW s
  PROVE  TailEnds(Rest(c, tag, s))
<1>1. SameTimelist(c, Rest(c, tag, s))
  BY DEF SameTimelist, Rest, ListState
<1> QED
  BY <1>1, SameTail

LEMMA AwayTail ==
  ASSUME NEW c \in ListState, Threads(c), Planned(c), TailEnds(c), NEW s \in SCB, c.list[s] # "NET", NEW tag
  PROVE  TailEnds(Rest(RemoveSCB(c, s), tag, s))
<1> DEFINE u == RemoveSCB(c, s)
<1>1. u \in ListState /\ TailEnds(u)
  BY RemoveKeepsHead, RemoveTailToo
<1> HIDE DEF u
<1>2. TailEnds(Rest(u, tag, s))
  BY <1>1, RestTail
<1> QED
  BY <1>2 DEF u

LEMMA MoveTimeTail ==
  ASSUME NEW c \in ListState, Threads(c), Planned(c), TailEnds(c), Timelist(c) # <<>>
  PROVE  TailEnds(TimeToReady(c))
<1> DEFINE s == Timelist(c)[1]
<1>1. s \in SCB /\ c.list[s] = "TIME"
  BY Listed DEF Queue, Timelist
<1> HIDE DEF s
<1>2. TailEnds(AppendReady(RemoveSCB(c, s), s))
  BY <1>1, WakeTail
<1> QED
  BY <1>2 DEF TimeToReady, s

LEMMA MoveNetTail ==
  ASSUME NEW c \in ListState, Threads(c), Planned(c), TailEnds(c), Netlist(c) # <<>>
  PROVE  TailEnds(NetToReady(c))
<1> DEFINE s == Netlist(c)[1]
           u == RemoveSCB(c, s)
           v == [u EXCEPT !.netlist_last = IF Netlist(u) = <<>> THEN NULL ELSE @]
<1>1. s \in SCB
  BY Listed DEF Queue, Netlist
<1>2. NetToReady(c) = AppendReady(v, s)
  BY DEF NetToReady
<1>3. s = Netlist(c)[1]
  OBVIOUS
<1> HIDE DEF s
<1>4. u \in ListState /\ Detached(u, s) /\ TailEnds(u)
  BY <1>1, <1>3, RemoveKeepsHead, RemoveTailToo
<1> HIDE DEF u
<1>5. /\ v \in ListState /\ v.on = u.on /\ v.list = u.list /\ v.time = u.time
      /\ v.readylist_last = u.readylist_last /\ v.timelist_currentTail = u.timelist_currentTail
      /\ Netlist(u) # <<>> => v.netlist_last = u.netlist_last
  BY <1>4 DEF ListState
<1> HIDE DEF v
<1>6. Detached(v, s)
  BY <1>4, <1>5 DEF Detached, Readylist, Netlist
<1>7. TailEnds(v)
  <2>1. SameTimelist(u, v)
    BY <1>5 DEF SameTimelist
  <2> QED
    BY <1>4, <2>1, SameTail
<1>8. SameTimelist(v, AppendReady(v, s))
  BY <1>1, <1>5, <1>6, ReadyTail
<1> QED
  BY <1>2, <1>7, <1>8, SameTail

LEMMA AppendNetTail ==
  ASSUME NEW c \in ListState, Threads(c), Planned(c), TailEnds(c), NEW s \in SCB, c.list[s] # "NET", NEW now \in Nat
  PROVE  TailEnds(AppendNet(c, now, s))
<1> DEFINE u == RemoveSCB(c, s)
           nl == u.on["NET"]
           x == AppendNet(c, now, s)
<1>1. u \in ListState /\ Detached(u, s) /\ TailEnds(u)
  BY RemoveKeepsHead, RemoveTailToo
<1>2. LinkNet(c, s) = [(IF Netlist(u) # <<>> THEN AddAfter(u, "NET", u.netlist_last, s)
                        ELSE AddSCB(u, "NET", "NET", 1, s)) EXCEPT !.netlist_last = s]
  BY DEF LinkNet
<1> HIDE DEF u
<1>3. "NET" \in Queue /\ Len(nl) \in Nat /\ (nl = <<>> <=> Len(nl) = 0)
  BY <1>1, FieldTypes, EmptySeq DEF Queue
<1>4. PICK k : LinkNet(c, s) = [AddSCB(u, "NET", "NET", k, s) EXCEPT !.netlist_last = s]
  <2>1. CASE nl = <<>>
    BY <1>2, <2>1 DEF Netlist
  <2>2. CASE nl # <<>>
    <3>1. Len(nl) \in 1 .. Len(nl) /\ u.netlist_last = nl[Len(nl)]
      BY <1>1, <1>3, <2>2 DEF Detached, Netlist, LastOf
    <3>2. AddAfter(u, "NET", nl[Len(nl)], s) = AddSCB(u, "NET", "NET", Len(nl) + 1, s)
      BY <1>1, <1>3, <3>1, AddWhereItIs
    <3> QED
      BY <1>2, <2>2, <3>1, <3>2 DEF Netlist
  <2> QED
    BY <2>1, <2>2
<1> DEFINE w == AddSCB(u, "NET", "NET", k, s)
<1>5. SameTimelist(u, w)
  BY <1>1, <1>3, AddElsewhere
<1>6. x.on["TIME"] = w.on["TIME"] /\ x.time = [w.time EXCEPT ![s] = now]
      /\ x.timelist_currentTail = w.timelist_currentTail
  <2>1. x = [[w EXCEPT !.netlist_last = s] EXCEPT !.time[s] = now]
    BY <1>4 DEF AppendNet
  <2>2. DOMAIN w = DOMAIN u
    BY DEF AddSCB
  <2>3. DOMAIN u = {"on", "list", "time", "readylist_last", "netlist_last", "timelist_currentTail"}
    BY <1>1 DEF ListState
  <2> HIDE DEF w, x
  <2> QED
    BY <2>1, <2>2, <2>3
<1> HIDE DEF w, x
<1>7. \A i \in 1 .. Len(u.on["TIME"]) : u.on["TIME"][i] # s /\ u.on["TIME"][i] \in SCB
  BY <1>1, TimelistFacts DEF Detached, Queue
<1>8. \A i \in 1 .. Len(u.on["TIME"]) : x.time[u.on["TIME"][i]] = u.time[u.on["TIME"][i]]
  BY <1>1, <1>5, <1>6, <1>7, FieldTypes DEF SameTimelist
<1>9. x.on["TIME"] = u.on["TIME"] /\ x.timelist_currentTail = u.timelist_currentTail
  BY <1>5, <1>6 DEF SameTimelist
<1>10. TailEnds(x)
  BY <1>1, <1>8, <1>9, TailStays
<1> QED
  BY <1>10 DEF x

-----------------------------------------------------------------------------
(* What comes last at its time, action by action, in a design where        *)
(* nothing is prepended to its time.                                       *)
NothingPrepends == ASSIGN = {}

LEMMA LastAtItsTime ==
  ASSUME NEW c \in ListState, NEW v, NEW s \in SCB, NEW t, Step(c, v, s, "TIME", t), TailEnds(v), ComesLast(v, s)
  PROVE  Appended(c, v)
<1>1. \A r \in SCB : r # s => v.list[r] = c.list[r]
  BY StepFacts
<1>2. ASSUME NEW r \in SCB, c.list[r] # "TIME", v.list[r] = "TIME" PROVE ComesLast(v, r)
  BY <1>1, <1>2
<1> QED
  BY <1>2 DEF Appended

LEMMA NotOnTimelist ==
  ASSUME NEW c \in ListState, NEW v, NEW s \in SCB, NEW tag, tag # "TIME", NEW t, Step(c, v, s, tag, t), TailEnds(v)
  PROVE  Appended(c, v)
<1>1. v.list[s] = tag /\ \A r \in SCB : r # s => v.list[r] = c.list[r]
  BY StepFacts
<1>2. \A r \in SCB : v.list[r] = "TIME" => c.list[r] = "TIME"
  BY <1>1
<1> QED
  BY <1>2 DEF Appended

LEMMA NothingAppended ==
  ASSUME NEW c, TailEnds(c), NEW v, v = c
  PROVE  Appended(c, v)
BY DEF Appended

LEMMA NetAppends ==
  ASSUME UniformDelays, IInv, TailEnds(q), NEW n \in NET, NEW v \in VALUE, ScheduleNet(n, v)
  PROVE  Appended(q, q')
<1> DEFINE delay == NetDelay[n][v]
           t == After(delay)
<1>1. /\ n \in SCB /\ (delay > 0 => q.list[n] # "NET") /\ t \in Nat
  <2>1. delay \in Nat /\ n \in SCB /\ CurrentTime \in Nat
    BY DesignFacts, ListTypes
  <2>2. delay > 0 => ~ZeroDelay(n)
    BY <2>1 DEF ZeroDelay
  <2>3. delay > 0 => q.list[n] # "NET"
    BY <2>1, <2>2 DEF IInv, Kinds
  <2> QED
    BY <2>1, <2>3 DEF After
<1>2. q' = IF delay > 0 THEN Schedule(q, t, n, FALSE)
           ELSE IF RunningNet(n) \/ q.list[n] = "NET" THEN q
           ELSE AppendNet(q, CurrentTime, n)
  BY DEF ScheduleNet
<1> HIDE DEF delay, t
<1>3. q \in ListState /\ Threads(q) /\ Planned(q) /\ CurrentTime \in Nat
  BY ListTypes
<1>4. CASE delay > 0
  <2>1. q' = Schedule(q, t, n, FALSE)
    BY <1>2, <1>4
  <2>2. Step(q, q', n, "TIME", t)
    BY <1>1, <1>3, <1>4, <2>1, ScheduleSteps
  <2>3. TailEnds(q') /\ ComesLast(q', n)
    BY <1>1, <1>3, <1>4, <2>1, ScheduleLast
  <2> QED
    BY <1>1, <1>3, <2>2, <2>3, LastAtItsTime
<1>5. CASE ~(delay > 0) /\ (RunningNet(n) \/ q.list[n] = "NET")
  BY <1>2, <1>5, NothingAppended
<1>6. CASE ~(delay > 0) /\ ~(RunningNet(n) \/ q.list[n] = "NET")
  <2>1. q' = AppendNet(q, CurrentTime, n) /\ q.list[n] # "NET"
    BY <1>2, <1>6
  <2>2. Step(q, q', n, "NET", CurrentTime)
    BY <1>1, <1>3, <2>1, AppendNetSteps
  <2>3. TailEnds(q')
    BY <1>1, <1>3, <2>1, AppendNetTail
  <2> QED
    BY <1>1, <1>3, <2>2, <2>3, NotOnTimelist
<1> QED
  BY <1>4, <1>5, <1>6

LEMMA NotifyAppends ==
  ASSUME IInv, TailEnds(q), NEW test \in BOOLEAN, NotifyNext(test)
  PROVE  Appended(q, q')
<1> DEFINE p == Head(walk)
           woken == q.list[p] # "READY" /\ test
<1>1. walk # <<>> /\ q' = IF woken THEN AppendReady(RemoveSCB(q, p), p) ELSE q
  BY DEF NotifyNext
<1>2. p \in SCB /\ q.list[p] \in {"EVENT", "READY"}
  <2>1. walk \in Seq(SCB) /\ \A r \in Range(walk) : q.list[r] \in {"EVENT", "READY"}
    BY DEF IInv, TypeOK, WaitersThreaded
  <2>2. p = walk[1] /\ 1 \in DOMAIN walk /\ walk[1] \in SCB
    BY <1>1, <2>1, HeadTailProperties, EmptySeq, LenProperties
  <2> QED
    BY <2>1, <2>2 DEF Range
<1> HIDE DEF p
<1>3. q \in ListState /\ Threads(q) /\ Planned(q)
  BY ListTypes
<1>4. CASE woken
  <2>1. q' = AppendReady(RemoveSCB(q, p), p) /\ q.list[p] # "NET"
    BY <1>1, <1>2, <1>4
  <2>2. Step(q, q', p, "READY", q.time[p])
    BY <1>2, <1>3, <2>1, WakeSteps
  <2>3. TailEnds(q')
    BY <1>2, <1>3, <2>1, WakeTail
  <2> QED
    BY <1>2, <1>3, <2>2, <2>3, NotOnTimelist
<1>5. CASE ~woken
  BY <1>1, <1>5, NothingAppended
<1> QED
  BY <1>4, <1>5

LEMMA NonblockingAppends ==
  ASSUME IInv, TailEnds(q), NEW b \in SCB, NEW d \in DELAYS, AssignNonblocking(b, d)
  PROVE  Appended(q, q')
<1> DEFINE u == Rest(q, "NOLIST", b)
           t == After(d)
<1>1. q.list[b] = "FREE" /\ q' = Schedule(u, t, b, FALSE)
  BY DEF AssignNonblocking
<1>2. Step(q, q', b, "TIME", t) /\ t \in Nat
  BY NonblockingSteps
<1>3. q \in ListState /\ Threads(q) /\ Planned(q)
  BY ListTypes
<1>4. "NOLIST" \in Resting /\ "FREE" \notin Queue /\ "NOLIST" # "NET"
  BY DEF Resting, Queue
<1> HIDE DEF t
<1>5. Step(q, u, b, "NOLIST", q.time[b]) /\ TailEnds(u)
  BY <1>1, <1>3, <1>4, RestAgain, RestTail
<1> HIDE DEF u
<1>6. u \in ListState /\ Threads(u) /\ Planned(u) /\ u.list[b] = "NOLIST"
  BY <1>3, <1>5, StepFacts
<1>7. TailEnds(q') /\ ComesLast(q', b)
  BY <1>1, <1>2, <1>4, <1>5, <1>6, ScheduleLast
<1> QED
  BY <1>2, <1>3, <1>7, LastAtItsTime

LEMMA WaitAppends ==
  ASSUME IInv, TailEnds(q), Readylist(q) # <<>>, NEW t \in Nat, q' = WaitUntil(t)
  PROVE  Appended(q, q')
<1>1. Incoming \in SCB /\ q.list[Incoming] # "NET" /\ q \in ListState /\ Threads(q) /\ Planned(q)
  BY IncomingFacts, ListTypes
<1>2. Step(q, q', Incoming, "TIME", t)
  BY Waited
<1>3. TailEnds(q') /\ ComesLast(q', Incoming)
  BY <1>1, WaitLast DEF WaitUntil, Suspended
<1> QED
  BY <1>1, <1>2, <1>3, LastAtItsTime

LEMMA RestAppends ==
  ASSUME IInv, TailEnds(q), Readylist(q) # <<>>, NEW tag \in Resting, q' = RestOn(tag)
  PROVE  Appended(q, q')
<1>1. Incoming \in SCB /\ q.list[Incoming] # "NET" /\ q \in ListState /\ Threads(q) /\ Planned(q)
  BY IncomingFacts, ListTypes
<1>2. Step(q, q', Incoming, tag, q.time[Incoming])
  BY Rested
<1>3. TailEnds(q')
  BY <1>1, AwayTail DEF RestOn, Suspended
<1> QED
  BY <1>1, <1>2, <1>3, NotOnTimelist DEF Resting

LEMMA ExecAppends ==
  ASSUME IInv, TailEnds(q), Exec
  PROVE  Appended(q, q')
<1>1. "FREE" \in Resting /\ "NOLIST" \in Resting /\ "EVENT" \in Resting
  BY DEF Resting
<1>2. CurrentTime \in Nat /\ \A d \in DELAYS : After(d) \in Nat
  BY DesignFacts, ListTypes DEF After
<1>3. CASE Execute
  BY <1>3, NothingAppended DEF Execute
<1>4. ASSUME NEW b \in SCB \ (NET \cup ASSIGN), NEW d \in DELAYS, AssignNonblocking(b, d) PROVE Appended(q, q')
  BY <1>4, NonblockingAppends
<1>5. ASSUME NEW t \in Nat, DispatchFrom(WaitUntil(t)) PROVE Appended(q, q')
  BY <1>5, WaitAppends, NothingAppended DEF DispatchFrom
<1>6. ASSUME NEW tag \in Resting, DispatchFrom(RestOn(tag)) PROVE Appended(q, q')
  BY <1>6, RestAppends, NothingAppended DEF DispatchFrom
<1>7. ASSUME NEW d \in DELAYS, Delay(d) PROVE Appended(q, q')
  BY <1>2, <1>5, <1>7 DEF Delay
<1>8. CASE \/ (\E es \in (SUBSET EVENT) \ {{}} : WaitOnEvent(es))
           \/ EndProcess \/ EndNonblocking \/ EndAssign
  BY <1>1, <1>6, <1>8 DEF WaitOnEvent, EndProcess, EndNonblocking, EndAssign
<1>9. CASE EndNet
  BY <1>1, <1>2, <1>5, <1>6, <1>9 DEF EndNet
<1> QED
  BY <1>3, <1>4, <1>7, <1>8, <1>9 DEF Exec

LEMMA MoveAppends ==
  ASSUME IInv, TailEnds(q), MoveNet \/ MoveNow \/ AdvanceToTimelist \/ MoveNewTime
  PROVE  Appended(q, q')
<1>1. q \in ListState /\ Threads(q) /\ Planned(q)
  BY ListTypes
<1>2. ASSUME Timelist(q) # <<>>, q' = TimeToReady(q) PROVE Appended(q, q')
  <2> DEFINE s == Timelist(q)[1]
  <2>1. s \in SCB /\ Step(q, q', s, "READY", q.time[s])
    BY <1>1, <1>2, MoveTimeSteps
  <2>2. TailEnds(q')
    BY <1>1, <1>2, MoveTimeTail
  <2> HIDE DEF s
  <2> QED
    BY <1>1, <2>1, <2>2, NotOnTimelist
<1>3. ASSUME Netlist(q) # <<>>, q' = NetToReady(q) PROVE Appended(q, q')
  <2> DEFINE s == Netlist(q)[1]
  <2>1. s \in SCB /\ Step(q, q', s, "READY", q.time[s])
    BY <1>1, <1>3, MoveNetSteps
  <2>2. TailEnds(q')
    BY <1>1, <1>3, MoveNetTail
  <2> HIDE DEF s
  <2> QED
    BY <1>1, <2>1, <2>2, NotOnTimelist
<1>4. CASE MoveNet
  BY <1>3, <1>4 DEF MoveNet
<1>5. CASE MoveNow
  BY <1>2, <1>5 DEF MoveNow, TimeIsNow
<1>6. CASE AdvanceToTimelist
  BY <1>2, <1>6, NothingAppended DEF AdvanceToTimelist
<1>7. CASE MoveNewTime
  BY <1>2, <1>7, NothingAppended DEF MoveNewTime
<1> QED
  BY <1>4, <1>5, <1>6, <1>7

LEMMA NextAppends ==
  ASSUME UniformDelays, NothingPrepends, IInv, TailEnds(q), [Next]_vars
  PROVE  Appended(q, q')
<1>1. CASE Store
  <2>1. ASSUME NEW n \in NET, NEW v \in VALUE, ScheduleNet(n, v) PROVE Appended(q, q')
    BY <2>1, NetAppends
  <2>2. ASSUME NEW test \in BOOLEAN, NotifyNext(test) PROVE Appended(q, q')
    BY <2>2, NotifyAppends
  <2>3. CASE \/ \E g \in GATE, d \in DELAYS : ScheduleGate(g, d)
             \/ \E e \in EVENT : NotifyEvent(e)
             \/ \E m \in MONITOR : TickleIdle(m) \/ TickleFinal(m)
    BY <2>3, NothingAppended DEF ScheduleGate, NotifyEvent, TickleIdle, TickleFinal
  <2> QED
    BY <1>1, <2>1, <2>2, <2>3 DEF Store, NothingPrepends
<1>2. CASE Exec
  BY <1>2, ExecAppends
<1>3. CASE Dispatch
  <2>1. CASE MoveNet \/ MoveNow \/ AdvanceToTimelist \/ MoveNewTime
    BY <2>1, MoveAppends
  <2>2. CASE \/ LookAtGates \/ GatesDone \/ NetsDone \/ Now1Done \/ IdleDone \/ Now2Done \/ FinalDone \/ EndOfTime
             \/ Finished \/ (\E m \in MONITOR : RunIdle(m) \/ RunFinal(m)) \/ (\E g \in GATE : FireGate(g) \/ AdvanceToGate(g))
             \/ Stopped
    <3>1. q' = q
      BY <2>2 DEF LookAtGates, GatesDone, NetsDone, Now1Done, IdleDone, Now2Done, RunFinal, FinalDone, EndOfTime, Finished,
         RunIdle, FireGate, AdvanceToGate, Stopped, GoTo, CheckStrobe, vars
    <3> QED
      BY <3>1, NothingAppended
  <2> QED
    BY <1>3, <2>1, <2>2 DEF Dispatch
<1>4. CASE UNCHANGED vars
  BY <1>4, NothingAppended DEF vars
<1> QED
  BY <1>1, <1>2, <1>3, <1>4 DEF Next

(* What comes last among those of its time has the last position.          *)
InOrder(c, v) ==
  \A s \in SCB \ ASSIGN : c.list[s] # "TIME" /\ v.list[s] = "TIME" =>
     \A r \in SCB \ {s} : c.list[r] = "TIME" /\ v.list[r] = "TIME" /\ v.time[r] = v.time[s] =>
        PositionOf(Timelist(v), r) < PositionOf(Timelist(v), s)

LEMMA AppendedInOrder ==
  ASSUME NEW c, NEW v \in ListState, Threads(v), Appended(c, v)
  PROVE  InOrder(c, v)
<1> DEFINE tl == v.on["TIME"]
<1> SUFFICES ASSUME NEW s \in SCB \ ASSIGN, c.list[s] # "TIME", v.list[s] = "TIME",
                    NEW r \in SCB \ {s}, c.list[r] = "TIME", v.list[r] = "TIME", v.time[r] = v.time[s]
             PROVE  PositionOf(tl, r) < PositionOf(tl, s)
  BY DEF InOrder, Timelist
<1>1. "TIME" \in Queue
  BY DEF Queue
<1>2. PICK i \in 1 .. Len(tl) : tl[i] = s
  BY <1>1 DEF Threads, OneListEach
<1>3. PICK j \in 1 .. Len(tl) : tl[j] = r
  BY <1>1 DEF Threads, OneListEach
<1>4. \A a, b \in 1 .. Len(tl) : tl[a] = tl[b] => a = b
  BY <1>1 DEF Threads, OneListEach
<1>5. Len(tl) \in Nat /\ DOMAIN tl = 1 .. Len(tl) /\ \A a \in 1 .. Len(tl) : v.time[tl[a]] \in Nat
  BY TimelistFacts
<1>6. ~(i < j)
  <2>1. ComesLast(v, s)
    BY DEF Appended
  <2>2. i < j => v.time[s] < v.time[r]
    BY <1>2, <1>3, <2>1 DEF ComesLast
  <2> QED
    BY <1>2, <1>3, <1>5, <2>2
<1> HIDE DEF tl
<1>7. PositionOf(tl, s) = i
  BY <1>2, <1>4, <1>5 DEF PositionOf
<1>8. PositionOf(tl, r) = j
  BY <1>3, <1>4, <1>5 DEF PositionOf
<1> QED
  BY <1>2, <1>3, <1>5, <1>6, <1>7, <1>8

(* What is appended to the time list comes after what is already due at    *)
(* that time (Schedule and dispatcher of schedule.cc), as long as no       *)
(* delayed continuous assignment is prepended to its time.                 *)
THEOREM DelaysEndInOrder ==
  ASSUME UniformDelays, NothingPrepends
  PROVE  Spec => AppendsInOrder
<1>1. Init => IInv /\ TailEnds(q)
  <2>1. Init => q.on["TIME"] = <<>>
    BY DEF Init, Queue
  <2>2. Init => TailEnds(q)
    BY <2>1 DEF TailEnds
  <2> QED
    BY <2>2, InitIInv
<1>2. IInv /\ TailEnds(q) /\ [Next]_vars => (IInv /\ TailEnds(q))'
  BY NextIInv, NextAppends DEF Appended
<1>3. IInv /\ TailEnds(q) /\ [Next]_vars => InOrder(q, q')
  <2> SUFFICES ASSUME IInv, TailEnds(q), [Next]_vars PROVE InOrder(q, q')
    OBVIOUS
  <2>1. IInv' /\ Appended(q, q')
    BY NextIInv, NextAppends
  <2>2. q' \in ListState /\ Threads(q')
    BY <2>1 DEF IInv, TypeOK
  <2> QED
    BY <2>1, <2>2, AppendedInOrder
<1>4. IInv /\ TailEnds(q) /\ [Next]_vars
        => [\A s \in SCB \ ASSIGN : q.list[s] # "TIME" /\ q'.list[s] = "TIME" =>
              \A r \in SCB \ {s} : q.list[r] = "TIME" /\ q'.list[r] = "TIME" /\ q'.time[r] = q'.time[s] =>
                 PositionOf(Timelist(q'), r) < PositionOf(Timelist(q'), s)]_vars
  BY <1>3 DEF InOrder
<1> QED
  BY <1>1, <1>2, <1>4, PTL DEF Spec, AppendsInOrder
=============================================================================
