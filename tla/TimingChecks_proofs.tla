------------------------- MODULE TimingChecks_proofs -------------------------
(***************************************************************************)
(* What the timing checks report is what the limits forbid, for all        *)
(* statements, limits and values.  The two invariants behind it: a check   *)
(* that does not wait has seen what the last idle pass saw, and the time   *)
(* it keeps for an event is the latest of the event's moments.             *)
(***************************************************************************)
EXTENDS TimingChecks, FiniteSetTheorems, TLAPS

Xed(v)    == IF v = Z THEN X ELSE v
Pos(c, i) == IF c.bit[i] = NULL THEN c.bit[1] ELSE c.bit[i]
Sample    == [time : Nat, value : [Bit -> Values], param : [Checks -> Nat \X Nat]]

Typed ==
  /\ CurrentTime \in Nat /\ value \in [Bit -> Values]
  /\ idle_strobe_queue \subseteq Checks
  /\ currentValue \in [Checks -> Values \X Values]
  /\ changeTime \in [Checks -> Nat \X Nat]
  /\ param \in [Checks -> Nat \X Nat]
  /\ samples \in Seq(Sample)
  /\ reported \subseteq Checks \X (1 .. Len(samples))
InTime ==
  /\ CurrentTime <= MaxTime
  /\ \A c \in Checks, i \in {1, 2} : changeTime[c][i] <= CurrentTime
  /\ \A k \in 1 .. Len(samples) : samples[k].time <= CurrentTime
Registers ==
  /\ notifier \in [REG -> {ZERO, ONE, X}] /\ before \in [REG -> {ZERO, ONE, X}]
  /\ stamp \in [STATEMENT -> 0 .. CurrentTime]
(* A check has seen the values of the last pass; those that do not wait    *)
(* have nothing new to see.                                                *)
Seen ==
  \A c \in Checks, i \in {1, 2} :
    /\ Xed(currentValue[c][i]) = Xed(ValueAt(Pos(c, i), Len(samples)))
    /\ c \notin idle_strobe_queue => Xed(currentValue[c][i]) = Xed(value[Pos(c, i)])
LatestOf(t, M) == (t = 0 /\ M = {}) \/ (t \in M /\ t # 0 /\ \A u \in M : u <= t)
Latest == \A c \in Checks, i \in {1, 2} : LatestOf(changeTime[c][i], Moments(c, i, Len(samples) + 1))

ChecksInv == Typed /\ InTime /\ Registers /\ Seen /\ Latest

-----------------------------------------------------------------------------
LEMMA CheckFacts ==
  ASSUME NEW c \in Checks
  PROVE  /\ c.stmt \in STATEMENT /\ Kinds(c) \in Kind
         /\ Pos(c, 1) = c.bit[1]
         /\ \A i \in {1, 2} : Pos(c, i) \in Bit
<1>1. c.stmt \in STATEMENT
  BY DEF Checks
<1>2. NULL \notin Bit /\ c.bit[1] \in Bit /\ c.bit[2] \in Bit \cup {NULL}
  BY BitsAssumption
<1>3. Kinds(c) \in Kind
  BY <1>1, TimingAssumption DEF Kinds
<1> QED
  BY <1>1, <1>2, <1>3 DEF Pos

LEMMA EdgeOfX ==
  ASSUME NEW v, NEW w, NEW u, Xed(u) = Xed(v)
  PROVE  edge_mask(u, w) = edge_mask(v, w)
BY DEF edge_mask, Xed

LEMMA NoEdge ==
  ASSUME NEW v, NEW w, Xed(v) = Xed(w)
  PROVE  edge_mask(v, w) = {}
BY DEF edge_mask, Xed, AllEdges

(* A pass, the (n + 1)st, appends what it sees to the samples.             *)
Passed(n) ==
  /\ n = Len(samples)
  /\ samples' = Append(samples, [time |-> CurrentTime, value |-> value, param |-> param])

LEMMA PassLength ==
  ASSUME Typed, timingCheck
  PROVE  \E n \in Nat : n = Len(samples) /\ Passed(n)
<1>1. Len(samples) \in Nat
  BY DEF Typed
<1>2. samples' = Append(samples, [time |-> CurrentTime, value |-> value, param |-> param])
  BY DEF timingCheck
<1> QED
  BY <1>1, <1>2 DEF Passed

LEMMA PassSamples ==
  ASSUME Typed, NEW n \in Nat, Passed(n)
  PROVE  /\ samples' \in Seq(Sample) /\ Len(samples') = n + 1
         /\ \A k \in 1 .. n : samples'[k] = samples[k]
         /\ samples'[n + 1] = [time |-> CurrentTime, value |-> value, param |-> param]
BY DEF Typed, Passed, Sample

LEMMA PassValueAt ==
  ASSUME Typed, NEW n \in Nat, Passed(n), NEW b
  PROVE  /\ \A k \in 0 .. n : ValueAt(b, k)' = ValueAt(b, k)
         /\ ValueAt(b, n + 1)' = value[b]
<1>1. samples'[n + 1].value = value /\ n + 1 # 0
  BY PassSamples
<1>2. ASSUME NEW k \in 0 .. n PROVE ValueAt(b, k)' = ValueAt(b, k)
  BY <1>1, PassSamples DEF ValueAt
<1>3. ValueAt(b, n + 1)' = samples'[n + 1].value[b]
  BY <1>1, PassSamples DEF ValueAt
<1> QED
  BY <1>1, <1>2, <1>3

LEMMA PassObserved ==
  ASSUME Typed, NEW n \in Nat, Passed(n), NEW c \in Checks, NEW i \in {1, 2}, NEW k \in 1 .. n
  PROVE  Observed(c, i, k)' = Observed(c, i, k)
<1>1. k \in 0 .. n /\ k - 1 \in 0 .. n
  OBVIOUS
<1>2. ASSUME NEW b PROVE ValueAt(b, k)' = ValueAt(b, k) /\ ValueAt(b, k - 1)' = ValueAt(b, k - 1)
  BY <1>1, PassValueAt
<1> QED
  BY <1>2 DEF Observed

LEMMA PassMoments ==
  ASSUME Typed, NEW n \in Nat, Passed(n), NEW c \in Checks, NEW i \in {1, 2}
  PROVE  /\ Moments(c, i, n + 1)' = Moments(c, i, n + 1)
         /\ Moments(c, i, n + 2)' =
              Moments(c, i, n + 1) \cup (IF Observed(c, i, n + 1)' /\ CurrentTime # 0 THEN {CurrentTime} ELSE {})
<1>1. n + 1 - 1 = n /\ n + 2 - 1 = n + 1
  OBVIOUS
<1>2. ASSUME NEW k \in 1 .. n
      PROVE  Observed(c, i, k)' = Observed(c, i, k) /\ samples'[k].time = samples[k].time
  BY PassObserved, PassSamples
<1>3. samples'[n + 1].time = CurrentTime
  BY PassSamples
<1>4. 1 .. n + 1 = (1 .. n) \cup {n + 1}
  BY <1>1
<1> DEFINE O  == {j \in 1 .. n : Observed(c, i, j)}
           Op == {j \in 1 .. n : Observed(c, i, j)'}
           T  == {samples[m].time : m \in O}
           Tp == {samples'[m].time : m \in O}
<1>5. Op = O /\ Tp = T
  BY <1>2
<1>6. Moments(c, i, n + 1) = T \ {0}
  BY <1>1 DEF Moments
<1>7. Moments(c, i, n + 1)' = T \ {0}
  <2>1. Moments(c, i, n + 1)' = {samples'[m].time : m \in Op} \ {0}
    BY <1>1 DEF Moments
  <2> QED
    BY <1>5, <2>1
<1>8. Moments(c, i, n + 2)' = {samples'[m].time : m \in {j \in 1 .. n + 1 : Observed(c, i, j)'}} \ {0}
  BY <1>1 DEF Moments
<1>9. {j \in 1 .. n + 1 : Observed(c, i, j)'} = O \cup (IF Observed(c, i, n + 1)' THEN {n + 1} ELSE {})
  BY <1>4, <1>5
<1> HIDE DEF O
<1>10. {samples'[m].time : m \in O \cup (IF Observed(c, i, n + 1)' THEN {n + 1} ELSE {})}
         = T \cup (IF Observed(c, i, n + 1)' THEN {CurrentTime} ELSE {})
  BY <1>3, <1>5
<1> QED
  BY <1>6, <1>7, <1>8, <1>9, <1>10

(* What a check takes for an event is one, and it takes every event: when  *)
(* it does not wait nothing has changed.                                   *)
LEMMA PassEvents ==
  ASSUME Typed, Seen, NEW n \in Nat, Passed(n), NEW c \in Checks, NEW i \in {1, 2}
  PROVE  Observed(c, i, n + 1)' <=> c \in idle_strobe_queue /\ i \in Events(c)
<1> DEFINE b == Pos(c, i)
<1>1. NewBits(c)[i] = value[b]
  BY CheckFacts DEF NewBits, Pos
<1>2. ValueAt(b, n)' = ValueAt(b, n) /\ n \in 0 .. n /\ n + 1 - 1 = n
  BY PassValueAt
<1>3. ValueAt(b, n + 1)' = value[b]
  BY PassValueAt
<1>4. edge_mask(ValueAt(b, n), value[b]) = edge_mask(currentValue[c][i], value[b])
  BY EdgeOfX DEF Seen, Passed
<1>5. c \notin idle_strobe_queue => edge_mask(currentValue[c][i], value[b]) = {}
  BY NoEdge DEF Seen
<1>6. (Condition(c)[i] # NULL => ValueAt(Condition(c)[i], n + 1)' # ZERO) <=> test(Condition(c)[i])
  BY PassValueAt DEF test
<1>7. Observed(c, i, n + 1)' <=> /\ edge_mask(ValueAt(b, n), value[b]) \cap EdgeSpec(c)[i] # {}
                                 /\ test(Condition(c)[i])
  <2>1. Observed(c, i, n + 1)' <=> /\ edge_mask(ValueAt(b, n + 1 - 1)', ValueAt(b, n + 1)') \cap EdgeSpec(c)[i] # {}
                                   /\ Condition(c)[i] # NULL => ValueAt(Condition(c)[i], n + 1)' # ZERO
    BY DEF Observed, Pos
  <2> QED
    BY <1>2, <1>3, <1>6, <2>1
<1> QED
  BY <1>1, <1>4, <1>5, <1>7 DEF Events

LEMMA MomentsInTime ==
  ASSUME Typed, InTime, NEW n \in Nat, n = Len(samples), NEW c \in Checks, NEW i \in {1, 2}
  PROVE  Moments(c, i, n + 1) \subseteq 1 .. CurrentTime
<1>1. ASSUME NEW k \in 1 .. n PROVE samples[k].time \in Nat /\ samples[k].time <= CurrentTime
  <2>1. samples[k] \in Sample
    BY DEF Typed
  <2> QED
    BY <2>1 DEF InTime, Sample
<1>2. CurrentTime \in Nat /\ n + 1 - 1 = n
  BY DEF Typed
<1>3. ASSUME NEW x \in Moments(c, i, n + 1) PROVE x \in 1 .. CurrentTime
  <2>1. PICK m \in 1 .. n : x = samples[m].time /\ x # 0
    BY <1>2 DEF Moments
  <2> QED
    BY <1>1, <1>2, <2>1
<1> QED
  BY <1>3

(* Windows after all moments and after the latest.                         *)
LEMMA LatestDecides ==
  ASSUME NEW now \in Nat, NEW M \in SUBSET Nat, NEW t \in Nat, LatestOf(t, M), NEW p \in Nat
  PROVE  /\ M # {} <=> t # 0
         /\ (\E u \in M : now < u + p) <=> t # 0 /\ t + p > now
         /\ M # {} /\ (\A u \in M : now > u + p) <=> t # 0 /\ ~(t + p >= now)
<1>1. CASE t = 0 /\ M = {}
  BY <1>1
<1>2. CASE t \in M /\ t # 0 /\ \A u \in M : u <= t
  <2>1. ASSUME NEW u \in M PROVE u \in Nat /\ u <= t
    BY <1>2
  <2> QED
    BY <1>2, <2>1
<1> QED
  BY <1>1, <1>2 DEF LatestOf

(* A pass reports what is violated, of the checks that wait and of all     *)
(* others.                                                                 *)
LEMMA PassReports ==
  ASSUME ChecksInv, NEW n \in Nat, n = Len(samples), timingCheck, NEW c \in Checks
  PROVE  (<<c, n + 1>> \in reported') <=> Violated(c, n + 1)'
<1> DEFINE ev == Events(c)
           M(i) == Moments(c, i, n + 1)
           t(i) == changeTime[c][i]
           q == c \in idle_strobe_queue
<1>1. Typed /\ Seen /\ InTime /\ Passed(n)
  BY DEF ChecksInv, timingCheck, Passed
<1>2. (<<c, n + 1>> \in reported') <=> q /\ ~Passes(c, ev)
  <2>1. <<c, n + 1>> \notin reported
    BY <1>1 DEF Typed
  <2> QED
    BY <2>1 DEF timingCheck
<1>3. ASSUME NEW i \in {1, 2}
      PROVE  /\ Observed(c, i, n + 1)' <=> q /\ i \in ev
             /\ Moments(c, i, n + 1)' = M(i)
             /\ t(i) \in Nat /\ LatestOf(t(i), M(i)) /\ M(i) \in SUBSET Nat
  <2>1. M(i) \subseteq 1 .. CurrentTime
    BY <1>1, MomentsInTime
  <2>2. t(i) \in Nat /\ LatestOf(t(i), M(i))
    BY DEF ChecksInv, Latest, Typed
  <2>3. M(i) \in SUBSET Nat
    BY <2>1
  <2>4. Observed(c, i, n + 1)' <=> q /\ i \in ev
    BY <1>1, PassEvents
  <2>5. Moments(c, i, n + 1)' = M(i)
    BY <1>1, PassMoments
  <2> QED
    BY <2>2, <2>3, <2>4, <2>5
<1>4. /\ CurrentTime \in Nat /\ param[c] \in Nat \X Nat
      /\ samples'[n + 1].time = CurrentTime /\ samples'[n + 1].param = param
  <2>1. samples'[n + 1] = [time |-> CurrentTime, value |-> value, param |-> param]
    BY <1>1, PassSamples
  <2>2. CurrentTime \in Nat /\ param[c] \in Nat \X Nat
    BY <1>1 DEF Typed
  <2> QED
    BY <2>1, <2>2
<1>5. ASSUME NEW i \in {1, 2}, NEW p \in Nat
      PROVE  /\ M(i) # {} <=> Happened(t(i))
             /\ Within(c, i, n + 1, p)' <=> Happened(t(i)) /\ Late(t(i), p)
             /\ M(i) # {} /\ (\A u \in M(i) : CurrentTime > u + p) <=> Happened(t(i)) /\ ~(t(i) + p >= CurrentTime)
  <2>1. Within(c, i, n + 1, p)' <=> \E u \in M(i) : CurrentTime < u + p
    BY <1>3, <1>4 DEF Within
  <2> HIDE DEF M, t
  <2> QED
    BY <1>3, <1>4, <2>1, LatestDecides DEF Happened, Late
<1>6. ASSUME NEW p \in Nat
      PROVE  Held(c, n + 1, p)' <=> q /\ ~HoldBy(c, ev, p)
  <2>1. Held(c, n + 1, p)' <=> /\ Observed(c, 2, n + 1)' /\ M(1) # {}
                               /\ (Within(c, 1, n + 1, p)') \/ (Observed(c, 1, n + 1)' /\ p > 0)
    BY <1>3 DEF Held
  <2>2. HoldBy(c, ev, p) <=> (2 \in ev /\ Happened(t(1)) => ~(1 \in ev /\ p # 0) /\ ~Late(t(1), p))
    BY DEF HoldBy
  <2> HIDE DEF M, t, ev, q
  <2> QED
    BY <1>3, <1>5, <2>1, <2>2
<1>7. Kinds(c) \in Kind
  BY CheckFacts
<1>8. PICK p1 \in Nat, p2 \in Nat : param[c][1] = p1 /\ param[c][2] = p2
  BY <1>4
<1>9. Violated(c, n + 1)' <=>
        CASE Kinds(c) \in {"setup", "width", "recovery"} -> Observed(c, 2, n + 1)' /\ Within(c, 1, n + 1, p1)'
          [] Kinds(c) = "period" -> Observed(c, 1, n + 1)' /\ Within(c, 1, n + 1, p1)'
          [] Kinds(c) = "skew"   -> /\ Observed(c, 2, n + 1)' /\ M(1) # {}
                                    /\ \A u \in M(1) : CurrentTime > u + p1
          [] Kinds(c) = "hold"   -> Held(c, n + 1, p1)'
          [] Kinds(c) = "setuphold" -> \/ Observed(c, 1, n + 1)' /\ Within(c, 2, n + 1, p1)'
                                       \/ Held(c, n + 1, p2)'
  BY <1>3, <1>4, <1>8 DEF Violated, Kinds
<1>10. Passes(c, ev) <=>
        CASE Kinds(c) \in {"setup", "width", "recovery"} -> 2 \in ev /\ Happened(t(1)) => ~Late(t(1), p1)
          [] Kinds(c) = "period" -> 1 \in ev /\ Happened(t(1)) => ~Late(t(1), p1)
          [] Kinds(c) = "skew"   -> 2 \in ev /\ Happened(t(1)) => t(1) + p1 >= CurrentTime
          [] Kinds(c) = "hold"   -> HoldBy(c, ev, p1)
          [] Kinds(c) = "setuphold" -> /\ 1 \in ev /\ Happened(t(2)) => ~Late(t(2), p1)
                                       /\ HoldBy(c, ev, p2)
  BY <1>7, <1>8 DEF Passes, Kind, setupCheck, widthCheck, recoveryCheck, periodCheck, skewCheck, holdCheck, setupholdCheck
<1> HIDE DEF M, t, ev, q
<1>11. CASE Kinds(c) \in {"setup", "width", "recovery"}
  BY <1>2, <1>3, <1>5, <1>8, <1>9, <1>10, <1>11
<1>12. CASE Kinds(c) = "period"
  BY <1>2, <1>3, <1>5, <1>8, <1>9, <1>10, <1>12
<1>13. CASE Kinds(c) = "skew"
  BY <1>2, <1>3, <1>5, <1>8, <1>9, <1>10, <1>13
<1>14. CASE Kinds(c) = "hold"
  BY <1>2, <1>6, <1>8, <1>9, <1>10, <1>14
<1>15. CASE Kinds(c) = "setuphold"
  BY <1>2, <1>3, <1>5, <1>6, <1>8, <1>9, <1>10, <1>15
<1> QED
  BY <1>7, <1>11, <1>12, <1>13, <1>14, <1>15 DEF Kind

-----------------------------------------------------------------------------
(* The steps that run no check leave the history alone.                    *)
LEMMA HistoryKept ==
  ASSUME samples' = samples
  PROVE  /\ \A b, k : ValueAt(b, k)' = ValueAt(b, k)
         /\ \A c, i, k : Moments(c, i, k)' = Moments(c, i, k)
         /\ \A c, k : Violated(c, k)' <=> Violated(c, k)
<1>1. ASSUME NEW b, NEW k PROVE ValueAt(b, k)' = ValueAt(b, k)
  BY DEF ValueAt
<1>2. ASSUME NEW c, NEW i, NEW k PROVE Observed(c, i, k)' <=> Observed(c, i, k)
  BY <1>1 DEF Observed
<1>3. ASSUME NEW c, NEW i, NEW k PROVE Moments(c, i, k)' = Moments(c, i, k)
  BY <1>2 DEF Moments
<1>4. ASSUME NEW c, NEW k PROVE Violated(c, k)' <=> Violated(c, k)
  BY <1>2, <1>3 DEF Violated, Within, Held
<1> QED
  BY <1>1, <1>3, <1>4

LEMMA StoreKeeps ==
  ASSUME ChecksInv, NEW d \in DECL, NEW v \in Stored[d], Store(d, v)
  PROVE  ChecksInv'
<1>1. Typed'
  <2>1. v \in [1 .. Width[d] -> Values] /\ Width[d] \in Nat
    BY TimingAssumption DEF Values
  <2>2. ASSUME NEW b \in Bit, b[1] = d PROVE b[2] + 1 \in 1 .. Width[d]
    BY <2>1, <2>2 DEF Bit
  <2>3. value' \in [Bit -> Values]
    BY <2>1, <2>2 DEF Store, ChecksInv, Typed
  <2>4. Watching(d) \subseteq Checks
    BY DEF Watching
  <2> QED
    BY <2>3, <2>4 DEF Store, ChecksInv, Typed, checks, history
<1>2. Seen'
  <2> SUFFICES ASSUME NEW c \in Checks, NEW i \in {1, 2}
               PROVE  /\ Xed(currentValue'[c][i]) = Xed(ValueAt(Pos(c, i), Len(samples))')
                      /\ c \notin idle_strobe_queue' => Xed(currentValue'[c][i]) = Xed(value'[Pos(c, i)])
    BY DEF Seen, Xed, Pos
  <2>1. ValueAt(Pos(c, i), Len(samples))' = ValueAt(Pos(c, i), Len(samples))
    BY HistoryKept DEF Store, history
  <2>2. ASSUME c \notin idle_strobe_queue' PROVE c \notin idle_strobe_queue /\ value'[Pos(c, i)] = value[Pos(c, i)]
    <3>1. c \notin Watching(d) /\ c \notin idle_strobe_queue
      BY <2>2 DEF Store
    <3>2. Pos(c, i) \in Bit /\ c.bit[1] # NULL
      BY CheckFacts, BitsAssumption
    <3>3. Pos(c, i)[1] # d
      BY <3>1, <3>2 DEF Watching, Pos
    <3> QED
      BY <3>1, <3>2, <3>3 DEF Store
  <2> QED
    BY <2>1, <2>2 DEF Store, ChecksInv, Seen, checks
<1>3. InTime' /\ Registers'
  BY DEF Store, ChecksInv, InTime, Registers, checks, history
<1>4. Latest'
  <2>1. \A c, i, k : Moments(c, i, k)' = Moments(c, i, k)
    BY HistoryKept DEF Store, history
  <2> QED
    BY <2>1 DEF Store, ChecksInv, Latest, LatestOf, checks, history
<1> QED
  BY <1>1, <1>2, <1>3, <1>4 DEF ChecksInv

LEMMA UpdateKeeps ==
  ASSUME ChecksInv, UpdateTimings
  PROVE  ChecksInv'
<1>1. Typed'
  <2>1. PICK l \in NewLimits : param' = calculate_params(l)
    BY DEF UpdateTimings
  <2>2. l \in [STATEMENT -> Int \X Int]
    BY TimingAssumption
  <2>3. ASSUME NEW x \in Int \X Int PROVE Clamped(x) \in Nat \X Nat
    BY DEF Clamped
  <2>4. \A c \in Checks : Clamped(l[c.stmt]) \in Nat \X Nat
    BY <2>2, <2>3, CheckFacts
  <2>5. param' \in [Checks -> Nat \X Nat]
    BY <2>1, <2>4 DEF calculate_params
  <2> QED
    BY <2>5 DEF UpdateTimings, ChecksInv, Typed, checks, history
<1>2. samples' = samples
  BY DEF UpdateTimings, history
<1>3. Seen' /\ Latest'
  BY <1>2, HistoryKept DEF UpdateTimings, ChecksInv, Seen, Xed, Pos, Latest, LatestOf, checks
<1>4. InTime' /\ Registers'
  BY DEF UpdateTimings, ChecksInv, InTime, Registers, checks, history
<1> QED
  BY <1>1, <1>3, <1>4 DEF ChecksInv

LEMMA TickKeeps ==
  ASSUME ChecksInv, Tick
  PROVE  ChecksInv'
<1>1. Typed'
  BY DEF Tick, ChecksInv, Typed, checks
<1>2. samples' = samples
  BY DEF Tick
<1>3. Seen' /\ Latest'
  BY <1>2, HistoryKept DEF Tick, ChecksInv, Seen, Xed, Pos, Latest, LatestOf, checks
<1>4. InTime'
  <2>1. CurrentTime \in Nat /\ MaxTime \in Nat /\ CurrentTime + 1 <= MaxTime
    BY TimingAssumption DEF Tick, ChecksInv, Typed
  <2>2. ASSUME NEW c \in Checks, NEW i \in {1, 2} PROVE changeTime'[c][i] <= CurrentTime'
    <3>1. changeTime[c][i] \in Nat /\ changeTime[c][i] <= CurrentTime
      BY DEF ChecksInv, Typed, InTime
    <3> QED
      BY <2>1, <3>1 DEF Tick, checks
  <2>3. ASSUME NEW k \in 1 .. Len(samples) PROVE samples[k].time <= CurrentTime'
    <3>1. samples[k] \in Sample /\ samples[k].time <= CurrentTime
      BY DEF ChecksInv, Typed, InTime
    <3> QED
      BY <2>1, <3>1 DEF Tick, Sample
  <2> QED
    BY <1>2, <2>1, <2>2, <2>3 DEF InTime, Tick
<1>5. Registers'
  BY DEF Tick, ChecksInv, Registers, Typed, checks
<1> QED
  BY <1>1, <1>3, <1>4, <1>5 DEF ChecksInv

LEMMA ToggledIsKnown ==
  ASSUME NEW v \in {ZERO, ONE, X}, NEW n
  PROVE  /\ Toggled(v) \in {ZERO, ONE, X} /\ Toggled(v) # v
         /\ ToggledOften(v, n) \in {ZERO, ONE, X}
<1>1. ASSUME NEW u \in {ZERO, ONE, X} PROVE Toggled(u) \in {ZERO, ONE, X} /\ Toggled(u) # u
  BY <1>1 DEF Toggled, ZERO, ONE, Z, X
<1> QED
  BY <1>1 DEF ToggledOften

LEMMA PassKeeps ==
  ASSUME ChecksInv, timingCheck
  PROVE  ChecksInv'
<1>1. PICK n \in Nat : n = Len(samples) /\ Passed(n)
  BY PassLength DEF ChecksInv
<1> DEFINE Q == idle_strobe_queue
<1>2. /\ changeTime' = [c \in Checks |-> IF c \in Q THEN Stamped(c, Events(c)) ELSE changeTime[c]]
      /\ currentValue' = [c \in Checks |-> IF c \in Q THEN NewBits(c) ELSE currentValue[c]]
      /\ CurrentTime' = CurrentTime /\ value' = value /\ idle_strobe_queue' = {} /\ param' = param
      /\ Q \subseteq Checks /\ before' = before
  BY DEF timingCheck, ChecksInv, Typed
<1>3. Len(samples') = n + 1
  BY <1>1, PassSamples DEF ChecksInv
<1>4. ASSUME NEW c \in Checks
      PROVE  /\ NewBits(c) = <<value[Pos(c, 1)], value[Pos(c, 2)]>> /\ NewBits(c) \in Values \X Values
             /\ changeTime[c] \in Nat \X Nat /\ CurrentTime \in Nat
             /\ Events(c) \subseteq {1, 2}
             /\ \A i \in {1, 2} : Stamped(c, Events(c))[i] = IF i \in Events(c) THEN CurrentTime ELSE changeTime[c][i]
             /\ Stamped(c, Events(c)) \in Nat \X Nat
  <2>1. NewBits(c) = <<value[Pos(c, 1)], value[Pos(c, 2)]>>
    BY CheckFacts DEF NewBits, Pos
  <2>2. NewBits(c) \in Values \X Values
    BY <2>1, CheckFacts DEF ChecksInv, Typed
  <2>3. changeTime[c] \in Nat \X Nat /\ CurrentTime \in Nat
    BY DEF ChecksInv, Typed
  <2>4. \A i \in {1, 2} : Stamped(c, Events(c))[i] = IF i \in Events(c) THEN CurrentTime ELSE changeTime[c][i]
    BY DEF Stamped
  <2>5. Stamped(c, Events(c)) \in Nat \X Nat
    <3>1. DOMAIN Stamped(c, Events(c)) = {1, 2} /\ Stamped(c, Events(c)) = [i \in {1, 2} |-> Stamped(c, Events(c))[i]]
      BY DEF Stamped
    <3>2. [i \in {1, 2} |-> Stamped(c, Events(c))[i]] = <<Stamped(c, Events(c))[1], Stamped(c, Events(c))[2]>>
      BY <3>1
    <3> QED
      BY <2>3, <2>4, <3>1, <3>2
  <2> QED
    BY <2>1, <2>2, <2>3, <2>4, <2>5 DEF Events
<1>5. Typed'
  <2>1. changeTime' \in [Checks -> Nat \X Nat] /\ currentValue' \in [Checks -> Values \X Values]
    BY <1>2, <1>4 DEF ChecksInv, Typed
  <2>2. samples' \in Seq(Sample) /\ reported' \subseteq Checks \X (1 .. n + 1)
    <3>1. samples' \in Seq(Sample)
      BY <1>1, PassSamples DEF ChecksInv
    <3>2. \A f \in reported' : f \in reported \/ \E c \in Q : f = <<c, n + 1>>
      BY <1>1 DEF timingCheck
    <3>3. reported \subseteq Checks \X (1 .. n)
      BY <1>1 DEF ChecksInv, Typed
    <3> QED
      BY <1>2, <3>1, <3>2, <3>3
  <2> QED
    BY <1>2, <1>3, <2>1, <2>2 DEF ChecksInv, Typed
<1>6. InTime'
  <2>1. ASSUME NEW c \in Checks, NEW i \in {1, 2} PROVE changeTime'[c][i] <= CurrentTime
    <3>1. changeTime[c][i] \in Nat /\ changeTime[c][i] <= CurrentTime
      BY DEF ChecksInv, Typed, InTime
    <3> QED
      BY <1>2, <1>4, <3>1
  <2>2. ASSUME NEW k \in 1 .. n + 1 PROVE samples'[k].time <= CurrentTime
    <3>1. CASE k = n + 1
      BY <1>1, <3>1, PassSamples DEF ChecksInv, Typed
    <3>2. CASE k \in 1 .. n
      BY <1>1, <3>2, PassSamples DEF ChecksInv, InTime
    <3> QED
      BY <3>1, <3>2
  <2> QED
    BY <1>2, <1>3, <2>1, <2>2 DEF ChecksInv, InTime
<1>7. Seen'
  <2> SUFFICES ASSUME NEW c \in Checks, NEW i \in {1, 2}
               PROVE  /\ Xed(currentValue'[c][i]) = Xed(ValueAt(Pos(c, i), n + 1)')
                      /\ Xed(currentValue'[c][i]) = Xed(value[Pos(c, i)])
    BY <1>2, <1>3 DEF Seen, Xed, Pos, ValueAt
  <2>1. ValueAt(Pos(c, i), n + 1)' = value[Pos(c, i)]
    BY <1>1, PassValueAt DEF ChecksInv
  <2>2. CASE c \in Q
    BY <1>2, <1>4, <2>1, <2>2
  <2>3. CASE c \notin Q
    BY <1>2, <2>1, <2>3 DEF ChecksInv, Seen
  <2> QED
    BY <2>2, <2>3
<1>8. Latest'
  <2> SUFFICES ASSUME NEW c \in Checks, NEW i \in {1, 2}
               PROVE  LatestOf(changeTime'[c][i], Moments(c, i, n + 2)')
    BY <1>3, SMTT(30) DEF Latest, LatestOf, Moments
  <2> DEFINE M == Moments(c, i, n + 1)
  <2>1. Moments(c, i, n + 2)' = M \cup (IF c \in Q /\ i \in Events(c) /\ CurrentTime # 0 THEN {CurrentTime} ELSE {})
    BY <1>1, PassMoments, PassEvents DEF ChecksInv
  <2>2. LatestOf(changeTime[c][i], M) /\ M \subseteq 1 .. CurrentTime
    BY <1>1, MomentsInTime DEF ChecksInv, Latest
  <2>3. changeTime'[c][i] = IF c \in Q /\ i \in Events(c) THEN CurrentTime ELSE changeTime[c][i]
    BY <1>2, <1>4
  <2>4. CurrentTime \in Nat
    BY DEF ChecksInv, Typed
  <2> HIDE DEF M, Q
  <2>5. \A u \in M : u \in Nat /\ u <= CurrentTime /\ u # 0
    BY <2>2, <2>4
  <2>6. CASE ~(c \in Q /\ i \in Events(c))
    BY <2>1, <2>2, <2>3, <2>6
  <2>7. CASE c \in Q /\ i \in Events(c) /\ CurrentTime # 0
    <3>1. Moments(c, i, n + 2)' = M \cup {CurrentTime} /\ changeTime'[c][i] = CurrentTime
      BY <2>1, <2>3, <2>7
    <3> QED
      BY <2>4, <2>5, <2>7, <3>1 DEF LatestOf
  <2>8. CASE c \in Q /\ i \in Events(c) /\ CurrentTime = 0
    <3>1. M = {}
      BY <2>5, <2>8
    <3>2. Moments(c, i, n + 2)' = {} /\ changeTime'[c][i] = 0
      BY <2>1, <2>3, <2>8, <3>1
    <3> QED
      BY <3>2 DEF LatestOf
  <2> QED
    BY <2>6, <2>7, <2>8
<1>9. Registers'
  <2>1. ASSUME NEW r \in REG, NEW k PROVE ToggledOften(notifier[r], k) \in {ZERO, ONE, X}
    BY ToggledIsKnown DEF ChecksInv, Registers
  <2>2. notifier' \in [REG -> {ZERO, ONE, X}]
    BY <2>1 DEF timingCheck, toggle_notifier
  <2>3. stamp' \in [STATEMENT -> 0 .. CurrentTime]
    BY DEF timingCheck, toggle_notifier, ChecksInv, Registers, Typed
  <2> QED
    BY <1>2, <2>2, <2>3 DEF ChecksInv, Registers
<1> QED
  BY <1>5, <1>6, <1>7, <1>8, <1>9 DEF ChecksInv

LEMMA ChecksInvInit == Init => ChecksInv
<1> SUFFICES ASSUME Init PROVE ChecksInv
  OBVIOUS
<1>1. Len(samples) = 0 /\ samples \in Seq(Sample) /\ samples = <<>>
  BY DEF Init
<1>2. Typed
  <2>1. ASSUME NEW x \in Int \X Int PROVE Clamped(x) \in Nat \X Nat
    BY DEF Clamped
  <2>2. \A c \in Checks : Clamped(Limits[c.stmt]) \in Nat \X Nat
    BY <2>1, CheckFacts, TimingAssumption
  <2>3. param \in [Checks -> Nat \X Nat]
    BY <2>2 DEF Init, calculate_params
  <2>4. value \in [Bit -> Values] /\ currentValue \in [Checks -> Values \X Values]
    BY DEF Init, Values
  <2> QED
    BY <1>1, <2>3, <2>4 DEF Init, Typed
<1>3. InTime /\ Registers
  BY <1>1, TimingAssumption DEF Init, InTime, Registers
<1>4. Seen
  <2>1. \A b : ValueAt(b, 0) = Z
    BY DEF ValueAt
  <2> QED
    BY <1>1, <2>1, CheckFacts DEF Init, Seen, Xed
<1>5. Latest
  <2>1. \A c, i : Moments(c, i, 1) = {}
    BY DEF Moments
  <2> QED
    BY <1>1, <2>1 DEF Init, Latest, LatestOf
<1> QED
  BY <1>2, <1>3, <1>4, <1>5 DEF ChecksInv

LEMMA ChecksInvKept == ChecksInv /\ [Next]_vars => ChecksInv'
<1> SUFFICES ASSUME ChecksInv, [Next]_vars PROVE ChecksInv'
  OBVIOUS
<1>1. CASE \E d \in DECL : \E v \in Stored[d] : Store(d, v)
  BY <1>1, StoreKeeps
<1>2. CASE UpdateTimings
  BY <1>2, UpdateKeeps
<1>3. CASE timingCheck
  BY <1>3, PassKeeps
<1>4. CASE Tick
  BY <1>4, TickKeeps
<1>5. CASE UNCHANGED vars
  <2>1. samples' = samples
    BY <1>5 DEF vars, history
  <2>2. Typed' /\ InTime' /\ Registers'
    BY <1>5 DEF vars, checks, history, ChecksInv, Typed, InTime, Registers
  <2>3. Seen' /\ Latest'
    BY <1>5, <2>1, HistoryKept DEF vars, checks, history, ChecksInv, Seen, Xed, Pos, Latest, LatestOf
  <2> QED
    BY <2>2, <2>3 DEF ChecksInv
<1> QED
  BY <1>1, <1>2, <1>3, <1>4, <1>5 DEF Next

LEMMA ChecksInvHolds == Spec => []ChecksInv
BY ChecksInvInit, ChecksInvKept, PTL DEF Spec

(* What a check keeps is sound, at every moment: it is typed, and a check  *)
(* that does not wait for the idle pass has seen the present values.       *)
THEOREM ChecksStaySound == Spec => []ChecksSound
<1>1. ChecksInv => ChecksSound
  <2> SUFFICES ASSUME ChecksInv PROVE ChecksSound
    OBVIOUS
  <2>1. TypeOK
    <3>1. CurrentTime \in 0 .. MaxTime /\ MaxTime \in Nat
      BY TimingAssumption DEF ChecksInv, Typed, InTime
    <3>2. changeTime \in [Checks -> (0 .. CurrentTime) \X (0 .. CurrentTime)]
      <4>1. ASSUME NEW c \in Checks PROVE changeTime[c] \in (0 .. CurrentTime) \X (0 .. CurrentTime)
        <5>1. changeTime[c] \in Nat \X Nat /\ changeTime[c][1] <= CurrentTime /\ changeTime[c][2] <= CurrentTime
          BY DEF ChecksInv, Typed, InTime
        <5> QED
          BY <3>1, <5>1
      <4> QED
        BY <4>1 DEF ChecksInv, Typed
    <3>3. notifier \in [REG -> Values]
      BY DEF ChecksInv, Registers, Values
    <3> QED
      BY <3>1, <3>2, <3>3 DEF TypeOK, ChecksInv, Typed, Registers
  <2>2. SeenIsCurrent
    <3> SUFFICES ASSUME NEW c \in Checks \ idle_strobe_queue, NEW i \in {1, 2}
                 PROVE  edge_mask(currentValue[c][i], NewBits(c)[i]) = {}
      BY DEF SeenIsCurrent
    <3>1. NewBits(c)[i] = value[Pos(c, i)]
      BY CheckFacts DEF NewBits, Pos
    <3> QED
      BY <3>1, NoEdge DEF ChecksInv, Seen
  <2> QED
    BY <2>1, <2>2 DEF ChecksSound
<1> QED
  BY <1>1, ChecksInvHolds, PTL

(* timingCheck reports a failure in a pass exactly when the values, times  *)
(* and limits of all idle passes so far say that the limit is violated:    *)
(* for all statements, limits (changing ones too) and sequences of stores. *)
THEOREM ReportsAreRight == Spec => []ReportsViolations
<1>1. Init => ReportsViolations
  BY DEF Init, ReportsViolations
<1>2. ChecksInv /\ ReportsViolations /\ [Next]_vars => ReportsViolations'
  <2> SUFFICES ASSUME ChecksInv, ReportsViolations, [Next]_vars PROVE ReportsViolations'
    OBVIOUS
  <2>1. CASE samples' = samples /\ reported' = reported
    <3>1. \A c, k : Violated(c, k)' <=> Violated(c, k)
      BY <2>1, HistoryKept
    <3>2. PICK n : n = Len(samples)
      OBVIOUS
    <3>3. \A c \in Checks : Violated(c, Len(samples))' <=> Violated(c, n)'
      BY <2>1, <3>2 DEF Violated, Held, Within, Observed, Moments
    <3>4. samples # <<>> => \A c \in Checks : <<c, n>> \in reported <=> Violated(c, n)
      BY <3>2 DEF ReportsViolations
    <3> QED
      BY <2>1, <3>1, <3>2, <3>3, <3>4 DEF ReportsViolations
  <2>2. CASE timingCheck
    <3>1. PICK n \in Nat : n = Len(samples) /\ Passed(n)
      BY <2>2, PassLength DEF ChecksInv
    <3>2. Len(samples') = n + 1
      BY <3>1, PassSamples DEF ChecksInv
    <3>3. \A c \in Checks : (<<c, n + 1>> \in reported') <=> Violated(c, n + 1)'
      BY <2>2, <3>1, PassReports
    <3>4. \A c \in Checks : Violated(c, Len(samples))' <=> Violated(c, n + 1)'
      BY <3>2 DEF Violated, Held, Within, Observed, Moments
    <3> QED
      BY <3>2, <3>3, <3>4 DEF ReportsViolations
  <2> QED
    BY <2>1, <2>2 DEF Next, Store, UpdateTimings, Tick, vars, history
<1> QED
  BY <1>1, <1>2, ChecksInvHolds, PTL DEF Spec

-----------------------------------------------------------------------------
(* Notifiers: a statement is stamped with the present time exactly when a  *)
(* check of it has failed at this time, and its register has then been     *)
(* toggled once for it.                                                    *)
FailedOn(r) == {s \in Notifying(r) : FailedNow(s)}
Stamps ==
  \A s \in STATEMENT : Stmt[s].notifier # NULL =>
    (FailedNow(s) <=> stamp[s] = CurrentTime /\ CurrentTime # 0)
Noticed == \A r \in REG : notifier[r] = ToggledOften(before[r], Cardinality(FailedOn(r)))
NoticeInv == Stamps /\ Noticed

(* Toggling m and then n times is toggling m + n times.                    *)
LEMMA TogglesAdd ==
  ASSUME NEW v \in {ZERO, ONE, X}, NEW m \in Nat, NEW n \in Nat
  PROVE  ToggledOften(ToggledOften(v, m), n) = ToggledOften(v, m + n)
<1>1. Toggled(Toggled(Toggled(v))) = Toggled(v)
  BY DEF Toggled, ZERO, ONE, X, Z
<1>2. Toggled(Toggled(Toggled(Toggled(v)))) = Toggled(Toggled(v))
  BY <1>1
<1>3. CASE m = 0 \/ n = 0
  BY <1>3 DEF ToggledOften
<1>4. CASE m # 0 /\ n # 0
  <2>1. /\ m % 2 = 1 => (n % 2 = 1 <=> (m + n) % 2 # 1)
        /\ m % 2 # 1 => (n % 2 = 1 <=> (m + n) % 2 = 1)
        /\ m + n # 0
    BY <1>4
  <2>2. /\ ToggledOften(v, m) = IF m % 2 = 1 THEN Toggled(v) ELSE Toggled(Toggled(v))
        /\ ToggledOften(v, m + n) = IF (m + n) % 2 = 1 THEN Toggled(v) ELSE Toggled(Toggled(v))
        /\ \A u : ToggledOften(u, n) = IF n % 2 = 1 THEN Toggled(u) ELSE Toggled(Toggled(u))
    BY <1>4, <2>1 DEF ToggledOften
  <2> QED
    BY <1>1, <1>2, <2>1, <2>2
<1> QED
  BY <1>3, <1>4

(* A check that fails fails after time 0: no event has a moment before.    *)
LEMMA NoFailureAtZero ==
  ASSUME ChecksInv, NEW c \in Checks, CurrentTime = 0
  PROVE  Passes(c, Events(c))
<1>1. changeTime[c][1] = 0 /\ changeTime[c][2] = 0
  <2>1. ASSUME NEW i \in {1, 2} PROVE changeTime[c][i] \in Nat /\ changeTime[c][i] <= 0
    BY DEF ChecksInv, Typed, InTime
  <2> QED
    BY <2>1
<1>2. Kinds(c) \in Kind
  BY CheckFacts
<1> QED
  BY <1>1, <1>2 DEF Passes, Kind, Happened, HoldBy, setupCheck, widthCheck, recoveryCheck, periodCheck, skewCheck, holdCheck, setupholdCheck

Failed == {c \in idle_strobe_queue : ~Passes(c, Events(c))}

LEMMA PassFailures ==
  ASSUME ChecksInv, timingCheck, NEW s \in STATEMENT
  PROVE  FailedNow(s)' <=> FailedNow(s) \/ \E c \in Failed : c.stmt = s
<1>1. PICK n \in Nat : n = Len(samples) /\ Passed(n)
  BY PassLength DEF ChecksInv
<1>2. /\ reported' = reported \cup {<<c, n + 1>> : c \in Failed} /\ CurrentTime' = CurrentTime
      /\ reported \subseteq Checks \X (1 .. n)
  BY <1>1 DEF timingCheck, Failed, ChecksInv, Typed
<1>3. /\ \A k \in 1 .. n : samples'[k] = samples[k]
      /\ samples'[n + 1].time = CurrentTime
  BY <1>1, PassSamples DEF ChecksInv
<1>4. FailedNow(s)' <=> \E f \in reported' : f[1].stmt = s /\ samples'[f[2]].time = CurrentTime
  BY <1>2 DEF FailedNow
<1>5. ASSUME NEW f \in reported PROVE samples'[f[2]] = samples[f[2]]
  BY <1>2, <1>3
<1>6. (\E f \in {<<c, n + 1>> : c \in Failed} : f[1].stmt = s /\ samples'[f[2]].time = CurrentTime)
        <=> \E c \in Failed : c.stmt = s
  <2>1. ASSUME NEW c \in Failed PROVE <<c, n + 1>>[1] = c /\ samples'[<<c, n + 1>>[2]].time = CurrentTime
    BY <1>3
  <2> QED
    BY <2>1
<1> QED
  BY <1>2, <1>4, <1>5, <1>6 DEF FailedNow

LEMMA PassNotices ==
  ASSUME ChecksInv, NoticeInv, timingCheck
  PROVE  NoticeInv'
<1> DEFINE S == Toggling(Failed)
<1>1. /\ stamp' = [s \in STATEMENT |-> IF s \in S THEN CurrentTime ELSE stamp[s]]
      /\ notifier' = [r \in REG |-> ToggledOften(notifier[r], Cardinality(OnRegister(r, S)))]
      /\ CurrentTime' = CurrentTime /\ before' = before
  BY DEF timingCheck, toggle_notifier, Failed
<1>2. Failed \subseteq Checks /\ \A c \in Failed : c.stmt \in STATEMENT
  BY CheckFacts DEF Failed, ChecksInv, Typed
<1>3. Failed # {} => CurrentTime # 0
  BY <1>2, NoFailureAtZero DEF Failed
<1>4. ASSUME NEW s \in STATEMENT, Stmt[s].notifier # NULL
      PROVE  /\ s \in S => ~FailedNow(s) /\ FailedNow(s)' /\ CurrentTime # 0
             /\ s \notin S => (FailedNow(s)' <=> FailedNow(s))
  <2>1. FailedNow(s)' <=> FailedNow(s) \/ \E c \in Failed : c.stmt = s
    BY PassFailures
  <2>2. s \in S <=> (\E c \in Failed : c.stmt = s) /\ stamp[s] # CurrentTime
    BY <1>2, <1>4 DEF Toggling
  <2>3. FailedNow(s) <=> stamp[s] = CurrentTime /\ CurrentTime # 0
    BY <1>4 DEF NoticeInv, Stamps
  <2> HIDE DEF S
  <2> QED
    BY <1>3, <2>1, <2>2, <2>3
<1>5. Stamps'
  <2> SUFFICES ASSUME NEW s \in STATEMENT, Stmt[s].notifier # NULL
               PROVE  FailedNow(s)' <=> stamp'[s] = CurrentTime /\ CurrentTime # 0
    BY <1>1 DEF Stamps, FailedNow
  <2>1. FailedNow(s) <=> stamp[s] = CurrentTime /\ CurrentTime # 0
    BY DEF NoticeInv, Stamps
  <2>2. stamp'[s] = IF s \in S THEN CurrentTime ELSE stamp[s]
    BY <1>1
  <2> HIDE DEF S
  <2> QED
    BY <1>4, <2>1, <2>2
<1>6. ASSUME NEW r \in REG
      PROVE  notifier'[r] = ToggledOften(before[r], Cardinality(FailedOn(r)'))
  <2> DEFINE F == FailedOn(r)  D == OnRegister(r, S)
  <2>1. \A s \in S : s \in STATEMENT /\ Stmt[s].notifier # NULL
    BY <1>2 DEF Toggling
  <2>2. \A s \in Notifying(r) : s \in STATEMENT /\ Stmt[s].notifier # NULL
    BY BitsAssumption DEF Notifying
  <2>3. FailedOn(r)' = F \cup D /\ F \cap D = {}
    <3>1. FailedOn(r)' = {s \in Notifying(r) : FailedNow(s)'}
      BY DEF FailedOn, Notifying
    <3>2. \A s : s \in D <=> s \in S /\ s \in Notifying(r)
      BY <2>1 DEF OnRegister, Notifying
    <3> HIDE DEF S, D
    <3> QED
      BY <1>4, <2>2, <3>1, <3>2 DEF FailedOn
  <2>4. IsFiniteSet(F) /\ IsFiniteSet(D)
    <3>1. F \subseteq STATEMENT /\ D \subseteq STATEMENT
      BY <2>1, <2>2 DEF FailedOn, OnRegister
    <3> QED
      BY <3>1, FS_Subset, TimingAssumption
  <2>5. /\ Cardinality(F \cup D) = Cardinality(F) + Cardinality(D)
        /\ Cardinality(F) \in Nat /\ Cardinality(D) \in Nat
    <3>1. /\ Cardinality(F \cup D) = Cardinality(F) + Cardinality(D) - Cardinality(F \cap D)
          /\ Cardinality(F) \in Nat /\ Cardinality(D) \in Nat
      BY <2>4, FS_Union, FS_CardinalityType
    <3>2. Cardinality(F \cap D) = 0
      BY <2>3, FS_EmptySet
    <3> HIDE DEF F, D
    <3> QED
      BY <3>1, <3>2
  <2>6. notifier'[r] = ToggledOften(notifier[r], Cardinality(D))
    BY <1>1
  <2>7. notifier[r] = ToggledOften(before[r], Cardinality(F)) /\ before[r] \in {ZERO, ONE, X}
    BY DEF NoticeInv, Noticed, ChecksInv, Registers
  <2> HIDE DEF F, D
  <2> QED
    BY <2>3, <2>5, <2>6, <2>7, TogglesAdd
<1>7. Noticed'
  BY <1>1, <1>6 DEF Noticed
<1> QED
  BY <1>5, <1>7 DEF NoticeInv

LEMMA NothingToggled == \A v : ToggledOften(v, Cardinality({})) = v
BY FS_EmptySet DEF ToggledOften

LEMMA NoticeInvKept ==
  ASSUME ChecksInv, NoticeInv, [Next]_vars
  PROVE  NoticeInv'
<1>1. CASE timingCheck
  BY <1>1, PassNotices
<1>2. CASE Tick
  <2>1. CurrentTime' # 0 /\ samples' = samples /\ reported' = reported
    BY <1>2 DEF Tick, ChecksInv, Typed
  <2>2. ASSUME NEW s \in STATEMENT PROVE ~FailedNow(s)'
    <3>1. ASSUME NEW f \in reported PROVE samples[f[2]].time # CurrentTime'
      <4>1. f[2] \in 1 .. Len(samples)
        BY DEF ChecksInv, Typed
      <4>2. samples[f[2]] \in Sample /\ samples[f[2]].time <= CurrentTime
        BY <4>1 DEF ChecksInv, Typed, InTime
      <4> QED
        <5>1. CurrentTime \in Nat /\ CurrentTime' = CurrentTime + 1
          BY <1>2 DEF Tick, ChecksInv, Typed
        <5>2. samples[f[2]].time \in Nat
          BY <4>2 DEF Sample
        <5> QED
          BY <4>2, <5>1, <5>2
    <3> QED
      BY <2>1, <3>1 DEF FailedNow
  <2>3. \A s \in STATEMENT : stamp'[s] # CurrentTime'
    BY <1>2 DEF Tick, checks, ChecksInv, Registers, Typed
  <2>4. notifier' = notifier /\ before' = notifier
    BY <1>2 DEF Tick, checks
  <2>5. Stamps'
    BY <2>2, <2>3 DEF Stamps
  <2>6. Noticed'
    <3>1. \A r \in REG : FailedOn(r)' = {}
      BY <2>2 DEF FailedOn, Notifying
    <3> QED
      BY <2>4, <3>1, NothingToggled DEF Noticed
  <2> QED
    BY <2>5, <2>6 DEF NoticeInv
<1>3. CASE UNCHANGED <<CurrentTime, checks, history>>
  BY <1>3 DEF checks, history, NoticeInv, Stamps, Noticed, FailedOn, FailedNow, Notifying
<1> QED
  BY <1>1, <1>2, <1>3 DEF Next, Store, UpdateTimings, vars

LEMMA NoticeInvHolds == Spec => []NoticeInv
<1>1. Init => NoticeInv
  <2> SUFFICES ASSUME Init PROVE NoticeInv
    OBVIOUS
  <2>1. \A s \in STATEMENT : ~FailedNow(s)
    BY DEF Init, FailedNow
  <2>2. \A r \in REG : FailedOn(r) = {}
    BY <2>1 DEF FailedOn, Notifying
  <2>3. notifier = before /\ CurrentTime = 0
    BY DEF Init
  <2> QED
    BY <2>1, <2>2, <2>3, NothingToggled DEF NoticeInv, Stamps, Noticed
<1>2. ChecksInv /\ NoticeInv /\ [Next]_vars => NoticeInv'
  BY NoticeInvKept
<1> QED
  BY <1>1, <1>2, ChecksInvHolds, PTL DEF Spec

(* A register that one statement notifies tells of a failure at this time  *)
(* by a change from what it was when the time began, and of nothing else:  *)
(* for all statements, stores and limits.                                  *)
THEOREM NoticesStay == Spec => []NoticeStays
<1>1. ChecksInv /\ NoticeInv => NoticeStays
  <2> SUFFICES ASSUME ChecksInv, NoticeInv, NEW r \in REG, NEW s \in Notifying(r), Notifying(r) = {s}
               PROVE  notifier[r] # before[r] <=> FailedNow(s)
    BY DEF NoticeStays
  <2>1. s \in STATEMENT /\ before[r] \in {ZERO, ONE, X}
    BY DEF Notifying, ChecksInv, Registers
  <2>2. Toggled(before[r]) # before[r]
    BY <2>1, ToggledIsKnown
  <2>3. FailedOn(r) = IF FailedNow(s) THEN {s} ELSE {}
    BY DEF FailedOn
  <2>4. ToggledOften(before[r], Cardinality({s})) = Toggled(before[r])
    <3>1. Cardinality({s}) = 1
      BY FS_Singleton
    <3> QED
      BY <3>1 DEF ToggledOften
  <2> QED
    BY <2>2, <2>3, <2>4, NothingToggled DEF NoticeInv, Noticed
<1> QED
  BY <1>1, ChecksInvHolds, NoticeInvHolds, PTL

(* Whatever statements share a register and in whatever passes of one time *)
(* their checks fail, each has toggled it once: for all statements, stores *)
(* and limits.                                                             *)
THEOREM ToggledOnce == Spec => []TogglesCounted
<1>1. NoticeInv => TogglesCounted
  BY DEF NoticeInv, Noticed, FailedOn, TogglesCounted
<1> QED
  BY <1>1, NoticeInvHolds, PTL

=============================================================================
