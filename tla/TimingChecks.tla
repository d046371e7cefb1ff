---------------------------- MODULE TimingChecks ----------------------------
(***************************************************************************)
(* The timing checks of specify.cc: $setup, $hold, $width, $period, $skew, *)
(* $recovery and $setuphold.  A store queues the checks that watch the     *)
(* variable; when nothing else is left to do at this time the idle pass    *)
(* runs them (timingCheck), which compares the values it sees with those   *)
(* it saw last, the moment with the moments of earlier events, and toggles *)
(* the notifier of a check that fails.                                     *)
(***************************************************************************)
EXTENDS Integers, SequencesExt

CONSTANTS
  DECL, Width,      \* the nets that checks watch, and their widths
  STATEMENT, Stmt,  \* the check statements: [kind, event1, event2, notifier]
  REG,              \* the notifier registers
  Limits,           \* the pairs of limits of the statements at elaboration
  NewLimits,        \* what the limit expressions can become
  Stored,           \* bound: the values that are stored in a net, as sequences of bits
  MaxTime,          \* bound
  MaxPasses,        \* bound: idle passes
  NULL

ZERO == 0  ONE == 1  Z == 2  X == 3
Kind == {"setup", "hold", "width", "period", "skew", "recovery", "setuphold"}
Values == {ZERO, ONE, Z, X}

(* Edges, from and to: a change to or from z is one to or from x.          *)
AllEdges == {e \in {ZERO, ONE, X} \X {ZERO, ONE, X} : e[1] # e[2]}
Posedge  == {<<ZERO, ONE>>, <<ZERO, X>>, <<X, ONE>>}
Negedge  == AllEdges \ Posedge
edge_mask(v, w) == LET x(u) == IF u = Z THEN X ELSE u IN {<<x(v), x(w)>>} \cap AllEdges

(* An event: [expr, edge, cond]; an expression: [code, decl, msb, lsb].    *)
Bit == UNION {{d} \X (0 .. Width[d] - 1) : d \in DECL}

ASSUME TimingAssumption ==
  /\ IsFiniteSet(STATEMENT)
  /\ Width \in [DECL -> Nat \ {0}] /\ \A d \in DECL : Stored[d] \subseteq [1 .. Width[d] -> {ZERO, ONE, Z, X}]
  /\ MaxTime \in Nat /\ MaxPasses \in Nat
  /\ \A s \in STATEMENT : /\ Stmt[s].kind \in Kind
                          /\ Stmt[s].event1 # NULL
                          /\ (Stmt[s].event2 = NULL) = (Stmt[s].kind \in {"width", "period"})
                          /\ Stmt[s].notifier \in REG \cup {NULL}
  /\ Limits \in [STATEMENT -> Int \X Int] /\ NewLimits \subseteq [STATEMENT -> Int \X Int]

-----------------------------------------------------------------------------
(* pass3_timing_check: one check for every pair of bits.  Of a bit-select, *)
(* and of a range of one bit, the check keeps the declaration, of which    *)
(* eval_bit takes the low bit.                                             *)
Watched(e) == LET lo == Min({e.lsb, e.msb})  hi == Max({e.lsb, e.msb})
              IN IF e.code \in {"scalar", "bit"} \/ lo = hi THEN {<<e.decl, 0>>}
                 ELSE {<<e.decl, i>> : i \in lo .. hi}

Checks == UNION {{[stmt |-> s, bit |-> <<b1, b2>>] :
                    b1 \in Watched(Stmt[s].event1.expr),
                    b2 \in IF Stmt[s].event2 = NULL THEN {NULL} ELSE Watched(Stmt[s].event2.expr)}
                 : s \in STATEMENT}

(* What a check watches exists (pass3 has checked names and ranges).       *)
ASSUME BitsAssumption ==
  /\ NULL \notin Bit /\ NULL \notin REG
  /\ \A c \in Checks : c.bit[1] \in Bit /\ c.bit[2] \in Bit \cup {NULL}

(* The second event of $width is every other edge of the first.            *)
EdgeSpec(c) == LET s == Stmt[c.stmt]
               IN << s.event1.edge,
                     IF s.kind = "width" THEN AllEdges \ s.event1.edge
                     ELSE IF s.event2 = NULL THEN {} ELSE s.event2.edge >>
Condition(c) == LET s == Stmt[c.stmt]
                IN << s.event1.cond,
                      IF s.kind = "width" THEN s.event1.cond
                      ELSE IF s.event2 = NULL THEN NULL ELSE s.event2.cond >>
Kinds(c) == Stmt[c.stmt].kind

VARIABLES
  CurrentTime,
  value,            \* of every bit
  idle_strobe_queue,\* the checks that wait for the idle pass
  currentValue, changeTime,   \* of a check, for both events
  param,            \* TIMING_CHECK_PARAM1 and 2
  notifier, stamp,  \* a register; when a statement toggled its register last
  samples,          \* history: time, values and limits of each idle pass
  reported,         \* history: checks that failed, with the pass
  before            \* history: the registers when this time began
checks  == <<currentValue, changeTime, notifier, stamp>>
history == <<samples, reported, before>>
vars    == <<CurrentTime, value, idle_strobe_queue, param, checks, history>>

(* calculate_params.                                                       *)
Clamped_Not(l) == l
Clamped(l) == <<IF l[1] < 0 THEN 0 ELSE l[1], IF l[2] < 0 THEN 0 ELSE l[2]>>
calculate_params(l) == [c \in Checks |-> Clamped(l[c.stmt])]

Init ==
  /\ CurrentTime = 0 /\ value = [b \in Bit |-> Z] /\ idle_strobe_queue = {}
  /\ currentValue = [c \in Checks |-> <<X, X>>]
  /\ changeTime = [c \in Checks |-> <<0, 0>>]
  /\ param = calculate_params(Limits)
  /\ notifier = [r \in REG |-> X] /\ stamp = [s \in STATEMENT |-> 0]
  /\ samples = <<>> /\ reported = {} /\ before = notifier

(* A store queues every check that watches the variable.                   *)
Watching_First(d) == {c \in Checks : c.bit[1][1] = d}
Watching(d) == {c \in Checks : \E i \in {1, 2} : c.bit[i] # NULL /\ c.bit[i][1] = d}
Store(d, v) ==
  /\ Len(samples) < MaxPasses
  /\ \E i \in 0 .. Width[d] - 1 : value[<<d, i>>] # v[i + 1]
  /\ value' = [b \in Bit |-> IF b[1] = d THEN v[b[2] + 1] ELSE value[b]]
  /\ idle_strobe_queue' = idle_strobe_queue \cup Watching(d)
  /\ UNCHANGED <<CurrentTime, param, checks, history>>

(* $updatetimings: the limits are evaluated again.                         *)
UpdateTimings ==
  /\ \E l \in NewLimits : param' = calculate_params(l) /\ param' # param
  /\ UNCHANGED <<CurrentTime, value, idle_strobe_queue, checks, history>>

-----------------------------------------------------------------------------
(* Of a check at which events ev (of 1 and 2) happen now: whether it       *)
(* passes.  A time of 0 stands for an event that has not happened.         *)
Happened(t) == t # 0
Late(t, p) == t + p > CurrentTime

setupCheck(c, ev)    == 2 \in ev /\ Happened(changeTime[c][1]) => ~Late(changeTime[c][1], param[c][1])
widthCheck(c, ev)    == setupCheck(c, ev)
recoveryCheck(c, ev) == setupCheck(c, ev)
periodCheck(c, ev)   == 1 \in ev /\ Happened(changeTime[c][1]) => ~Late(changeTime[c][1], param[c][1])
skewCheck(c, ev)     == 2 \in ev /\ Happened(changeTime[c][1])
                          => changeTime[c][1] + param[c][1] >= CurrentTime
HoldBy(c, ev, p)     == 2 \in ev /\ Happened(changeTime[c][1])
                          => ~(1 \in ev /\ p # 0) /\ ~Late(changeTime[c][1], p)
holdCheck(c, ev)      == HoldBy(c, ev, param[c][1])
setupholdCheck(c, ev) ==
  /\ 1 \in ev /\ Happened(changeTime[c][2]) => ~Late(changeTime[c][2], param[c][1])
  /\ HoldBy(c, ev, param[c][2])

Passes(c, ev) == CASE Kinds(c) = "setup"     -> setupCheck(c, ev)
                   [] Kinds(c) = "hold"      -> holdCheck(c, ev)
                   [] Kinds(c) = "width"     -> widthCheck(c, ev)
                   [] Kinds(c) = "period"    -> periodCheck(c, ev)
                   [] Kinds(c) = "skew"      -> skewCheck(c, ev)
                   [] Kinds(c) = "recovery"  -> recoveryCheck(c, ev)
                   [] Kinds(c) = "setuphold" -> setupholdCheck(c, ev)

(* Without a second expression both values are those of the first.         *)
NewBits(c) == <<value[c.bit[1]], value[IF c.bit[2] = NULL THEN c.bit[1] ELSE c.bit[2]]>>
(* An unknown condition enables: test() returns X for it, which is not 0.  *)
test_Known(b) == b = NULL \/ value[b] = ONE
test(b) == b = NULL \/ value[b] # ZERO
Events(c) == {i \in {1, 2} : /\ edge_mask(currentValue[c][i], NewBits(c)[i]) \cap EdgeSpec(c)[i] # {}
                             /\ test(Condition(c)[i])}

(* toggle_notifier: once a tick for a statement, which has a notifier node *)
(* of its own whatever register it names; x becomes 0, z stays.  Three     *)
(* toggles are as one, whatever the value.                                 *)
Toggled_KeepX(v) == IF v \in {X, Z} THEN v ELSE 1 - v
Toggled(v) == CASE v = X -> ZERO [] v = Z -> Z [] OTHER -> 1 - v
ToggledOften(v, n) == IF n = 0 THEN v ELSE IF n % 2 = 1 THEN Toggled(v) ELSE Toggled(Toggled(v))
Toggling_Each(failed) == {s \in {c.stmt : c \in failed} : Stmt[s].notifier # NULL}
Toggling(failed) == {s \in {c.stmt : c \in failed} : Stmt[s].notifier # NULL /\ stamp[s] # CurrentTime}
OnRegister(r, S) == {s \in S : Stmt[s].notifier = r}
toggle_notifier(failed) ==
  LET S == Toggling(failed)
  IN /\ stamp' = [s \in STATEMENT |-> IF s \in S THEN CurrentTime ELSE stamp[s]]
     /\ notifier' = [r \in REG |-> ToggledOften(notifier[r], Cardinality(OnRegister(r, S)))]

(* The idle pass: timingCheck for every check that waits.  No check stores *)
(* into a net that another one watches, so their order is immaterial.      *)
Stamped(c, ev) == [i \in {1, 2} |-> IF i \in ev THEN CurrentTime ELSE changeTime[c][i]]
timingCheck ==
  /\ idle_strobe_queue # {}
  /\ LET Q == idle_strobe_queue
         failed == {c \in Q : ~Passes(c, Events(c))}
     IN /\ toggle_notifier(failed)
        /\ reported' = reported \cup {<<c, Len(samples) + 1>> : c \in failed}
        /\ changeTime' = [c \in Checks |-> IF c \in Q THEN Stamped(c, Events(c)) ELSE changeTime[c]]
        /\ currentValue' = [c \in Checks |-> IF c \in Q THEN NewBits(c) ELSE currentValue[c]]
  /\ samples' = Append(samples, [time |-> CurrentTime, value |-> value, param |-> param])
  /\ idle_strobe_queue' = {}
  /\ UNCHANGED <<CurrentTime, value, param, before>>

Tick ==
  /\ idle_strobe_queue = {} /\ CurrentTime < MaxTime
  /\ CurrentTime' = CurrentTime + 1
  /\ before' = notifier
  /\ UNCHANGED <<value, idle_strobe_queue, param, checks, samples, reported>>

Next == \/ \E d \in DECL : \E v \in Stored[d] : Store(d, v)
        \/ UpdateTimings \/ timingCheck \/ Tick

Spec == Init /\ [][Next]_vars

-----------------------------------------------------------------------------
TypeOK ==
  /\ CurrentTime \in 0 .. MaxTime /\ value \in [Bit -> Values]
  /\ idle_strobe_queue \subseteq Checks
  /\ currentValue \in [Checks -> Values \X Values]
  /\ changeTime \in [Checks -> (0 .. CurrentTime) \X (0 .. CurrentTime)]
  /\ param \in [Checks -> Nat \X Nat]
  /\ notifier \in [REG -> Values] /\ stamp \in [STATEMENT -> 0 .. CurrentTime]

(* A check that does not wait has seen the present values (z as x): no     *)
(* change of a net that it watches is missed, none is seen twice.          *)
SeenIsCurrent ==
  \A c \in Checks \ idle_strobe_queue, i \in {1, 2} :
    edge_mask(currentValue[c][i], NewBits(c)[i]) = {}

(* What a check keeps is sound.                                            *)
ChecksSound == TypeOK /\ SeenIsCurrent

(* The events of a check, from the values at all idle passes so far and    *)
(* nothing that the check keeps.  A condition that is x or z is taken for  *)
(* true: what is unknown may be a violation.                               *)
ValueAt(b, k) == IF k = 0 THEN Z ELSE samples[k].value[b]
Observed(c, i, k) ==
  LET b == IF c.bit[i] = NULL THEN c.bit[1] ELSE c.bit[i]
  IN /\ edge_mask(ValueAt(b, k - 1), ValueAt(b, k)) \cap EdgeSpec(c)[i] # {}
     /\ Condition(c)[i] # NULL => ValueAt(Condition(c)[i], k) # ZERO
Moments(c, i, k) == {samples[m].time : m \in {j \in 1 .. k - 1 : Observed(c, i, j)}} \ {0}

(* What the checks are for, as windows around events: the event of pass k  *)
(* follows one of the other kind by less than the limit (of $skew: follows *)
(* all of them by more); $hold and $setuphold also fail when both happen   *)
(* at once, if the hold limit is not 0.                                    *)
Within(c, i, k, p) == \E t \in Moments(c, i, k) : samples[k].time < t + p
Held(c, k, p) == /\ Observed(c, 2, k) /\ Moments(c, 1, k) # {}
                 /\ Within(c, 1, k, p) \/ (Observed(c, 1, k) /\ p > 0)
Violated(c, k) ==
  LET p == samples[k].param[c]
  IN CASE Kinds(c) \in {"setup", "width", "recovery"} -> Observed(c, 2, k) /\ Within(c, 1, k, p[1])
       [] Kinds(c) = "period" -> Observed(c, 1, k) /\ Within(c, 1, k, p[1])
       [] Kinds(c) = "skew"   -> /\ Observed(c, 2, k) /\ Moments(c, 1, k) # {}
                                 /\ \A t \in Moments(c, 1, k) : samples[k].time > t + p[1]
       [] Kinds(c) = "hold"   -> Held(c, k, p[1])
       [] Kinds(c) = "setuphold" -> \/ Observed(c, 1, k) /\ Within(c, 2, k, p[1])
                                    \/ Held(c, k, p[2])

(* timingCheck reports a failure in a pass (the last; it was the last once *)
(* for every pass) exactly when the limit is violated, however the changes *)
(* of values, conditions and limits fall.                                  *)
ReportsViolations ==
  samples # <<>> => \A c \in Checks : <<c, Len(samples)>> \in reported <=> Violated(c, Len(samples))

(* A register that one statement notifies differs from what it was when    *)
(* this time began if and only if a check of that statement has failed at  *)
(* this time: one failure is never taken back by another (cells tell from  *)
(* the change of the register that their output is unknown).               *)
Notifying(r) == {s \in STATEMENT : Stmt[s].notifier = r}
FailedNow(s) == \E f \in reported : f[1].stmt = s /\ samples[f[2]].time = CurrentTime
NoticeStays ==
  \A r \in REG : \A s \in Notifying(r) :
    Notifying(r) = {s} => (notifier[r] # before[r] <=> FailedNow(s))

(* Whatever statements share a register, in whatever passes of one time    *)
(* their checks fail: each of them has toggled it once since the time      *)
(* began, and nothing else has.  (So two failures of different statements  *)
(* undo each other: the stamp is one of the statement, not of the register *)
(* that "only allow notifier to be toggled once a tick" speaks of.)        *)
TogglesCounted ==
  \A r \in REG : notifier[r] = ToggledOften(before[r], Cardinality({s \in Notifying(r) : FailedNow(s)}))

=============================================================================
