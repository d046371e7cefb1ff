----------------------------- MODULE GateAgenda -----------------------------
(***************************************************************************)
(* What the queue of nsched.cc promises to the primitives: an agenda of    *)
(* gates in time order, first come first served within one time, in which  *)
(* a gate appears once.  Planning a gate again moves it, except that a     *)
(* simple gate that is planned for the same time keeps its place ("a hack  *)
(* to attempt to match Cadence").                                          *)
(***************************************************************************)
EXTENDS Integers, SequencesExt

CONSTANTS GATE,         \* the primitive instances
          Simple,       \* those that keep their place
          DELAYS,       \* their delays
          MaxTime       \* bound: the last time

VARIABLES CurrentTime,
          agenda        \* sequence of [gate, time]

ready == <<CurrentTime, agenda>>

Init == CurrentTime = 0 /\ agenda = <<>>

Without(seq, g) ==
  LET at == {i \in DOMAIN seq : seq[i].gate = g}
  IN IF at = {} THEN seq ELSE RemoveAt(seq, CHOOSE i \in at : TRUE)

(* The place behind all that are not later than t.                         *)
Behind(seq, t) == CHOOSE k \in 1..Len(seq) + 1 : /\ \A i \in 1..k - 1 : seq[i].time <= t
                                                 /\ \A i \in k..Len(seq) : t < seq[i].time
Insert(seq, e) == InsertAt(seq, Behind(seq, e.time), e)

ScheduleGate(g, d) ==
  LET e == [gate |-> g, time |-> CurrentTime + d]
      now == agenda
  IN /\ UNCHANGED CurrentTime
     /\ e.time <= MaxTime
     /\ agenda' = IF g \in Simple /\ e \in Range(now) THEN now ELSE Insert(Without(now, g), e)

RemoveNextReadyGate ==
  LET now == agenda
  IN /\ UNCHANGED CurrentTime
     /\ now # <<>> /\ now[1].time = CurrentTime
     /\ agenda' = Tail(now)

(* The clock moves to t, the next time of the time list, or to the first   *)
(* gate before it.                                                         *)
AdvanceTime(t) ==
  LET now == agenda
      first == IF now = <<>> THEN t ELSE now[1].time
  IN /\ t > CurrentTime /\ first > CurrentTime
     /\ CurrentTime' = IF first < t THEN first ELSE t
     /\ agenda' = now

(* The rest of the program comes first, as most steps are its own.         *)
Next == \/ UNCHANGED ready
        \/ RemoveNextReadyGate
        \/ \E t \in 1..MaxTime : AdvanceTime(t)
        \/ \E g \in GATE, d \in DELAYS : ScheduleGate(g, d)

Spec == Init /\ [][Next]_ready
=============================================================================
