---------------------------- MODULE EventCalendar ----------------------------
(***************************************************************************)
(* What an event-driven simulation kernel promises, without its lists:     *)
(* every item that is planned has the time at which it is due, planning    *)
(* reaches only into the present or the future, and what runs is always    *)
(* among what is due first, so that nothing is ever skipped.  Scheduler    *)
(* implements it for SCBs and gates.  The promise ends when something is   *)
(* planned for a time that has been shown as over.                         *)
(***************************************************************************)
EXTENDS Naturals

CONSTANTS Item,     \* what can be planned
          Time,     \* the times there are
          NONE      \* the time of an item that is not planned

(* Times are numbers, and NONE is none of them.                            *)
TimeAssumption == Time \subseteq Nat /\ NONE \notin Nat

VARIABLES now, due,
          late      \* was something planned for a time that was over?

calendar == <<now, due, late>>

Planned == {i \in Item : due[i] # NONE}

Init == /\ now = 0
        /\ due \in [Item -> {0, NONE}]
        /\ late = FALSE

(* Plan an item, again if it is planned already.                           *)
Plan(i, t) == /\ t >= now
              /\ due' = [due EXCEPT ![i] = t]
              /\ now' = now

(* Run an item that is due first; the clock shows its time.                *)
Run(i) == /\ i \in Planned
          /\ \A j \in Planned : due[i] <= due[j]
          /\ now' = due[i]
          /\ due' = [due EXCEPT ![i] = NONE]

(* The clock may move ahead of the item, not past it.                      *)
Advance(i) == /\ i \in Planned
              /\ \A j \in Planned : due[i] <= due[j]
              /\ now' = due[i]
              /\ UNCHANGED due

InTime == \E i \in Item : (\E t \in Time : Plan(i, t)) \/ Run(i) \/ Advance(i)

Next == late' \/ (UNCHANGED late /\ InTime)

Spec == Init /\ [][Next]_calendar

-----------------------------------------------------------------------------
(* The clock and every planned time are numbers, and nothing that is       *)
(* planned is overdue: what runs is never late.                            *)
NeverOverdue == ~late => /\ now \in Nat
                         /\ due \in [Item -> Nat \cup {NONE}]
                         /\ \A i \in Planned : due[i] >= now

(* The clock never goes back, and never passes what is planned.            *)
ClockNeverSkips == [][~late' => now' >= now /\ \A i \in Planned : due[i] >= now']_calendar
=============================================================================
