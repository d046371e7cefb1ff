------------------------------ MODULE PathLine ------------------------------
(***************************************************************************)
(* What specify paths promise for their outputs: the value that the gate   *)
(* of an output took last is shown at the time that was fixed for it, or   *)
(* at once, never a value that the gate has taken back meanwhile.          *)
(***************************************************************************)
EXTENDS Integers

CONSTANTS OUTPUT,
          VALUE,        \* what an output can be
          NONE          \* no time

VARIABLES now,
          want,         \* what the gate took last
          at,           \* when it is to be shown, or NONE
          shown

line == <<now, want, at, shown>>

Init == now = 0 /\ at = [o \in OUTPUT |-> NONE] /\ shown \in [OUTPUT -> VALUE] /\ want = shown

(* The gate takes v, to be shown now or later, or has waited long enough.  *)
Take(o, v) == /\ want' = [want EXCEPT ![o] = v]
              /\ at'[o] \in Nat /\ at'[o] >= now /\ at' = [at EXCEPT ![o] = at'[o]]
              /\ UNCHANGED <<now, shown>>
Pass(o, v) == /\ want' = [want EXCEPT ![o] = v] /\ shown' = [shown EXCEPT ![o] = v]
              /\ UNCHANGED <<now, at>>
Show(o)    == /\ at[o] = now /\ at' = [at EXCEPT ![o] = NONE]
              /\ shown' = [shown EXCEPT ![o] = want[o]]
              /\ UNCHANGED <<now, want>>
Tick       == /\ \A o \in OUTPUT : at[o] # now
              /\ now' = now + 1 /\ UNCHANGED <<want, at, shown>>

Next == \/ \E o \in OUTPUT : Show(o) \/ \E v \in VALUE : Take(o, v) \/ Pass(o, v)
        \/ Tick

Spec == Init /\ [][Next]_line
=============================================================================
