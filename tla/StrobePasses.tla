---------------------------- MODULE StrobePasses ----------------------------
(***************************************************************************)
(* What the two strobe queues promise to the dispatcher: first in, first   *)
(* out, and a pass over a queue runs exactly what was queued when the pass *)
(* began -- "newly enqueue strobes are processed in the next pass".        *)
(***************************************************************************)
EXTENDS Integers, SequencesExt

CONSTANTS PC,           \* the statements and instances that can be queued
          NULL

Queue == {"idle", "final"}

VARIABLES waiting,      \* what is queued, in order
          pass,         \* the queue of the pass that is running, or NULL
          left,         \* how many it has still to run
          executing     \* what it is running, a sequence of at most one

passes == <<waiting, pass, left, executing>>

Init == /\ waiting = [w \in Queue |-> <<>>]
        /\ pass = NULL /\ left = 0 /\ executing = <<>>

Enqueue(w, p) == /\ waiting' = [waiting EXCEPT ![w] = Append(@, p)]
                 /\ UNCHANGED <<pass, left, executing>>

(* Between passes a statement may be taken off and another put on.         *)
Dequeue(w, k) == /\ pass = NULL
                 /\ waiting' = [waiting EXCEPT ![w] = RemoveAt(@, k)]
                 /\ UNCHANGED <<pass, left, executing>>

Replace(w, k, by) == /\ pass = NULL
                     /\ waiting' = [waiting EXCEPT ![w] = Append(RemoveAt(@, k), by)]
                     /\ UNCHANGED <<pass, left, executing>>

Begin(w) == /\ pass = NULL /\ waiting[w] # <<>>
            /\ pass' = w /\ left' = Len(waiting[w])
            /\ UNCHANGED <<waiting, executing>>

RunFirst == /\ pass # NULL /\ left > 0 /\ executing = <<>>
            /\ executing' = <<waiting[pass][1]>>
            /\ waiting' = [waiting EXCEPT ![pass] = Tail(@)]
            /\ left' = left - 1
            /\ UNCHANGED pass

Done == /\ executing # <<>> /\ executing' = <<>>
        /\ pass' = IF left = 0 THEN NULL ELSE pass
        /\ UNCHANGED <<waiting, left>>

(* Requests that change a queue.                                           *)
Request(w) ==
  /\ waiting'[w] # waiting[w]
  /\ \/ \E p \in PC : Enqueue(w, p)
     \/ \E k \in DOMAIN waiting[w] : Dequeue(w, k) \/ \E by \in PC : Replace(w, k, by)

Next == \/ \E w \in Queue : Begin(w) \/ Request(w)
        \/ RunFirst \/ Done

Spec == Init /\ [][Next]_passes
=============================================================================
