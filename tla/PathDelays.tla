----------------------------- MODULE PathDelays -----------------------------
(***************************************************************************)
(* The module paths of specify.cc.  Elaboration finds the gate that drives *)
(* each output of a path (insert_specify_paths) and gives the gate an      *)
(* output of its own with the delays of its paths; when the gate fires,    *)
(* handle_specify_path looks which input was stored last and queues the    *)
(* new value for that time plus the delay, or lets the gate drive at once. *)
(***************************************************************************)
EXTENDS Integers, SequencesExt

CONSTANTS
  INPUT, NET, GATE,
  Drivers,          \* of a net: the gates and assignments, as a sequence
  Ports,            \* of a gate: its kind, and how many outputs it has
  PATH,             \* the path descriptions of the module, in order:
  Paths,            \* [inputs, outputs]
  Delays,           \* the sequences of delays that the paths can have
  VALUE,            \* bound: the outputs that gates take
  GateDelays,       \* bound: the delays of the gates themselves
  MaxStore, MaxTime,\* bound: the time of the last store; of everything
  NONE

ZERO == 0  ONE == 1  Z == 2  X == 3
Values == {ZERO, ONE, Z, X}

ASSUME PathAssumption ==
  /\ VALUE \subseteq Values /\ MaxStore \in Nat /\ MaxTime \in Nat /\ MaxStore <= MaxTime
  /\ NONE \notin Nat /\ GateDelays \subseteq Nat
  /\ PATH \in Seq(DOMAIN Paths)
  /\ \A p \in DOMAIN Paths : /\ Paths[p].inputs \in Seq(INPUT) /\ Paths[p].inputs # <<>>
                             /\ Paths[p].outputs \in Seq(NET)
  /\ \A ds \in Delays, p \in DOMAIN Paths : ds[p] \in Seq(Nat) /\ Len(ds[p]) \in {1, 2, 3, 6}

-----------------------------------------------------------------------------
(* insert_specify_paths: each output of each path, in order, until one is  *)
(* found that cannot have a path.  A path comes to the front of the list   *)
(* of its gate; pass3_specify turns the list round once more.              *)
Outputs == FlattenSeq([i \in DOMAIN PATH |->
             [j \in DOMAIN Paths[PATH[i]].outputs |-> <<PATH[i], Paths[PATH[i]].outputs[j]>>]])

Undriven(n)   == Drivers[n] = <<>>
Accepts(n)    == /\ Len(Drivers[n]) = 1 /\ Head(Drivers[n]) \in GATE
                 /\ Ports[Head(Drivers[n])] = [kind |-> "unidirectional", outputs |-> 1]
add_spec_to_gate(list, n, p) == [list EXCEPT ![Head(Drivers[n])] = <<p>> \o @]
Inserted ==
  LET visited[k \in 0 .. Len(Outputs)] ==
        IF k = 0 THEN [stopped |-> FALSE, list |-> [g \in GATE |-> <<>>]]
        ELSE LET st == visited[k - 1]  o == Outputs[k]
             IN IF st.stopped \/ Undriven(o[2]) THEN st
                ELSE IF ~Accepts(o[2]) THEN [st EXCEPT !.stopped = TRUE]
                ELSE [st EXCEPT !.list = add_spec_to_gate(@, o[2], o[1])]
  IN visited[Len(Outputs)].list

Constraints == [g \in GATE |-> Reverse(Inserted[g])]
Dependencies == [g \in GATE |-> FlattenSeq([k \in DOMAIN Constraints[g] |->
                  LET p == Constraints[g][k]
                  IN [j \in DOMAIN Paths[p].inputs |-> [path |-> p, input |-> Paths[p].inputs[j]]]])]
HasPath(g)  == Constraints[g] # <<>>
PathGate    == {g \in GATE : HasPath(g)}

(* calculate_delays: which of its 1, 2, 3 or 6 delays a path has for a     *)
(* change between 0, 1 and z.                                              *)
DelayOf(ds, v, w) ==
  LET n == Len(ds)
      rise == 1  fall == IF n = 1 THEN 1 ELSE 2
  IN ds[CASE <<v, w>> = <<ZERO, ONE>> -> rise
          [] <<v, w>> = <<ONE, ZERO>> -> fall
          [] <<v, w>> = <<ZERO, Z>>   -> IF n >= 3 THEN 3 ELSE rise
          [] <<v, w>> = <<Z, ONE>>    -> IF n = 6 THEN 4 ELSE rise
          [] <<v, w>> = <<ONE, Z>>    -> CASE n = 6 -> 5 [] n = 3 -> 3 [] OTHER -> fall
          [] <<v, w>> = <<Z, ZERO>>   -> IF n = 6 THEN 6 ELSE fall]
Least(a, b)    == IF a > b THEN b ELSE a
Greatest(a, b) == IF a < b THEN b ELSE a

(* With setXPathConstraints; the entries of no change stay 0.              *)
PATH_CONSTRAINT_DELAY_Swapped(ds, v, w) ==
  LET d(x, y) == DelayOf(ds, x, y)
  IN IF v = w THEN 0
     ELSE CASE v = X -> LET other == {ZERO, ONE, Z} \ {w} IN Least(d(Min(other), w), d(Max(other), w))
            [] w = X -> LET other == {ZERO, ONE, Z} \ {v} IN Greatest(d(v, Min(other)), d(v, Max(other)))
            [] OTHER -> d(v, w)
PATH_CONSTRAINT_DELAY(ds, v, w) ==
  LET d(x, y) == DelayOf(ds, x, y)
  IN IF v = w THEN 0
     ELSE CASE v = X -> LET other == {ZERO, ONE, Z} \ {w} IN Greatest(d(Min(other), w), d(Max(other), w))
            [] w = X -> LET other == {ZERO, ONE, Z} \ {v} IN Least(d(v, Min(other)), d(v, Max(other)))
            [] OTHER -> d(v, w)

VARIABLES
  CurrentTime,
  update,           \* DECL_UPDATE_TIME of an input
  output,           \* GATE_OUTPUT
  queued,           \* when the gate fires, or NONE
  delays,           \* of each path, as they were last evaluated
  path_value, current_value,    \* PATH_OUTPUT_VALUE and _CURRENT_VALUE
  scb,              \* the time for which PATH_OUTPUT_SCB is scheduled, or NONE
  net               \* what the gate drives
specs == <<path_value, current_value, scb, net>>
vars  == <<CurrentTime, update, output, queued, delays, specs>>

Init ==
  /\ CurrentTime = 0 /\ update = [i \in INPUT |-> 0]
  /\ output = [g \in GATE |-> X] /\ queued = [g \in GATE |-> NONE]
  /\ delays \in Delays
  /\ path_value = [g \in GATE |-> X] /\ current_value = path_value
  /\ scb = [g \in GATE |-> NONE] /\ net = path_value

(* A store into an input, which stamps it (notify), with what a gate makes *)
(* of it (Gates): the gate may take a new output and be queued.            *)
Store(i, g, v, t) ==
  /\ CurrentTime <= MaxStore
  /\ update' = [update EXCEPT ![i] = CurrentTime]
  /\ output' = [output EXCEPT ![g] = v]
  /\ queued' = IF v = output[g] THEN queued ELSE [queued EXCEPT ![g] = CurrentTime + t]
  /\ UNCHANGED <<CurrentTime, delays, specs>>

(* specify_update_timings.                                                 *)
UpdateTimings ==
  /\ CurrentTime <= MaxStore
  /\ delays' \in Delays \ {delays}
  /\ UNCHANGED <<CurrentTime, update, output, queued, specs>>

(* The loop of handle_specify_path over the inputs of the paths: the       *)
(* latest store so far, and the delay of its path.                         *)
Later(p, t, w) ==
  IF t > p.time THEN [time |-> t, delay |-> w]
  ELSE IF t = p.time /\ (p.delay = NONE \/ w < p.delay) THEN [p EXCEPT !.delay = w]
  ELSE p
LatestInput(g, v) ==
  LET D == Dependencies[g]
      best[k \in 0 .. Len(D)] ==
        IF k = 0 THEN [time |-> 0, delay |-> NONE]
        ELSE Later(best[k - 1], update[D[k].input],
                   PATH_CONSTRAINT_DELAY(delays[D[k].path], current_value[g], v))
  IN best[Len(D)]
Due(g, v) == LET best == LatestInput(g, v) IN best.time + best.delay

(* handle_specify_path with handle_gate: scheduling moves the scb.         *)
PathFire_Kludge(g) ==
  LET v == output[g]
  IN /\ path_value' = [path_value EXCEPT ![g] = v]
     /\ IF Due(g, v) >= CurrentTime
          THEN /\ scb' = IF path_value[g] = current_value[g] THEN [scb EXCEPT ![g] = Due(g, v)] ELSE scb
               /\ UNCHANGED <<current_value, net>>
          ELSE /\ current_value' = [current_value EXCEPT ![g] = v]
               /\ net' = [net EXCEPT ![g] = v]
               /\ UNCHANGED scb
PathFire_Late(g) ==
  LET v == output[g]
  IN /\ path_value' = [path_value EXCEPT ![g] = v]
     /\ scb' = [scb EXCEPT ![g] = Due(g, v)]
     /\ UNCHANGED <<current_value, net>>
PathFire(g) ==
  LET v == output[g]
  IN /\ path_value' = [path_value EXCEPT ![g] = v]
     /\ IF Due(g, v) >= CurrentTime
          THEN /\ scb' = [scb EXCEPT ![g] = Due(g, v)]
               /\ UNCHANGED <<current_value, net>>
          ELSE /\ current_value' = [current_value EXCEPT ![g] = v]
               /\ net' = [net EXCEPT ![g] = v]
               /\ UNCHANGED scb
FireGate(g) ==
  /\ queued[g] = CurrentTime /\ queued' = [queued EXCEPT ![g] = NONE]
  /\ IF HasPath(g) THEN PathFire(g)
     ELSE /\ net' = [net EXCEPT ![g] = output[g]]
          /\ UNCHANGED <<path_value, current_value, scb>>
  /\ UNCHANGED <<CurrentTime, update, output, delays>>

propagate_specify_path_Old(g) ==
  /\ scb[g] = CurrentTime /\ scb' = [scb EXCEPT ![g] = NONE]
  /\ net' = [net EXCEPT ![g] = path_value[g]]
  /\ UNCHANGED <<CurrentTime, update, output, queued, delays, path_value, current_value>>
propagate_specify_path(g) ==
  /\ scb[g] = CurrentTime /\ scb' = [scb EXCEPT ![g] = NONE]
  /\ net' = [net EXCEPT ![g] = path_value[g]]
  /\ current_value' = [current_value EXCEPT ![g] = path_value[g]]
  /\ UNCHANGED <<CurrentTime, update, output, queued, delays, path_value>>

Tick ==
  /\ \A g \in GATE : queued[g] # CurrentTime /\ scb[g] # CurrentTime
  /\ CurrentTime < MaxTime /\ CurrentTime' = CurrentTime + 1
  /\ UNCHANGED <<update, output, queued, delays, specs>>

Next == \/ \E i \in INPUT, g \in GATE, v \in VALUE, t \in GateDelays : Store(i, g, v, t)
        \/ UpdateTimings
        \/ \E g \in GATE : FireGate(g) \/ propagate_specify_path(g)
        \/ Tick

(* The dispatcher goes on as long as anything is scheduled.                *)
Spec == Init /\ [][Next]_vars
FairSpec == /\ Spec /\ WF_vars(Tick)
            /\ \A g \in GATE : WF_vars(FireGate(g)) /\ WF_vars(propagate_specify_path(g))

-----------------------------------------------------------------------------
(* Types.                                                                  *)
TypeOK ==
  /\ CurrentTime \in 0 .. MaxTime /\ update \in [INPUT -> 0 .. CurrentTime]
  /\ output \in [GATE -> Values] /\ path_value \in [GATE -> Values]
  /\ current_value \in [GATE -> Values] /\ net \in [GATE -> Values]
  /\ queued \in [GATE -> Nat \cup {NONE}] /\ scb \in [GATE -> Nat \cup {NONE}]
  /\ delays \in Delays

(* A gate with nothing queued for it or its path drives what its output is *)
(* and the path knows it: no change is lost in between, and the next delay *)
(* is that from the value the net really has.                              *)
PathSettled ==
  \A g \in GATE : queued[g] = NONE /\ scb[g] = NONE
    => net[g] = output[g] /\ (HasPath(g) => current_value[g] = output[g])

(* What a gate, its path and the net know of one another: a path has the   *)
(* value of the net; the last value that it took waits for its time or is  *)
(* shown; and it is the output of the gate unless the gate is queued.      *)
PathKnows ==
  \A g \in GATE :
    IF HasPath(g)
      THEN /\ net[g] = current_value[g]
           /\ scb[g] = NONE => path_value[g] = current_value[g]
           /\ queued[g] = NONE => path_value[g] = output[g]
      ELSE scb[g] = NONE /\ (queued[g] = NONE => net[g] = output[g])

(* All of this together.                                                   *)
PathSound == TypeOK /\ PathKnows /\ PathSettled

(* A gate that fires shows its value when the delay from the value that    *)
(* the net has has passed since the last store of an input, the shortest   *)
(* if several inputs were stored last; at once if it has passed already.   *)
DueTime(g) ==
  LET D == Range(Dependencies[g])
      last == Max({update[d.input] : d \in D})
  IN last + Min({PATH_CONSTRAINT_DELAY(delays[d.path], net[g], output[g])
                   : d \in {d \in D : update[d.input] = last}})
LatestWins ==
  [][\A g \in PathGate : (queued[g] = CurrentTime /\ queued'[g] = NONE) =>
       IF DueTime(g) >= CurrentTime THEN scb'[g] = DueTime(g) ELSE net'[g] = output[g]]_vars

(* A change to x takes no longer than one to another value, and one from x *)
(* no less than one from another value.                                    *)
XPessimism ==
  \A p \in DOMAIN Paths, v, w \in {ZERO, ONE, Z} : v # w =>
    /\ PATH_CONSTRAINT_DELAY(delays[p], v, X) <= PATH_CONSTRAINT_DELAY(delays[p], v, w)
    /\ PATH_CONSTRAINT_DELAY(delays[p], X, w) >= PATH_CONSTRAINT_DELAY(delays[p], v, w)

(* The outputs of gates with paths are the lines of PathLine: a value that *)
(* is taken back is never shown, the last one is shown when it is due.     *)
OnPaths(f) == [g \in PathGate |-> f[g]]
Line == INSTANCE PathLine WITH OUTPUT <- PathGate, VALUE <- Values, now <- CurrentTime,
                               want <- OnPaths(path_value), at <- OnPaths(scb), shown <- OnPaths(net)
ImplementsLine == Line!Spec

(* When stores have ended every gate comes to drive its last output: no    *)
(* value waits for a time that has passed.                                 *)
Settles == <>[](CurrentTime > MaxStore) => <>[](\A g \in GATE : net[g] = output[g])
=============================================================================
