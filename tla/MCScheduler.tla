----------------------------- MODULE MCScheduler -----------------------------
(* Small designs for TLC.                                                  *)
EXTENDS Scheduler

CONSTANTS p1, p2, n1, n2, a1, b1, g1, g2, m1, e1, e2, rise, fall

OneProcess   == <<p1>>
TwoProcesses == <<p1, p2>>

Delay0 == [n \in NET |-> [v \in VALUE |-> 0]]
DelayMixed == [n \in NET |-> [v \in VALUE |-> IF v = rise THEN 0 ELSE 1]]
DelayUp == [n \in NET |-> [v \in VALUE |-> IF v = rise THEN 1 ELSE 2]]

AssignUp == [a \in ASSIGN |-> [v \in VALUE |-> IF v = rise THEN 1 ELSE 2]]

Static == NET \cup ASSIGN \cup GATE
Anything == Static \cup EVENT
(* Everything reaches everything, itself included; a strobe reaches one    *)
(* net and one event, the others being like them.                          *)
FullFanout  == [x \in Static \cup MONITOR |-> IF x \in MONITOR THEN {n1, e1} \cap Anything ELSE Anything]
(* Everything reaches everything, but no net and no assignment, which have *)
(* delays here, feeds itself.                                              *)
OtherFanout == [x \in Static \cup MONITOR |-> Anything \ ({x} \cap (NET \cup ASSIGN))]
=============================================================================
