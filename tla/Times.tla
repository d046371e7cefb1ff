-------------------------------- MODULE Times --------------------------------
(***************************************************************************)
(* Simulation times are two unsigned words, added and compared by the      *)
(* macros of vtypes.h.  Words count to W: 2^32 in the program, small for   *)
(* TLC.                                                                    *)
(***************************************************************************)
EXTENDS Integers

CONSTANT W              \* the number of values of a word

ASSUME WordAssumption == W \in Nat /\ W > 1

Word   == 0..W - 1
Time64 == [timeh : Word, timel : Word]

Zero   == [timeh |-> 0, timel |-> 0]

(* ~n, and what is left of a sum in a word.                                *)
Complement(n) == W - 1 - n
Wrapped(n)    == IF n < W THEN n ELSE n - W

ADDTIME6432(time, num) ==
  [timeh |-> IF time.timel > Complement(num) THEN Wrapped(time.timeh + 1) ELSE time.timeh,
   timel |-> Wrapped(time.timel + num)]

Carry_Never(time1, time2) == 0
Carry(time1, time2) == IF time1.timel > Complement(time2.timel) THEN 1 ELSE 0
ADDTIME6464(time1, time2) ==
  [timeh |-> Wrapped(Wrapped(time1.timeh + time2.timeh) + Carry(time1, time2)),
   timel |-> Wrapped(time1.timel + time2.timel)]

CMPTIME64(time1, time2) ==
  IF time1.timeh # time2.timeh THEN (IF time1.timeh < time2.timeh THEN -1 ELSE 1)
  ELSE IF time1.timel < time2.timel THEN -1
  ELSE IF time1.timel # time2.timel THEN 1 ELSE 0

(* The number a time stands for.                                           *)
Value(time) == time.timeh * W + time.timel
=============================================================================
