------------------------------ MODULE PliDelays ------------------------------
(***************************************************************************)
(* The delays of the programming language interface (tf_setlongdelay,      *)
(* tf_iclearalldelays and their reactivation in exec_) beside the gate     *)
(* queue.  Each user task or function keeps its delays in a chain, in time *)
(* order, at an SCB of its own, which waits on the time list for the first *)
(* of them.  The clock goes to the earlier of the time list and the gates; *)
(* tf_getnextlongtime tells where.                                         *)
(***************************************************************************)
EXTENDS GateQueue

CONSTANTS Instance,     \* SYSTASK_STMT and SYSFUNCTION_REF nodes of user tasks and functions
          STORE,        \* the statement of a delayed nonblocking assignment
          SCB,          \* bound: the SCBs of the free list
          LONGDELAYS,   \* the delays, scaled to the units of the simulation
          MaxPlanned    \* bound: what waits, gates and delays together

ASSUME PliAssumption ==
  /\ IsFiniteSet(SCB) /\ STORE \notin Instance /\ NULL \notin SCB
  /\ LONGDELAYS \subseteq Time64 /\ MaxPlanned \in Nat

VARIABLES
  readylist, timelist, freelist,   \* of SCBs, from the first on
  pc,           \* of an SCB: what is left of its chain, of [node, time]
  time,         \* of an SCB
  DELAYSCB,     \* of an instance, or NULL
  reactivated,  \* the delay whose misctf runs, one at most
  due,          \* ghost: how many delays of an instance end at a time
  fault         \* an SCB was taken from who uses it

scbs  == <<readylist, timelist, freelist, pc, time>>
pli   == <<DELAYSCB, reactivated, due>>
pvars == <<vars, scbs, pli, fault>>

PliInit ==
  /\ Init
  /\ readylist = <<>> /\ timelist = <<>> /\ freelist = SetToSeq(SCB)
  /\ pc = [s \in SCB |-> <<>>] /\ time = [s \in SCB |-> Zero]
  /\ DELAYSCB = [i \in Instance |-> NULL]
  /\ reactivated = <<>> /\ due = [i \in Instance |-> [t \in Within |-> 0]]
  /\ fault = FALSE

-----------------------------------------------------------------------------
(* Lists of what has a time: the new one behind those that are not later.  *)
NotLater(at, t) == {k \in DOMAIN at : CMPTIME64(t, at[k]) >= 0}
InTime(list, at, x, t) == InsertAt(list, 1 + Cardinality(NotLater(at, t)), x)

Without(list, s) ==
  IF s \in Range(list) THEN RemoveAt(list, CHOOSE k \in DOMAIN list : list[k] = s) ELSE list

(* Schedule64 and the TIME_LIST case of dispatcher.                        *)
Waiting(s, t) ==
  LET others == Without(timelist, s)
  IN InTime(others, [k \in DOMAIN others |-> time[others[k]]], s, t)

Schedule64(s, t) ==
  /\ timelist' = Waiting(s, t) /\ time' = [time EXCEPT ![s] = t]
  /\ readylist' = Without(readylist, s) /\ freelist' = Without(freelist, s)

MorePlanned == Cardinality({g \in GATE : IsGateScheduled(g)})
                 + Cardinality(UNION {{s} \X DOMAIN pc[s] : s \in SCB}) < MaxPlanned

(* BuildSCB takes the first of the free list, whoever still names it.      *)
Built == Head(freelist)
Taken == \E i \in Instance : DELAYSCB[i] = Built

-----------------------------------------------------------------------------
(* tf_isetlongdelay, called by a process or by a misctf.                   *)
Chained(s, delay) ==
  LET chain == pc[s]
  IN InTime(chain, [k \in DOMAIN chain |-> chain[k].time], delay, delay.time)
IsExecuting(s) == readylist # <<>> /\ s = Head(readylist) /\ reactivated # <<>>

Reschedules_Never(s, new) == FALSE
Reschedules(s, new) == new /\ ~IsExecuting(s)

SetLongDelay(i, d) ==
  LET newTime == ADDTIME6464(CurrentTime, d)
      delay   == [node |-> i, time |-> newTime]
      s       == IF DELAYSCB[i] # NULL THEN DELAYSCB[i] ELSE Built
      chain   == IF DELAYSCB[i] # NULL THEN Chained(s, delay) ELSE <<delay>>
      first   == DELAYSCB[i] = NULL \/ Cardinality(NotLater([k \in DOMAIN pc[s] |-> pc[s][k].time], newTime)) = 0
  IN /\ ~fault /\ Value(CurrentTime) + Value(d) <= MaxTime
     /\ MorePlanned
     /\ DELAYSCB[i] = NULL => freelist # <<>>
     /\ pc' = [pc EXCEPT ![s] = chain]
     /\ DELAYSCB' = [DELAYSCB EXCEPT ![i] = s]
     /\ due' = [due EXCEPT ![i][newTime] = @ + 1]
     /\ fault' = (DELAYSCB[i] = NULL /\ Taken)
     /\ IF Reschedules(s, first) THEN Schedule64(s, newTime)
        ELSE UNCHANGED <<readylist, timelist, freelist, time>>
     /\ UNCHANGED <<vars, reactivated>>

(* tf_iclearalldelays frees the chain and the SCB, which the instance goes *)
(* on to name.  In its own reactivation it frees the SCB that executes.    *)
ClearAllDelays(i) ==
  LET s == DELAYSCB[i]
  IN /\ ~fault /\ s # NULL
     /\ pc' = [pc EXCEPT ![s] = <<>>] /\ time' = [time EXCEPT ![s] = Zero]
     /\ due' = [due EXCEPT ![i] = [t \in Within |-> 0]]
     /\ readylist' = Without(readylist, s) /\ timelist' = Without(timelist, s)
     /\ freelist' = <<s>> \o Without(freelist, s)
     /\ fault' = IsExecuting(s)
     /\ UNCHANGED <<vars, DELAYSCB, reactivated>>

(* A process executes a delayed nonblocking assignment, with an SCB from   *)
(* the same free list.                                                     *)
AssignNonblocking(d) ==
  LET t == ADDTIME6464(CurrentTime, d)
  IN /\ ~fault /\ reactivated = <<>> /\ freelist # <<>> /\ MorePlanned
     /\ Value(CurrentTime) + Value(d) <= MaxTime
     /\ pc' = [pc EXCEPT ![Built] = <<[node |-> STORE, time |-> t]>>]
     /\ fault' = Taken
     /\ Schedule64(Built, t)
     /\ UNCHANGED <<vars, pli>>

-----------------------------------------------------------------------------
(* exec_ and dispatcher.                                                   *)
Executes == ~fault /\ readylist # <<>> /\ reactivated = <<>>

(* The statement is done: its SCB goes to the free list.                   *)
EndNonblocking ==
  LET s == Head(readylist)
  IN /\ Executes /\ pc[s][1].node = STORE
     /\ pc' = [pc EXCEPT ![s] = <<>>] /\ time' = [time EXCEPT ![s] = Zero]
     /\ readylist' = Tail(readylist) /\ freelist' = <<s>> \o freelist
     /\ UNCHANGED <<vars, timelist, pli, fault>>

(* The PLI_DELAY case: the misctf is called with reason_reactivate.        *)
Reactivate ==
  LET s == Head(readylist)
      delay == Head(pc[s])
  IN /\ Executes /\ delay.node # STORE
     /\ pc' = [pc EXCEPT ![s] = Tail(@)]
     /\ reactivated' = <<delay>>
     /\ due' = [due EXCEPT ![delay.node][delay.time] = @ - 1]
     /\ UNCHANGED <<vars, readylist, timelist, freelist, time, DELAYSCB, fault>>

(* It returns.  After the last delay of the chain the instance goes on to  *)
(* name the SCB: the field that is set to NULL is another one (of a user   *)
(* task it is its work area, of a user function that of its value).        *)
EndReactivate ==
  LET s == Head(readylist)
  IN /\ ~fault /\ reactivated # <<>>
     /\ reactivated' = <<>>
     /\ readylist' = Tail(readylist)
     /\ IF pc[s] = <<>>
          THEN /\ freelist' = <<s>> \o freelist /\ time' = [time EXCEPT ![s] = Zero]
               /\ UNCHANGED timelist
          ELSE /\ time' = [time EXCEPT ![s] = Head(pc[s]).time]
               /\ timelist' = Waiting(s, Head(pc[s]).time)
               /\ UNCHANGED freelist
     /\ UNCHANGED <<vars, pc, DELAYSCB, due, fault>>

(* The time list's entries of the present become ready.                    *)
Present(s) == CMPTIME64(time[s], CurrentTime) = 0
Idle == ~fault /\ readylist = <<>> /\ reactivated = <<>>

HowMany == CHOOSE n \in 0..Len(timelist) :
             /\ \A k \in 1..n : Present(timelist[k])
             /\ n < Len(timelist) => ~Present(timelist[n + 1])
MoveNow ==
  /\ Idle /\ ~IsGateReady /\ timelist # <<>> /\ Present(Head(timelist))
  /\ readylist' = SubSeq(timelist, 1, HowMany)
  /\ timelist' = SubSeq(timelist, HowMany + 1, Len(timelist))
  /\ UNCHANGED <<vars, freelist, pc, time, pli, fault>>

FireGate == Idle /\ RemoveNextReadyGate /\ UNCHANGED <<scbs, pli, fault>>

PlanGate(g, d) ==
  /\ ~fault /\ (IsGateScheduled(g) \/ MorePlanned)
  /\ ScheduleGate(g, d)
  /\ UNCHANGED <<scbs, pli, fault>>

PliAdvance ==
  /\ Idle /\ timelist # <<>>
  /\ AdvanceTime(time[Head(timelist)])
  /\ UNCHANGED <<scbs, pli, fault>>

(* tf_getnextlongtime, in a read-only synchronization.                     *)
GateIsNext_Always == PeekGate # NULL
GateIsNext ==
  /\ PeekGate # NULL
  /\ ~(timelist # <<>> /\ CMPTIME64(timeIndex[GATE_TIMEQ[PeekGate]], time[Head(timelist)]) > 0)
NextLongTime == IF GateIsNext THEN timeIndex[GATE_TIMEQ[PeekGate]]
                ELSE IF timelist # <<>> THEN time[Head(timelist)] ELSE Zero

PliNext ==
  \/ \E i \in Instance, d \in LONGDELAYS : SetLongDelay(i, d)
  \/ \E i \in Instance : ClearAllDelays(i)
  \/ \E d \in LONGDELAYS : AssignNonblocking(d)
  \/ EndNonblocking \/ Reactivate \/ EndReactivate
  \/ MoveNow \/ FireGate \/ PliAdvance
  \/ \E g \in GATE, d \in DELAYS : PlanGate(g, d)

PliSpec == PliInit /\ [][PliNext]_pvars
-----------------------------------------------------------------------------
(* The types.                                                              *)
PliTypeOK ==
  /\ \A list \in {readylist, timelist, freelist} : list \in Seq(SCB)
  /\ \A s \in SCB : /\ pc[s] \in Seq([node : Instance \cup {STORE}, time : Within])
                    /\ time[s] \in Within
  /\ DELAYSCB \in [Instance -> SCB \cup {NULL}]
  /\ due \in [Instance -> [Within -> Nat]] /\ fault \in BOOLEAN

(* Every delay that was set and not cleared is in a chain that is in time  *)
(* order, at an SCB that waits for its first, in its place: each will be   *)
(* reactivated, once and in its time, until an SCB is taken from who uses  *)
(* it.                                                                     *)
Chain(i) == IF DELAYSCB[i] \in Range(timelist \o readylist) THEN pc[DELAYSCB[i]] ELSE <<>>
DelaysKept ==
  /\ PliTypeOK
  /\ ~fault =>
       /\ \A i \in Instance : LET chain == Chain(i) IN
            /\ \A t \in Within : due[i][t] = Cardinality({k \in DOMAIN chain : chain[k] = [node |-> i, time |-> t]})
            /\ \A k \in 2..Len(chain) : CMPTIME64(chain[k - 1].time, chain[k].time) <= 0
       /\ \A s \in Range(timelist) : time[s] = pc[s][1].time
       /\ \A k \in DOMAIN timelist :
            CMPTIME64(time[timelist[k]], IF k = 1 THEN CurrentTime ELSE time[timelist[k - 1]]) >= 0
       /\ \A k \in DOMAIN readylist : ~IsExecuting(readylist[k]) => pc[readylist[k]][1].time = CurrentTime

(* In a read-only synchronization a user task is told the time to which    *)
(* the simulation goes next, be it that of a gate or of the time list.     *)
NextTimeIsTold == [][CurrentTime' # CurrentTime => CurrentTime' = NextLongTime]_pvars
=============================================================================
