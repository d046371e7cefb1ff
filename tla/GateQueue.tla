------------------------------ MODULE GateQueue ------------------------------
(***************************************************************************)
(* The gate scheduler of nsched.cc: a circular list of time nodes in time  *)
(* order, each with a circular list of the gates that fire at its time,    *)
(* and a free list of nodes.  Schedule, remove and fire are modelled       *)
(* pointer by pointer; the rest of the simulator schedules gates at any    *)
(* moment and moves the time when no gate is ready.                        *)
(***************************************************************************)
EXTENDS Times, SequencesExt

CONSTANTS GATE, Simple, DELAYS, MaxTime,   \* as in GateAgenda
          NODE,         \* bound: the timeq_t that xmalloc can return
          NULL

ASSUME QueueAssumption ==
  /\ IsFiniteSet(GATE) /\ IsFiniteSet(NODE)
  /\ Simple \subseteq GATE /\ DELAYS \subseteq Word /\ MaxTime \in 0..W * W - 1
  /\ NULL \notin GATE /\ NULL \notin NODE

VARIABLES
  CurrentTime,
  gateList,         \* the node of the earliest time, or NULL
  nodeFreeList,     \* threaded through next
  next, prev, timeIndex, gate,          \* the fields of a node
  GATE_NEXT, GATE_PREV, GATE_TIMEQ,     \* the fields of a gate
  allocated         \* the nodes that xmalloc has returned

nodes == <<next, prev, timeIndex, gate>>
rings == <<GATE_NEXT, GATE_PREV, GATE_TIMEQ>>
Within == {t \in Time64 : Value(t) <= MaxTime}
vars  == <<CurrentTime, gateList, nodeFreeList, nodes, rings, allocated>>

(* InitNSched; the fields of nodes and of unscheduled gates are unset.     *)
Init ==
  /\ CurrentTime = Zero
  /\ gateList = NULL /\ nodeFreeList = NULL
  /\ next = [n \in NODE |-> NULL] /\ prev = next
  /\ timeIndex = [n \in NODE |-> Zero] /\ gate = [n \in NODE |-> NULL]
  /\ GATE_NEXT = [g \in GATE |-> NULL] /\ GATE_PREV = GATE_NEXT
  /\ GATE_TIMEQ = [g \in GATE |-> NULL]
  /\ allocated = {}

IsGateScheduled(g) == GATE_TIMEQ[g] # NULL
PeekGate    == IF gateList = NULL THEN NULL ELSE gate[gateList]
IsGateReady == gateList # NULL /\ CMPTIME64(timeIndex[GATE_TIMEQ[PeekGate]], CurrentTime) = 0

(* The entries that a pointer p, followed from first, visits until it is   *)
(* back at first.                                                          *)
Circle(p, first) ==
  LET size == Cardinality(DOMAIN p)
      at[k \in 0..size] == IF k = 0 THEN first ELSE p[at[k - 1]]
      back == {k \in 1..size : at[k] = first}
  IN [i \in 1..Min(back \cup {size}) |-> at[i - 1]]

NodeList == IF gateList = NULL THEN <<>> ELSE Circle(next, gateList)

-----------------------------------------------------------------------------
(* The pointers, as functions of the pointers, since ScheduleGate removes  *)
(* the gate before it inserts it: h is a record of all of them.            *)
Heap == [ gateList |-> gateList, nodeFreeList |-> nodeFreeList, next |-> next, prev |-> prev,
          timeIndex |-> timeIndex, gate |-> gate, GATE_NEXT |-> GATE_NEXT,
          GATE_PREV |-> GATE_PREV, GATE_TIMEQ |-> GATE_TIMEQ, allocated |-> allocated ]

Becomes(h) ==
  /\ gateList' = h.gateList /\ nodeFreeList' = h.nodeFreeList
  /\ next' = h.next /\ prev' = h.prev /\ timeIndex' = h.timeIndex /\ gate' = h.gate
  /\ GATE_NEXT' = h.GATE_NEXT /\ GATE_PREV' = h.GATE_PREV /\ GATE_TIMEQ' = h.GATE_TIMEQ
  /\ allocated' = h.allocated

(* What the code leaves behind in a gate or a node that is on no list is   *)
(* never read: it is unset here, so that a read of it would show.          *)
UnsetGate(h, g) == [h EXCEPT !.GATE_TIMEQ[g] = NULL, !.GATE_NEXT[g] = NULL, !.GATE_PREV[g] = NULL]
UnsetNode(h, n) == [h EXCEPT !.gate[n] = NULL, !.timeIndex[n] = Zero, !.next[n] = NULL, !.prev[n] = NULL]

(* Unlink the gate only; the node may have pointed to it.                  *)
LeaveRing_KeepFirst(h, g, n) ==
  [h EXCEPT !.GATE_NEXT[h.GATE_PREV[g]] = h.GATE_NEXT[g],
            !.GATE_PREV[h.GATE_NEXT[g]] = h.GATE_PREV[g]]
LeaveRing(h, g, n) ==
  [h EXCEPT !.gate[n] = IF @ = g THEN h.GATE_NEXT[g] ELSE @,
            !.GATE_NEXT[h.GATE_PREV[g]] = h.GATE_NEXT[g],
            !.GATE_PREV[h.GATE_NEXT[g]] = h.GATE_PREV[g]]

(* Unlink a node; it does not go to the free list.                         *)
LeaveList(h, n) ==
  [h EXCEPT !.gateList = IF @ = n THEN h.next[n] ELSE @,
            !.prev[h.next[n]] = h.prev[n],
            !.next[h.prev[n]] = h.next[n]]

RemoveGate(h, g) ==
  LET n == h.GATE_TIMEQ[g]
  IN UnsetGate(
       IF h.GATE_NEXT[g] # g THEN LeaveRing(h, g, n)
       ELSE IF h.next[n] # n THEN UnsetNode(LeaveList(h, n), n)
       ELSE [UnsetNode(h, n) EXCEPT !.gateList = NULL,
                                    !.next[n] = h.nodeFreeList, !.nodeFreeList = n], g)

(* A node from the free list, or from xmalloc, that holds g alone.         *)
CanAllocate(h) == h.nodeFreeList # NULL \/ h.allocated # NODE
NewNode(h) == IF h.nodeFreeList # NULL THEN h.nodeFreeList
              ELSE CHOOSE n \in NODE \ h.allocated : TRUE
TakeNode(h, g, t) ==
  LET n == NewNode(h)
  IN [h EXCEPT !.nodeFreeList = IF @ = NULL THEN NULL ELSE h.next[n],
               !.allocated = @ \cup {n},
               !.gate[n] = g, !.timeIndex[n] = t,
               !.GATE_NEXT[g] = g, !.GATE_PREV[g] = g, !.GATE_TIMEQ[g] = n]

(* Link the taken node before the node m.                                  *)
LinkBefore(h, n, m) ==
  [h EXCEPT !.next[n] = m, !.prev[n] = h.prev[m],
            !.next[h.prev[m]] = n, !.prev[m] = n]

(* Add g to the ring of a node, behind all others.                         *)
JoinRing_First(h, g, n) ==
  LET first == h.gate[n]
  IN [h EXCEPT !.GATE_NEXT[g] = first, !.GATE_PREV[g] = h.GATE_PREV[first],
               !.GATE_NEXT[h.GATE_PREV[first]] = g, !.GATE_PREV[first] = g,
               !.GATE_TIMEQ[g] = n, !.gate[n] = g]
JoinRing(h, g, n) ==
  LET first == h.gate[n]
  IN [h EXCEPT !.GATE_NEXT[g] = first, !.GATE_PREV[g] = h.GATE_PREV[first],
               !.GATE_NEXT[h.GATE_PREV[first]] = g, !.GATE_PREV[first] = g,
               !.GATE_TIMEQ[g] = n]

(* The walk from gateList stops at the first node that is not earlier.     *)
Insert(h, g, t) ==
  LET list == Circle(h.next, h.gateList)
      later == {i \in 1..Len(list) : CMPTIME64(t, h.timeIndex[list[i]]) <= 0}
      n == NewNode(h)
      u == TakeNode(h, g, t)
  IN IF h.gateList = NULL
       THEN [u EXCEPT !.next[n] = n, !.prev[n] = n, !.gateList = n]
     ELSE IF later = {}
       THEN LinkBefore(u, n, h.gateList)
     ELSE LET m == list[Min(later)]
          IN IF CMPTIME64(t, h.timeIndex[m]) = 0 THEN JoinRing(h, g, m)
             ELSE [LinkBefore(u, n, m) EXCEPT !.gateList = IF @ = m THEN n ELSE @]

(* "this is a hack to attempt to match Cadence (also, reschedule if new    *)
(* input before delay is up": not for UDPs without a path, nor for not and *)
(* buf with several outputs.                                               *)
KeepsPlace(g, t) == IsGateScheduled(g) /\ CMPTIME64(timeIndex[GATE_TIMEQ[g]], t) = 0 /\ g \in Simple

ScheduleGate(g, d) ==
  LET t == ADDTIME6432(CurrentTime, d)
      h == IF IsGateScheduled(g) THEN RemoveGate(Heap, g) ELSE Heap
  IN /\ Value(CurrentTime) + d <= MaxTime /\ CanAllocate(h)
     /\ IF KeepsPlace(g, t) THEN UNCHANGED <<gateList, nodeFreeList, nodes, rings, allocated>>
        ELSE Becomes(Insert(h, g, t))
     /\ UNCHANGED CurrentTime

RemoveNextReadyGate ==
  /\ IsGateReady
  /\ Becomes(RemoveGate(Heap, PeekGate))
  /\ UNCHANGED CurrentTime

(* Dispatcher has nothing left at this time and t is the next time of the  *)
(* time list: GateConditionalAdvanceTime, else the time list.              *)
GateConditionalAdvanceTime_Late(t) == FALSE
GateConditionalAdvanceTime(t) == gateList # NULL /\ CMPTIME64(timeIndex[GATE_TIMEQ[PeekGate]], t) < 0
AdvanceTime(t) ==
  /\ CMPTIME64(t, CurrentTime) > 0 /\ ~IsGateReady
  /\ CurrentTime' = IF GateConditionalAdvanceTime(t) THEN timeIndex[GATE_TIMEQ[PeekGate]] ELSE t
  /\ UNCHANGED <<gateList, nodeFreeList, nodes, rings, allocated>>

Next == \/ RemoveNextReadyGate
        \/ \E g \in GATE, d \in DELAYS : ScheduleGate(g, d)
        \/ \E t \in Within : AdvanceTime(t)

Spec == Init /\ [][Next]_vars
-----------------------------------------------------------------------------
FreeNodes ==
  LET size == Cardinality(NODE)
      at[k \in 0..size] == IF k = 0 THEN nodeFreeList
                           ELSE LET n == at[k - 1] IN IF n = NULL THEN NULL ELSE next[n]
  IN {at[k] : k \in 0..size} \ {NULL}

(* Every pointer has its type, and gateList points to a node in use.       *)
TypeOK ==
  /\ CurrentTime \in Within
  /\ gateList \in NODE \cup {NULL} /\ (gateList # NULL => gate[gateList] # NULL)
  /\ nodeFreeList \in NODE \cup {NULL}
  /\ next \in [NODE -> NODE \cup {NULL}] /\ prev \in [NODE -> NODE \cup {NULL}]
  /\ timeIndex \in [NODE -> Within] /\ gate \in [NODE -> GATE \cup {NULL}]
  /\ GATE_NEXT \in [GATE -> GATE \cup {NULL}] /\ GATE_PREV \in [GATE -> GATE \cup {NULL}]
  /\ GATE_TIMEQ \in [GATE -> NODE \cup {NULL}]
  /\ allocated \subseteq NODE

(* The two levels of circular lists are closed in both directions: a gate  *)
(* that is scheduled is on the ring of its node, and its node on the list, *)
(* a node has a ring, and a free node is not on the list.                  *)
RingsClosed ==
  LET list == Range(NodeList)
      scheduled == {g \in GATE : IsGateScheduled(g)}
  IN /\ \A n \in list : prev[next[n]] = n /\ next[prev[n]] = n
     /\ \A n \in list : GATE_TIMEQ[gate[n]] = n
     /\ \A g \in scheduled :
          /\ GATE_TIMEQ[g] \in list /\ GATE_NEXT[g] \in scheduled
          /\ GATE_TIMEQ[GATE_NEXT[g]] = GATE_TIMEQ[g]
          /\ GATE_PREV[GATE_NEXT[g]] = g
          /\ g \in Range(Circle(GATE_NEXT, gate[GATE_TIMEQ[g]]))
     /\ FreeNodes \cap list = {}

(* The pointers are sound.                                                 *)
PointersSound == TypeOK /\ RingsClosed

(* The agenda that the pointers hold: from gate to gate on a ring, and from *)
(* the last of a ring to the first of the next node.                       *)
Following(g) == LET n == GATE_TIMEQ[g]
                IN IF GATE_NEXT[g] # gate[n] THEN GATE_NEXT[g] ELSE gate[next[n]]
agenda ==
  LET size == Cardinality({g \in GATE : IsGateScheduled(g)})
      at[k \in 1..size] == IF k = 1 THEN PeekGate ELSE Following(at[k - 1])
  IN [k \in 1..size |-> [gate |-> at[k], time |-> Value(timeIndex[GATE_TIMEQ[at[k]]])]]

Agenda == INSTANCE GateAgenda WITH CurrentTime <- Value(CurrentTime)

(* The pointers implement the agenda: gates fire in time order and, within *)
(* a time, in the order in which they were scheduled.                      *)
ImplementsAgenda == Agenda!Spec
=============================================================================
