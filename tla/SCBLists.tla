------------------------------ MODULE SCBLists ------------------------------
(***************************************************************************)
(* The linked lists of schedule.cc.  Every process, delayed continuous     *)
(* assignment, net and pending nonblocking assignment owns a scheduler     *)
(* control block (SCB); an SCB is threaded on one of the ready, time and   *)
(* net lists, or rests on the event list or the free list, whose order     *)
(* nothing reads.                                                          *)
(*                                                                         *)
(* A list state q is a record: q.on gives the three ordered lists, q.list  *)
(* is the tag the SCB carries (scb->list), q.time is scb->time, and the    *)
(* three "last" pointers are kept apart from the lists they point into, as *)
(* in the code, so that they can go stale.                                 *)
(***************************************************************************)
EXTENDS Integers, SequencesExt

CONSTANTS SCB,       \* the scheduler control blocks
          NULL       \* the null pointer

ASSUME NullIsNotSCB == NULL \notin SCB

Queue   == {"READY", "TIME", "NET"}
Resting == {"NOLIST", "EVENT", "FREE"}
Tag     == Queue \cup Resting

ListState ==
  [ on : [Queue -> Seq(SCB)],
    list : [SCB -> Tag],
    time : [SCB -> Nat],
    readylist_last : SCB \cup {NULL},
    netlist_last : SCB \cup {NULL},
    timelist_currentTail : SCB \cup {NULL} ]

Readylist(q) == q.on["READY"]
Timelist(q)  == q.on["TIME"]
Netlist(q)   == q.on["NET"]

PositionOf(seq, s) == CHOOSE i \in DOMAIN seq : seq[i] = s
Unlink(seq, s) == IF s \in Range(seq) THEN RemoveAt(seq, PositionOf(seq, s)) ELSE seq

LastOf(seq) == IF seq = <<>> THEN NULL ELSE seq[Len(seq)]

(* The entry a walk from the head of the time list reaches while the next  *)
(* entry has the same time: the last of the leading same-time group.       *)
GroupEnd_Last(tl, time) == LastOf(tl)
GroupEnd(tl, time) ==
  IF tl = <<>> THEN NULL
  ELSE tl[Min({k \in 1..Len(tl) : k = Len(tl) \/ time[tl[k]] # time[tl[k + 1]]})]

-----------------------------------------------------------------------------
(* REMOVE_LIST_SCB: unlink s from wherever it is threaded; the pointers    *)
(* that are repaired depend on the tag, not on the list.                   *)
ReadyLast_Stale(q, s, left) == q.readylist_last
ReadyLast(q, s, left) ==
  IF q.list[s] = "READY" /\ q.readylist_last = s THEN LastOf(left) ELSE q.readylist_last

RemoveSCB(q, s) ==
  LET on == [l \in Queue |-> Unlink(q.on[l], s)]
  IN [q EXCEPT
        !.on = on,
        !.readylist_last = ReadyLast(q, s, on["READY"]),
        !.timelist_currentTail =
           IF q.list[s] = "TIME" /\ @ = s THEN GroupEnd(on["TIME"], q.time) ELSE @]

(* ADD_LIST_SCB: does s, threaded on the time list, become currentTail?     *)
TakesTail(q, s) == q.timelist_currentTail = NULL
                   \/ q.time[q.timelist_currentTail] >= q.time[s]

(* ADD_LIST_SCB: thread s as the k-th entry of the list l, with a tag.     *)
AddSCB(q, tag, l, k, s) ==
  LET last == k > Len(q.on[l])
  IN [q EXCEPT
        !.on[l] = InsertAt(@, k, s),
        !.list[s] = tag,
        !.readylist_last = IF tag = "READY" /\ last THEN s ELSE @,
        !.timelist_currentTail =
           IF tag = "TIME" /\ TakesTail(q, s) THEN s ELSE @]

(* ADD_LIST_SCB(tag, &p->next, s): s follows p on the list that holds p.   *)
(* Behind a p that is on no list, s itself included, it is on none either. *)
AddAfter(q, tag, p, s) ==
  IF \E l \in Queue : p \in Range(q.on[l])
  THEN LET l == CHOOSE l \in Queue : p \in Range(q.on[l])
       IN AddSCB(q, tag, l, PositionOf(q.on[l], p) + 1, s)
  ELSE [q EXCEPT !.list[s] = tag]

(* Put s, already unlinked, on a list whose order is never read.           *)
Rest(q, tag, s) == [q EXCEPT !.list[s] = tag]

(* The end of the ready list as LAST_SCB(READY_LIST) finds it.             *)
AppendReady(q, s) ==
  IF q.readylist_last = NULL
    THEN AddSCB(q, "READY", "READY", 1, s)
    ELSE AddAfter(q, "READY", q.readylist_last, s)

-----------------------------------------------------------------------------
(* Where the walk along a nonempty time list puts an entry for time t:     *)
(* after the entries of the same time, or before them when it prepends --  *)
(* but the walk starts at the head, so never before the head.              *)
StopsAt(q, t, prepend) ==
  LET tl == Timelist(q)
  IN {k \in 1..Len(tl) :
        k = Len(tl) \/ IF prepend THEN t <= q.time[tl[k + 1]] ELSE t < q.time[tl[k + 1]]}
WalkPast_Short(q, t, prepend) == Min(StopsAt(q, t, prepend))
WalkPast(q, t, prepend) == Min(StopsAt(q, t, prepend)) + 1

BeforeAll_Equal(q, t) == Timelist(q) = <<>> \/ t <= q.time[Timelist(q)[1]]
BeforeAll(q, t) == Timelist(q) = <<>> \/ t < q.time[Timelist(q)[1]]

(* dispatcher(TIME_LIST): s keeps its time and always walks.               *)
PutOnTimelist(q, s) ==
  IF BeforeAll(q, q.time[s])
    THEN AddSCB(q, "TIME", "TIME", 1, s)
    ELSE AddSCB(q, "TIME", "TIME", WalkPast(q, q.time[s], FALSE), s)

(* Schedule and ScheduleDelta64: the time is overwritten before s is       *)
(* unlinked; an append to the time of timelist_currentTail skips the walk. *)
Schedule(q, t, s, prepend) ==
  LET u == RemoveSCB([q EXCEPT !.time[s] = t], s)
  IN IF BeforeAll(u, t)
       THEN AddSCB(u, "TIME", "TIME", 1, s)
     ELSE IF ~prepend /\ u.time[u.timelist_currentTail] = t
       THEN AddAfter(u, "TIME", u.timelist_currentTail, s)
     ELSE AddSCB(u, "TIME", "TIME", WalkPast(u, t, prepend), s)

(* The zero-delay branch of ScheduleNet.                                   *)
LinkNet(q, s) ==
  LET u == RemoveSCB(q, s)
      v == IF Netlist(u) # <<>>
             THEN AddAfter(u, "NET", u.netlist_last, s)
             ELSE AddSCB(u, "NET", "NET", 1, s)
  IN [v EXCEPT !.netlist_last = s]
AppendNet_OldTime(q, now, s)  == LinkNet(q, s)
AppendNet(q, now, s) == [LinkNet(q, s) EXCEPT !.time[s] = now]

(* One iteration of the loop that drains the net list.                     *)
NetToReady(q) ==
  LET s == Netlist(q)[1]
      u == RemoveSCB(q, s)
      v == [u EXCEPT !.netlist_last = IF Netlist(u) = <<>> THEN NULL ELSE @]
  IN AppendReady(v, s)

(* One iteration of the loops that move the head of the time list.         *)
TimeToReady(q) == AppendReady(RemoveSCB(q, Timelist(q)[1]), Timelist(q)[1])

-----------------------------------------------------------------------------
(* Every SCB is threaded exactly once, on the list its tag names.          *)
OneListEach(q) ==
  /\ \A l \in Queue : \A i \in 1..Len(q.on[l]) : q.list[q.on[l][i]] = l
  /\ \A s \in SCB : q.list[s] \in Queue => \E i \in 1..Len(q.on[q.list[s]]) : q.on[q.list[s]][i] = s
  /\ \A l \in Queue : \A i, j \in 1..Len(q.on[l]) : q.on[l][i] = q.on[l][j] => i = j

(* The time list is in the order of its times.                             *)
Sorted(q) ==
  \A i \in 1..Len(Timelist(q)) : \A j \in i..Len(Timelist(q)) :
     q.time[Timelist(q)[i]] <= q.time[Timelist(q)[j]]

=============================================================================
