------------------------------- MODULE Strobe -------------------------------
(***************************************************************************)
(* The strobe queues of strobe.cc and the system tasks that use them       *)
(* (exec_systask, monitor_args, NotifyEvent, tf_synchronize).  Two linked  *)
(* queues, idle for [i]synchronize and final for $strobe, $monitor and     *)
(* rosynchronize, share one free list of nodes.  The dispatcher runs a     *)
(* pass over a queue with check_strobe, which frees a node before it       *)
(* executes its statement, so that the node can be used again meanwhile.   *)
(***************************************************************************)
EXTENDS Integers, SequencesExt

CONSTANTS STROBE,       \* $strobe statements
          MONITOR,      \* $monitor statements
          INSTANCE_PLI, \* user tasks and functions
          NODE,         \* bound: the sched_strobe_t that xmalloc can return
          NULL,
          MaxQueue      \* bound: nodes on one queue

PC == STROBE \cup MONITOR \cup INSTANCE_PLI
Queue == {"idle", "final"}

ASSUME StrobeAssumption ==
  /\ NULL \notin NODE \cup PC \cup Queue
  /\ STROBE \cap (MONITOR \cup INSTANCE_PLI) = {} /\ MONITOR \cap INSTANCE_PLI = {}
  /\ MaxQueue \in Nat /\ IsFiniteSet(NODE)

VARIABLES
  mem,              \* the nodes: [free, pc, next, allocated, head, tail]
  fence,            \* of each queue
  active_strobe,
  s,                \* check_strobe's local: the node it executes
  executing,        \* the statement that exec_systask executes, one at most
  pass,             \* the queue check_strobe works on, or NULL
  monitor_info      \* [enable, node]

vars == <<mem, fence, active_strobe, s, executing, pass, monitor_info>>

(* init_strobe and init_systask_1.                                         *)
Init ==
  /\ mem = [ free |-> NULL, allocated |-> {},
             pc |-> [n \in NODE |-> NULL], next |-> [n \in NODE |-> NULL],
             head |-> [w \in Queue |-> NULL], tail |-> [w \in Queue |-> NULL] ]
  /\ fence = [w \in Queue |-> NULL]
  /\ active_strobe = NULL /\ s = NULL /\ executing = <<>> /\ pass = NULL
  /\ monitor_info = [enable |-> TRUE, node |-> NULL]

-----------------------------------------------------------------------------
(* The nodes from n on.                                                    *)
Chain(m, n) ==
  LET size == Cardinality(NODE)
      at[k \in 1..size] == IF k = 1 THEN n
                           ELSE LET p == at[k - 1] IN IF p = NULL THEN NULL ELSE m.next[p]
  IN [k \in 1..Cardinality({k \in 1..size : at[k] # NULL}) |-> at[k]]

Nodes(m, w) == Chain(m, m.head[w])
OnQueue(m, w, p) == \E n \in Range(Nodes(m, w)) : m.pc[n] = p

CanEnqueue(m, w) == /\ m.free # NULL \/ m.allocated # NODE
                    /\ Len(Nodes(m, w)) < MaxQueue
enqueue_strobe(m, w, p) ==
  LET n == IF m.free # NULL THEN m.free ELSE CHOOSE n \in NODE \ m.allocated : TRUE
      last == m.tail[w]
      u == [m EXCEPT !.free = IF @ = NULL THEN NULL ELSE m.next[n],
                     !.allocated = @ \cup {n},
                     !.pc[n] = p, !.next[n] = NULL, !.tail[w] = n]
  IN IF last = NULL THEN [u EXCEPT !.head[w] = n] ELSE [u EXCEPT !.next[last] = n]

(* tickle_monitor and tickle_monitor_old: not if it is queued already.     *)
tickle_monitor(m, w, p) == IF OnQueue(m, w, p) THEN m ELSE enqueue_strobe(m, w, p)

PositionOf(list, n) == CHOOSE k \in DOMAIN list : list[k] = n
remove_strobe(m, w, n) ==
  LET list == Nodes(m, w)
      i == PositionOf(list, n)
      freed == [m EXCEPT !.next[n] = m.free, !.free = n]
  IN IF n \notin Range(list) THEN m
     ELSE IF i = 1
       THEN [freed EXCEPT !.head[w] = m.next[n],
                          !.tail[w] = IF m.next[n] = NULL THEN NULL ELSE @]
     ELSE [freed EXCEPT !.next[list[i - 1]] = m.next[n],
                        !.tail[w] = IF @ = n THEN list[i - 1] ELSE @]

(* dequeue_strobe: the walk goes on from the node it has removed, which is *)
(* the first of the free list by then, and removes nothing there.          *)
dequeue_strobe_Never(m, w, p) == m
dequeue_strobe(m, w, p) ==
  LET found == {n \in Range(Nodes(m, w)) : m.pc[n] = p}
      list == Nodes(m, w)
  IN IF found = {} THEN m
     ELSE remove_strobe(m, w, list[Min({k \in DOMAIN list : list[k] \in found})])

is_strobe_active(p) == active_strobe # NULL /\ mem.pc[active_strobe] = p

-----------------------------------------------------------------------------
(* Statements of processes, which run between passes.                      *)
Running == pass = NULL
Executing == \E p \in PC : executing = <<p>>
Keep == UNCHANGED <<fence, active_strobe, s, executing, pass>>

(* $strobe, when it is not the active strobe.                              *)
StrobeTask(p) ==
  /\ Running /\ ~is_strobe_active(p) /\ CanEnqueue(mem, "final")
  /\ mem' = enqueue_strobe(mem, "final", p)
  /\ Keep /\ UNCHANGED monitor_info

(* $monitor: monitor_args takes the previous monitor off the queue and     *)
(* puts the new one on, enabled or not.                                    *)
MonitorTask(p) ==
  LET m == IF monitor_info.node = NULL THEN mem ELSE dequeue_strobe(mem, "final", monitor_info.node)
  IN /\ Running /\ ~is_strobe_active(p) /\ CanEnqueue(m, "final")
     /\ mem' = enqueue_strobe(m, "final", p)
     /\ monitor_info' = [monitor_info EXCEPT !.node = p]
     /\ Keep

MonitorOff ==
  /\ Running
  /\ monitor_info' = [monitor_info EXCEPT !.enable = FALSE]
  /\ mem' = dequeue_strobe(mem, "final", monitor_info.node)
  /\ Keep

MonitorOn ==
  /\ Running /\ CanEnqueue(mem, "final")
  /\ monitor_info' = [monitor_info EXCEPT !.enable = TRUE]
  /\ mem' = tickle_monitor(mem, "final", monitor_info.node)
  /\ Keep

(* A store by a process, or by a user task in the idle pass, to an         *)
(* argument of the monitor: NotifyEvent finds its M_STROBE marker.         *)
Change ==
  /\ monitor_info.node # NULL /\ monitor_info.enable
  /\ Running \/ (pass = "idle" /\ Executing)
  /\ CanEnqueue(mem, "final")
  /\ mem' = tickle_monitor(mem, "final", monitor_info.node)
  /\ Keep /\ UNCHANGED monitor_info

(* tf_[i]synchronize and tf_[i]rosynchronize, by a process or by what a    *)
(* pass executes.                                                          *)
Synchronize(w, p) ==
  /\ Running \/ Executing
  /\ CanEnqueue(mem, w)
  /\ mem' = tickle_monitor(mem, w, p)
  /\ Keep /\ UNCHANGED monitor_info

-----------------------------------------------------------------------------
(* check_strobe                                                            *)
Fence_Head(w) == mem.head[w]
Fence(w) == mem.tail[w]

(* Dispatcher runs the final queue only when the idle queue is empty.      *)
BeginPass(w) ==
  /\ Running
  /\ w = "final" => mem.head["idle"] = NULL
  /\ fence' = [fence EXCEPT ![w] = Fence(w)]
  /\ pass' = IF mem.head[w] = NULL THEN NULL ELSE w
  /\ UNCHANGED <<mem, active_strobe, s, executing, monitor_info>>

RunStrobe ==
  /\ pass # NULL /\ executing = <<>>
  /\ LET n == mem.head[pass]
     IN /\ s' = n /\ active_strobe' = n
        /\ executing' = <<mem.pc[n]>>
        /\ mem' = remove_strobe(mem, pass, n)
  /\ UNCHANGED <<fence, pass, monitor_info>>

(* exec_systask returns; the pass ends behind the fence.  exec_systask of  *)
(* a null statement does not return.                                       *)
AtFence == s = fence[pass]
Unfenced_Never(w) == fence
Unfenced(w) == [fence EXCEPT ![w] = NULL]
StrobeDone ==
  /\ Executing
  /\ executing' = <<>> /\ active_strobe' = NULL /\ s' = NULL
  /\ IF AtFence \/ mem.head[pass] = NULL
       THEN pass' = NULL /\ fence' = Unfenced(pass)
       ELSE UNCHANGED <<pass, fence>>
  /\ UNCHANGED <<mem, monitor_info>>

Crashed == executing = <<NULL>> /\ UNCHANGED vars

Next ==
  \/ \E p \in STROBE : StrobeTask(p)
  \/ \E p \in MONITOR : MonitorTask(p)
  \/ MonitorOff \/ MonitorOn \/ Change
  \/ \E w \in Queue, p \in INSTANCE_PLI : Synchronize(w, p)
  \/ \E w \in Queue : BeginPass(w)
  \/ RunStrobe \/ StrobeDone \/ Crashed

Spec == Init /\ [][Next]_vars
-----------------------------------------------------------------------------
(* The type of every variable; a queue has a fence only during its pass.   *)
TypeOK ==
  /\ mem \in [ free : NODE \cup {NULL}, allocated : SUBSET NODE,
               pc : [NODE -> PC \cup {NULL}], next : [NODE -> NODE \cup {NULL}],
               head : [Queue -> NODE \cup {NULL}], tail : [Queue -> NODE \cup {NULL}] ]
  /\ fence \in [Queue -> NODE \cup {NULL}] /\ \A w \in Queue : fence[w] # NULL => pass = w
  /\ active_strobe \in NODE \cup {NULL} /\ s \in NODE \cup {NULL}
  /\ pass \in Queue \cup {NULL}
  /\ Len(executing) <= 1 /\ Range(executing) \subseteq PC \cup {NULL}
  /\ monitor_info \in [enable : BOOLEAN, node : MONITOR \cup {NULL}]

(* Each node that was allocated is on exactly one of the queues and the    *)
(* free list, and tail is the last of its queue: no node is lost, none is  *)
(* queued while it is free.                                                *)
NodesOnce ==
  LET idle == Nodes(mem, "idle")
      final == Nodes(mem, "final")
      free == Chain(mem, mem.free)
      all == idle \o final \o free
  IN /\ Range(all) = mem.allocated /\ Len(all) = Cardinality(mem.allocated)
     /\ mem.tail["idle"] = IF idle = <<>> THEN NULL ELSE Last(idle)
     /\ mem.tail["final"] = IF final = <<>> THEN NULL ELSE Last(final)

(* Only the monitor that was set last is queued, once: "Only one $monitor  *)
(* allow[ed] at on[e] time", although every change tickles it.             *)
OneMonitor ==
  \A i, j \in DOMAIN Nodes(mem, "final") :
    LET p == mem.pc[Nodes(mem, "final")[i]]
        r == mem.pc[Nodes(mem, "final")[j]]
    IN /\ p \in MONITOR => p = monitor_info.node
       /\ p \in MONITOR /\ p = r => i = j

(* Nodes are where the queues, the free list and the monitor say they are. *)
QueuesSound == TypeOK /\ NodesOnce /\ OneMonitor

(* The queues implement the passes: a pass runs what was queued when it    *)
(* began, in order, whatever its statements queue meanwhile.               *)
waiting == [w \in Queue |-> LET list == Nodes(mem, w)
                            IN [k \in DOMAIN list |-> mem.pc[list[k]]]]
left == IF pass = NULL \/ s = fence[pass] THEN 0
        ELSE LET list == Nodes(mem, pass)
             IN Max({0} \cup {k \in DOMAIN list : list[k] = fence[pass]})

Passes == INSTANCE StrobePasses WITH PC <- PC \cup {NULL}
NextPass == Passes!Spec
=============================================================================
