------------------------------ MODULE Scheduler ------------------------------
(***************************************************************************)
(* The event scheduler of schedule.cc together with the statements of      *)
(* exec_ (exec.cc) that use it.  One thread runs everything: the SCB at    *)
(* the head of the ready list executes, its stores notify nets, delayed    *)
(* continuous assignments, gates and waiting processes, and when it waits  *)
(* or ends dispatcher() looks for the next thing to do, in the order       *)
(*   ready list, gates of now, net list, time list of now, idle strobes,   *)
(*   final strobes, and then the next point in time.                       *)
(* A strobe can store as a process can: its arguments may call functions,  *)
(* and a callback of the PLI may put values.                               *)
(*                                                                         *)
(* The design that is simulated is a parameter: which SCBs are processes,  *)
(* delayed continuous assignments and nets, which of these a net, an       *)
(* assignment or a gate feeds, and their delays.  A process may execute    *)
(* any sequence of statements.                                             *)
(***************************************************************************)
EXTENDS SCBLists

CONSTANTS Blocks,       \* SCBs of initial and always blocks, in source order
          NET,          \* SCBs of nets
          ASSIGN,       \* SCBs of continuous assignments that have a delay
          GATE,         \* primitive instances (queued by nsched.cc)
          MONITOR,      \* system tasks that queue themselves as strobes
          EVENT,        \* variables a process can wait on
          VALUE,        \* the values that select a rise or a fall delay
          NetDelay, AssignDelay,   \* eval_delay of a net, of an assignment
          Fanout,       \* what a store by a net, an assignment, a gate or a strobe reaches
          DELAYS,       \* the delays a process or a gate may use
          NONE,         \* the time of a gate that is not scheduled
          MaxTime,      \* bound: no delay reaches beyond this time
          MaxSteps      \* bound: stores and zero delays within one time step,
                        \* and in all once a final strobe was late

PROC == Range(Blocks)

ASSUME DesignAssumption ==
  /\ Blocks \in Seq(SCB)
  /\ \A i, j \in 1..Len(Blocks) : Blocks[i] = Blocks[j] => i = j
  /\ NET \subseteq SCB /\ ASSIGN \subseteq SCB
  /\ PROC \cap NET = {} /\ PROC \cap ASSIGN = {} /\ NET \cap ASSIGN = {}
  /\ NULL \notin GATE /\ NULL \notin MONITOR
  /\ SCB \cap GATE = {} /\ SCB \cap MONITOR = {} /\ GATE \cap MONITOR = {}
  /\ NetDelay \in [NET -> [VALUE -> Nat]]
  /\ AssignDelay \in [ASSIGN -> [VALUE -> Nat]]
  /\ Fanout \in [NET \cup ASSIGN \cup GATE \cup MONITOR -> SUBSET (NET \cup ASSIGN \cup GATE \cup EVENT)]
  /\ DELAYS \subseteq Nat
  /\ NONE \notin Nat
  /\ MaxTime \in Nat /\ MaxSteps \in Nat

VARIABLES
  q,            \* the lists
  CurrentTime,
  pc,           \* what an SCB does when it next runs
  phase,        \* where dispatcher() or exec_ is
  actor,        \* who is executing a store, if anybody
  retrigger,    \* the net that was notified while it executed
  new_time,     \* dispatcher's local: the time that is being moved to
  chain,        \* DECL_EVENT_CHAIN: the processes threaded on each variable
  walk,         \* NotifyEvent: the markers of the chain still to visit
  gateTime,     \* when each gate fires
  idle, final,  \* the strobe queues
  batch,        \* check_strobe: the strobes before the fence
  steps,        \* stores in this time step
  late          \* has a final strobe planned something for the time it shows?
                \* (no state of the program: what the properties allow for)

vars == <<q, CurrentTime, pc, phase, actor, retrigger, new_time, chain, walk,
          gateTime, idle, final, batch, steps, late>>

(* ADDTIME6432 and ADDTIME6464.                                            *)
After(d) == CurrentTime + d

strobes  == <<idle, final, batch>>
waiting  == <<chain, walk>>

Statement == {"run", "delay", "event", "net", "assign", "nba", "free"}
Phase     == {"go", "exec", "gates", "nets", "now1", "idle", "now2", "final",
              "advance", "move", "idleEnd", "finalEnd", "done", "fatal"}
FinalPass == {"final", "finalEnd"}

Times == 0..MaxTime

Init ==
  /\ q = [ on |-> [l \in Queue |-> IF l = "READY" THEN Blocks ELSE <<>>],
           list |-> [s \in SCB |-> IF s \in PROC THEN "READY"
                                   ELSE IF s \in NET \cup ASSIGN THEN "NOLIST" ELSE "FREE"],
           time |-> [s \in SCB |-> 0],
           readylist_last |-> LastOf(Blocks),
           netlist_last |-> NULL,
           timelist_currentTail |-> NULL ]
  /\ CurrentTime = 0
  /\ pc = [s \in SCB |-> IF s \in PROC THEN "run" ELSE IF s \in NET THEN "net"
                         ELSE IF s \in ASSIGN THEN "assign" ELSE "free"]
  /\ phase = "go"
  /\ actor = NULL /\ retrigger = NULL /\ new_time = 0
  /\ chain = [e \in EVENT |-> <<>>] /\ walk = <<>>
  /\ gateTime = [g \in GATE |-> NONE]
  /\ idle = {} /\ final = {} /\ batch = {}
  /\ steps = 0 /\ late = FALSE

-----------------------------------------------------------------------------
(* Stores: what a notification does, whoever executes the store.           *)

Storing == /\ actor # NULL /\ steps < MaxSteps
           /\ steps' = steps + 1

(* A final strobe that leaves something to do at the time it shows.        *)
LateIf(now) == late' = (late \/ (phase \in FinalPass /\ now))

Reaches(x) == actor \in DOMAIN Fanout => x \in Fanout[actor]

(* scb == readylist: the net is notified by its own store.                 *)
RunningNet_Never(n) == FALSE
RunningNet(n) == Readylist(q) # <<>> /\ Readylist(q)[1] = n

(* NotifyEvent finds an M_NET marker: ScheduleNet.                         *)
ScheduleNet(n, v) ==
  LET delay == NetDelay[n][v]
  IN /\ Storing /\ Reaches(n)
     /\ After(delay) <= MaxTime
     /\ retrigger' = IF delay = 0 /\ RunningNet(n) THEN n ELSE retrigger
     /\ q' = IF delay > 0 THEN Schedule(q, After(delay), n, FALSE)
             ELSE IF RunningNet(n) \/ q.list[n] = "NET" THEN q
             ELSE AppendNet(q, CurrentTime, n)
     /\ LateIf(delay = 0)
     /\ UNCHANGED <<CurrentTime, pc, phase, actor, new_time, waiting, gateTime, strobes>>

(* NotifyEvent finds the marker of a delayed continuous assignment, whose  *)
(* flags hold M_CONT: it is prepended to its time.                         *)
ScheduleAssign(a, v) ==
  LET t == After(AssignDelay[a][v])
  IN /\ Storing /\ Reaches(a)
     /\ t <= MaxTime
     /\ q' = Schedule(q, t, a, TRUE)
     /\ LateIf(t = CurrentTime)
     /\ UNCHANGED <<CurrentTime, pc, phase, actor, retrigger, new_time, waiting, gateTime, strobes>>

(* NotifyEvent finds an M_PRIM marker and the gate's output changes.       *)
ScheduleGate(g, d) ==
  /\ Storing /\ Reaches(g)
  /\ After(d) <= MaxTime
  /\ gateTime' = [gateTime EXCEPT ![g] = After(d)]
  /\ LateIf(d = 0)
  /\ UNCHANGED <<q, CurrentTime, pc, phase, actor, retrigger, new_time, waiting, strobes>>

(* NotifyEvent starts on the chain of a variable.  A marker of one walk    *)
(* can store to another variable, whose walk then runs first.              *)
NotifyEvent(e) ==
  /\ Storing /\ Reaches(e)
  /\ walk' = chain[e] \o walk
  /\ UNCHANGED <<q, CurrentTime, pc, phase, actor, retrigger, new_time, chain, gateTime, strobes, late>>

(* Unthread the ring of markers of an event statement of p.                *)
Unthread_Never(p) == chain
Unthread(p) == [e \in EVENT |-> Unlink(chain[e], p)]

(* One marker of the walk.  The event expression may fail its test; a      *)
(* process that is notified is unthreaded from every variable it waits on. *)
NotifyNext(test) ==
  /\ walk # <<>>
  /\ walk' = Tail(walk)
  /\ LET p == Head(walk)
         woken == q.list[p] # "READY" /\ test
     IN /\ q' = IF woken THEN AppendReady(RemoveSCB(q, p), p) ELSE q
        /\ chain' = IF woken THEN Unthread(p) ELSE chain
        /\ LateIf(woken)
  /\ UNCHANGED <<CurrentTime, pc, phase, actor, retrigger, new_time, gateTime, strobes, steps>>

(* NotifyEvent finds an M_IDLE marker, or the statement synchronizes.      *)
TickleIdle(m) ==
  /\ Storing
  /\ idle' = idle \cup {m}
  /\ LateIf(TRUE)
  /\ UNCHANGED <<q, CurrentTime, pc, phase, actor, retrigger, new_time, waiting, gateTime, final, batch>>

(* NotifyEvent finds an M_STROBE marker, or $strobe executes.              *)
TickleFinal(m) ==
  /\ Storing
  /\ final' = final \cup {m}
  /\ UNCHANGED <<q, CurrentTime, pc, phase, actor, retrigger, new_time, waiting, gateTime, idle, batch, late>>

-----------------------------------------------------------------------------
(* exec_: the head of the ready list runs.                                 *)

Timed == {"delay", "net", "assign", "nba"}

Execute ==
  /\ phase = "go" /\ Readylist(q) # <<>>
  /\ LET s == Readylist(q)[1]
         now == IF pc[s] \in Timed THEN q.time[s] ELSE CurrentTime
     IN /\ actor' = s
        /\ CurrentTime' = now
        /\ steps' = IF now = CurrentTime \/ late THEN steps ELSE 0
        /\ pc' = IF pc[s] \in {"delay", "event"} THEN [pc EXCEPT ![s] = "run"] ELSE pc
        /\ retrigger' = IF pc[s] = "net" THEN NULL ELSE retrigger
  /\ phase' = "exec"
  /\ UNCHANGED <<q, new_time, waiting, gateTime, strobes, late>>

Executing(what) == phase = "exec" /\ walk = <<>> /\ pc[actor] = what

(* dispatcher() takes the head of the ready list, which is not looked at:  *)
(* it need not be the SCB that executed; and puts it where it waits.       *)
Incoming  == Head(Readylist(q))
Suspended == RemoveSCB(q, Incoming)
RestOn(tag)   == Rest(Suspended, tag, Incoming)
WaitUntil(t)  == PutOnTimelist([Suspended EXCEPT !.time[Incoming] = t], Incoming)

DispatchFrom(waiting_q) ==
  /\ IF Readylist(q) = <<>>
       THEN q' = q /\ phase' = "fatal"
       ELSE q' = waiting_q /\ phase' = "go"
  /\ actor' = NULL
  /\ UNCHANGED <<CurrentTime, new_time, walk, gateTime, strobes, late>>

(* ASSIGN_NONBLK_DELAY_STMT: a new SCB carries the assignment.             *)
AssignNonblocking(b, d) ==
  /\ Executing("run") /\ steps < MaxSteps /\ steps' = steps + 1
  /\ q.list[b] = "FREE" /\ After(d) <= MaxTime
  /\ q' = Schedule(Rest(q, "NOLIST", b), After(d), b, FALSE)
  /\ pc' = [pc EXCEPT ![b] = "nba"]
  /\ UNCHANGED <<CurrentTime, phase, actor, retrigger, new_time, waiting, gateTime, strobes, late>>

(* DELAY_STMT and ASSIGN_DELAY_STMT: WaitOnTime64.                         *)
Delay(d) ==
  /\ Executing("run") /\ After(d) <= MaxTime
  /\ d = 0 => steps < MaxSteps
  /\ steps' = IF d = 0 THEN steps + 1 ELSE steps
  /\ DispatchFrom(WaitUntil(After(d)))
  /\ pc' = [pc EXCEPT ![actor] = "delay"]
  /\ UNCHANGED <<retrigger, chain>>

(* EVENT_STMT and WAIT_STMT: WaitOnEventAll threads a marker on every      *)
(* variable of the event expression.                                       *)
WaitOnEvent(es) ==
  /\ Executing("run")
  /\ chain' = [e \in EVENT |-> IF e \in es THEN Append(chain[e], actor) ELSE chain[e]]
  /\ DispatchFrom(RestOn("EVENT"))
  /\ pc' = [pc EXCEPT ![actor] = "event"]
  /\ UNCHANGED <<retrigger, steps>>

(* DUMP_STMT: the end of an initial block.                                 *)
EndProcess ==
  /\ Executing("run")
  /\ DispatchFrom(RestOn("FREE"))
  /\ pc' = [pc EXCEPT ![actor] = "free"]
  /\ UNCHANGED <<retrigger, chain, steps>>

(* The second half of ASSIGN_NONBLK_DELAY_STMT, after its stores.          *)
EndNonblocking ==
  /\ Executing("nba")
  /\ DispatchFrom(RestOn("FREE"))
  /\ pc' = [pc EXCEPT ![actor] = "free"]
  /\ UNCHANGED <<retrigger, chain, steps>>

(* ASSIGN_CONT_STMT, after its stores: suspend_current_process.            *)
EndAssign ==
  /\ Executing("assign")
  /\ DispatchFrom(RestOn("NOLIST"))
  /\ UNCHANGED <<pc, retrigger, chain, steps>>

(* NET_SCALAR_DECL, after its stores: a net that was notified meanwhile    *)
(* runs again at this time.                                                *)
EndNet ==
  /\ Executing("net")
  /\ IF retrigger # NULL
       THEN DispatchFrom(WaitUntil(CurrentTime))
       ELSE DispatchFrom(RestOn("NOLIST"))
  /\ retrigger' = NULL
  /\ UNCHANGED <<pc, chain, steps>>

-----------------------------------------------------------------------------
(* dispatcher(): the rest of the loop, entered at the label go.            *)

NextGate(g) == /\ gateTime[g] # NONE
               /\ \A h \in GATE : gateTime[h] # NONE => gateTime[g] <= gateTime[h]
GatePending == \E g \in GATE : gateTime[g] # NONE
IsGateReady == \E g \in GATE : NextGate(g) /\ gateTime[g] = CurrentTime
TimeIsNow_Never == FALSE
TimeIsNow   == Timelist(q) # <<>> /\ q.time[Timelist(q)[1]] = CurrentTime

GoTo(p) == phase' = p /\ UNCHANGED <<q, CurrentTime, pc, actor, retrigger, new_time,
                                     waiting, gateTime, strobes, steps, late>>

(* check_strobe sets the fence of the queue to its tail and goes on.       *)
CheckStrobe(queue, p) ==
  /\ batch' = queue /\ phase' = p
  /\ UNCHANGED <<q, CurrentTime, pc, actor, retrigger, new_time, waiting, gateTime, idle, final, steps, late>>

LookAtGates == phase = "go" /\ Readylist(q) = <<>> /\ GoTo("gates")

(* RemoveNextReadyGate and handle_gate; the stores of the gate follow.     *)
FireGate(g) ==
  /\ phase = "gates" /\ actor = NULL
  /\ NextGate(g) /\ gateTime[g] = CurrentTime
  /\ gateTime' = [gateTime EXCEPT ![g] = NONE]
  /\ actor' = g
  /\ UNCHANGED <<q, CurrentTime, pc, phase, retrigger, new_time, waiting, strobes, steps, late>>

(* A gate or a strobe has made its stores.                                 *)
Finished ==
  /\ phase \in {"gates", "idle", "idleEnd", "final", "finalEnd"} /\ actor # NULL /\ walk = <<>>
  /\ actor' = NULL
  /\ UNCHANGED <<q, CurrentTime, pc, phase, retrigger, new_time, waiting, gateTime, strobes, steps, late>>

GatesDone ==
  /\ phase = "gates" /\ actor = NULL /\ ~IsGateReady
  /\ GoTo(IF Readylist(q) # <<>> THEN "go" ELSE "nets")

MoveNet ==
  /\ phase = "nets" /\ Netlist(q) # <<>>
  /\ q' = NetToReady(q)
  /\ UNCHANGED <<CurrentTime, pc, phase, actor, retrigger, new_time, waiting, gateTime, strobes, steps, late>>

NetsDone ==
  /\ phase = "nets" /\ Netlist(q) = <<>>
  /\ IF Readylist(q) # <<>> THEN GoTo("go")
     ELSE IF Timelist(q) # <<>> THEN GoTo("now1")
     ELSE CheckStrobe(idle, "idleEnd")

(* The two loops that move what the time list holds for now.               *)
MoveNow ==
  /\ phase \in {"now1", "now2"} /\ TimeIsNow
  /\ q' = TimeToReady(q)
  /\ UNCHANGED <<CurrentTime, pc, phase, actor, retrigger, new_time, waiting, gateTime, strobes, steps, late>>

MoreNow == Readylist(q) # <<>> \/ Netlist(q) # <<>> \/ IsGateReady

Now1Done ==
  /\ phase = "now1" /\ ~TimeIsNow
  /\ IF MoreNow THEN GoTo("go")
     ELSE CheckStrobe(idle, "idle")

(* remove_strobe, before the strobe executes.                              *)
Dequeue_Never(m) == idle
Dequeue(m) == idle \ {m}

(* check_strobe(&idle_strobe_queue): one strobe before the fence.          *)
RunIdle(m) ==
  /\ phase \in {"idle", "idleEnd"} /\ actor = NULL /\ m \in batch
  /\ batch' = batch \ {m} /\ idle' = Dequeue(m)
  /\ actor' = m
  /\ UNCHANGED <<q, CurrentTime, pc, phase, retrigger, new_time, waiting, gateTime, final, steps, late>>

IdleDone ==
  /\ phase = "idle" /\ actor = NULL /\ batch = {}
  /\ GoTo(IF Readylist(q) # <<>> THEN "go" ELSE "now2")

IdleAgain_Never == FALSE
IdleAgain == idle # {}      \* !empty_strobe(&idle_strobe_queue)

Now2Done ==
  /\ phase = "now2" /\ ~TimeIsNow
  /\ IF MoreNow \/ IdleAgain THEN GoTo("go") ELSE CheckStrobe(final, "final")

(* check_strobe(&final_strobe_queue): one strobe before the fence.         *)
RunFinal(m) ==
  /\ phase \in FinalPass /\ actor = NULL /\ m \in batch
  /\ batch' = batch \ {m} /\ final' = final \ {m}
  /\ actor' = m
  /\ UNCHANGED <<q, CurrentTime, pc, phase, retrigger, new_time, waiting, gateTime, idle, steps, late>>

(* Nobody looks at what the strobes have done (the ASSERT is compiled out).*)
FinalDone ==
  /\ phase \in FinalPass /\ actor = NULL /\ batch = {}
  /\ GoTo(IF phase = "final" THEN "advance" ELSE "done")

GateFirst_Always(g) == NextGate(g)
GateFirst(g) == /\ NextGate(g)
                /\ Timelist(q) # <<>> /\ gateTime[g] < q.time[Timelist(q)[1]]

(* GateConditionalAdvanceTime: only for a gate before the time list.       *)
AdvanceToGate(g) ==
  /\ phase = "advance"
  /\ GateFirst(g)
  /\ CurrentTime' = gateTime[g] /\ steps' = IF late THEN steps ELSE 0
  /\ phase' = "go"
  /\ UNCHANGED <<q, pc, actor, retrigger, new_time, waiting, gateTime, strobes, late>>

(* A late strobe can leave the time list empty, which is not looked at.    *)
AdvanceToTimelist ==
  /\ phase = "advance"
  /\ ~\E g \in GATE : GateFirst(g)
  /\ IF Timelist(q) = <<>>
       THEN q' = q /\ new_time' = new_time /\ phase' = "fatal"
       ELSE /\ new_time' = q.time[Timelist(q)[1]]
            /\ q' = TimeToReady(q)
            /\ phase' = "move"
  /\ UNCHANGED <<CurrentTime, pc, actor, retrigger, waiting, gateTime, strobes, steps, late>>

MoveNewTime ==
  /\ phase = "move"
  /\ IF Timelist(q) # <<>> /\ q.time[Timelist(q)[1]] = new_time
       THEN q' = TimeToReady(q) /\ phase' = phase
       ELSE q' = q /\ phase' = "go"
  /\ UNCHANGED <<CurrentTime, pc, actor, retrigger, new_time, waiting, gateTime, strobes, steps, late>>

PliAdded == Timelist(q) # <<>> \/ GatePending

(* The time list was empty: go on if something was added to it or to the   *)
(* gates, else finish.  The ready list and the net list are not looked at. *)
EndOfTime ==
  /\ phase = "idleEnd" /\ actor = NULL /\ batch = {}
  /\ IF PliAdded \/ IdleAgain THEN GoTo("go") ELSE CheckStrobe(final, "finalEnd")

Stopped == phase \in {"done", "fatal"} /\ UNCHANGED vars

-----------------------------------------------------------------------------
Store ==
  \/ \E n \in NET, v \in VALUE : ScheduleNet(n, v)
  \/ \E a \in ASSIGN, v \in VALUE : ScheduleAssign(a, v)
  \/ \E g \in GATE, d \in DELAYS : ScheduleGate(g, d)
  \/ \E e \in EVENT : NotifyEvent(e)
  \/ \E test \in BOOLEAN : NotifyNext(test)
  \/ \E m \in MONITOR : TickleIdle(m) \/ TickleFinal(m)

Exec ==
  \/ Execute
  \/ \E b \in SCB \ (NET \cup ASSIGN), d \in DELAYS : AssignNonblocking(b, d)
  \/ \E d \in DELAYS : Delay(d)
  \/ \E es \in (SUBSET EVENT) \ {{}} : WaitOnEvent(es)
  \/ EndProcess \/ EndNonblocking \/ EndAssign \/ EndNet

Dispatch ==
  \/ LookAtGates \/ (\E g \in GATE : FireGate(g)) \/ Finished \/ GatesDone
  \/ MoveNet \/ NetsDone
  \/ MoveNow \/ Now1Done \/ (\E m \in MONITOR : RunIdle(m)) \/ IdleDone \/ Now2Done
  \/ (\E m \in MONITOR : RunFinal(m)) \/ FinalDone
  \/ (\E g \in GATE : AdvanceToGate(g)) \/ AdvanceToTimelist \/ MoveNewTime
  \/ EndOfTime \/ Stopped

Next == Store \/ Exec \/ Dispatch

Spec     == Init /\ [][Next]_vars
FairSpec == Spec /\ WF_vars(Next)
-----------------------------------------------------------------------------
(* Properties.                                                             *)

(* The type of every variable (the SCB, the dispatcher's locals and the    *)
(* strobe queues of schedule.h and strobe.h).                              *)
TypeOK ==
  /\ q \in ListState /\ \A s \in SCB : q.time[s] <= MaxTime
  /\ CurrentTime \in Times
  /\ pc \in [SCB -> Statement]
  /\ phase \in Phase
  /\ actor \in SCB \cup GATE \cup MONITOR \cup {NULL}
  /\ retrigger \in NET \cup {NULL}
  /\ new_time \in Times
  /\ chain \in [EVENT -> Seq(SCB)]
  /\ walk \in Seq(SCB)
  /\ gateTime \in [GATE -> Times \cup {NONE}]
  /\ idle \subseteq MONITOR /\ final \subseteq MONITOR /\ batch \subseteq MONITOR
  /\ steps \in Nat /\ late \in BOOLEAN

(* An SCB is threaded once, on the list it says it is on: an SCB on two    *)
(* lists would run twice, one on none would never run.                     *)
ThreadedOnce == OneListEach(q)

(* readylist_last and netlist_last point to the last SCB of their lists,   *)
(* so that what is appended comes last.                                    *)
LastPointers ==
  /\ q.readylist_last = LastOf(Readylist(q))
  /\ Netlist(q) # <<>> => q.netlist_last = LastOf(Netlist(q))

(* timelist_currentTail stays in the first same-time group of the list,    *)
(* which the shortcut of Schedule relies on to keep the list in order.     *)
TailInFirstGroup ==
  IF Timelist(q) = <<>> THEN q.timelist_currentTail = NULL
  ELSE /\ q.timelist_currentTail \in Range(Timelist(q))
       /\ q.time[q.timelist_currentTail] = q.time[Timelist(q)[1]]

(* The time list is in time order, so that its head is what is due next.   *)
TimelistSorted == Sorted(q)

(* Nothing that is still to run is due before CurrentTime: dispatcher only *)
(* compares for equality with CurrentTime, so it would not find it.        *)
NothingInPast ==
  /\ \A i \in 1..Len(Timelist(q)) : q.time[Timelist(q)[i]] >= CurrentTime
  /\ \A i \in 1..Len(Netlist(q)) : q.time[Netlist(q)[i]] = CurrentTime
  /\ \A g \in GATE : gateTime[g] # NONE => gateTime[g] >= CurrentTime

(* A process that waits is threaded on some variable and every threaded    *)
(* process still waits; a process a walk has yet to visit was woken        *)
(* meanwhile or still waits.  No wakeup is lost, none is given twice.      *)
WaitersThreaded ==
  /\ \A s \in SCB : q.list[s] = "EVENT" => \E e \in EVENT : s \in Range(chain[e])
  /\ \A e \in EVENT : \A s \in Range(chain[e]) : q.list[s] = "EVENT" /\ pc[s] = "event"
  /\ \A s \in Range(walk) : q.list[s] \in {"EVENT", "READY"} /\ pc[s] = "event"

(* The lists of SCBs and the markers agree with what every SCB believes.   *)
ListsConsistent == TypeOK /\ ThreadedOnce /\ LastPointers /\ WaitersThreaded

(* What is planned is found when it is due: it is in order, and ahead as   *)
(* long as no final strobe has been late.                                  *)
PlansAhead == TailInFirstGroup /\ TimelistSorted /\ (~late => NothingInPast)

(* Time only moves when the present is over, the last strobe included, and *)
(* to the earliest time anything is due.                                   *)
PresentIsOver ==
  /\ Netlist(q) = <<>> /\ idle = {} /\ batch = {} /\ actor = NULL
  /\ \A i \in 1..Len(Timelist(q)) : q.time[Timelist(q)[i]] >= CurrentTime'
  /\ \A i \in 1..Len(Readylist(q)) : q.time[Readylist(q)[i]] = CurrentTime'
  /\ \A g \in GATE : gateTime[g] # NONE => gateTime[g] >= CurrentTime'
AdvanceWhenOver ==
  [][~late /\ CurrentTime' # CurrentTime => CurrentTime' > CurrentTime /\ PresentIsOver]_vars

(* After the final strobes have shown a time, and stored what they store,  *)
(* whatever runs next runs at a later time: $strobe and $monitor show      *)
(* settled values, unless one of them has planned something for the very   *)
(* time it shows, which the code does not look for.                        *)
FinalIsLast ==
  [][~late /\ phase = "advance" => CurrentTime' > CurrentTime \/ new_time' > CurrentTime]_vars

(* Only the SCB that executes leaves the ready list; a net or an assignment*)
(* may be planned again, nobody else loses its turn.  dispatcher "place[s] *)
(* the incoming SCB onto the wait list", not whichever SCB is first.       *)
NoTurnLost ==
  [][\A s \in SCB : q.list[s] = "READY" /\ s # actor =>
        \/ q'.list[s] = "READY"
        \/ s \in NET /\ q'.list[s] \in {"NET", "TIME"}
        \/ s \in ASSIGN /\ q'.list[s] = "TIME"]_vars

(* What is appended to the time list comes after what is already due at    *)
(* that time, so that delays that end together end in the order they began *)
AppendsInOrder ==
  [][\A s \in SCB \ ASSIGN : q.list[s] # "TIME" /\ q'.list[s] = "TIME" =>
        \A r \in SCB \ {s} : q.list[r] = "TIME" /\ q'.list[r] = "TIME" /\ q'.time[r] = q'.time[s] =>
           PositionOf(Timelist(q'), r) < PositionOf(Timelist(q'), s)]_vars

(* The scheduler implements the calendar: an SCB is due at its time while  *)
(* it is on the time or the net list, and now (or at its time, when it     *)
(* came from there) while it is ready; the one that executes is done.      *)
due == [x \in SCB \cup GATE |->
          IF x \in GATE THEN gateTime[x]
          ELSE IF x = actor \/ q.list[x] \in Resting THEN NONE
          ELSE IF q.list[x] = "READY" /\ pc[x] \notin Timed THEN CurrentTime
          ELSE q.time[x]]

Calendar == INSTANCE EventCalendar WITH Item <- SCB \cup GATE, Time <- Times, now <- CurrentTime

(* Whatever the lists do, what runs is always among what is due first,     *)
(* as long as no final strobe plans for the time it shows.                 *)
RunsInDueOrder == Calendar!Spec

(* Every process that is ready gets to run, whatever else is notified and  *)
(* whoever has woken it, but for those a strobe wakes in the last pass of  *)
(* all, which goes on only for what is on the time list or the gate queue. *)
LastPass == {"idleEnd", "finalEnd", "done"}
ReadyRuns == \A p \in PROC : q.list[p] = "READY" /\ actor # p /\ phase \notin LastPass ~> actor = p

(* The simulation ends: "Nothing on Ready list or Time list, exit."        *)
Ends == <>(phase = "done")
=============================================================================
