------------------------------ MODULE Contexts ------------------------------
(***************************************************************************)
(* The processes of exec.cc: named blocks, tasks, fork and join, disable.  *)
(* Every SCB has a stack of contexts, one per block it has entered, and    *)
(* every block a list of the contexts that are in it, through which        *)
(* disable finds the processes it must pull out.  Contexts and SCBs are    *)
(* recycled, and the code reads a context after it is freed, so the lists  *)
(* are modelled with what is on them in what order.                        *)
(*                                                                         *)
(* The program is chosen in Init and never changes: a statement is a       *)
(* record with the code, the next statement (TREE_CHAIN), the body, the    *)
(* block it enters or disables, the arms of a fork, the event it is about, *)
(* and what it stands in: a begin or a fork, the block of a task, or the   *)
(* module.  Delays are any numbers: whenever no process is ready, some of  *)
(* those on the time list are due, in the order in which they got there.   *)
(***************************************************************************)
EXTENDS Integers, SequencesExt

CONSTANTS Programs,     \* [text, initial, events]
          SCB,          \* bound: the process descriptors
          CONTEXT,      \* bound: the contexts that xmalloc can return
          TOP,          \* the scope of a module
          NULL

IDLE == "idle"

ASSUME ContextsAssumption ==
  /\ NULL \notin SCB \cup CONTEXT \cup {TOP, IDLE}
  /\ IsFiniteSet(SCB) /\ IsFiniteSet(CONTEXT)

-----------------------------------------------------------------------------
(* The tree that pass3 leaves: what follows a statement stands where the   *)
(* statement stands, the body of a block in the block, and every fork has  *)
(* an arm.                                                                 *)

Codes == {"plain", "begin", "end", "fork", "fork_named", "join", "delay", "nonblocking", "event",
          "wait", "arrow", "task", "task_block", "dump", "disable"}
Forks == {"fork", "fork_named"}
Waits == {"delay", "event", "wait"}

Blocks(p)       == {TOP} \cup ({p.text[s].block : s \in DOMAIN p.text} \ {NULL})
Inside(p, s, w) == s \in DOMAIN p.text /\ p.text[s].within = w
Is(p, s, codes) == s \in DOMAIN p.text /\ p.text[s].code \in codes
TaskBlocks(p)   == {p.text[s].block : s \in {c \in DOMAIN p.text : Is(p, c, {"task"})}}
(* The block in which a statement stands.                                  *)
BlockOf(p, s) == LET w == p.text[s].within
                 IN IF w \in DOMAIN p.text THEN p.text[w].block ELSE w

Placed(p, s) ==
  LET t == p.text[s]
  IN /\ t.within \in {TOP} \cup TaskBlocks(p) \/ Is(p, t.within, Forks \cup {"begin"})
     /\ t.code \in {"plain", "nonblocking", "arrow", "begin", "task", "disable"} => Inside(p, t.chain, t.within)
     /\ t.code \in Waits => Inside(p, t.body, t.within)
     /\ t.code \in {"event", "wait", "arrow"} => t.event # NULL
     /\ t.code \in {"begin", "task", "fork_named", "disable"} => t.block \notin {TOP, NULL}
     /\ t.code = "begin" => Inside(p, t.body, s)
     /\ t.code = "end" => Is(p, t.within, {"begin"}) /\ Inside(p, t.chain, p.text[t.within].within)
     /\ t.code = "task" => Inside(p, t.body, t.block) /\ t.body # t.chain
     /\ t.code = "task_block" => t.within \in TaskBlocks(p)
     /\ t.code = "dump" => t.within = TOP
     /\ t.code \in Forks =>
          /\ t.arms # <<>> /\ \A i \in DOMAIN t.arms : Inside(p, t.arms[i], s)
          /\ Is(p, t.chain, {"join"}) /\ Inside(p, t.chain, s)
          /\ Inside(p, p.text[t.chain].chain, t.within)
     /\ t.code = "fork" => t.block = BlockOf(p, s) /\ t.block # NULL
     /\ t.code = "join" => Is(p, t.within, Forks) /\ p.text[t.within].chain = s

WellFormed(p) ==
  LET D == DOMAIN p.text
  IN /\ ({NULL, IDLE} \cup Blocks(p)) \cap D = {}
     /\ p.text \in [D -> [code : Codes, chain : D \cup {NULL}, body : D \cup {NULL},
                          block : Blocks(p) \cup {NULL}, arms : Seq(D),
                          event : p.events \cup {NULL}, within : D \cup Blocks(p)]]
     /\ \A s \in D : Placed(p, s)
     /\ p.initial \in Seq(D) /\ \A i \in DOMAIN p.initial : Inside(p, p.initial[i], TOP)
     /\ Len(p.initial) <= Cardinality(SCB) /\ Len(p.initial) <= Cardinality(CONTEXT)

ASSUME ProgramsAssumption == \A p \in Programs : WellFormed(p)

VARIABLES
  program,
  h,            \* the lists and the fields of SCBs, contexts and markers
  pc,           \* exec_'s pc: the statement to execute, or IDLE
  walk,         \* the markers that NotifyEvent has still to look at
  scope,        \* what the DISABLE_STMT that executes disables, or NULL
  calls,        \* the active calls of disable_context that are in their loop
  returning,    \* history: SCBs that a disable has pulled out of a task
  fault         \* undefined behaviour: a NULL context or an unset next_pc

vars == <<program, h, pc, walk, scope, calls, returning, fault>>

Stmt(s) == program.text[s]
Code(s) == IF s \in DOMAIN program.text THEN Stmt(s).code ELSE "none"
Scopes  == Blocks(program)
In(s)   == BlockOf(program, s)

-----------------------------------------------------------------------------
Position(seq, x) == CHOOSE i \in DOMAIN seq : seq[i] = x

(* SCBs: at most one of the ready, the time and the free list has it.      *)
(* stray is readylist_last when it is not the last of the ready list: then *)
(* it is the last of the free list.  Who is put behind the last of the     *)
(* ready list, or on an empty one, becomes readylist_last; what goes       *)
(* behind readylist_last goes where that is.                               *)

StrayWithout(last, s) == IF last = s THEN NULL ELSE last
Without_Ready(g, s) == [g EXCEPT !.readylist = RemoveFirst(@, s), !.freelist = RemoveFirst(@, s)]
Without(g, s) == [g EXCEPT !.readylist = RemoveFirst(@, s), !.timelist = RemoveFirst(@, s),
                           !.freelist = RemoveFirst(@, s), !.stray = StrayWithout(@, s)]
PutFirst(g, s) == LET u == Without(g, s)
                  IN [u EXCEPT !.readylist = <<s>> \o @, !.list[s] = "READY",
                               !.stray = IF u.readylist = <<>> THEN NULL ELSE @]
PutLast(g, s)  == LET u == Without(g, s)
                  IN IF u.stray = NULL
                       THEN [u EXCEPT !.readylist = Append(@, s), !.list[s] = "READY"]
                     ELSE [u EXCEPT !.freelist = Append(@, s), !.list[s] = "READY", !.stray = s]
PutSecond(g, s) == LET u == Without(g, s)
                   IN [u EXCEPT !.readylist = InsertAt(@, 2, s), !.list[s] = "READY",
                                !.stray = IF Len(u.readylist) = 1 THEN NULL ELSE @]

Readylist == Head(h.readylist)

(* context is the stack of an SCB, innermost first, that the code threads  *)
(* through shadow.                                                         *)
Stack(g, s) == g.context[s]

Live(g) == UNION {Range(g.context_list[b]) : b \in Scopes}

(* make_context: the head of the free list, or xmalloc.                    *)
CanMake(g, n) == Len(g.free_context) + Cardinality(CONTEXT \ (Live(g) \cup Range(g.free_context))) >= n
NewContext(g) == IF g.free_context # <<>> THEN Head(g.free_context)
                 ELSE CHOOSE c \in CONTEXT : c \notin Live(g)

enter_context(g, s, block, ret) ==
  LET c == NewContext(g)
  IN [g EXCEPT !.free_context = RemoveFirst(@, c),
               !.context_list[block] = <<c>> \o @,
               !.context[s] = <<c>> \o @,
               !.member[c] = [scb |-> s, scope |-> block, pc |-> ret]]

(* The return statement stays in the freed context, at the head of the     *)
(* free list.                                                              *)
exit_context_Kept(g, s) ==
  LET c == Head(g.context[s])
  IN [g EXCEPT !.context[s] = Tail(@), !.free_context = <<c>> \o RemoveFirst(@, c)]
exit_context(g, s) ==
  LET c == Head(g.context[s])
  IN [g EXCEPT !.context[s] = Tail(@),
               !.context_list[g.member[c].scope] = RemoveFirst(@, c),
               !.free_context = <<c>> \o RemoveFirst(@, c)]

Forget(g) == [g EXCEPT !.member[Head(g.free_context)].pc = NULL]

(* unwind_context: all contexts within c, then c, which keeps its pc.      *)
CanUnwind(g, c) == Contains(g.context[g.member[c].scb], c)
unwind_context(g, c) ==
  LET s == g.member[c].scb
      within == Position(g.context[s], c) - 1
      left[n \in 0 .. within] == IF n = 0 THEN g ELSE Forget(exit_context(left[n - 1], s))
  IN exit_context(left[within], s)

(* FreeSCB, and dispatcher(FREE_LIST): one context is unwound.  An SCB     *)
(* that disable frees is taken for a ready one by NotifyEvent, and by      *)
(* ADD_LIST_SCB for the last ready one if the free list is empty.          *)
Freed_Last(g, s, tag) ==
  LET u == Without(g, s)
      f == [u EXCEPT !.freelist = <<s>> \o @, !.list[s] = tag,
                     !.stray = IF tag = "READY" THEN s ELSE @]
  IN IF g.context[s] = <<>> THEN f ELSE exit_context(f, s)
Freed(g, s, tag) ==
  LET u == Without(g, s)
      f == [u EXCEPT !.freelist = <<s>> \o @, !.list[s] = tag,
                     !.stray = IF tag = "READY" /\ u.freelist = <<>> THEN s ELSE @]
  IN IF g.context[s] = <<>> THEN f ELSE exit_context(f, s)
FreeSCB_Current(g, s) == Freed(g, Head(g.readylist), "READY")
FreeSCB(g, s) == Freed(g, s, "READY")
Dumped(g)     == Freed(g, Head(g.readylist), "FREE")

BuildSCB(g, start, block) ==
  LET s == Head(g.freelist)
      u == [g EXCEPT !.freelist = Tail(@), !.stray = StrayWithout(@, s), !.list[s] = "NOLIST", !.pc[s] = start,
                     !.mode[s] = "RUN", !.fork[s] = NULL, !.fork_count[s] = 0, !.here[s] = NULL, !.context[s] = <<>>]
  IN enter_context(u, s, block, NULL)

-----------------------------------------------------------------------------
(* Events.  A marker belongs to an event statement; several processes wait *)
(* at it in a task, threaded through here.                                 *)

WaitOnEvent_Replace(g, s, m) ==
  LET e == Stmt(m).event
  IN [g EXCEPT !.waiter[m] = s,
               !.event_chain[e] = IF Contains(@, m) THEN @ ELSE Append(@, m)]
WaitOnEvent(g, s, m) ==
  LET e == Stmt(m).event
  IN IF ~Contains(g.event_chain[e], m)
       THEN [g EXCEPT !.waiter[m] = s, !.event_chain[e] = Append(@, m)]
     ELSE IF g.waiter[m] # s
       THEN [g EXCEPT !.here[s] = g.waiter[m], !.waiter[m] = s]
     ELSE g

event_undo(g, m) == [g EXCEPT !.event_chain[Stmt(m).event] = RemoveFirst(@, m)]

(* The SCBs that a marker holds; the walk clears here as it goes.          *)
Woken(g, m) ==
  LET wake(w) == IF w.next = NULL THEN w
                 ELSE [g |-> [PutLast(w.g, w.next) EXCEPT !.here[w.next] = NULL],
                       next |-> w.g.here[w.next]]
      woken[n \in 0 .. Cardinality(SCB)] ==
        IF n = 0 THEN [g |-> g, next |-> g.waiter[m]] ELSE wake(woken[n - 1])
  IN woken[Cardinality(SCB)].g
Notified(g, m) == event_undo(Woken(g, m), m)

-----------------------------------------------------------------------------
(* exec_: one statement of the process at the head of the ready list.      *)

Fail == fault' = TRUE /\ UNCHANGED <<program, h, pc, walk, scope, calls, returning>>

Continue(g, next) ==
  /\ h' = g /\ pc' = next
  /\ UNCHANGED <<program, walk, scope, calls, returning, fault>>

Executing(code) == ~fault /\ scope = NULL /\ walk = <<>> /\ Code(pc) = code

(* dispatcher(list) takes the head off the ready list; the next one goes   *)
(* on where it stopped.                                                    *)
Suspended(g, tag) ==
  LET s == Head(g.readylist)
      u == Without(g, s)
  IN [u EXCEPT !.list[s] = tag, !.timelist = IF tag = "TIME" THEN Append(@, s) ELSE @]
Resume(g) == IF g.readylist = <<>> THEN IDLE ELSE g.pc[Head(g.readylist)]
Dispatch(g) == Continue(g, Resume(g))

Waiting(g) == [g EXCEPT !.pc[Readylist] = pc, !.mode[Readylist] = "WAIT"]
Running(g) == [g EXCEPT !.mode[Readylist] = "RUN"]

(* Any statement that neither waits nor enters or leaves a block.          *)
Plain == Executing("plain") /\ Continue(h, Stmt(pc).chain)

Begin ==
  /\ Executing("begin") /\ CanMake(h, 1)
  /\ Continue(enter_context(h, Readylist, Stmt(pc).block, Stmt(pc).chain), Stmt(pc).body)

End ==
  /\ Executing("end")
  /\ IF h.context[Readylist] = <<>> THEN Fail
     ELSE Continue(exit_context(h, Readylist), Stmt(pc).chain)

(* The context of a fork goes on behind the join.                          *)
PastJoin(fork) == Stmt(Stmt(fork).chain).chain
Fork ==
  /\ Executing("fork") \/ Executing("fork_named")
  /\ LET s == Readylist
         arms == Stmt(pc).arms
         join == Stmt(pc).chain
         forked == [enter_context(h, s, Stmt(pc).block, PastJoin(pc)) EXCEPT !.fork_count[s] = 0]
         thread(g, i) ==
           LET arm == Head(g.freelist)
               u == BuildSCB(g, arms[i], Stmt(pc).block)
           IN [u EXCEPT !.readylist = InsertAt(@, i + 1, arm), !.list[arm] = "READY",
                        !.stray = IF Len(u.readylist) = i THEN NULL ELSE @,
                        !.fork[arm] = s, !.fork_count[s] = @ + 1]
         built[i \in 0 .. Len(arms)] == IF i = 0 THEN forked ELSE thread(built[i - 1], i)
         all == [built[Len(arms)] EXCEPT !.pc[s] = join, !.mode[s] = "WAIT"]
         go == Suspended(all, "EVENT")
     IN /\ Len(h.freelist) >= Len(arms) /\ CanMake(h, Len(arms) + 1)
        /\ Continue([go EXCEPT !.pc[Head(go.readylist)] = NULL], Resume(go))

(* An arm is over; the last one lets the fork go on.                       *)
LastArm_Next(f) == h.fork_count[f] = 2
LastArm(f) == h.fork_count[f] = 1
Join ==
  /\ Executing("join")
  /\ LET s == Readylist
         f == h.fork[s]
         counted == [h EXCEPT !.fork_count[f] = @ - 1]
         left == Dumped(exit_context(counted, s))
         mother == [PutSecond(counted, f) EXCEPT !.mode[f] = "RUN"]
         over == Dumped(exit_context(exit_context(mother, s), f))
     IN IF h.mode[s] = "WAIT" THEN Continue(Running(h), Stmt(pc).chain)
        ELSE IF h.context[s] = <<>> \/ f = NULL THEN Fail
        ELSE IF h.fork_count[f] = 0 \/ (LastArm(f) /\ h.context[f] = <<>>) THEN Fail
        ELSE IF LastArm(f) THEN Continue(over, Stmt(Resume(over)).chain)
        ELSE Dispatch(left)

Delay ==
  /\ Executing("delay")
  /\ IF h.mode[Readylist] = "RUN" THEN Dispatch(Suspended(Waiting(h), "TIME"))
     ELSE Continue(Running(h), Stmt(pc).body)

(* A nonblocking assignment stores later in a process of its own, with a   *)
(* context in the block of the one that executes it.                       *)
Pending(g, start) ==
  LET s == Head(g.freelist)
      u == BuildSCB(g, start, g.member[Head(g.context[Readylist])].scope)
  IN [u EXCEPT !.timelist = Append(@, s), !.list[s] = "TIME", !.mode[s] = "WAIT"]
NonBlocking ==
  /\ Executing("nonblocking")
  /\ IF h.context[Readylist] = <<>> THEN Fail
     ELSE IF h.mode[Readylist] = "WAIT" THEN Dispatch(Dumped(exit_context(Running(h), Readylist)))
     ELSE h.freelist # <<>> /\ CanMake(h, 1) /\ Continue(Pending(h, pc), Stmt(pc).chain)

WaitOnEventAll == Dispatch(Suspended(WaitOnEvent(Waiting(h), Readylist, pc), "EVENT"))

Event ==
  /\ Executing("event")
  /\ IF h.mode[Readylist] = "RUN" THEN WaitOnEventAll
     ELSE Continue(Running(h), Stmt(pc).body)

(* WAIT_STMT tests its expression again when it is notified.               *)
Wait(holds) ==
  /\ Executing("wait")
  /\ IF holds THEN Continue(Running(h), Stmt(pc).body) ELSE WaitOnEventAll

Arrow ==
  /\ Executing("arrow")
  /\ walk' = h.event_chain[Stmt(pc).event] /\ pc' = Stmt(pc).chain
  /\ UNCHANGED <<program, h, scope, calls, returning, fault>>

NotifyNext ==
  /\ walk # <<>> /\ walk' = Tail(walk)
  /\ h' = IF h.list[h.waiter[Head(walk)]] = "READY" THEN h ELSE Notified(h, Head(walk))
  /\ UNCHANGED <<program, pc, scope, calls, returning, fault>>

(* "Get here on DISABLE": the context that was freed last is that of this  *)
(* very call.                                                              *)
CameFromDisable_Never == FALSE
CameFromDisable == h.free_context # <<>> /\ h.member[Head(h.free_context)].pc = pc
Task ==
  /\ Executing("task") /\ CanMake(h, 1)
  /\ IF CameFromDisable
       THEN h' = Forget(h) /\ pc' = Stmt(pc).chain
       ELSE h' = enter_context(h, Readylist, Stmt(pc).block, pc) /\ pc' = Stmt(pc).body
  /\ returning' = returning \ {Readylist}
  /\ UNCHANGED <<program, walk, scope, calls, fault>>

EndTask ==
  /\ Executing("task_block")
  /\ LET stack == h.context[Readylist]
     IN IF stack = <<>> THEN Fail
        ELSE Continue(Forget(exit_context(h, Readylist)), Stmt(h.member[Head(stack)].pc).chain)

(* DUMP_STMT: an initial block is over.                                    *)
Dump == Executing("dump") /\ Dispatch(Dumped(h))

(* The entries of a list that are in S, in their order.                    *)
Chosen(seq, S) ==
  LET chosen[n \in 0 .. Len(seq)] ==
        IF n = 0 THEN <<>>
        ELSE IF seq[n] \in S THEN Append(chosen[n - 1], seq[n]) ELSE chosen[n - 1]
  IN chosen[Len(seq)]

(* dispatcher: no process is ready, those that are due become ready.       *)
AdvanceTime ==
  /\ ~fault /\ pc = IDLE
  /\ \E now \in SUBSET Range(h.timelist) :
       LET g == [h EXCEPT !.timelist = Chosen(@, SCB \ now),
                          !.readylist = Chosen(h.timelist, now), !.stray = NULL,
                          !.list = [s \in SCB |-> IF s \in now THEN "READY" ELSE @[s]]]
       IN now # {} /\ Dispatch(g)

(* "Nothing on Ready list or Time list, exit."  Or it has crashed.         *)
Finished == (fault \/ (pc = IDLE /\ h.timelist = <<>>)) /\ UNCHANGED vars

-----------------------------------------------------------------------------
(* DISABLE_STMT: until no context is left in the block, disable_context    *)
(* takes the first.  Nothing else happens meanwhile.                       *)

Disable ==
  /\ Executing("disable")
  /\ h' = [h EXCEPT !.pc[Readylist] = Stmt(pc).chain]
  /\ scope' = Stmt(pc).block
  /\ UNCHANGED <<program, pc, walk, calls, returning, fault>>

Disabling == ~fault /\ scope # NULL

(* context->next, on whatever list the context is by now.                  *)
Behind(c) ==
  LET chain == IF Contains(h.free_context, c) THEN h.free_context
               ELSE h.context_list[h.member[c].scope]
      i == Position(chain, c)
  IN IF i < Len(chain) THEN chain[i + 1] ELSE NULL

(* The context to disable next: the head of the block's list, or for the   *)
(* loop of a disable_context that found a join the one behind its own.     *)
Victim == IF calls # <<>> THEN Behind(Last(calls))
          ELSE IF h.context_list[scope] = <<>> THEN NULL
          ELSE Head(h.context_list[scope])

IsCallOf(next, c) == Code(next) = "task" /\ h.member[c].scope = Stmt(next).block

(* The end of disable_context(c): s is sent to next, or ends.              *)
Conclude(g, c, me, next) ==
  LET s == h.member[c].scb
      f == g.fork[s]
      u == [g EXCEPT !.mode[s] = "RUN"]
      mother == [PutFirst(FreeSCB(u, s), f) EXCEPT !.mode[f] = "WAIT"]
      first == [PutFirst(u, s) EXCEPT !.pc[s] = next]
      moved == ~me /\ g.list[s] = "READY" /\ Len(first.readylist) > 1
  IN /\ IF next # NULL THEN h' = IF moved THEN PutLast(first, s) ELSE first
        ELSE IF me THEN h' = mother
        ELSE h' = FreeSCB(u, s)
     /\ returning' = IF IsCallOf(next, c) THEN returning \cup {s} ELSE returning \ {s}
     /\ UNCHANGED <<program, pc, walk, scope, fault>>

(* Only an arm of a fork has a context without a return statement.         *)
CanConclude(c, me, next) ==
  LET s == h.member[c].scb
  IN next = NULL /\ me => h.fork[s] # NULL /\ h.fork_count[h.fork[s]] > 0

DisableContext ==
  /\ Disabling /\ Victim # NULL
  /\ LET c == Victim
         s == h.member[c].scb
         at == h.pc[s]
         me == s = Readylist
         ret == h.member[c].pc
         undone == IF ~me /\ Code(at) \in {"event", "wait"} THEN event_undo(h, at) ELSE h
     IN IF me \/ Code(at) \in {"delay", "event", "wait"}
          THEN IF CanUnwind(h, c) /\ CanConclude(c, me, ret)
                 THEN Conclude(unwind_context(undone, c), c, me, ret) /\ UNCHANGED calls
                 ELSE Fail
        ELSE IF Code(at) = "join"
          THEN calls' = Append(calls, c)
               /\ UNCHANGED <<program, h, pc, walk, scope, returning, fault>>
        ELSE Fail    \* next_pc is not set, or not to a statement

(* while (context->next) is over: the fork goes on behind its join.        *)
LeaveLoop ==
  /\ Disabling /\ calls # <<>> /\ Victim = NULL
  /\ calls' = Front(calls)
  /\ Conclude(h, Last(calls), FALSE, h.member[Last(calls)].pc)

EndDisable ==
  /\ Disabling /\ calls = <<>> /\ Victim = NULL
  /\ scope' = NULL /\ pc' = Resume(h)
  /\ UNCHANGED <<program, h, walk, calls, returning, fault>>

-----------------------------------------------------------------------------
Events == program.events

(* pass3 builds one SCB per initial block; all are ready at time 0.        *)
Built(start) ==
  LET none == [readylist |-> <<>>, timelist |-> <<>>, freelist |-> SetToSeq(SCB), stray |-> NULL,
               list |-> [s \in SCB |-> "FREE"], pc |-> [s \in SCB |-> NULL],
               mode |-> [s \in SCB |-> "RUN"], fork |-> [s \in SCB |-> NULL],
               fork_count |-> [s \in SCB |-> 0], here |-> [s \in SCB |-> NULL],
               context |-> [s \in SCB |-> <<>>],
               member |-> [c \in CONTEXT |-> [scb |-> NULL, scope |-> TOP, pc |-> NULL]],
               context_list |-> [b \in Scopes |-> <<>>], free_context |-> <<>>,
               waiter |-> [m \in DOMAIN program.text |-> NULL],
               event_chain |-> [e \in Events |-> <<>>]]
      built[n \in 0 .. Len(start)] ==
        IF n = 0 THEN none
        ELSE PutLast(BuildSCB(built[n - 1], start[n], TOP), Head(built[n - 1].freelist))
  IN built[Len(start)]

Init ==
  /\ program \in Programs
  /\ h = Built(program.initial)
  /\ pc = Resume(h)
  /\ walk = <<>> /\ scope = NULL /\ calls = <<>> /\ returning = {} /\ fault = FALSE

Next ==
  \/ Plain \/ Begin \/ End \/ Fork \/ Join \/ Delay \/ NonBlocking \/ Event
  \/ \E holds \in BOOLEAN : Wait(holds)
  \/ Arrow \/ NotifyNext \/ Task \/ EndTask \/ Dump
  \/ Disable \/ DisableContext \/ LeaveLoop \/ EndDisable
  \/ AdvanceTime \/ Finished

Spec == Init /\ [][Next]_vars

(* The simulator is one thread that goes on as long as there is work.      *)
(* This is WF_vars(Next), with the condition under which a step is         *)
(* possible written out: that it is one, TLC shows by finding no deadlock. *)
Working  == ~fault /\ (pc # IDLE \/ h.timelist # <<>>)
FairSpec == Spec /\ ([]<>~Working \/ []<><<Next>>_vars)

-----------------------------------------------------------------------------
(* Properties.  Disable is one statement: what it does is judged when it   *)
(* is over.                                                                *)

Quiet == scope = NULL /\ ~fault /\ pc # NULL
Processes == {s \in SCB : ~Contains(h.freelist, s)}

Statements == DOMAIN program.text \cup {NULL}

(* The fields have their types, and no list has an SCB or context twice.   *)
TypeOK ==
  /\ program \in Programs /\ pc \in Statements \cup {IDLE} /\ fault \in BOOLEAN
  /\ scope \in Scopes \cup {NULL} /\ returning \subseteq SCB
  /\ IsInjective(h.readylist \o h.timelist \o h.freelist)
  /\ IsInjective(calls) /\ Range(calls) \subseteq CONTEXT
  /\ Range(walk) \subseteq Statements
  /\ h.list \in [SCB -> {"READY", "TIME", "EVENT", "FREE"}] /\ h.stray \in SCB \cup {NULL}
  /\ h.pc \in [SCB -> Statements] /\ h.mode \in [SCB -> {"RUN", "WAIT"}]
  /\ h.fork \in [SCB -> SCB \cup {NULL}] /\ h.fork_count \in [SCB -> 0..Cardinality(SCB)]
  /\ h.here \in [SCB -> SCB \cup {NULL}] /\ h.context \in [SCB -> Seq(CONTEXT)]
  /\ h.waiter \in [DOMAIN program.text -> SCB \cup {NULL}]
  /\ \A c \in CONTEXT : /\ h.member[c].scb \in SCB \cup {NULL}
                         /\ h.member[c].scope \in Scopes
                         /\ h.member[c].pc \in Statements

(* The contexts on the lists of the blocks are exactly those of the        *)
(* processes: disable finds everyone who is in a block, and nobody else.   *)
ContextsOwned ==
  Quiet =>
    /\ \A s \in SCB : \A c \in Range(Stack(h, s)) : h.member[c].scb = s /\ s \in Processes
    /\ \A b \in Scopes :
         /\ IsInjective(h.context_list[b])
         /\ Range(h.context_list[b]) =
              {c \in UNION {Range(Stack(h, s)) : s \in SCB} : h.member[c].scope = b}
    /\ IsInjective(h.free_context) /\ Range(h.free_context) \cap Live(h) = {}

(* A process stands in the block of its innermost context, and every       *)
(* context returns to a statement in the block of the next outer one, but  *)
(* for the outermost: a disable sends nobody to a place he was not called  *)
(* from.                                                                   *)
At(s) == IF h.readylist # <<>> /\ s = Readylist THEN pc ELSE h.pc[s]
StackMatches ==
  Quiet => \A s \in Processes :
    LET stack == Stack(h, s)
    IN /\ stack # <<>> /\ In(At(s)) = h.member[stack[1]].scope
       /\ \A i \in DOMAIN stack :
            IF i = Len(stack) THEN h.member[stack[i]].pc = NULL
            ELSE /\ h.member[stack[i]].pc # NULL
                 /\ In(h.member[stack[i]].pc) = h.member[stack[i + 1]].scope

(* A fork that waits at its join waits for as many arms as there are, and  *)
(* every arm belongs to one that waits: none outlives its fork.            *)
AtJoin(s) == s \in Processes /\ h.list[s] = "EVENT" /\ Code(h.pc[s]) = "join"
ForkCountExact ==
  Quiet =>
    /\ \A f \in SCB : AtJoin(f) =>
         /\ h.fork_count[f] > 0
         /\ h.fork_count[f] = Cardinality({s \in Processes : h.fork[s] = f})
    /\ \A s \in Processes : h.fork[s] # NULL => AtJoin(h.fork[s])

Reached(m, s) == \/ h.waiter[m] = s
                 \/ \E r \in SCB : h.here[r] = s /\ h.pc[r] = m
(* A process that waits for an event is reached from its threaded marker,  *)
(* so the event will wake it.                                              *)
WaitersThreaded ==
  Quiet => \A s \in Processes :
    h.list[s] = "EVENT" /\ Code(h.pc[s]) \in {"event", "wait"} =>
      /\ Contains(h.event_chain[Stmt(h.pc[s]).event], h.pc[s])
      /\ Reached(h.pc[s], s)

(* Lists, contexts, forks and markers agree about every process.           *)
ProcessesConsistent ==
  TypeOK /\ ContextsOwned /\ StackMatches /\ ForkCountExact /\ WaitersThreaded

(* Disable never frees what it goes on to read, never meets a process in a *)
(* state it does not know, and no process is left without a statement.     *)
NoFault == ~fault /\ (scope = NULL => pc # NULL)

(* Disable leaves the processes that are not in the block where they are.  *)
Outside(s) == s \in Processes /\ \A c \in Range(Stack(h, s)) : h.member[c].scope # scope
BystandersKept ==
  [][Disabling => \A s \in SCB : Outside(s) =>
       /\ h'.pc[s] = h.pc[s] /\ h'.list[s] = h.list[s] /\ h'.mode[s] = h.mode[s]
       /\ Stack(h', s) = Stack(h, s)]_vars

(* A call of a task is passed over exactly when a disable has pulled the   *)
(* process out of that call ("Get here on DISABLE").                       *)
TaskCallsHonoured ==
  [][\A s \in SCB : Executing("task") /\ s = Readylist =>
       (pc' = Stmt(pc).chain <=> s \in returning)]_vars

(* A process that waits at a join leaves it, if every arm can end.         *)
JoinsEnd == \A s \in SCB : AtJoin(s) ~> ~AtJoin(s)

=============================================================================
