# VeriWell: a formal model of the simulator

VeriWell is an interpreter for Verilog-95. It reads a design, elaborates it into
a tree, compiles every expression to postfix code and then simulates: one thread
executes the statements of all processes, evaluates nets, continuous assignments
and primitive gates, and moves a 64-bit clock from one point in time to the next.
There are no tests in the repository; the comments, the assertions (compiled out
unless `DEBUG` or `ASSERTIONS` is set, `src/src/vtypes.h:171`) and the Verilog
language are what it promises.

Two things are hard in it. The *event kernel*: intrusive linked lists with
shortcut pointers, stores that notify other activities in the middle of a
statement, gates that count their inputs instead of looking at them, tables that
are walked by differences, and callbacks that add work to a time step that is
about to end. And the *evaluator*: a stack of groups of two words, whose last
group has bits above the width that operators leave as they happen to. This
directory models both in TLA+, checks them with TLC, and proves the parts that
hold for every design with TLAPS.

## 1. Inventory

| component | state it keeps | operations | interacts with | hard behaviours | what makes it correct |
|---|---|---|---|---|---|
| event scheduler (`schedule.cc`) | SCBs on the ready, time, net, event and free lists; `readylist_last`, `netlist_last`, `timelist_currentTail`; `CurrentTime` | `Schedule`, `ScheduleDelta64`, `ScheduleNet`, `WaitOnTime`, `WaitOnEvent*`, `NotifyEvent`, `dispatcher` | everything | order of events, stale pointers, re-entrant notification, end of a time step | nothing is lost, doubled or late; time moves when the present is over |
| statement executor (`exec.cc`) | the program counter in each SCB, contexts of forks, blocks and tasks | one `case` per statement | scheduler, evaluation | a statement that notifies itself; fork, join and disable | every process runs when it is ready |
| contexts (`exec.cc:130-470`) | a stack of contexts per SCB, a list of contexts per block, free contexts, `fork_count` | named blocks, tasks, fork, join, `disable_context` | scheduler (SCBs, markers) | recycled contexts and SCBs; disabling oneself, a fork, a caller among several | disable finds who is in the block, and nobody else; joins end |
| gate scheduler (`nsched.cc`) | circular lists of gates per time, free time nodes | `ScheduleGate`, `RemoveGate`, `RemoveNextReadyGate`, `GateConditionalAdvanceTime` | scheduler, gates | rescheduling of a queued gate, times of two words | an agenda in order of time and arrival |
| strobe queues (`strobe.cc`) | idle and final queues, free nodes, a fence, `active_strobe` | `enqueue_strobe`, `dequeue_strobe`, `check_strobe`, `tickle_monitor` | system tasks, PLI, scheduler | a strobe that queues or dequeues strobes while the queue is walked | a pass runs what was queued when it began |
| primitives (`gates.cc`) | last inputs, counts, output, what each port drives | `*_exec`, `propagate_*`, `initialize_gates` | stores notify them, they drive nets | one store reaches several inputs; pulses; feedback; switches between two nets | outputs follow the truth tables, a settled circuit is consistent |
| user-defined primitives (`udp.cc`) | tables per input, an index and an output per gate | `define_level`, `define_edge`, `udp_exec`, `pass3_gate` | as gates | edges, wildcards, rows that overlap, an index moved by differences | the rows of the primitive |
| module paths (`specify.cc`) | a gate output per path, last values, the moment each input was stored | `insert_specify_paths`, `handle_specify_path` | gates, scheduler | values taken back, several inputs at once | the delay of the latest input, never a value taken back |
| timing checks (`specify.cc`) | last values and moments of two events per check | expansion into bits, `timingCheck`, notifiers | stores, idle pass | simultaneous events, two passes at one time, unknown conditions, registers that statements share | each violation is reported, one failure does not take back the notice of another |
| evaluation (`eval.cc`, `multdiv.cc`) | the stack `R` with its width | one `case` per operator | storage, statements | widths, carries, x and z, bits above the width | the bits Verilog asks for |
| storage (`store.cc`) | values of vectors and arrays | `store` with its parts, bits, words, concatenations | notification | neighbours' bits, lost events | exactly the bits named change, and a change is told |
| value change dump (`dumpvar.cc`, `systask.cc`) | marked variables, `enabled`, `new_time`, the file | `$dumpvars`, `$dumpon`, `$dumpoff`, `$dumpall`, the header | strobes, stores | changes before the header, in the final pass, while it is off | the file says what is, and when |
| system tasks (`systask.cc`, `verisys.cc`) | `monitor_info` and others | one `case` per task | strobes, scheduler | `$monitor` on, off, replaced | one monitor at most |
| programming language interface (`pli.cc`, `plihacks.cc`) | instances of user tasks, their delays | `tf_*`, `acc_*` | strobes, scheduler, stores | callbacks in the middle of a time step, several delays of one instance | callbacks run once, at the time they asked for |
| times (`vtypes.h`), time scales (`timescal.cc`), random numbers | none | pure functions | everything | carries, rounding, overflow | the mathematical function |
| lexer, parser, elaboration, SDF, display | the tree, files | sequential | start-up, output | none at run time | text in, tree out |

Left aside: `lxt/` (a waveform library), `replace/` and `libltdl/` (vendored),
`parse.cc`, `sdfparse.cc`, `sdfcpars.cc` and their lexers (generated), the build
files.

### How a time step goes

`dispatcher()` takes what is next in this order: the ready list, the gates that
are due now, the net list, what the time list holds for now, the idle strobes
(`tf_synchronize`, PLI callbacks and the timing checks), and, when all of that
is empty, the final strobes (`$strobe`, `$monitor`, the header of the dump);
then the clock moves. Strobes may store as well (their arguments call functions,
callbacks put values); after the idle pass `dispatcher` looks for work again, after
the final pass it does not. While a statement runs, every store that changes a value
walks the markers of the variable (`NotifyEvent`) and thereby wakes processes,
plans nets and assignments, executes gates, queues timing checks and writes a
line of the dump; a gate that changes is queued in `nsched.cc`. The lists are
intrusive: an SCB is on one of them, carries a tag that says which, and the
"last" pointers beside the lists are repaired by that tag.

## 2. Modules

| module | models | refines |
|---|---|---|
| `SCBLists` | the list macros of `schedule.cc`: `ADD_LIST_SCB`, `REMOVE_LIST_SCB`, `Schedule`, the walks; operators on a record of three sequences, tags, times and the three "last" pointers | |
| `Scheduler` | `schedule.cc` and the statements of `exec_` that move SCBs: stores and their notifications, statements, and the phases of `dispatcher` | `EventCalendar` |
| `EventCalendar` | abstract: items are planned for a time, the earliest runs, the clock moves to the earliest | |
| `Contexts` | `exec.cc`: named blocks, tasks, fork and join, disable, with the delays, events, waits and pending nonblocking assignments that processes are disabled at | |
| `Times` | the macros of `vtypes.h` on times of two words | |
| `GateQueue` | `nsched.cc` pointer by pointer, on these times | `GateAgenda` |
| `GateAgenda` | abstract: a sequence of gates and times, in order | |
| `PliDelays` | the delays of user tasks (`tf_setlongdelay`, `tf_iclearalldelays`, their reactivation in `exec_`, `tf_getnextlongtime`) on top of `GateQueue` and a time list | |
| `Strobe` | `strobe.cc` pointer by pointer, with `$strobe`, `$monitor`, `$monitoron`, `$monitoroff` and `tf_isynchronize` | `StrobePasses` |
| `StrobePasses` | abstract: two sequences, a pass runs the first so many | |
| `DumpHeader` | which variables a `$dumpvars` marks, and the lines of the header; with a reader of these lines | |
| `Dump` | `$dumpvars`, `$dumpon`, `$dumpoff`, `$dumpall` and the stores they watch, on top of `Strobe` | |
| `Gates` | `gates.cc`: the `*_exec` and propagate routines, with `do_net_eval` and `eval_delay` of `eval.cc`, from initialization on | |
| `Udp` | `udp.cc`: rows checked and expanded into tables, gates initialized and executed | |
| `PathDelays` | module paths: which gates get one, the choice of the delay, the firing | `PathLine` |
| `PathLine` | abstract: an output shows the value its gate took last, at the time fixed for it | |
| `TimingChecks` | the seven checks, their expansion into bits, the idle pass, notifiers | |
| `Groups`, `Parts`, `MultDiv` | groups of two words, runs of bits that do not start at a group, multiplication and division by half words | |
| `Eval`, `Store` | the evaluator as a machine with a stack, and the assignments of its results | |
| `FourState` | reference for `Eval`: what Verilog's operators mean on functions from bit numbers to 0, 1, z, x | |
| `Lemmas` | what several proofs need of numbers and sequences | |
| `Scheduler_proofs`, `Contexts_proofs`, `PliDelays_proofs` (with the gate queue), `Gates_proofs`, `PathDelays_proofs`, `TimingChecks_proofs`, `Strobe_proofs` | theorems | |
| `MC*` | the instances TLC checks | |

### How state and actions correspond

*Scheduler.* `q.on` are the lists, `q.list` and `q.time` the fields of the SCBs;
the "last" pointers are separate from the lists, so they can go stale as in the
code. `phase` is the place in the loop of `dispatcher` (one value per label or
loop), `actor` the one whose stores are going on, `walk` the markers a
`NotifyEvent` has still to visit: a marker that is visited may store again and
start another walk, which goes first. One action is one call (`ScheduleNet`,
`Schedule` from `NotifyEvent`, one marker of a walk, one iteration of a loop of
`dispatcher`), each with its early returns. The idle, the final and the last pass
run the strobes that were queued when they began, and a strobe stores whatever its
`Fanout` reaches, as a net does. The ghost `late` notes that a strobe of the final
pass has planned something for the time it shows (section 3). A process executes any sequence of
statements; the design (which SCB is what, what feeds what, delays) is constant.

*GateQueue and Strobe* have nodes and pointers as functions, and the abstract
modules are reached by a refinement mapping that reads the lists. The times of
`GateQueue` are the two words of the code, with a word of three values, so that
carries and comparisons of both words happen.

*PliDelays.* `readylist` and `timelist` are reduced to the SCBs of user tasks and
of nonblocking assignments, `freelist` is the free list of `FreeSCB` in its
order. `pc` of an SCB is what is left of its chain of delays, each with the
instance that set it, `DELAYSCB` the field in which an instance names its SCB,
`reactivated` the delay whose `misctf` runs; the ghost `due` counts the delays an
instance has set. `DELAYSCB` is never cleared (see the disagreements), so it may name
an SCB that belongs to somebody else; `fault` marks the moment the code uses it
then, and nothing is claimed of what comes after. `FreeSCB` may set `readylist_last`
here too (`pli.cc:5207`); `dispatcher` fills an empty ready list and thereby
sets it again (`schedule.cc:825`), and what a wakeup makes of it before that is modelled in
`Contexts`.

*Dump.* The file is abstracted to three facts: it is open, its last time line is
that of now, and which variables it shows an old value of. `fopen` may fail, as
in the code. The text of identifiers and values is left out; the header is the
sequence of `$scope`, `$var` and `$upscope` lines, which `HeaderReadsBack` reads
as brackets.

*Gates.* The circuit is chosen in `Init` among `Designs`. `fired` is the one
field that `GATE_ONES`, `GATE_ZEROS` and `GATE_CONTROL` share. `walk` holds the
inputs still to be notified of a store; they are visited in any order, and gates
of one time fire in any order, which includes the orders of the code (the order
of `nsched.cc` is the subject of `GateQueue`). `Exec` is a whole `*_exec`
routine for one input; the routines differ only in the operators
`AndOutput`, `BufifOutput`, ... and in what they count. Initialization follows
`initialize_gates`, the SCBs it schedules to look at all inputs, and
`initialize_cont_assignments` for nets that have a value without a driver.

*Udp.* The primitive is chosen in `Init`, its rows given as the characters of
the source; the tables are built by the code's order (levels first, then edges,
nothing written twice). An action stores an input or several, and the gate moves
its index as `udp_exec` does. The queueing of its output is `GateQueue`'s.

*PathDelays.* One action is a store to an input (which notes the time), a gate
that takes a new output, or a gate that fires. `insert_specify_paths` runs in
`Init`, with the paths it drops.

*TimingChecks.* A store queues the checks that watch the variable; the idle pass
runs them one after the other, in an order that does not matter. The limits are
expressions in the code and may change while the simulation runs. `test` is C's
reading of the condition: 0 is false, and 1, x (3) and z are not. A statement has
a notifier node with a stamp of its own, whatever register it names.

*Eval and Store.* Memory is a function from addresses to groups: a vector that
is also read as an array of words, an operand that belongs to an outer
expression, and the stack behind them. One action is one node of the postfix
code; the program is grown node by node, any operator whose operands are there
may come next, so TLC visits every expression up to the bound. `widths` and `attrs`
are what elaboration has noted in the nodes, how wide each operand is and whether
it is an integer; the operators go by `R_nbits` and `is_integer`, which the
operators that call `eval` for an operand (`&&`, `||` and the condition of `?:`)
leave as that call has set it. Every intermediate value is compared with
`FourState`.

*Contexts.* The program is chosen in `Init` among `Programs` and is a graph of
statements, as the tree that `exec_` walks; one action is one `case` of `exec_`.
`WellFormed` says which graphs `pass3` builds: `within` of a statement is what it
stands in, what follows a statement stands in the same thing, an `end`
goes on behind its `begin`, the arms of a fork end at its join, and every fork
has an arm (without one the join would count down from nothing).
`h` has the lists, the fields of SCBs and contexts (`context[s]` is the stack
that the code threads through `shadow`), the lists of contexts of the blocks and
the free list in their order, because the code reads contexts after they are
freed. `stray` is `readylist_last` while it names an SCB of the free list, where
`FreeSCB` puts it if that list was empty (`schedule.cc:983`, `schedule.cc:1073`);
who is made ready next is then threaded behind it there. A delayed nonblocking
assignment is a process of its own with one context, which stands in the block of
its statement until it stores (`Pending`, `NonBlocking`). `DISABLE_STMT` is one step per `disable_context`, nothing else happening
meanwhile; `calls` are the calls that are in their `while (context->next)` loop.
Reading what is not there (a NULL context, a `next_pc` that no branch set) sets
`fault`. `exec_` is called by `disable_context` with `in_disable` set, where it
returns before the first statement (`exec.cc:358`, `exec.cc:1265`), so that this
call only sets the pc. Delays are any numbers: when nobody is ready, any of the
processes on the time list are due. An arrow stands for every statement that
notifies a variable.

Abstractions: outside the evaluator values are the four scalar values; a delay
is a number; an expression that an event or a gate waits on is the variable it
reads; markers of one variable are notified in the order of the code where it
matters (processes) and in any order where it does not (gates). Statements that
neither store nor wait do not appear.

## 3. Runs

| run | question | bounds |
|---|---|---|
| `sched` | two processes, two zero-delay nets with feedback, two events, one strobe that stores to a net and wakes processes in any pass: lists, last pointers, wakeups, order of appends, turns, time moves only when the present is over; every ready process runs and the simulation ends | time 2, three stores or zero delays per time step, three in all after a late final strobe |
| `sched_calendar` | one process, a net with delays 1 and 2, a delayed assignment, nonblocking assignments, two gates, a strobe that reaches all of them: the time list is sorted, the tail pointer is where `Schedule` needs it, the scheduler implements `EventCalendar`, after the final strobes time moves whatever they store for later | the same, delays 0 to 2 |
| `pli` | gates scheduled, rescheduled and fired while two user tasks set, clear and receive delays and nonblocking assignments take SCBs from the same free list: `GateQueue` implements `GateAgenda`, no delay is lost, doubled or out of its time, a user task is told the time that comes next | three gates, five time nodes, two instances, two SCBs, words of three values, time 3, three entries at once |
| `dump` | strobes, monitors, synchronized instances and a value change dump: `Strobe` implements `StrobePasses`, nodes are not lost, one monitor; the file has its header, the values and their times at every moment | two nodes, two monitors, two `$dumpvars`, three variables in a hierarchy of five blocks |
| `gates` | nine circuits, among them feedback, shared buses of three net types, a transmission gate and switches | time 2, delays to 2, all four values on every register |
| `udp` | a multiplexer, a flip-flop, a latch, and every sequential primitive of one input and two of 72 rows that the program accepts: the output is what the rows say | no bound on the number of changes |
| `paths` | a gate with paths from two inputs and a gate whose path is dropped, with delays that change | stores until time 2, simulation until time 6 |
| `timing` | one statement of each kind over a data bus of two bits and a clock, with an expansion into two bits, conditions that may be x or z, limits that change, a register for one statement and one that two share | time 3, three idle passes |
| `eval` | every expression of at most four nodes: operators against `FourState`, integers beside others and the flag that tells them, assignments, what is left alone | groups of 4 bits, operands of 3, 4, 6 and 10 bits, contexts to 16 bits for references, of 1 and 6 for conditions |
| `contexts` | disable of nested blocks, of named forks from an arm and from outside, of a block in an arm, of a task by itself and from outside; a task with three callers at one event; calls that are disabled; pending nonblocking assignments; arms freed while events wake others; no deadlock: everybody ends or waits for an event that does not come | eight designs, six SCBs, nine contexts, all orders of the delays |
| `sched_nets`, `contexts_disable` | disagreements of code and comments, below | the smallest that shows each |

Bounds. `MaxSteps` bounds how often a time step may go on (an endless zero-delay
loop is legal Verilog); three is enough for a store that notifies, a second one
in the walk of the first, and one more after the wakeup. Time 2 is enough for an
entry before, at and after another one. Two entries of one list beside the one
that moves are enough for every branch of the list macros (first, last, middle,
next to the tail pointer). A word of three values makes time 3 carry into the
high word. Groups of four bits give operands of one group that fill it, that do
not, and of two and three groups with a ragged last one, which are the cases the
loops of `eval.cc` distinguish. Before it was used in `Eval`, `MultDiv` was
compared with integers for all pairs of three words of four bits.
Two idle passes at one time and a third one later are what a check can tell
apart. The hierarchy of `dump` has a block of each kind that the walk over the
header distinguishes; that the header is right exactly for marks that are `Tidy`
was compared over 228 hierarchies of five blocks. In `pli` the gates
that keep their place and the two instances are symmetric, since nothing tells
two of them apart, and there is no deadlock check because a simulation ends.

The SCBs and contexts of `contexts` are as many as the designs ever need at
once (with one less TLC reports a deadlock), so that `NamedFork` frees an arm while
all SCBs are in use, which puts `readylist_last` on the free list; nobody is
woken before it comes back. The designs are those the code handles; the section
on disagreements has those it does not. In `timing` `$hold` and `$width` share a
register and fail at one time, in one pass and in two; `$setup` has one of its
own, and the data line that conditions two events is z until it is stored. In `eval` any literal
of a word, or of a word extended with zeros, may be an integer, on either side of
an operator.

*Fairness.* `FairSpec` is weak fairness of `Next`: there is one thread and it
takes a step whenever it can. No fairness between processes is assumed; that
every ready process runs is a property of the lists (`ReadyRuns`). `Contexts` and
`PathDelays` state the same fairness with the condition written out, which spares
TLC evaluating `ENABLED Next`; that it is the right condition is shown by the
absence of a deadlock before the end of time.

### What the runs show of the code

Lists and time: an SCB is threaded once, on the list its tag names;
`readylist_last` and `netlist_last` are right whenever they are used
(`ListsConsistent`); the tail pointer stays in the first group of the time list,
which is exactly what the shortcut of `Schedule` needs to keep the list sorted;
nothing is overdue, which `dispatcher` relies on as it compares for equality
(`PlansAhead`). Wakeups are neither lost nor doubled. Delays that end together
end in the order they began (`AppendsInOrder`), nobody loses his turn
(`NoTurnLost`). The clock moves only when nothing is left, to the earliest time
(`AdvanceWhenOver`); after the final strobes of a time whatever runs next runs at
a later one, although they store (`FinalIsLast`). All that is said of time is said
until a final strobe plans something for the time it shows (`late`): the code does
not look for it, see below.

User tasks: each delay that was set and not cleared is in a chain in time order,
at an SCB that waits for its first (`DelaysKept`); `tf_getnextlongtime` tells
the time to which the simulation then goes, be it that of a gate or of the time
list (`NextTimeIsTold`).

Processes: the lists of the blocks have exactly the contexts of the live
processes, also after any disable; everybody stands where his innermost context
says, and goes back to where he came from; a fork waits for as many arms as
there are and no arm outlives it (`ProcessesConsistent`); those outside a
disabled block are left alone (`BystandersKept`); no context is missing and no
`next_pc` unset when it is read (`NoFault`); a task call is passed over if
and only if it was disabled (`TaskCallsHonoured`, for the designs of the run); a
join that arms can reach ends (`JoinsEnd`).

Gates: at every moment, also in the middle of a store that reaches a gate twice,
the counts are exact and the output is the truth table of the inputs seen
(`GatesSound`); delays are inertial (`Inertial`); a settled circuit is
consistent (`SettledIsConsistent`); the two sides of a switch agree
(`SidesAgree`). A primitive's output is what its rows say of the last change, and
its index that of the levels (`OutputIsRow`), for tables whose edge rows do not
share a place.

Paths: the latest input decides, with the least delay of those stored then
(`LatestWins`); what is taken back is never shown (`ImplementsLine`); a change
to x takes no longer and one from x no less than any other (`XPessimism`); what
gate, path and net know of one another agrees (`PathSound`), and every gate
comes to drive its output (`Settles`). Timing checks: what they report is what
the limits forbid, given all the values of the idle passes (`ReportsViolations`),
where a condition that is x or z enables the event; the register of one statement
that was toggled stays different until the end of the time (`NoticeStays`); a
register of several is toggled once by each that fails, in whatever passes they
fail (`TogglesCounted`), so that two failures undo each other.

Strobes and dump: a pass runs what was queued when it began (`NextPass`); nodes
are where the queues say, with one live monitor (`QueuesSound`); no dumped
variable has an old value in the file while the dump is on, and its lines come
after the time (`FileIsCurrent`, except for the final pass, below); the header is
read back as the scopes and variables that were marked (`HeaderReadsBack`).

Values: every operator gives the bits Verilog asks for, whatever lies above the
width of its operands, and compares and divides signed when both are integers
(`Evaluates`, apart from the exceptions that `Precise` and `FlagIsRight` list); the
operands below, the storage and the pointers are left alone
(`Framed`); an assignment changes the bits it names and notifies of a change
(`Assigns`).

### Disagreements of code and comments

Two have a run.

1. `sched_nets` (`schedule.cc:361` against `:47`): `netlist_last` is not repaired
   when the last net of the net list is notified again with a value that has a
   delay and moves to the time list; the next net without a delay is threaded
   behind it, on the time list, with the tag of the net list.
2. `contexts_disable` (`exec.cc:230` against `:205`): a block that contains a
   running unnamed fork is disabled from outside; the loop over
   `context->next` follows a context that it freed, and the simulator crashes.
   A named fork in the arm of another one fares no better: its arms survive the
   disable of the outer one and then count down in an SCB that is free.

The others were met while modelling; where a property would be violated by them,
its statement or the design of its run leaves them out and says so.

*Scheduler.* A delayed continuous assignment prepended to its time becomes
`timelist_currentTail`, which is then not the "last entry for current time"
(`schedule.cc:1081` against `:45`), so that a later nonblocking assignment with
the same delay is put before earlier ones. A delayed continuous assignment that
feeds itself leaves the ready list while it executes, and
`suspend_current_process` then suspends whichever SCB is first (`schedule.cc:671`
against `:646`). With a gate pending and an empty time list the loop goes round
for ever (`schedule.cc:922` against `:914`). Events that a callback of the last
pass puts on the ready or the net list are dropped at the end (`schedule.cc:922`,
against "there is a chance that pli code has added some events", `:919`);
`ReadyRuns` leaves out the last pass for that. Nor is anything looked for after the
final pass of a time, whose strobes can store too: the assertion that the ready list
is empty (`schedule.cc:888`) is not compiled. What they have planned for the time
they have shown runs after the clock has moved, or moves it back; the time list that
was not empty before the pass may be empty after it, and its head is read all the
same (`schedule.cc:890`).
`GateConditionalAdvanceTime` advances for `<` where its header says "less than or
equal" (`nsched.cc:286`; harmless, the gates of that time fire first anyway).
The time node of a gate that is removed alone is not put back on the free list.

*Processes.* A task call behind the end of a named block or a fork is passed
over, as the context freed last returns to it (`exec.cc:932` against `:943`). A
disabled task starts again if its caller was ready when it was disabled and the
disabling process ended first, or if the task had two active callers. A disable
unthreads the event statement that another caller of the task waits at, who
loses his wakeup (`exec.cc:214`). `next_pc` is not set for a process that is
ready at any other statement (`exec.cc:211`), for instance one of two arms before
it began, nor for a nonblocking assignment that waits for its delay: it has entered
the block of its statement (`exec.cc:770`), so a disable of that block reaches it
and finds no case ("The context being disabled is in one of the following states",
`exec.cc:205`). In `Pipelined` a disable of `outer` while an assignment is pending
violates `NoFault`. When a disable frees an arm while no SCB is on the free list
(they are allocated by the 1024), `FreeSCB` makes the arm `readylist_last`
(`schedule.cc:983`, against "Points to last SCB on ready list" `schedule.cc:49`), and
who is woken next by an event is threaded behind it on the free list and never
runs: with one process more, so that all six SCBs are in use, `ArmsFreed` violates
`ProcessesConsistent`. An empty `fork join` waits for ever.

*Strobes.* The node of the executing strobe is free while it executes, and a
strobe queued meanwhile takes it over, so that `is_strobe_active` answers for the
wrong statement (`strobe.cc:126`, against `:115`). `$monitoron` before any
`$monitor` queues a null statement (`systask.cc:1111`, against the assertion
`strobe.cc:148`).

*User tasks.* After its last delay an instance should forget its SCB, but
`exec.cc:1026-1032` clears another field: of a user task its work area, of a user
function the declaration of its value. `DELAYSCB` goes on naming a free SCB that
may be given to somebody else; a later `tf_setdelay` threads into it, a later
`tf_clearalldelays` frees it. `tf_clearalldelays` calls itself for ever
(`pli.cc:5167`); `tf_iclearalldelays` called from the reactivation frees the SCB
that executes, and the next process is dropped; a delay node is pushed on its
free list after it was freed (`exec.cc:1040`). `tf_getnextlongtime` in a
parameter-change callback may tell a time beyond events of the present.
`acc_vcl_delete` in a callback may free the marker the walk goes to next.
`tf_compare_long` never returns -1, as it tests an unsigned word for `< 0`
(`pli.cc:3345`).

*Gates and primitives.* A switch keeps driving what it computed when another
driver of its net goes away without changing the value of the net. Edge rows that
contradict each other are not always reported (`udp.cc:590` shifts the whole
entry, against the message of `:606`); an edge row that agrees with an earlier one
at one place is dropped at all of its places; `p` and `n` share a place (x to x);
a combinational primitive whose inputs never change stays x.

*Specify.* A register that two statements name as their notifier is toggled twice
at one time, as each has a stamp of its own (`specify.cc:1230`, against "only allow
notifier to be toggled once a tick", `:1490`). An event whose condition is x
or z counts, as `test` returns x (3) for it and `timingCheck` takes that for true
(`eval.cc:2304`, `specify.cc:1365`), unlike the conditions of `if` and `wait`. A check on a bit select watches bit 0; a hold with simultaneous edges
is not reported before a first reference event after time 0. A path output that
is driven by a continuous assignment drops all later paths of the module with a
warning; any bit of a select activates a path.

*Dump.* `$dumpon` and `$dumpall` write to a file that could not be opened
(`systask.cc:1308` says that the condition is "needed in case $dumpon is called
before dump file is opened"); `$dumpall` acts only while the dump is off
(`systask.cc:1324`); a store in the final pass uses up `new_time`, so that the
changes of the next time stand under the old time (the ghost `late` excludes
exactly that). The header opens a module twice, and closes it once, that has no
marked variables of its own but two instances with some; it closes one without
opening it that has marked variables in its named blocks only.

*Values.* Bits above the width are read by divisions of a complement or a sum,
by right shifts, multiplications and shift counts, and the part that is not
aligned at a group is not masked in a wider context (`u = f[33:30]` on 32 bits
gives ones); a repetition of a 64-bit operand spoils a group;
`-96'h00000001ffffffff00000001` carries wrongly; `s >> 32` on 8 bits gives the
count; a shift by more than the stack holds destroys the other operand; selects
of a vector with x in a context of 96 bits lose x or give z; reductions that stop
early give x; `x != 1` gives 1 while `x == 1` gives x. Whether numbers are signed
is decided by the attribute of the first node of the expression (`eval.cc:407`), be it
an index or the first of two operands of which the other is no integer; the right
operand of `&&` and `||` and the condition of `?:` are evaluated by a call that overwrites it for all that
follows (`eval.cc:1133`, `eval.cc:1896`, against "the integer flag must be preserved",
`eval.cc:404`): with `integer i`, `(x && i) < y` compares signed. Wider operands are then
compared and divided by their lowest word only, and a divisor whose lowest word
is zero traps. Stores: `v[66:5] = ~k`
also sets `v[68:67]`; a part that straddles groups may change bits without
notifying (a lost event); `{q[0], v[3]} <= 2'b11` shares one remembered offset;
`v[1'bx] = 1` stores x into bit 1.

## 4. Proofs

All theorems are for any values of the constants that meet the named
assumptions.

`Scheduler_proofs`: for every design, with any number of processes, nets,
assignments, gates, events and strobes, from `DesignAssumption` (the parts are
disjoint, the fanout names what there is) and the hypothesis `UniformDelays` (the
delays of a net are all zero or all positive; without it `netlist_last` goes
stale, as run `sched_nets` shows): `ListsStayConsistent`, `PlansStayAhead`,
`TimeMovesWhenOver`, `FinalStrobesAreLast`. The invariant is
`IInv == TypeOK /\ Threads /\ Planned /\ Kinds /\ Turn /\ ChainedOnce /\
WaitersThreaded /\ Ahead /\ Present /\ Busy /\ Over`. It speaks of tags
(`q.list`) where the properties speak of positions: `Threads` says that the lists
are those of the tags and the pointers their ends, `Turn` that nobody takes the
turn of the head of the ready list while its stores go on, `Present` and `Over`
what is left of the present in each phase of `dispatcher`. `Ahead`, `Present`,
`Busy` and `Over` speak of time and hold until `late`; `Over` says that while the
final strobes run, whatever they store, all that is planned is for later. Between
`AdvanceToTimelist` and the first `Execute` the clock is still old (`Moved`).
Its first part has one lemma per operation on the lists (`Schedule`,
`ADD_LIST_SCB`, `REMOVE_LIST_SCB`, the walks), each with the same conclusion
`Step(q, v, s, tag, t)`: s moved to the list of that tag with that time, and
nothing else changed.

The same module proves that the scheduler implements that calendar for every
design (`SchedulerImplementsCalendar`, what run `sched_calendar` shows on its
instance), and nobody loses his turn (`TurnsAreKept`), from one more hypothesis,
`NoDelayedFeedback`: a net or an assignment that has a delay does not notify
itself. It would leave the ready list while it executes, and dispatcher would put
away whoever is first (section 3). The invariant adds
`Actors` (who executes in which phase) and `HeadExecutes` (the executing SCB is
the head of the ready list), and each action is mapped by the one SCB it moves:
`DueElsewhere` says that nothing else becomes due at another time, `DuePlanned`,
`DueRuns` and `DueKept` that the calendar plans it, runs it or stutters. The
clock is what makes it hard: at `Execute` it may jump, and `due` of an SCB that
is ready depends on the clock; `Moved` says that then everybody who is ready has
the new time already. What the calendar promises follows for the
scheduler: no SCB and no gate is overdue (`NothingIsOverdue`), and the clock
neither goes back nor passes anything (`ClockIsKept`), by `CalendarAhead`, which
is about the calendar alone. Both promises, like all of time, end with `late`; the
lists, the last pointers and the order of the time list do not depend on it.

`DelaysEndInOrder` (`AppendsInOrder`) needs `NothingPrepends` besides: the design
has no delayed continuous assignment, whose prepending breaks the property
(section 3). The shortcut of `Schedule` appends behind `timelist_currentTail`
without a walk, and `TailInFirstGroup` is too weak for it: the pointer must be
the last of the first group (`TailEnds`), which REMOVE_LIST_SCB restores by
walking to where the time changes (`GroupEndLast`) and ADD_LIST_SCB by taking
every entry that is not later than the tail (`AddLast`). `TailEnds` is carried
through every action beside `IInv` (`NextAppends`).

`Contexts_proofs`: for every program that `WellFormed` allows, with any number of
processes, contexts, blocks and calls, and every order of the delays.

- `ProcessesStayConsistent` and `BystandersStay`, from `DisablesSpare`: each
  disabled block is in a set of blocks that has every block entered from them,
  and from none of which anybody forks or waits for an event (`Sealed`).
  The code does need that. A fork in the block makes the loop of `disable_context`
  follow contexts it has freed (run `contexts_disable`); an event or a wait in it
  may have threaded several callers of one task through one marker, and
  `event_undo` unthreads the marker for all of them when it pulls one out
  (`exec.cc:214`, `schedule.cc:618`), so that the others wait where no event finds
  them. A delay and any number of nested blocks and calls are allowed, and a
  process may disable a block it is in. Such a disable frees no SCB, as no arm
  of a fork is in the block, so that `readylist_last` never gets to the free list
  (the invariant has it at the last of the ready list). Nonblocking assignments may
  be pending in the block: what they meet there is not the lists.
- `NothingFails`, from `DisablesCalm`: in a disabled block stand only plain
  statements, delays, arrows, and its end, and no nonblocking assignment. Who has just been pulled out of an
  inner block is ready at whatever follows it, and an arm that has not begun at
  its first statement: for such a process the switch of `disable_context` may have
  no case (`exec.cc:205-240`), and `next_pc` is not set; for a pending assignment, which is ready or on the time list at a
  statement of its own, it never has one. With these statements
  only, whoever is in the block is in a delay or executes. `DisablesCalm` implies
  `DisablesSpare` (`CalmIsSpared`).

A program without disable meets both. Of the designs of run `contexts`,
`ArmsBlock`, `Callers` and `CallDisabled` meet both and `OneCaller` the first;
`Pipelined` meets both, as its assignments stand outside the block that is
disabled. `Nested`, `NamedFork` and `ArmsFreed`, whose disabled blocks wait for events or fork, meet
neither and are handled all the same: what keeps them right is which processes can
be where at which time, and that is left to TLC.

The properties are not inductive: that a context returns to where its process came
from says nothing about the next one out. `IInv` says it of whole stacks.
`Frames(g, s)` is the stack of s as what each context returns to and which block
it is in, and `Stands(F, at, joining, fork)` goes through it from the inside: the
statement `at` stands in the begin, the fork or the task whose context is the
first, the statement this one returns to in that of the second, and so on to the
one that the process was built with, which returns nowhere and belongs to the
module or to the fork whose arm the process is. From this follows that
`exit_context` and `unwind_context` go where `begin`, `fork` and `task` came from
(`EndTask` is the case that needs it most: the block of a task has one body and
many callers). A pending assignment is a process with one frame, which leaves its
block and is freed when it executes again (`Pends`). `Owned` ties the contexts of the stacks to the lists of the blocks
and the free list, `Threaded` the four lists of SCBs to their tags, `Forking` the
number of processes whose `fork` is the one at the join to its `fork_count`, and
`Waiters` the thread through each marker to those who wait at it. They are about
any record `g` of lists, not only the state, as `Fork`, `NotifyEvent` and
`disable_context` are several operations in one action, and each operation has a
lemma: what it does to frames, ownership, threads, arms and markers. `CalmInv`
adds for `NothingFails` that whoever is in mode RUN, but the one that executes,
stands in no calm block (`AllAlert`).

`Gates_proofs`: for every circuit, with any number of gates, nets, registers and
inputs, any delays and any order of notification, from the one assumption that a
circuit has the terminals `build_gate` and `gate_check_ports` insist on
(`GatesAssumption`):

- `GatesStaySound`. The invariant is
  `IInv == TypeOK /\ CountsExact /\ OutputIsTable`: the counts are needed for the
  output, and that a count is a natural number needs that it is exact.
  `NumberAfterChange` says how a cardinality changes when a function changes at
  one point, `RecountExact` that `*_exec` does just that, `LogicIsTable` that the
  output computed from the counts is the truth table.
- `GatesInertial`. The invariant adds `DelayKept`: a gate is queued for no
  earlier than its delay after its output last changed.
- `GatesSettle`: in a circuit without switches, whenever nothing is left to do
  every net has the value its gates give for the values of the nets. The
  invariant `SInv` adds one conjunct per hop a change makes: an input that is
  not to be notified has seen its net (`InputsSeen`), a gate that is not queued
  has driven its output (`OutputsDriven`), a net that is not on the net list has
  the value of its drivers (`NetsEvaluated`).

`PathDelays_proofs`: for all modules, paths and delays. `PathsStaySound` with
`IInv == TypeOK /\ PathKnows`; `DelaysStayPessimistic`; `LatestInputWins`, by
`DueIsDueTime`: the loop over all inputs of all paths finds the latest moment and
the least delay of the inputs stored then; `PathsImplementLines`, the refinement
of `PathLine`. The loop is a fold; what it computes is proved with
`Induction` of `Lemmas`, where the set of the numbers for which something holds takes
the place of a predicate.

`TimingChecks_proofs`: for all statements, conditions, limits (changing ones
too) and sequences of stores, from `TimingAssumption` and `BitsAssumption` (the
bits that `pass3_timing_check` lets through exist): `ChecksStaySound`,
`ReportsAreRight`, `NoticesStay`, and `ToggledOnce`, for any sharing of registers: a
register is what it was when the time began, toggled as often as there are
statements that have failed since. The
invariant is `ChecksInv == Typed /\ InTime /\ Registers /\ Seen /\ Latest`:
`Seen` says that a check holds the values of the last idle pass, and the present
ones unless it waits; `Latest` that the time it keeps for an event is the latest
of all moments of that event (0: none). With these each of the seven checks
compares one time where the property speaks of all. `NoticeInv` adds that a
statement is stamped now exactly if it has failed now, and counts the toggles of
each register by these statements.

`Strobe_proofs`: for any number of nodes, `$strobe` and `$monitor` statements and
user tasks, from `StrobeAssumption`: `QueuesStaySound`, and `PassesImplemented`,
the refinement of `StrobePasses`. The pointers are read as three sequences of
nodes q, one for each queue and one for the free list: `Threaded(mem, q)` says
that no node is on two of them or twice on one (`Once`), that head, free and next
lead through them (`Linked`), tail is the last (`Ended`), and that they hold
exactly the allocated nodes (`Kept`). The invariant
`QInv == mem \in Memory /\ Phases /\ \E q : Sound(q)` adds that at most one monitor
is queued (`Single`) and that the fence of a pass is on its queue until the node
that was the fence executes (`Fenced`): that node is free by then, and its
statement may get it again behind the fence, so that the end of the pass must be
told by the local `s`, not by the queue. `ChainIs` says that walking the pointers
from the start of a list gives its sequence; `EnqueueThreads`, `RemoveThreads` and
`DequeueSound` say what the operations of `strobe.cc` make of the sequences, and
each action is mapped by what it makes of the statements in their order (`On`).

`PliDelays_proofs`: for any number of gates, nodes, user tasks, functions and
SCBs, any delays and any width of a word, from `QueueAssumption`,
`WordAssumption` and `PliAssumption` (the sets are finite, the bounds numbers):
`PointersStaySound`, `AgendaImplemented` (the refinement of `GateAgenda`),
`DelaysStayKept` and `NextTimeTold`. The invariant is `QueueInv /\ PliInv`.

- The pointers of `nsched.cc` are read as a sequence L of nodes, a sequence R[n]
  of gates for each node, and the sequence A of all gates in the order in which
  they fire: `Holds(h, L, R)` says that the circular pointers lead through L and
  through each R[n], that the times of L rise, that a gate names the node of its
  ring and that a node is kept free only when L is empty; `IsAgenda(h, R, A)` that
  A has exactly the gates that are scheduled, earlier nodes before later ones and
  the gates of a node in the order of its ring.
  `QueueInv` adds that no gate waits for the past. `RemoveHolds` and `InsertHolds`
  say what the two operations make of L and R, each by the cases of the code (the
  last gate of a ring, the first node, a node of that time, in front of a later
  one, at the end), `LeftOrder` and `CameOrder` what that makes of A: `RemoveAt`
  and `InsertAt` at the place the agenda names. The two words of a time enter by
  `Value`, for which the macros of `vtypes.h` are shown to compare and add.
- `PliInv`, as long as no SCB was taken from who uses it: an SCB is on one list at
  most (`Apart`), a chain rises from now on (`Chains`), the time list is in the
  order of the first delays (`InTurn`), the first delay of a ready SCB ends now
  unless it executes (`IsReady`), who has a chain is ready or waits (`InUse`), a
  chain belongs to one instance (`Owned`) and holds what it has set (`Counted`).
  `Owned` is where `DELAYSCB`, which is never cleared, matters: an instance may
  name an SCB that is free, as long as no other does and its chain is empty.
  `DelaysKept` alone is not inductive: it says nothing of who shares an SCB, nor
  that a chain is on a list.

Only model-checked:

- `SidesAgree`: whether it holds depends on the design. A glitch between two
  evaluations of a net leaves a driver that is not of the present, and nets of
  two types on the sides of a switch resolve the same drivers differently; the
  circuits of run `gates` avoid both, and a hypothesis that excludes them would
  say of the design what the property says of the code.
- `FileIsCurrent` and the header: written by recursive operators, which no proof
  may reach.
- Of `Contexts` the theorems' properties for programs that disable forks and
  event waits (where `readylist_last` moves to the free list, and with a pool that
  is exhausted at the wrong moment the property fails), and `TaskCallsHonoured`, which depends on which contexts were freed
  last and holds for the designs of the run.
- `Udp`, `Eval` and `Store`: what their folds over rows, digits and parts compute
  for every input is induction over data, with powers of three and of two as
  places.
- Liveness (`Ends`, `ReadyRuns`, `JoinsEnd`, `Settles`) is out of the prover's
  reach, and so is what a recursive definition computes for every input.

## 5. Not modelled, and what is left

- Elaboration (`check.cc`, `pass2.cc`, `pass3.cc`, `decl.cc`, `scope.cc`,
  `tree.cc`): sequential passes over the tree. What they leave for the run time
  is modelled where it matters (initial processes, nets and gates, tables of
  primitives, the gates of paths, the bits of timing checks, part selects,
  widths); the passes themselves check types and report errors.
- Of `eval.cc` reals, function calls and the edge operators; of `store.cc` the
  offsets remembered between two parts of one delayed assignment.
- Of `pli.cc` the access routines (`acc_*`), which read the tree, and the
  conversions of parameters to text.
- `timescal.cc` and `random.cc` calculate in floating point; `print.cc` and
  `lex.cc` are text; `parse.cc`, `sdfparse.cc` and `sdfcpars.cc` are generated;
  `sdf.cc` reads delays from a file before the simulation starts, and its walk
  over the instances is the tree's. `lxt/`, `libltdl/` and `replace/` are
  libraries.
- Left to prove: `TaskCallsHonoured` for programs whose disables are spared; the
  operators of `Groups` bit by bit.

`PROJECT.json` lists every part with its status.
