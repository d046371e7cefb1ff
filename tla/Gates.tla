-------------------------------- MODULE Gates --------------------------------
(***************************************************************************)
(* The built-in primitives of gates.cc: the logic gates, which count their *)
(* inputs instead of looking at them, the three-state and MOS gates, and   *)
(* the bidirectional switches.  A store to a net or a register notifies    *)
(* the primitives that read it one input at a time; a primitive updates    *)
(* its output at once and is queued for its delay; when it is removed from *)
(* the queue it drives its outputs, whose nets are evaluated (eval.cc)     *)
(* from all their drivers, and so on.                                      *)
(*                                                                         *)
(* The circuit is chosen in Init and never changes.  The queue is the map  *)
(* pending, as GateQueue shows it may be; gates of one time fire in any    *)
(* order, and so are the markers of one net visited.                       *)
(***************************************************************************)
EXTENDS Integers, Sequences, FiniteSets

CONSTANTS Designs,      \* the circuits: [kind, ins, outs, delay, type]
          REG,          \* variables the processes assign
          NETS,         \* nets
          GATE,         \* primitive instances
          NONE,         \* the time of a gate that is not queued
          MaxTime       \* bound: time does not pass this

ZERO == "0"
ONE  == "1"
Z    == "z"
X    == "x"
VAL  == {ZERO, ONE, Z, X}
Known   == {ZERO, ONE}
Unknown == {X, Z}

And   == {"and", "nand"}
Or    == {"or", "nor"}
Xor   == {"xor", "xnor"}
Logic == And \cup Or \cup Xor
Buf   == {"buf", "not"}
Bufif == {"bufif0", "bufif1"}
Notif == {"notif0", "notif1"}
Mos   == {"pmos", "nmos", "rpmos", "rnmos"}
Cmos  == {"cmos", "rcmos"}
Tranif == {"tranif0", "tranif1", "rtranif0", "rtranif1"}
Tran  == {"tran", "rtran"} \cup Tranif
Pull  == {"pullup", "pulldown"}
KIND  == Logic \cup Buf \cup Bufif \cup Notif \cup Mos \cup Cmos \cup Tran \cup Pull

NetType == {"wire", "tri0", "tri1", "wand", "wor", "supply0", "supply1"}

(* What each gate is, reads and drives, with the numbers of terminals that *)
(* build_gate checks; its delays (none, one, rise and fall, or rise, fall  *)
(* and turn-off); and what the nets are.                                   *)
Terminals(k, reads, drives) ==
  /\ k \in Logic \cup Bufif \cup Notif \cup Mos \cup Cmos \cup Pull => drives = 1
  /\ k \in Tran => drives = 2
  /\ k \in Logic => reads \in 1..63
  /\ k \in Buf => reads = 1 /\ drives \in 1..8
  /\ k \in Bufif \cup Notif \cup Mos \cup (Tran \ Tranif) => reads = 2
  /\ k \in Cmos \cup Tranif => reads = 3
  /\ k \in Pull => reads = 0

IsDesign(d) ==
  /\ d.kind \in [GATE -> KIND]
  /\ d.ins \in [GATE -> Seq(REG \cup NETS)]
  /\ d.outs \in [GATE -> Seq(NETS)]
  /\ \A g \in GATE : Terminals(d.kind[g], Len(d.ins[g]), Len(d.outs[g]))
  /\ d.delay \in [GATE -> Seq(Nat)] /\ \A g \in GATE : Len(d.delay[g]) <= 3
  /\ d.type \in [NETS -> NetType]

ASSUME GatesAssumption ==
  /\ \A d \in Designs : IsDesign(d)
  /\ REG \cap NETS = {}
  /\ MaxTime \in Nat /\ NONE \notin Nat

VARIABLES
  design,
  val,          \* DECL_STATE of the registers and the nets
  input,        \* GATE_IN of each input
  fired,        \* GATE_ONES, GATE_ZEROS or GATE_CONTROL: one field
  any_Xs,       \* GATE_X
  output,       \* GATE_OUTPUT
  driver,       \* the storage of each output port: what it drives
  pending,      \* when the queue will release each gate
  netlist,      \* the nets to be evaluated
  walk,         \* the inputs that are still to be notified
  boot,         \* the gates initialize_gates has yet to take from the queue
  first,        \* the gates whose inputs have yet to be looked at, at time 0
  CurrentTime,
  since         \* history: when the output last changed

vars == <<design, val, input, fired, any_Xs, output, driver, pending, netlist,
          walk, boot, first, CurrentTime, since>>

Kind(g) == design.kind[g]
Ins(g)  == design.ins[g]
Outs(g) == design.outs[g]
Inputs(g)  == DOMAIN Ins(g)
Markers    == UNION {{<<g, i>> : i \in Inputs(g)} : g \in GATE}
Readers_First(n) == {m \in Markers : m[2] = 1 /\ Ins(m[1])[1] = n}
Readers(n) == {m \in Markers : Ins(m[1])[m[2]] = n}

-----------------------------------------------------------------------------
(* eval_delay: X takes the least delay, and so does Z without a turn-off.  *)
Least(t, u) == IF u < t THEN u ELSE t
eval_delay(ds, v) ==
  CASE Len(ds) = 0 -> 0
    [] Len(ds) = 1 -> ds[1]
    [] Len(ds) = 2 -> IF v = ONE THEN ds[1] ELSE IF v = ZERO THEN ds[2] ELSE Least(ds[1], ds[2])
    [] Len(ds) = 3 -> IF v = ONE THEN ds[1] ELSE IF v = ZERO THEN ds[2] ELSE IF v = Z THEN ds[3]
                      ELSE Least(Least(ds[1], ds[2]), ds[3])

(* do_net_eval: all drivers of a net but one, combined.                    *)
Combine(type, vs) ==
  LET driven == vs \ {Z}
      wired  == IF driven = {} THEN Z ELSE IF \E v \in VAL : driven = {v} THEN CHOOSE v \in driven : TRUE ELSE X
      Dominates(v) == IF v \in driven THEN v ELSE wired
  IN CASE type = "wand" -> Dominates(ZERO)
       [] type = "wor"  -> Dominates(ONE)
       [] type = "tri0" -> IF wired = Z THEN ZERO ELSE wired
       [] type = "tri1" -> IF wired = Z THEN ONE ELSE wired
       [] type = "supply0" -> ZERO
       [] type = "supply1" -> ONE
       [] OTHER -> wired

Ports     == UNION {{<<g, j>> : j \in DOMAIN Outs(g)} : g \in GATE}
Drives(p) == Outs(p[1])[p[2]]
do_net_eval(n, excluded) ==
  Combine(design.type[n], {driver[p[1]][p[2]] : p \in {p \in Ports \ excluded : Drives(p) = n}})

-----------------------------------------------------------------------------
(* The *_exec routines.                                                    *)

Count(b) == IF b THEN 1 ELSE 0

(* The value a logic gate counts; the others count nothing.                *)
Counted(k) == IF k \in And THEN ZERO ELSE ONE

Recount_KeepOld(k, n, old, new) == n + Count(new = Counted(k))
Recount(k, n, old, new) == n - Count(old = Counted(k)) + Count(new = Counted(k))
RecountX_OnlyX(n, old, new) == n - Count(old \in Unknown) + Count(new = X)
RecountX(n, old, new)   == n - Count(old \in Unknown) + Count(new \in Unknown)

Not(v) == CASE v = ZERO -> ONE [] v = ONE -> ZERO [] OTHER -> X
Inverting == {"nand", "nor", "xnor", "not", "notif0", "notif1"}

Inverted(k, v) == IF k \in Inverting THEN Not(v) ELSE v

AndOutput_NoX(k, n, x) == Inverted(k, IF n = 0 THEN ONE ELSE ZERO)
AndOutput(k, n, x) ==
  Inverted(k, IF n > 0 THEN ZERO ELSE IF x = 0 THEN ONE ELSE X)
OrOutput(k, n, x) ==
  Inverted(k, IF n > 0 THEN ONE ELSE IF x = 0 THEN ZERO ELSE X)
XorOutput(k, n, x) ==
  Inverted(k, IF x > 0 THEN X ELSE IF n % 2 = 1 THEN ONE ELSE ZERO)

ActiveLow == {"bufif0", "notif0", "pmos", "rpmos", "tranif0", "rtranif0"}
OnValue(k) == IF k \in ActiveLow THEN ZERO ELSE ONE

BufOutput(k, in) == Inverted(k, IF in = Z THEN X ELSE in)

BufifOutput(k, data, control) ==
  IF control \in Unknown THEN X
  ELSE IF control # OnValue(k) THEN Z
  ELSE IF data = Z THEN X ELSE data

NotifOutput(k, data, control) ==
  IF control \in Unknown THEN X
  ELSE IF control = OnValue(k) THEN Not(data) ELSE Z

MosOutput(k, data, control) ==
  IF control \in Unknown THEN IF data = Z THEN Z ELSE X
  ELSE IF control = OnValue(k) THEN data
  ELSE Z

CmosOutput(data, n, p) ==
  IF data = Z \/ (n = ZERO /\ p = ONE) THEN Z
  ELSE IF n = ONE \/ p = ZERO THEN data
  ELSE X

ExecOutput(k, in, n, x, out) ==
  CASE k \in And   -> AndOutput(k, n, x)
    [] k \in Or    -> OrOutput(k, n, x)
    [] k \in Xor   -> XorOutput(k, n, x)
    [] k \in Buf   -> BufOutput(k, in[1])
    [] k \in Bufif -> BufifOutput(k, in[1], in[2])
    [] k \in Notif -> NotifOutput(k, in[1], in[2])
    [] k \in Mos   -> MosOutput(k, in[1], in[2])
    [] k \in Cmos  -> CmosOutput(in[1], in[2], in[3])
    [] OTHER -> out

(* "this is a kludge until strengths are supported": a gate is queued anew *)
(* although its output stays X.                                            *)
StrengthChange(k, i, in, old, out) ==
  \/ k \in Bufif \cup Notif /\ i = 1 /\ {old, in[1]} \cap Known # {} /\ in[2] \in Unknown
  \/ k \in Mos \cup Cmos /\ i = 1 /\ out = X

(* ScheduleGate: a gate that is queued already is moved.                   *)
Queue_First(g, out) == IF pending[g] # NONE THEN pending[g] ELSE CurrentTime + eval_delay(design.delay[g], out)
Queue(g, out) == CurrentTime + eval_delay(design.delay[g], out)

(* The time a switch is queued for when input i has changed, if it is.  A  *)
(* switch that conducts follows its data at once.                          *)
TranTime(g, i, conducts) ==
  IF i = 3 THEN Queue(g, output[g])
  ELSE IF conducts THEN CurrentTime ELSE pending[g]

(* When a switch takes its control.                                        *)
Conducts_Unknown(k, i, new, n) == IF i < 3 THEN n ELSE Count(new \in {OnValue(k), X})
Conducts(k, i, new, n) == IF i < 3 THEN n ELSE Count(new = OnValue(k))

(* One input of one gate is notified.                                      *)
Exec(g, i) ==
  LET k    == Kind(g)
      old  == input[g][i]
      new  == val[Ins(g)[i]]
      in   == [input[g] EXCEPT ![i] = new]
      n    == IF k \in Logic THEN Recount(k, fired[g], old, new)
              ELSE IF k \in Tran THEN Conducts(k, i, new, fired[g]) ELSE fired[g]
      x    == IF k \in Logic THEN RecountX(any_Xs[g], old, new) ELSE any_Xs[g]
      out  == ExecOutput(k, in, n, x, output[g])
  IN /\ <<g, i>> \in walk
     /\ walk' = walk \ {<<g, i>>}
     /\ IF old = new THEN UNCHANGED <<input, fired, any_Xs, output, pending, since>>
        ELSE /\ input' = [input EXCEPT ![g] = in]
             /\ fired' = [fired EXCEPT ![g] = n]
             /\ any_Xs' = [any_Xs EXCEPT ![g] = x]
             /\ output' = [output EXCEPT ![g] = out]
             /\ since' = IF out = output[g] THEN since ELSE [since EXCEPT ![g] = CurrentTime]
             /\ pending' = [pending EXCEPT ![g] =
                  IF k \in Tran THEN TranTime(g, i, n = 1)
                  ELSE IF out # output[g] \/ StrengthChange(k, i, in, old, out) THEN Queue(g, out)
                  ELSE pending[g]]
     /\ UNCHANGED <<design, val, driver, netlist, boot, first, CurrentTime>>

-----------------------------------------------------------------------------
(* The propagate routines: a gate drives its outputs; a store that changes *)
(* a driver puts the net on the net list (ScheduleNet).                    *)
Drive(g, vs) ==
  /\ driver' = [driver EXCEPT ![g] = vs]
  /\ netlist' = netlist \cup {Outs(g)[j] : j \in {j \in DOMAIN vs : vs[j] # driver[g][j]}}

(* propagate_bigate_output: each side gets what the others drive on the    *)
(* other side.                                                             *)
Across(g) == [j \in 1..2 |-> IF fired[g] = 1 THEN do_net_eval(Outs(g)[3 - j], {<<g, 3 - j>>}) ELSE Z]

Propagated(g, out) == IF Kind(g) \in Tran THEN Across(g) ELSE [j \in DOMAIN Outs(g) |-> out]

(* initialize_gates: every gate leaves the queue and propagates X, or what *)
(* it drives from the beginning.                                           *)
InitializeGate(g) ==
  /\ g \in boot
  /\ boot' = boot \ {g}
  /\ pending' = [pending EXCEPT ![g] = NONE]
  /\ Drive(g, Propagated(g, output[g]))
  /\ first' = first \cup {g}
  /\ UNCHANGED <<design, val, input, fired, any_Xs, output, walk, CurrentTime, since>>

Running == boot = {} /\ walk = {}

(* GATE_INSTANCE of exec_: "all input[s] to reevaluated" at time 0.        *)
FirstExec(g) ==
  /\ Running /\ g \in first
  /\ first' = first \ {g}
  /\ walk' = {m \in Markers : m[1] = g}
  /\ UNCHANGED <<design, val, input, fired, any_Xs, output, driver, pending, netlist, boot, CurrentTime, since>>

(* A process stores to a register a gate reads; only a change is notified. *)
Assign(r, v) ==
  /\ Running /\ v # val[r] /\ Readers(r) # {}
  /\ val' = [val EXCEPT ![r] = v]
  /\ walk' = Readers(r)
  /\ UNCHANGED <<design, input, fired, any_Xs, output, driver, pending, netlist, boot, first, CurrentTime, since>>

(* A net is evaluated and stored.                                          *)
NetExec(n) ==
  /\ Running /\ n \in netlist
  /\ netlist' = netlist \ {n}
  /\ LET v == do_net_eval(n, {})
     IN /\ val' = [val EXCEPT ![n] = v]
        /\ walk' = IF v = val[n] THEN {} ELSE Readers(n)
  /\ UNCHANGED <<design, input, fired, any_Xs, output, driver, pending, boot, first, CurrentTime, since>>

(* RemoveNextReadyGate and handle_gate.                                    *)
FireGate(g) ==
  /\ Running /\ pending[g] = CurrentTime
  /\ pending' = [pending EXCEPT ![g] = NONE]
  /\ Drive(g, Propagated(g, output[g]))
  /\ UNCHANGED <<design, val, input, fired, any_Xs, output, walk, boot, first, CurrentTime, since>>

(* Time moves when nothing is left for now.                                *)
AdvanceTime ==
  /\ Running /\ first = {} /\ netlist = {}
  /\ \A g \in GATE : pending[g] # CurrentTime
  /\ CurrentTime < MaxTime
  /\ CurrentTime' = CurrentTime + 1
  /\ UNCHANGED <<design, val, input, fired, any_Xs, output, driver, pending, netlist, walk, boot, first, since>>

(* "Make sure TRI1 and TRI0 get scheduled to be eval'ed in time 0": nets   *)
(* that have a value without a driver (decl.cc), which                     *)
(* initialize_cont_assignments puts on the net list.                       *)
SelfDriven == {n \in NETS : design.type[n] \in {"tri0", "tri1", "supply0", "supply1"}}

(* pass3_gate and the storage pass2.cc gives: registers are X, nets and    *)
(* drivers Z, the inputs of the gates X.                                   *)
Init ==
  /\ design \in Designs
  /\ val = [n \in REG \cup NETS |-> IF n \in REG THEN X ELSE Z]
  /\ input = [g \in GATE |-> [i \in Inputs(g) |-> X]]
  /\ fired = [g \in GATE |-> Count(Kind(g) \in Tran \ Tranif)]
  /\ any_Xs = [g \in GATE |-> IF Kind(g) \in Logic THEN Len(Ins(g)) ELSE 0]
  /\ output = [g \in GATE |-> CASE Kind(g) = "pullup" -> ONE [] Kind(g) = "pulldown" -> ZERO [] OTHER -> X]
  /\ driver = [g \in GATE |-> [j \in DOMAIN Outs(g) |-> Z]]
  /\ pending = [g \in GATE |-> 0]
  /\ netlist = SelfDriven /\ walk = {}
  /\ boot = GATE /\ first = {}
  /\ CurrentTime = 0 /\ since = [g \in GATE |-> 0]

Next ==
  \/ \E m \in walk : Exec(m[1], m[2])
  \/ \E g \in GATE : InitializeGate(g) \/ FirstExec(g) \/ FireGate(g)
  \/ \E r \in REG, v \in VAL : Assign(r, v)
  \/ \E n \in NETS : NetExec(n)
  \/ AdvanceTime

Spec == Init /\ [][Next]_vars
-----------------------------------------------------------------------------
(* Properties.                                                             *)

(* The type of the variables.                                              *)
TypeOK ==
  /\ design \in Designs
  /\ val \in [REG \cup NETS -> VAL]
  /\ DOMAIN input = GATE /\ \A g \in GATE : input[g] \in [Inputs(g) -> VAL]
  /\ fired \in [GATE -> Nat] /\ any_Xs \in [GATE -> Nat]
  /\ output \in [GATE -> VAL]
  /\ DOMAIN driver = GATE /\ \A g \in GATE : driver[g] \in [DOMAIN Outs(g) -> VAL]
  /\ pending \in [GATE -> Nat \cup {NONE}]
  /\ netlist \subseteq NETS
  /\ walk \subseteq Markers
  /\ boot \subseteq GATE /\ first \subseteq GATE
  /\ CurrentTime \in Nat
  /\ since \in [GATE -> Nat]

(* How many of the inputs have one of the values vs.                       *)
Number(in, vs) == Cardinality({i \in DOMAIN in : in[i] \in vs})

(* The truth tables of the logic gates, said of all inputs together.       *)
LogicTable(k, in) ==
  LET Some(v) == \E i \in DOMAIN in : in[i] = v
      known   == \A i \in DOMAIN in : in[i] \in Known
      odd     == Number(in, {ONE}) % 2 = 1
  IN Inverted(k, IF k \in Xor
                   THEN IF ~known THEN X ELSE IF odd THEN ONE ELSE ZERO
                 ELSE IF Some(Counted(k)) THEN Counted(k)
                 ELSE IF known THEN Not(Counted(k)) ELSE X)

Table(k, in) == IF k \in Logic THEN LogicTable(k, in) ELSE ExecOutput(k, in, 0, 0, X)

(* The counts a logic gate keeps instead of looking at its inputs are      *)
(* those of its inputs, whatever the inputs went through.                  *)
CountsExact ==
  \A g \in GATE : Kind(g) \in Logic =>
    /\ fired[g] = Number(input[g], {Counted(Kind(g))})
    /\ any_Xs[g] = Number(input[g], Unknown)

(* So at every moment, also between two notifications of one store, the    *)
(* output is what the truth table says of the inputs the gate has seen.    *)
OutputIsTable ==
  \A g \in GATE : Kind(g) \notin Tran \cup Pull => output[g] = Table(Kind(g), input[g])

(* Types, counts and outputs: what a gate keeps is sound between any two   *)
(* notifications.                                                          *)
GatesSound == TypeOK /\ CountsExact /\ OutputIsTable

Quiet == Running /\ first = {} /\ netlist = {} /\ \A g \in GATE : pending[g] = NONE

(* When nothing is queued every net has the value its gates give for the   *)
(* values of the nets they read: no change was forgotten on the way from a *)
(* net through the inputs, the counts, the output, the queue and the       *)
(* drivers to the next net.                                                *)
SettledIsConsistent ==
  Quiet /\ (\A g \in GATE : Kind(g) \notin Tran) =>
    \A n \in NETS :
      val[n] = Combine(design.type[n],
                 {IF Kind(p[1]) \in Pull THEN output[p[1]]
                  ELSE Table(Kind(p[1]), [i \in Inputs(p[1]) |-> val[Ins(p[1])[i]]]) :
                    p \in {p \in Ports : Drives(p) = n}})

(* The sides of a switch whose control conducts have one value, and a      *)
(* switch that is off drives neither.                                      *)
SidesAgree ==
  \A g \in GATE : Quiet /\ Kind(g) \in Tran =>
    IF Kind(g) \notin Tranif \/ val[Ins(g)[3]] = OnValue(Kind(g))
      THEN val[Outs(g)[1]] = val[Outs(g)[2]]
      ELSE driver[g] = <<Z, Z>>

(* Inertial delays: what a gate drives, its output has been for the delay  *)
(* of that value, so that no pulse shorter than the delay gets through     *)
(* ("output has not changed, exit" and ScheduleGate, which moves a gate    *)
(* that is queued).  A switch that conducts is excepted, by the code.      *)
Inertial ==
  [][\A g \in GATE : boot = {} /\ Kind(g) \notin Tran /\ driver'[g] # driver[g] =>
        CurrentTime - since[g] >= eval_delay(design.delay[g], output[g])]_vars
=============================================================================
