-------------------------------- MODULE Dump --------------------------------
(***************************************************************************)
(* The value change dump ($dumpvars, $dumpon, $dumpoff, $dumpall) on top   *)
(* of the strobe queues.  The first $dumpvars queues itself for the final  *)
(* pass of the time unit; there it opens the file, writes the header for   *)
(* all variables that were marked meanwhile and from then on every change  *)
(* of one of them is written, under a line with the time when a pass has   *)
(* begun since the last one.                                               *)
(***************************************************************************)
EXTENDS Strobe, DumpHeader

CONSTANTS DUMPVARS,     \* the $dumpvars statements, some of STROBE
          Args          \* of each: [level, blocks, vars]; no arguments if both are empty

ASSUME DumpAssumption ==
  /\ DUMPVARS \subseteq STROBE
  /\ Args \in [DUMPVARS -> [level : Nat, blocks : Seq(SCOPE), vars : Seq(DECL)]]

VARIABLES
  dumpvar,    \* [markers, first_dumpvars, disallow_dumpvars, enabled, new_time]
  file,       \* [open, stamped: its last time is now, stale: variables it shows an old value of]
  late,       \* ghost: a change was written in a final pass, and no pass has begun since
  fault       \* a line was written to a file that is not open

dump  == <<dumpvar, file, late, fault>>
dvars == <<vars, dump>>

(* pass3 of the $dumpvars statements, and init_dumpvar.                    *)
DumpInit ==
  /\ Init
  /\ dumpvar = [markers |-> <<>>, first_dumpvars |-> TRUE, disallow_dumpvars |-> FALSE,
                enabled |-> FALSE, new_time |-> TRUE]
  /\ file = [open |-> FALSE, stamped |-> FALSE, stale |-> DECL]
  /\ late = FALSE /\ fault = FALSE

-----------------------------------------------------------------------------
(* Lines of the file, of the state f = [dumpvar, file].                    *)
Now == [dumpvar |-> dumpvar, file |-> file]
Put(f) == dumpvar' = f.dumpvar /\ file' = f.file

(* dumpvars_time: the line with the time.                                  *)
dumpvars_time(f) ==
  IF ~f.dumpvar.new_time THEN f
  ELSE [f EXCEPT !.dumpvar.new_time = FALSE, !.file.stamped = TRUE]

(* The list printed: empty until the header is written.                    *)
printed(f) == IF f.file.open THEN Range(f.dumpvar.markers) ELSE {}

(* dumpvars_dump: the line of one variable.                                *)
dumpvars_dump(f, d) == [dumpvars_time(f) EXCEPT !.file.stale = @ \ {d}]

(* dumpvars_checkpoint: the values of all.                                 *)
dumpvars_checkpoint_Off(f) == dumpvars_time(f)
dumpvars_checkpoint(f) == [dumpvars_time(f) EXCEPT !.file.stale = @ \ printed(f)]

(* dumpvars_x: an x for all.                                               *)
dumpvars_x(f) == [dumpvars_time(f) EXCEPT !.file.stale = @ \cup printed(f)]

(* dumpvars_enable and dumpvars_disable thread and unthread the markers.   *)
dumpvars_enable(f)  == [f EXCEPT !.dumpvar.enabled = TRUE]
dumpvars_disable(f) == [f EXCEPT !.dumpvar.enabled = FALSE]

(* $dumpvars in the final pass, when the file can be opened.               *)
NewTime_Kept(f) == f
NewTime(f) == [f EXCEPT !.dumpvar.new_time = TRUE]
Header(f) ==
  LET opened == [f EXCEPT !.dumpvar.disallow_dumpvars = TRUE, !.file.open = TRUE]
  IN NewTime(dumpvars_checkpoint(dumpvars_enable(opened)))
HeaderFails(f) == [f EXCEPT !.dumpvar.disallow_dumpvars = TRUE]

(* The final pass is over: dispatcher moves to the next time.              *)
Over(f) == [f EXCEPT !.file.stamped = FALSE]

-----------------------------------------------------------------------------
(* $dumpvars, executed by a process.                                       *)
Marked(p) ==
  IF Args[p].blocks = <<>> /\ Args[p].vars = <<>> THEN dumpvars_all(dumpvar.markers)
  ELSE FoldLeft(dumpvars_mark,
                FoldLeft(LAMBDA m, b : dumpvars_scope_down(m, b, Args[p].level),
                         dumpvar.markers, Args[p].blocks),
                Args[p].vars)

DumpvarsTask(p) ==
  /\ ~fault /\ Running /\ ~dumpvar.disallow_dumpvars
  /\ dumpvar' = [dumpvar EXCEPT !.markers = Marked(p), !.first_dumpvars = FALSE]
  /\ IF dumpvar.first_dumpvars
       THEN CanEnqueue(mem, "final") /\ mem' = enqueue_strobe(mem, "final", p)
       ELSE mem' = mem
  /\ Keep /\ UNCHANGED <<monitor_info, file, late, fault>>

(* $dumpon, $dumpoff and $dumpall.                                         *)
DumpOn ==
  /\ ~fault /\ Running /\ ~dumpvar.enabled /\ dumpvar.disallow_dumpvars
  /\ Put(dumpvars_checkpoint(dumpvars_enable(Now)))
  /\ fault' = ~file.open
  /\ UNCHANGED <<vars, late>>

DumpOff ==
  /\ ~fault /\ Running /\ dumpvar.enabled
  /\ Put(dumpvars_x(dumpvars_disable(Now)))
  /\ UNCHANGED <<vars, late, fault>>

DumpAll ==
  /\ ~fault /\ Running /\ ~dumpvar.enabled /\ dumpvar.disallow_dumpvars
  /\ Put(dumpvars_checkpoint(Now))
  /\ fault' = ~file.open
  /\ UNCHANGED <<vars, late>>

(* What a pass executes other than $dumpvars.                              *)
OfPass == executing # <<>> => executing[1] \notin DUMPVARS

(* A store that changes a variable, by a process or by what a pass         *)
(* executes: a user task, or a function in an argument of $strobe.         *)
StoreVar(d) ==
  /\ ~fault
  /\ Running \/ (Executing /\ OfPass)
  /\ IF dumpvar.enabled /\ d \in printed(Now)
       THEN Put(dumpvars_dump(Now, d)) /\ late' = (late \/ pass = "final")
       ELSE /\ file' = [file EXCEPT !.stale = @ \cup {d}]
            /\ UNCHANGED <<dumpvar, late>>
  /\ UNCHANGED <<vars, fault>>

-----------------------------------------------------------------------------
(* The passes.                                                             *)
PassBegins ==
  \E w \in Queue :
    /\ ~fault /\ BeginPass(w)
    /\ LET f == [Now EXCEPT !.dumpvar.new_time = TRUE]
       IN Put(IF w = "final" /\ pass' = NULL THEN Over(f) ELSE f)
    /\ late' = FALSE /\ UNCHANGED fault

StatementDone ==
  /\ ~fault /\ StrobeDone
  /\ \E f \in IF executing[1] \in DUMPVARS THEN {Header(Now), HeaderFails(Now)} ELSE {Now} :
       Put(IF pass = "final" /\ pass' = NULL THEN Over(f) ELSE f)
  /\ UNCHANGED <<late, fault>>

(* The other statements, which are those of Strobe.                        *)
Other(statement) == ~fault /\ statement /\ UNCHANGED dump

Stopped == (fault \/ executing = <<NULL>>) /\ UNCHANGED dvars

DumpNext ==
  \/ \E p \in DUMPVARS : DumpvarsTask(p)
  \/ DumpOn \/ DumpOff \/ DumpAll
  \/ \E d \in DECL : StoreVar(d)
  \/ PassBegins \/ StatementDone
  \/ \E p \in STROBE \ DUMPVARS : Other(StrobeTask(p))
  \/ \E p \in MONITOR : Other(MonitorTask(p))
  \/ Other(MonitorOff) \/ Other(MonitorOn) \/ Other(Change) \/ Other(RunStrobe)
  \/ \E w \in Queue, p \in INSTANCE_PLI : Other(OfPass /\ Synchronize(w, p))
  \/ Stopped

DumpSpec == DumpInit /\ [][DumpNext]_dvars
-----------------------------------------------------------------------------
(* The types.                                                              *)
DumpTypeOK ==
  /\ dumpvar.markers \in Seq(DECL)
  /\ \A x \in DOMAIN dumpvar : x # "markers" => dumpvar[x] \in BOOLEAN
  /\ file.open \in BOOLEAN /\ file.stamped \in BOOLEAN /\ file.stale \subseteq DECL
  /\ late \in BOOLEAN /\ fault \in BOOLEAN

(* While the dump is on, who reads the file up to here knows the value of  *)
(* every variable in it: changes before the header, while the dump was off *)
(* and in the passes are all made up for.  The next change is written      *)
(* under its own time ("print the time first if needed"), unless something *)
(* else than $dumpvars wrote a change in the final pass of an earlier time *)
(* and used up the line with the time.                                     *)
FileIsCurrent ==
  /\ DumpTypeOK
  /\ dumpvar.enabled /\ ~fault =>
       /\ file.stale \cap printed(Now) = {}
       /\ late \/ dumpvar.new_time \/ file.stamped

(* The header that is written declares each marked variable where it is.   *)
HeaderReadsBack ==
  [][~file.open /\ file'.open /\ Tidy(dumpvar.markers) => ReadsBack(dumpvar.markers)]_dvars
=============================================================================
