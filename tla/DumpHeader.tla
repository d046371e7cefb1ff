----------------------------- MODULE DumpHeader -----------------------------
(***************************************************************************)
(* The header of the value change dump (dumpvar.cc): which variables the   *)
(* $dumpvars statements mark, and the $scope, $var and $upscope lines that *)
(* declare them.  The lines are a bracket structure a reader of the file   *)
(* takes apart again, written by a walk that opens a scope only when it    *)
(* meets the first variable beneath it.                                    *)
(***************************************************************************)
EXTENDS Integers, SequencesExt

CONSTANTS SCOPE,        \* the blocks of the design
          DECL,         \* the variables
          Module,       \* the blocks that are module instances
          Tops,         \* the modules at the top, in order
          Down,         \* BLOCK_DOWN: of each block, the blocks inside, in order
          Decls         \* BLOCK_PORTS and BLOCK_DECL: of each block, its variables

ASSUME HierarchyAssumption ==
  /\ Module \subseteq SCOPE /\ Tops \in Seq(Module)
  /\ Down \in [SCOPE -> Seq(SCOPE)] /\ Decls \in [SCOPE -> Seq(DECL)]

DECL_CONTEXT(d) == CHOOSE s \in SCOPE : d \in Range(Decls[s])
BLOCK_UP(s) == CHOOSE u \in SCOPE : s \in Range(Down[u])

Modules(s) == SelectSeq(Down[s], LAMBDA u : u \in Module)
Inner(s)   == SelectSeq(Down[s], LAMBDA u : u \notin Module)

-----------------------------------------------------------------------------
(* BuildMarker: one marker for a variable, after those there are.          *)
dumpvars_mark(marked, d) == IF d \in Range(marked) THEN marked ELSE Append(marked, d)

(* dumpvars_scope and dumpvars_scope_down: a block, the tasks, functions   *)
(* and named blocks in it, and the modules in it down to the level.        *)
RECURSIVE dumpvars_scope_down(_, _, _)
dumpvars_scope_down(marked, s, level) ==
  LET own   == FoldLeft(dumpvars_mark, marked, Decls[s])
      inner == FoldLeft(LAMBDA m, u : dumpvars_scope_down(m, u, level), own, Inner(s))
  IN IF level = 1 THEN inner
     ELSE FoldLeft(LAMBDA m, u : dumpvars_scope_down(m, u, level - 1), inner, Modules(s))

dumpvars_all(marked) ==
  FoldLeft(LAMBDA m, s : dumpvars_scope_down(m, s, 4000), marked, Tops)

-----------------------------------------------------------------------------
(* The walk that writes the header: its lines, and the markers it has not  *)
(* printed yet (the list unprinted; what is printed moves to the other).   *)
Scope(s) == <<"scope", s>>
Var(d)   == <<"var", d>>
Upscope  == <<"upscope">>

Written(h, lines) == [h EXCEPT !.lines = @ \o lines]

Printed(h, own) ==
  [lines |-> h.lines \o [k \in DOMAIN own |-> Var(own[k])],
   unprinted |-> SelectSeq(h.unprinted, LAMBDA d : d \notin Range(own))]

Own(h, s) == SelectSeq(h.unprinted, LAMBDA d : DECL_CONTEXT(d) = s)

(* dumpvars_printscopes: the blocks from so many levels up.                *)
RECURSIVE Above(_, _)
Above(s, level) == IF level = 0 THEN <<>> ELSE Append(Above(BLOCK_UP(s), level - 1), Scope(BLOCK_UP(s)))
dumpvars_printscopes(h, s, level) == Written(h, Append(Above(s, level), Scope(s)))

RECURSIVE dumpvars_inside_scopes(_, _), AnyInside(_, _)
AnyInside(h, s) == \E u \in Range(Inner(s)) : Own(h, u) # <<>> \/ AnyInside(h, u)
dumpvars_inside_scopes(h, s) ==
  FoldLeft(LAMBDA g, u : Written(dumpvars_inside_scopes(Printed(Written(g, <<Scope(u)>>), Own(g, u)), u),
                                 <<Upscope>>),
           h, Inner(s))

(* dumpvars_printvars: the level counts the blocks above that are not      *)
(* opened yet.  What it returns last is whether anything was printed.      *)
NextLevel_Kept(level, own) == level + 1
NextLevel(level, own) == IF own = <<>> THEN level + 1 ELSE 0
RECURSIVE dumpvars_printvars(_, _, _)
dumpvars_printvars(h, s, level) ==
  LET own   == Own(h, s)
      begun == IF own = <<>> THEN h ELSE Printed(dumpvars_printscopes(h, s, level), own)
      below == FoldLeft(LAMBDA r, u : LET c == dumpvars_printvars(r[1], u, NextLevel(level, own))
                                      IN <<c[1], r[2] \/ c[2]>>,
                        <<begun, own # <<>> >>, Modules(s))
      any   == below[2] \/ AnyInside(below[1], s)
  IN <<IF any THEN Written(dumpvars_inside_scopes(below[1], s), <<Upscope>>) ELSE below[1], any>>

dumpvars_header(marked) ==
  FoldLeft(LAMBDA h, s : dumpvars_printvars(h, s, 0)[1], [lines |-> <<>>, unprinted |-> marked], Tops)

-----------------------------------------------------------------------------
(* What a reader makes of the lines: the open blocks, and the blocks that  *)
(* were open at each variable.                                             *)
Read(lines) ==
  FoldLeft(LAMBDA r, l : CASE l[1] = "scope"   -> [r EXCEPT !.open = Append(@, l[2])]
                           [] l[1] = "upscope" -> [r EXCEPT !.sound = @ /\ r.open # <<>>,
                                                            !.open = IF @ = <<>> THEN @ ELSE Front(@)]
                           [] l[1] = "var"     -> [r EXCEPT !.vars = Append(@, <<l[2], r.open>>)],
           [open |-> <<>>, vars |-> <<>>, sound |-> TRUE], lines)

RECURSIVE PathTo(_)
PathTo(s) == IF s \in Range(Tops) THEN <<s>> ELSE Append(PathTo(BLOCK_UP(s)), s)

(* The walk is right when a module either has a marked variable of its     *)
(* own, or has marked variables beneath it in just one module: otherwise   *)
(* it opens the module more than once, or not at all, and closes it once.  *)
RECURSIVE Beneath(_)
Beneath(s) == Range(Decls[s]) \cup UNION {Beneath(u) : u \in Range(Down[s])}
Tidy(marked) ==
  \A s \in Module :
    LET has(u) == Beneath(u) \cap Range(marked) # {}
    IN has(s) /\ Range(Decls[s]) \cap Range(marked) = {}
         => Cardinality({u \in Range(Modules(s)) : has(u)}) = 1

(* Every marked variable is declared once, inside the blocks it is in.     *)
ReadsBack(marked) ==
  LET header == dumpvars_header(marked)
      read   == Read(header.lines)
  IN /\ header.unprinted = <<>>
     /\ read.sound /\ read.open = <<>>
     /\ Len(read.vars) = Len(marked)
     /\ Range(read.vars) = {<<d, PathTo(DECL_CONTEXT(d))>> : d \in Range(marked)}
=============================================================================
