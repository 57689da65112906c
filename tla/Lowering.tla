------------------------------ MODULE Lowering ------------------------------
(***************************************************************************)
(* lower_proc, lower_block and lower_stmt (src/ir.c): the walk that turns  *)
(* a checked body into IR instructions, with the scope chain, loop_exit    *)
(* and the two counters it keeps.  The recursion is the stack lstack.      *)
(*                                                                         *)
(* A value is a name together with the declaration the walk resolved it    *)
(* to: the code keeps only the name (a hash), the declaration is history,  *)
(* there to say what the instruction is meant to read.  at, the statement  *)
(* an instruction belongs to, is history too.  Types and the contents of   *)
(* expressions are left out: an operand is a name or literal.  Of sizes    *)
(* only this is kept: a scalar is one word, a string or record may be more *)
(* (Width, in Compiler).                                                   *)
(***************************************************************************)
EXTENDS Program

CONSTANTS
  TmpName(_)     (* "t<k>", the name ir_tmp prints for a counter value      *)

VARIABLES
  lowered,       (* "none" until the walk ends: then "ok" or "abort"        *)
  why,           (* the name a pass gave up on                              *)
  lpos,          (* the node lower_stmt is at                               *)
  lscope,        (* l->scope and its parents, the procedure's first         *)
  loop_exit,
  lstack,        (* the locals of the activations of lower_stmt             *)
  code,          (* proc->instrs                                            *)
  tmp_counter,
  label_counter,
  resolved       (* history: the declaration each operand was resolved to   *)

lowerVars == <<lowered, why, lpos, lscope, loop_exit, lstack, code,
               tmp_counter, label_counter, resolved>>

LABEL_INVALID == -1
NoDecl == Decl("none", 0)

Val(name, d) == [name |-> name, d |-> d]
Imm == Val(None, NoDecl)
Tmp(n) == Val(TmpName(tmp_counter + n), Decl("temp", tmp_counter + n))

Instr(op, dst, a, b, lab, at) ==
  [op |-> op, dst |-> dst, a |-> a, b |-> b, lab |-> lab, at |-> at]
Op(op, dst, a, b) == Instr(op, dst, a, b, LABEL_INVALID, lpos)
Jump(op, a, lab) == Instr(op, Imm, a, Imm, lab, lpos)
Label(lab, at) == Instr("LABEL", Imm, Imm, Imm, lab, at)

\* Variant: the outermost scope is searched first.
lscope_find_outer(chain, name) ==
  LET s == Min(Holding(chain, name)) IN chain[s][Min(Entries(chain, name))]

\* lscope_find: scopes inside out, within one the oldest entry first.
lscope_find(chain, name) ==
  LET s == Max(Holding(chain, name)) IN chain[s][Min(Entries(chain, name))]

Found(chain, name) == Holding(chain, name) # {}

\* lower_expr on an operand: a name that is not found is taken for a global.
Operand(chain, y) ==
  IF y \in Unnamed THEN Imm
  ELSE IF Found(chain, y) THEN lscope_find(chain, y)
  ELSE Val(y, Decl("global", y))

LowerInit ==
  /\ lowered = "none" /\ why = None /\ lpos = 0
  /\ lscope = <<>> /\ loop_exit = LABEL_INVALID /\ lstack = <<>>
  /\ code = <<>> /\ tmp_counter = 0 /\ label_counter = 0 /\ resolved = <<>>

Lowers(kinds) ==
  /\ lowered = "none" /\ lpos \in Nodes /\ Kind(lpos) \in kinds
  /\ prog[lpos].y # StringLit

\* The node is done: its instructions, and how many temporaries and labels
\* they took.
Emits(instrs, temps, labels, dx, dy) ==
  /\ code' = code \o instrs
  /\ tmp_counter' = tmp_counter + temps
  /\ label_counter' = label_counter + labels
  /\ resolved' = Append(resolved, [x |-> dx, y |-> dy])
  /\ lpos' = lpos + 1
  /\ UNCHANGED <<lowered, why>>

Abort(name) ==
  /\ lowered' = "abort" /\ why' = name
  /\ UNCHANGED <<lpos, lscope, loop_exit, lstack, code, tmp_counter,
                 label_counter, resolved>>

\* Parameters are copied into variables; outputs only enter the scope.
LowerProc ==
  /\ lowered = "none" /\ lpos = 0
  /\ LET params == [p \in 1 .. Len(Params) |-> Val(Params[p], Decl("param", p))]
         outs == [o \in 1 .. Len(Outs) |-> Val(Outs[o], Decl("out", o))]
     IN  /\ lscope' = Append(lscope, params \o outs)
         /\ code' = code \o [p \in 1 .. Len(Params) |->
                               Op("PARAM", params[p], Imm, Imm)]
  /\ lpos' = 1 /\ loop_exit' = LABEL_INVALID
  /\ UNCHANGED <<lowered, why, lstack, tmp_counter, label_counter, resolved>>

\* lower_expr gives up on a string that is not an initialiser; an operand is
\* the first thing its statement lowers.
LowerString ==
  /\ lowered = "none" /\ lpos \in Nodes /\ prog[lpos].y = StringLit
  /\ Abort(StringLit)

\* How a declaration of v is initialised with y: a string or an aggregate gets
\* storage, which a string is written to and an aggregate is copied to.
Initialise(k, v, y) ==
  CASE k = "string" -> <<Op("ALLOCA", v, Imm, Imm), Op("STR_INIT", v, Imm, Imm)>>
    [] k \in Aggregates ->
         <<Op("ALLOCA", v, Imm, Imm), Op("ADDR", Tmp(0), v, Imm),
           Op(IF k = "bytes" THEN "MEMCPY_ODD" ELSE "MEMCPY", Imm, Tmp(0), y)>>
    [] OTHER -> <<Op("COPY", v, y, Imm)>>

\* The name is defined before its initialiser is lowered; without one nothing
\* is emitted.  A string that is new takes a temporary's number for its label.
LowerDecl ==
  LET n == prog[lpos]
      v == Val(n.x, Decl("node", lpos))
      chain == Define(lscope, v)
      y == Operand(chain, n.y)
      instrs == IF n.y = None THEN <<>> ELSE Initialise(n.k, v, y)
      fresh == IF \/ n.k \in Aggregates
                  \/ n.k = "string"
                       /\ \A j \in 1 .. lpos - 1 : Kind(j) = "string" => prog[j].y # n.y
               THEN 1 ELSE 0
  IN
  /\ Lowers(Declarations)
  /\ lscope' = chain
  /\ Emits(instrs, fresh, 0, v.d, IF n.k = "string" THEN NoDecl ELSE y.d)
  /\ UNCHANGED <<loop_exit, lstack>>

\* lower_lval takes the address of the assigned variable; it gives up on a
\* name that is not found.
LowerAssign ==
  LET n == prog[lpos] IN
  /\ Lowers({"assign"})
  /\ IF ~Found(lscope, n.x) THEN Abort(n.x)
     ELSE LET x == lscope_find(lscope, n.x)
              y == Operand(lscope, n.y)
          IN  /\ Emits(<<Op("ADDR", Tmp(0), x, Imm),
                         Op("STORE", Imm, Tmp(0), y)>>, 1, 0, x.d, y.d)
              /\ UNCHANGED <<lscope, loop_exit, lstack>>

LowerExit ==
  /\ Lowers({"exit"})
  /\ IF loop_exit = LABEL_INVALID THEN Abort("exit")
     ELSE /\ Emits(<<Jump("JMP", Imm, loop_exit)>>, 0, 0, NoDecl, NoDecl)
          /\ UNCHANGED <<lscope, loop_exit, lstack>>

\* An activation: the labels it holds and the loop_exit it saved.
Frame(k, first, last, idx, subj) ==
  [k |-> k, first |-> first, last |-> last, sv |-> loop_exit,
   idx |-> idx, subj |-> subj]

LowerIf ==
  LET y == Operand(lscope, prog[lpos].y)
      else_id == label_counter
      end_id == label_counter + 1
  IN
  /\ Lowers({"if"})
  /\ Emits(<<Jump("JIFN", y, IF Else(lpos) # {} THEN else_id ELSE end_id)>>,
           0, 2, Decl("node", lpos), y.d)
  /\ lscope' = Push(lscope)
  /\ lstack' = Append(lstack, Frame("if", else_id, end_id, Imm, Imm))
  /\ UNCHANGED loop_exit

LowerElse ==
  LET f == Last(lstack) IN
  /\ Lowers({"else"})
  /\ Emits(<<Jump("JMP", Imm, f.last), Label(f.first, lpos + 1)>>,
           0, 0, NoDecl, NoDecl)
  /\ lscope' = Push(Pop(lscope))
  /\ UNCHANGED <<loop_exit, lstack>>

\* Variant: the length is read before it has been loaded.
ForHead_early(iter, top, out, key, val) ==
  <<Op("COPY", Tmp(0), Imm, Imm), Label(top, lpos),
    Op("GTE", Tmp(3), Tmp(0), Tmp(1)), Jump("JIF", Tmp(3), out),
    Op("FIELD_ADDR", Tmp(2), iter, Imm), Op("LOAD", Tmp(1), Tmp(2), Imm),
    Op("LOAD", val, Tmp(1), Imm)>>

\* The instructions before the body of a for: an index and a length in
\* temporaries, the test, then the key and the element of this round.
ForHead(iter, top, out, key, val) ==
  <<Op("COPY", Tmp(0), Imm, Imm),
    Op("FIELD_ADDR", Tmp(2), iter, Imm), Op("LOAD", Tmp(1), Tmp(2), Imm),
    Label(top, lpos),
    Op("GTE", Tmp(3), Tmp(0), Tmp(1)), Jump("JIF", Tmp(3), out)>>
  \o (IF key.name = None THEN <<>> ELSE <<Op("COPY", key, Tmp(0), Imm)>>)
  \o <<Op("FIELD_ADDR", Tmp(5), iter, Imm), Op("LOAD", Tmp(4), Tmp(5), Imm),
       Op("INDEX_ADDR", Tmp(6), Tmp(4), Tmp(0)), Op("LOAD", val, Tmp(6), Imm)>>

\* A loop takes over loop_exit until its end.  The index of a for is defined
\* in the scope around it.
LowerLoop ==
  LET n == prog[lpos]
      y == Operand(lscope, n.y)
      top == label_counter
      out == label_counter + 1
      key == Val(n.key, Decl("key", lpos))
      val == Val(n.x, Decl("node", lpos))
      instrs == CASE n.k = "while" -> <<Label(top, lpos), Jump("JIFN", y, out)>>
                  [] n.k = "loop"  -> <<Label(top, lpos)>>
                  [] n.k = "for"   -> ForHead(y, top, out, key, val)
      names == IF n.k # "for" THEN <<>>
               ELSE IF n.key = None THEN <<val>> ELSE <<key, val>>
  IN
  /\ Lowers(Loops)
  /\ Emits(instrs, IF n.k = "for" THEN 7 ELSE 0, 2, Decl("node", lpos), y.d)
  /\ lscope' = Append(IF n.k = "for" THEN Define(lscope, Tmp(0)) ELSE lscope, names)
  /\ lstack' = Append(lstack, Frame(n.k, top, out, Tmp(0), Imm))
  /\ loop_exit' = out

LowerCase ==
  LET y == Operand(lscope, prog[lpos].y) IN
  /\ Lowers({"case"})
  /\ Emits(<<>>, 0, 1, NoDecl, y.d)
  /\ lstack' = Append(lstack, Frame("case", LABEL_INVALID, label_counter, Imm, y))
  /\ UNCHANGED <<lscope, loop_exit>>

\* A pattern is compared with the subject; the fields of a variant are not
\* defined.
LowerArm ==
  LET n == prog[lpos]
      test == <<Op("EQ", Tmp(0), Last(lstack).subj, Imm),
                Jump("JIFN", Tmp(0), label_counter)>>
  IN
  /\ Lowers({"arm"})
  /\ IF n.y = None THEN Emits(<<>>, 0, 1, NoDecl, NoDecl)
     ELSE Emits(test, 1, 1, NoDecl, NoDecl)
  /\ lscope' = Push(lscope)
  /\ lstack' = Append(lstack, Frame("arm", LABEL_INVALID, label_counter, Imm, Imm))
  /\ UNCHANGED loop_exit

\* Variant: no jump over the arms that follow.
ArmClosing_falls(f) == <<Label(f.last, lpos + 1)>>

\* What follows the block of an arm: on to the end of the case around it.
ArmClosing(f) ==
  <<Jump("JMP", Imm, lstack[Len(lstack) - 1].last), Label(f.last, lpos + 1)>>

\* What follows the block of a loop.
LoopClosing(f) ==
  (IF f.k = "for" THEN <<Op("ADD", f.idx, f.idx, Imm)>> ELSE <<>>)
    \o <<Jump("JMP", Imm, f.first), Label(f.last, lpos + 1)>>

\* Variant: the end of a loop leaves its own exit behind.
ExitAfter_stale(f) == loop_exit

\* loop_exit after the block of a node: the end of a loop restores it.
ExitAfter(f) == IF f.k \in Loops THEN f.sv ELSE loop_exit

LowerEnd ==
  LET f == Last(lstack)
      instrs == CASE f.k = "arm"   -> ArmClosing(f)
                  [] f.k \in Loops -> LoopClosing(f)
                  [] OTHER         -> <<Label(f.last, lpos)>>
  IN
  /\ Lowers({"end"})
  /\ Emits(instrs, 0, 0, NoDecl, NoDecl)
  /\ lscope' = IF f.k = "case" THEN lscope ELSE Pop(lscope)
  /\ loop_exit' = ExitAfter(f)
  /\ lstack' = Front(lstack)

\* The first output is returned in ax, whatever the number of outputs.
LowerRet ==
  LET v == IF Outs = <<>> THEN Imm ELSE Operand(lscope, Outs[1]) IN
  /\ lowered = "none" /\ lpos = Len(prog) + 1
  /\ code' = Append(code, Op("RET", Imm, v, Imm))
  /\ lscope' = Pop(lscope)
  /\ lowered' = "ok"
  /\ UNCHANGED <<why, lpos, loop_exit, lstack, tmp_counter, label_counter, resolved>>

LowerNext ==
  \/ LowerProc \/ LowerDecl \/ LowerAssign \/ LowerExit \/ LowerIf \/ LowerElse
  \/ LowerLoop \/ LowerCase \/ LowerArm \/ LowerEnd \/ LowerRet \/ LowerString
=============================================================================
