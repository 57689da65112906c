------------------------------ MODULE Checker ------------------------------
(***************************************************************************)
(* The walk of check_proc and check_stmt (src/check.c) over a body: the    *)
(* scope chain, the loop flag, and what is rejected.  Expression types are *)
(* left out: every operand here is a word, which is compatible with every  *)
(* type, or a string or record that meets only words.                      *)
(*                                                                         *)
(* The recursion of check_stmt is the stack saved: one element per open    *)
(* block, holding what the C locals of that activation hold.               *)
(***************************************************************************)
EXTENDS Program

CONSTANTS Globals    (* names declared by var or let at file level *)

ASSUME GlobalsAssumption == Globals \in Seq(Range(Globals))

VARIABLES
  verdict,   (* "none" until the walk ends: then "ok" or "error"            *)
  cpos,      (* the node check_stmt is at                                   *)
  scope,     (* c->scope and its parents, file scope first                  *)
  in_loop,   (* c->in_loop                                                  *)
  saved,     (* <<kind, saved in_loop>> of every open block                 *)
  bound      (* history: the declaration each operand was resolved to       *)

checkVars == <<verdict, cpos, scope, in_loop, saved, bound>>

Symbol(name, kind, d) == [name |-> name, kind |-> kind, d |-> d]

\* scope_define prepends: the newest symbol of a scope is found first.
Lookup(name) ==
  LET s == Max(Holding(scope, name))
  IN  scope[s][Max(Entries(scope, name))]

Known(name) == Holding(scope, name) # {}

\* check_expr succeeds on an operand: a literal, or a name in scope.
Checks(y) == y \in Unnamed \/ Known(y)

Resolve(y) == IF y \in Unnamed THEN Decl("none", 0) ELSE Lookup(y).d

CheckInit ==
  /\ verdict = "none" /\ cpos = 0
  /\ scope = <<[g \in 1 .. Len(Globals) |->
                  Symbol(Globals[g], "var", Decl("global", Globals[g]))]>>
  /\ in_loop = FALSE /\ saved = <<>> /\ bound = <<>>

\* check_proc binds the inputs read-only and the outputs writable.
EnterProc ==
  /\ verdict = "none" /\ cpos = 0
  /\ scope' = Append(scope,
       [p \in 1 .. Len(Params) |-> Symbol(Params[p], "let", Decl("param", p))]
         \o [o \in 1 .. Len(Outs) |-> Symbol(Outs[o], "var", Decl("out", o))])
  /\ cpos' = 1
  /\ UNCHANGED <<verdict, in_loop, saved, bound>>

Reject == verdict' = "error" /\ UNCHANGED <<cpos, scope, in_loop, saved, bound>>

\* The node is accepted; its operands x and y were resolved to dx and dy.
Accept(dx, dy) ==
  /\ cpos' = cpos + 1
  /\ bound' = Append(bound, [x |-> dx, y |-> dy])
  /\ UNCHANGED verdict

At(kinds) == verdict = "none" /\ cpos \in Nodes /\ Kind(cpos) \in kinds

\* The initialiser is checked before the name is defined.
CheckDecl ==
  LET n == prog[cpos] IN
  /\ At(Declarations)
  /\ IF ~Checks(n.y) THEN Reject
     ELSE /\ scope' = Define(scope, Symbol(n.x, IF n.k = "let" THEN "let" ELSE "var",
                                           Decl("node", cpos)))
          /\ Accept(Decl("node", cpos), Resolve(n.y))
          /\ UNCHANGED <<in_loop, saved>>

CheckAssign ==
  LET n == prog[cpos] IN
  /\ At({"assign"})
  /\ IF ~Checks(n.x) \/ ~Checks(n.y) \/ Lookup(n.x).kind = "let" THEN Reject
     ELSE Accept(Resolve(n.x), Resolve(n.y)) /\ UNCHANGED <<scope, in_loop, saved>>

CheckExit ==
  /\ At({"exit"})
  /\ IF ~in_loop THEN Reject
     ELSE Accept(Decl("none", 0), Decl("none", 0)) /\ UNCHANGED <<scope, in_loop, saved>>

\* The blocks of if, while, loop and for get a scope of their own; a loop sets
\* in_loop and binds its variables read-only.
CheckOpen ==
  LET n == prog[cpos]
      bind(name, kind) == IF name = None THEN <<>>
                          ELSE <<Symbol(name, "let", Decl(kind, cpos))>>
  IN
  /\ At({"if"} \cup Loops)
  /\ IF ~Checks(n.y) THEN Reject
     ELSE /\ scope' = Append(scope, bind(n.key, "key") \o bind(n.x, "node"))
          /\ saved' = Append(saved, <<n.k, in_loop>>)
          /\ in_loop' = (in_loop \/ n.k \in Loops)
          /\ Accept(Decl("node", cpos), Resolve(n.y))

CheckElse ==
  /\ At({"else"})
  /\ scope' = Push(Pop(scope))
  /\ Accept(Decl("none", 0), Decl("none", 0))
  /\ UNCHANGED <<in_loop, saved>>

CheckCase ==
  LET n == prog[cpos] IN
  /\ At({"case"})
  /\ IF ~Checks(n.y) THEN Reject
     ELSE /\ saved' = Append(saved, <<"case", in_loop>>)
          /\ Accept(Decl("none", 0), Resolve(n.y))
          /\ UNCHANGED <<scope, in_loop>>

\* An arm whose pattern names a variant of the subject binds its field x.
CheckArm ==
  LET n == prog[cpos] IN
  /\ At({"arm"})
  /\ scope' = Append(scope, IF n.x = None THEN <<>>
                            ELSE <<Symbol(n.x, "let", Decl("node", cpos))>>)
  /\ saved' = Append(saved, <<"arm", in_loop>>)
  /\ Accept(Decl("none", 0), Decl("none", 0))
  /\ UNCHANGED in_loop

CheckEnd ==
  LET top == Last(saved) IN
  /\ At({"end"})
  /\ scope' = IF top[1] = "case" THEN scope ELSE Pop(scope)
  /\ in_loop' = top[2]
  /\ saved' = Front(saved)
  /\ Accept(Decl("none", 0), Decl("none", 0))

LeaveProc ==
  /\ verdict = "none" /\ cpos = Len(prog) + 1
  /\ scope' = Pop(scope)
  /\ verdict' = "ok"
  /\ UNCHANGED <<cpos, in_loop, saved, bound>>

CheckNext ==
  \/ EnterProc \/ CheckDecl \/ CheckAssign \/ CheckExit \/ CheckOpen
  \/ CheckElse \/ CheckCase \/ CheckArm \/ CheckEnd \/ LeaveProc
=============================================================================
