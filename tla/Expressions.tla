----------------------------- MODULE Expressions -----------------------------
(***************************************************************************)
(* lower_expr, lower_lval and the declarations of lower_stmt (src/ir.c)    *)
(* over the nodes of expressions, and what the instructions they emit do   *)
(* to the frame (src/ir_codegen.c).                                        *)
(*                                                                         *)
(* Both walk an expression in postorder, so the recursion is the stack     *)
(* pending: the results of the calls of lower_expr and lower_lval whose    *)
(* caller has not used them yet, and the literals and declarations that    *)
(* are not complete.  An lvalue is a result too, the one that holds its    *)
(* address: x := e is e, the address of x, Store; *p is p, Load.           *)
(*                                                                         *)
(* Beside the instructions, which are only emitted here and run later, the *)
(* same walk evaluates the expression (meant, env): the value a node has   *)
(* when its operands are evaluated before it, from left to right.          *)
(***************************************************************************)
EXTENDS Integers, Sequences, SequencesExt

CONSTANTS
  None,       (* no name                                                    *)
  Initial,    (* the parameters and their values                            *)
  Scalars,    (* names a var may declare                                    *)
  Arrays,     (* names an array literal may be bound to                     *)
  Lits,       (* integer literals                                           *)
  Sizes,      (* numbers of elements of array literals                      *)
  Procs,      (* the procedures: inputs, outputs, and const or not          *)
  TmpName(_), (* "t<k>", the name of a temporary, no name of the text here  *)
  Word,       (* numbers are modulo Word, 2^64 in the code                  *)
  IR_MAX_ARGS, IR_MAX_RETS,
  MaxNodes    (* bound: nodes of a body                                     *)

\* The temporaries of a body, at most: a node takes one, or one per return slot.
MaxTmps == MaxNodes * (IR_MAX_RETS + 1)
\* Temporaries have names of their own.
ASSUME ExpressionsAssumption ==
  /\ MaxNodes \in Nat /\ IR_MAX_RETS \in Nat
  /\ \A p \in Procs : p.ins \in Nat /\ p.outs \in Nat
  /\ \A k \in 0 .. MaxTmps : TmpName(k) \notin Scalars \cup Arrays \cup {None}
  /\ \A j, k \in 0 .. MaxTmps : TmpName(j) = TmpName(k) => j = k

VARIABLES
  nodes,        (* nodes lowered so far                                     *)
  pending,
  code,
  tmp_counter,
  env,          (* history: what every word of the variables should hold    *)
  late,         (* history: a variable changed between the evaluation of    *)
                (* an operand and the instruction that reads it             *)
  phase,        (* "lower", "run", "done", "abort", "fault"                 *)
  pc,
  mem           (* the words of the frame                                   *)

vars == <<nodes, pending, code, tmp_counter, env, late, phase, pc, mem>>
lowering == <<nodes, pending, code, tmp_counter, env, late>>

\* Values of words: a number, or the address of a word of a variable's slot.
Num(n) == [of |-> None, n |-> n]
Addr(name, k) == [of |-> name, n |-> k]
Garbage == Num(-1)    \* never written, or arithmetic on addresses
IsNum(v) == v.of = None
Place(v) == <<v.of, v.n>>

\* Operands of instructions.
Var(name) == [kind |-> "var", name |-> name, imm |-> 0]
Imm(n) == [kind |-> "imm", name |-> None, imm |-> n]
VAL_NONE == [kind |-> "none", name |-> None, imm |-> 0]

tmp(k) == TmpName(tmp_counter + k)

Instr(op, dst, a, b, n, args) ==
  [op |-> op, dst |-> dst, a |-> a, b |-> b, n |-> n, args |-> args]
Op(op, dst, a, b) == Instr(op, dst, a, b, 0, <<>>)

\* What is pending: a result, or an unfinished literal or declaration of n
\* elements, k of them lowered.  A finished literal is a result that keeps its n.
Result(val, meant) ==
  [is |-> "result", val |-> val, meant |-> meant, n |-> 0, k |-> 0]
Open(is, name, n) ==
  [is |-> is, val |-> Var(name), meant |-> <<>>, n |-> n, k |-> 0]

Results(n) ==
  /\ Len(pending) >= n
  /\ \A i \in Len(pending) - n + 1 .. Len(pending) : pending[i].is = "result"
Under(n) == SubSeq(pending, 1, Len(pending) - n)
Top == Last(pending)
Second == pending[Len(pending) - 1]

\* The value of a result of one word; an array literal has one per element.
Meant(r) == r.meant[1]
Single(r) == r.n = 0
Numeric(r) == Single(r) /\ IsNum(Meant(r))
Addressed(r) == Single(r) /\ Place(Meant(r)) \in DOMAIN env
Pointing(r) == Addressed(r) /\ r.val.name \notin Arrays

Minus(v, w) == IF IsNum(v) /\ IsNum(w) THEN Num((v.n - w.n) % Word) ELSE Garbage
Negated(v) == IF IsNum(v) THEN Num((-v.n) % Word) ELSE Garbage
Offset(v, k) == [v EXCEPT !.n = @ + k]

\* A name is a parameter, a scalar or an array, and no temporary has it.  What a
\* parameter holds was computed by the caller: it points to no variable of the body.
ASSUME NamesAssumption ==
  /\ None \notin DOMAIN Initial \cup Scalars \cup Arrays
  /\ Arrays \cap (DOMAIN Initial \cup Scalars) = {}
  /\ \A k \in 0 .. MaxTmps : TmpName(k) \notin DOMAIN Initial
  /\ \A x \in DOMAIN Initial :
       IsNum(Initial[x]) \/ (Initial[x].of \in DOMAIN Initial /\ Initial[x].n = 0)

\* A procedure of the text: it clears the words its arguments point to and
\* returns its first argument.
Cleared(m, args) == {a \in DOMAIN m : \E i \in 1 .. Len(args) : Place(args[i]) = a}
Returned(args) == IF args = <<>> THEN Num(0) ELSE args[1]

\* Operands left pending in rest that name one of the changed words.
Overtaken(rest, changed) ==
  \E i \in 1 .. Len(rest) : rest[i].val.kind = "var" /\ <<rest[i].val.name, 0>> \in changed
-----------------------------------------------------------------------------
Init ==
  /\ nodes = 0 /\ pending = <<>> /\ code = <<>> /\ tmp_counter = 0
  /\ env = [w \in {<<x, 0>> : x \in DOMAIN Initial} |-> Initial[w[1]]]
  /\ late = FALSE /\ phase = "lower" /\ pc = 0 /\ mem = <<>>

\* One node: the instructions it emits and the temporaries they take, and what
\* is then pending.
Node(instrs, temps, rest) ==
  /\ phase = "lower" /\ nodes + (IF rest = <<>> THEN 1 ELSE 2) <= MaxNodes
  /\ nodes' = nodes + 1
  /\ code' = code \o instrs
  /\ tmp_counter' = tmp_counter + temps
  /\ pending' = rest
  /\ UNCHANGED <<phase, pc, mem>>

Literal ==
  \E n \in Lits :
    Node(<<>>, 0, Append(pending, Result(Imm(n), <<Num(n)>>)))
      /\ UNCHANGED <<env, late>>

\* A name is its own operand: nothing is emitted.  An array is its address.
Name ==
  \E w \in DOMAIN env :
    /\ w[2] = 0
    /\ Node(<<>>, 0, Append(pending, Result(Var(w[1]),
         <<IF w[1] \in Arrays THEN Addr(w[1], 0) ELSE env[w]>>)))
    /\ UNCHANGED <<env, late>>

\* lower_lval of a name, which is also &name.
AddressOf ==
  \E w \in DOMAIN env :
    /\ w[2] = 0 /\ w[1] \notin Arrays
    /\ Node(<<Op("ADDR", tmp(0), Var(w[1]), VAL_NONE)>>, 1,
            Append(pending, Result(Var(tmp(0)), <<Addr(w[1], 0)>>)))
    /\ UNCHANGED <<env, late>>

\* lower_lval of a[i]: the address of the element.
Index ==
  /\ Results(2) /\ Addressed(Second) /\ Numeric(Top)
  /\ Place(Offset(Meant(Second), Meant(Top).n)) \in DOMAIN env
  /\ Node(<<Op("INDEX_ADDR", tmp(0), Second.val, Top.val)>>, 1,
          Append(Under(2), Result(Var(tmp(0)),
                                  <<Offset(Meant(Second), Meant(Top).n)>>)))
  /\ UNCHANGED <<env, late>>

\* *p, and the value of a[i].
Load ==
  /\ Results(1) /\ Pointing(Top)
  /\ Node(<<Op("LOAD", tmp(0), Top.val, VAL_NONE)>>, 1,
          Append(Under(1), Result(Var(tmp(0)), <<env[Place(Meant(Top))]>>)))
  /\ UNCHANGED <<env, late>>

Binop ==
  /\ Results(2) /\ Numeric(Second) /\ Numeric(Top)
  /\ Node(<<Op("SUB", tmp(0), Second.val, Top.val)>>, 1,
          Append(Under(2), Result(Var(tmp(0)), <<Minus(Meant(Second), Meant(Top))>>)))
  /\ UNCHANGED <<env, late>>

\* Variant: the temporary is not counted.
Unop_uncounted ==
  /\ Results(1) /\ Numeric(Top)
  /\ Node(<<Op("NEG", tmp(0), Top.val, VAL_NONE)>>, 0,
          Append(Under(1), Result(Var(tmp(0)), <<Negated(Meant(Top))>>)))
  /\ UNCHANGED <<env, late>>

Unop ==
  /\ Results(1) /\ Numeric(Top)
  /\ Node(<<Op("NEG", tmp(0), Top.val, VAL_NONE)>>, 1,
          Append(Under(1), Result(Var(tmp(0)), <<Negated(Meant(Top))>>)))
  /\ UNCHANGED <<env, late>>

\* Variant: the value of an assignment is its address.
Store_address ==
  /\ Results(2) /\ Single(Second) /\ Pointing(Top)
  /\ Node(<<Op("STORE", None, Top.val, Second.val)>>, 0,
          Append(Under(2), [Second EXCEPT !.val = Top.val]))
  /\ env' = [env EXCEPT ![Place(Meant(Top))] = Meant(Second)]
  /\ late' = (late \/ Overtaken(Under(2), {Place(Meant(Top))}))

\* An assignment: the value, under the address, is also the result.
Store ==
  /\ Results(2) /\ Single(Second) /\ Pointing(Top)
  /\ Node(<<Op("STORE", None, Top.val, Second.val)>>, 0, Append(Under(2), Second))
  /\ env' = [env EXCEPT ![Place(Meant(Top))] = Meant(Second)]
  /\ late' = (late \/ Overtaken(Under(2), {Place(Meant(Top))}))

\* How many return slots a call gets: a const procedure, whose type is
\* wrapped, gets none.
Rets(p) == IF p.const THEN 0 ELSE Min({p.outs, IR_MAX_RETS})

Call ==
  \E p \in Procs :
    LET args == [i \in 1 .. p.ins |-> pending[Len(pending) - p.ins + i]]
        values == [i \in 1 .. p.ins |-> Meant(args[i])]
        changed == Cleared(env, values)
        val == IF Rets(p) = 0 THEN VAL_NONE ELSE Var(tmp(0))
    IN
    /\ Results(p.ins) /\ \A i \in 1 .. p.ins : Single(args[i])
    /\ p.ins <= IR_MAX_ARGS
    /\ Node(<<Instr("CALL", val.name, VAL_NONE, VAL_NONE, 0,
                    [i \in 1 .. p.ins |-> args[i].val])>>,
            Rets(p), Append(Under(p.ins), Result(val, <<Returned(values)>>)))
    /\ env' = [w \in DOMAIN env |-> IF w \in changed THEN Num(0) ELSE env[w]]
    /\ late' = (late \/ Overtaken(Under(p.ins), changed))

\* An array literal gets storage, then its elements are stored one by one.
OpenLiteral ==
  \E n \in Sizes :
    /\ Node(<<Instr("ALLOCA", tmp(0), VAL_NONE, VAL_NONE, n, <<>>)>>, 1,
            Append(pending, Open("literal", tmp(0), n)))
    /\ UNCHANGED <<env, late>>

Element ==
  /\ Results(1) /\ Single(Top)
  /\ Len(pending) > 1 /\ Second.is = "literal"
  /\ LET lit == [Second EXCEPT !.k = @ + 1, !.meant = Append(@, Meant(Top))]
     IN  Node(<<Instr("FIELD_ADDR", tmp(0), lit.val, VAL_NONE, Second.k, <<>>),
                Op("STORE", None, Var(tmp(0)), Top.val)>>, 1,
              Append(Under(2), IF lit.k = lit.n THEN [lit EXCEPT !.is = "result"] ELSE lit))
  /\ UNCHANGED <<env, late>>

\* var a := [...] or the name of an array: the storage of a comes first, the copy
\* last.
OpenDeclaration ==
  \E a \in Arrays, n \in Sizes :
    /\ pending = <<>> /\ <<a, 0>> \notin DOMAIN env
    /\ Node(<<Instr("ALLOCA", a, VAL_NONE, VAL_NONE, n, <<>>)>>, 0,
            <<Open("declaration", a, n)>>)
    /\ UNCHANGED <<env, late>>

\* The words of a variable.
WordsOf(name) == {w[2] : w \in {w \in DOMAIN env : w[1] = name}}

\* What a declaration of an array copies: a literal, or an array, as large as it.
Copied(source) ==
  \/ source.n = Second.n
  \/ Single(source) /\ source.val.name \in Arrays /\ WordsOf(source.val.name) = 0 .. Second.n - 1

\* The values of the elements.
ElementOf(source, k) ==
  IF source.val.name \in Arrays THEN env[<<source.val.name, k>>] ELSE source.meant[k + 1]

Declare ==
  /\ Len(pending) = 2 /\ pending[1].is = "declaration" /\ Results(1)
  /\ Copied(Top)
  /\ Node(<<Op("ADDR", tmp(0), Second.val, VAL_NONE),
            Instr("MEMCPY", None, Var(tmp(0)), Top.val, Second.n, <<>>)>>, 1, <<>>)
  /\ env' = [w \in {<<Second.val.name, k>> : k \in 0 .. Second.n - 1} \cup DOMAIN env |->
                IF w[1] = Second.val.name THEN ElementOf(Top, w[2]) ELSE env[w]]
  /\ UNCHANGED late

\* var z := e, where e is of a scalar type: not the name of an array.
DeclareScalar ==
  \E z \in Scalars :
    /\ Len(pending) = 1 /\ Results(1) /\ Single(Top) /\ Top.val.name \notin Arrays
    /\ <<z, 0>> \notin DOMAIN env
    /\ Node(<<Op("COPY", z, Top.val, VAL_NONE)>>, 0, <<>>)
    /\ env' = [w \in {<<z, 0>>} \cup DOMAIN env |-> IF w = <<z, 0>> THEN Meant(Top) ELSE env[w]]
    /\ UNCHANGED late

\* An expression as a statement: its result is not used.
Drop ==
  /\ Len(pending) = 1 /\ Results(1)
  /\ Node(<<>>, 0, <<>>)
  /\ UNCHANGED <<env, late>>

Lower ==
  \/ Literal \/ Name \/ AddressOf \/ Index \/ Load \/ Binop \/ Unop \/ Store
  \/ Call \/ OpenLiteral \/ Element \/ OpenDeclaration \/ Declare \/ DeclareScalar
  \/ Drop

\* A call of more arguments than an instruction holds.
TooManyArgs ==
  /\ phase = "lower" /\ nodes < MaxNodes
  /\ \E p \in Procs : p.ins > IR_MAX_ARGS
  /\ phase' = "abort"
  /\ UNCHANGED <<lowering, pc, mem>>
-----------------------------------------------------------------------------
(* Code generation, and the run of the code. *)

Reads(i) ==
  CASE i.op = "CALL"                                        -> Range(i.args)
    [] i.op \in {"SUB", "STORE", "INDEX_ADDR", "MEMCPY"}    -> {i.a, i.b}
    [] i.op = "ALLOCA"                                      -> {}
    [] OTHER                                                -> {i.a}

\* The words of the slots alloc_slots gives the destinations.
Words ==
  {<<x, 0>> : x \in DOMAIN Initial} \cup
  {<<code[p].dst, 0>> : p \in {p \in 1 .. Len(code) : code[p].dst # None}} \cup
  UNION {{<<code[p].dst, k>> : k \in 0 .. Max({code[p].n, 1}) - 1} :
           p \in {p \in 1 .. Len(code) : code[p].dst # None /\ code[p].op = "ALLOCA"}}

\* load_val cannot load VAL_NONE.
Emit ==
  /\ phase = "lower" /\ pending = <<>>
  /\ IF \E p \in 1 .. Len(code) : VAL_NONE \in Reads(code[p])
     THEN phase' = "abort" /\ UNCHANGED <<pc, mem>>
     ELSE /\ phase' = "run" /\ pc' = 1
          /\ mem' = [w \in Words |-> IF w[1] \in DOMAIN Initial THEN Initial[w[1]]
                                     ELSE Garbage]
  /\ UNCHANGED lowering

\* load_val: the word of a variable's slot.
Loaded(v) == IF v.kind = "imm" THEN Num(v.imm) ELSE mem[<<v.name, 0>>]

Running(ops) == phase = "run" /\ pc \in 1 .. Len(code) /\ code[pc].op \in ops

Stepped == pc' = pc + 1 /\ UNCHANGED <<lowering, phase>>

Assigned(v) == mem' = [mem EXCEPT ![<<code[pc].dst, 0>>] = v] /\ Stepped

\* An access to no word of the frame: what it reads or destroys is not
\* followed further.
Fault == phase' = "fault" /\ UNCHANGED <<lowering, pc, mem>>

\* The slot of an IR_ALLOCA holds its own address, in its first word.
Compute ==
  LET i == code[pc] IN
  /\ Running({"ALLOCA", "ADDR", "FIELD_ADDR", "INDEX_ADDR", "SUB", "NEG", "COPY"})
  /\ Assigned(CASE i.op = "ALLOCA"     -> Addr(i.dst, 0)
                [] i.op = "ADDR"       -> Addr(i.a.name, 0)
                [] i.op = "FIELD_ADDR" -> Offset(Loaded(i.a), i.n)
                [] i.op = "INDEX_ADDR" -> Offset(Loaded(i.a), Loaded(i.b).n)
                [] i.op = "SUB"        -> Minus(Loaded(i.a), Loaded(i.b))
                [] i.op = "NEG"        -> Negated(Loaded(i.a))
                [] i.op = "COPY"       -> Loaded(i.a))

Access ==
  LET i == code[pc]
      w == Place(Loaded(i.a))
  IN
  /\ Running({"LOAD", "STORE"})
  /\ IF w \notin DOMAIN mem THEN Fault
     ELSE IF i.op = "LOAD" THEN Assigned(mem[w])
     ELSE mem' = [mem EXCEPT ![w] = Loaded(i.b)] /\ Stepped

Copy ==
  LET i == code[pc]
      to(k) == Place(Offset(Loaded(i.a), k))
      from(k) == Place(Offset(Loaded(i.b), k))
      ks == 0 .. i.n - 1
  IN
  /\ Running({"MEMCPY"})
  /\ IF \E k \in ks : to(k) \notin DOMAIN mem \/ from(k) \notin DOMAIN mem THEN Fault
     ELSE /\ mem' = [w \in DOMAIN mem |->
                       IF \E k \in ks : w = to(k)
                       THEN mem[from(CHOOSE k \in ks : w = to(k))] ELSE mem[w]]
          /\ Stepped

\* The callee clears the words its arguments point to; the first return value
\* is stored, the slots of the others are never written.
CallStep ==
  LET i == code[pc]
      args == [k \in 1 .. Len(i.args) |-> Loaded(i.args[k])]
      cleared == [w \in DOMAIN mem |-> IF w \in Cleared(mem, args) THEN Num(0) ELSE mem[w]]
  IN
  /\ Running({"CALL"})
  /\ mem' = IF i.dst = None THEN cleared
            ELSE [cleared EXCEPT ![<<i.dst, 0>>] = Returned(args)]
  /\ Stepped

Return ==
  /\ phase = "run" /\ pc = Len(code) + 1
  /\ phase' = "done"
  /\ UNCHANGED <<lowering, pc, mem>>

Halt == phase \in {"done", "abort", "fault"} /\ UNCHANGED vars

Next == Lower \/ TooManyArgs \/ Emit \/ Compute \/ Access \/ Copy \/ CallStep
          \/ Return \/ Halt

Spec == Init /\ [][Next]_vars
-----------------------------------------------------------------------------
Temps == {TmpName(k) : k \in 0 .. tmp_counter - 1}

Aggregates == \E p \in 1 .. Len(code) : code[p].op = "ALLOCA"

\* The code leaves in every variable what the expressions mean: the operands of
\* lower_expr are names that are read only when their instruction runs, and
\* still give the values they had when they were evaluated, through nested
\* assignments, pointers and calls, unless a variable is changed in between.
\* Nothing outside the frame is read or written.  Aggregates are left out, see
\* AddressKept.
ValuesKept ==
  \/ late \/ Aggregates
  \/ /\ phase # "fault"
     /\ phase = "done" => \A w \in DOMAIN env : mem[w] = env[w]

\* A temporary is written by one instruction, and no instruction reads a
\* variable or temporary that none before it has written: what lower_expr
\* returns has been computed when its caller's instruction runs.
OperandsReady ==
  \A p \in 1 .. Len(code) :
    /\ \A q \in 1 .. p - 1 : code[q].dst \in Temps => code[q].dst # code[p].dst
    /\ \A v \in Reads(code[p]) :
         v.kind = "var" => \/ v.name \in DOMAIN Initial
                           \/ \E q \in 1 .. p - 1 : code[q].dst = v.name

\* "After this, any load of the var gives back the slot's address"
\* (ir_codegen.c 258, of IR_ALLOCA).
AddressKept ==
  phase = "run" /\ pc <= Len(code) =>
    \A v \in Reads(code[pc]) :
      (\E q \in 1 .. pc - 1 : code[q].op = "ALLOCA" /\ code[q].dst = v.name)
        => Loaded(v) = Addr(v.name, 0)
=============================================================================
