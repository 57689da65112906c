------------------------------ MODULE Compiler ------------------------------
(***************************************************************************)
(* One procedure through the compiler (src/main.c): its body is parsed,    *)
(* checked, lowered and emitted, and the emitted code is then run.  Each   *)
(* pass starts only when the one before it has ended well.                 *)
(*                                                                         *)
(* Running is what the text of emit_instr does on the DVM, with values     *)
(* left out: every conditional jump may go either way.  What is kept of    *)
(* the frame is the first word of each slot: which declaration it was last *)
(* written for, and where the address in it points.                        *)
(***************************************************************************)
EXTENDS Parser, Checker, Lowering

CONSTANT Width   (* the words of the variable a string or aggregate declares *)

\* Types have positive sizes, a string is two words (ty_string, check.c 299).
ASSUME WidthAssumption ==
  /\ Width \in [Stmts -> Nat \ {0}]
  /\ \A n \in Stmts : n.k = "string" => Width[n] = 2

\* ir_tmp prints a counter: temporaries have names, and names of their own.  A
\* node takes at most seven.
MaxTmps == 7 * MaxLen
ASSUME TmpNamesAssumption ==
  /\ MaxLen \in Nat
  /\ \A s \in 0 .. MaxTmps : TmpName(s) # None
  /\ \A s, t \in 0 .. MaxTmps : TmpName(s) = TmpName(t) => s = t

VARIABLES
  emitted,   (* "none" until emit_proc ends: then "ok" or "abort"           *)
  pc,        (* the instruction that runs next; 0 before the call           *)
  mem        (* the frame: the first word of the slot of each name          *)

vars == <<parseVars, checkVars, lowerVars, emitted, pc, mem>>

Word(d, to) == [d |-> d, to |-> to]
Unwritten == Word(NoDecl, Imm)

Init ==
  /\ ParseInit /\ CheckInit /\ LowerInit
  /\ emitted = "none" /\ pc = 0 /\ mem = <<>>

Parse == ParseNext /\ UNCHANGED <<checkVars, lowerVars, emitted, pc, mem>>

Check ==
  /\ parsed
  /\ CheckNext /\ UNCHANGED <<parseVars, lowerVars, emitted, pc, mem>>

Lower ==
  /\ verdict = "ok"
  /\ LowerNext /\ UNCHANGED <<parseVars, checkVars, emitted, pc, mem>>

\* Variant: a parameter is not given a slot.
Slotted_locals ==
  {code[p].dst.name : p \in {p \in 1 .. Len(code) : code[p].op # "PARAM"}} \ {None}

\* alloc_slots gives every destination a slot, keyed by its name.
Slotted == {code[p].dst.name : p \in 1 .. Len(code)} \ {None}

Operands(p) == {code[p].a, code[p].b}

\* Instructions load_val, or IR_ADDR, cannot emit.
Unslotted == {p \in 1 .. Len(code) :
                \E v \in Operands(p) : v.name \notin Slotted \cup {None}}

\* Copies emit_instr refuses, for their size, after it has loaded the operands.
Refused == {p \in 1 .. Len(code) : code[p].op = "MEMCPY_ODD"}

Emit ==
  /\ lowered = "ok" /\ emitted = "none"
  /\ IF Unslotted \cup Refused = {}
     THEN /\ emitted' = "ok" /\ why' = why
          /\ pc' = 1 /\ mem' = [n \in Slotted |-> Unwritten]
     ELSE LET p == Min(Unslotted \cup Refused) IN
          /\ emitted' = "abort"
          /\ why' = IF code[p].a.name \notin Slotted \cup {None}
                    THEN code[p].a.name ELSE code[p].b.name
          /\ UNCHANGED <<pc, mem>>
  /\ UNCHANGED <<parseVars, checkVars, lowered, lpos, lscope, loop_exit, lstack,
                 code, tmp_counter, label_counter, resolved>>

Running == emitted = "ok" /\ pc \in 1 .. Len(code)

\* Where the label of an instruction is placed.
Placed(lab) == {q \in 1 .. Len(code) : code[q].op = "LABEL" /\ code[q].lab = lab}

\* The instructions control may go to after instruction p.
Flow(p) ==
  CASE code[p].op = "JMP"             -> Placed(code[p].lab)
    [] code[p].op \in {"JIF", "JIFN"} -> Placed(code[p].lab) \cup {p + 1}
    [] code[p].op = "RET"             -> {}
    [] OTHER                          -> {p + 1}

\* The frame after instruction p: a destination's word is written for its
\* declaration, a store or copy writes the word its pointer was taken from.
Written(p) ==
  LET i == code[p]
  IN  CASE i.op \in {"STORE", "MEMCPY"}
                          -> [mem EXCEPT ![mem[i.a.name].to.name] =
                                 Word(mem[i.a.name].to.d, Imm)]
        [] i.op = "ADDR"  -> [mem EXCEPT ![i.dst.name] = Word(i.dst.d, i.a)]
        [] i.dst.name # None /\ i.op # "ADDR"
                          -> [mem EXCEPT ![i.dst.name] = Word(i.dst.d, Imm)]
        [] OTHER          -> mem

\* The instruction alloc_slots gives a name its slot at: the first to write it.
Slotting(n) == Min({p \in 1 .. Len(code) : code[p].dst.name = n})

\* Strings and aggregates, the only variables that may be larger than a word.
Wide(i) == Kind(i) \in {"string"} \cup Aggregates

Words(i) == IF Wide(i) THEN Width[prog[i]] ELSE 1

\* The words of the slot of a name.
SlotWords(n) == IF code[Slotting(n)].op = "ALLOCA" THEN Words(code[Slotting(n)].at) ELSE 1

\* The names whose slots begin among the w words from the slot of n on: none, if
\* that has room for them.  Every slot is followed by the one given before it.
Behind(n, w) ==
  LET earlier == {m \in Slotted : Slotting(m) < Slotting(n)}
      Upto(m) == {l \in earlier : Slotting(m) < Slotting(l)} \cup {n}
  IN  IF w <= SlotWords(n) THEN {}
      ELSE {m \in earlier : MapThenSumSet(SlotWords, Upto(m)) < w}

\* The names whose word instruction p overwrites besides.
Overrun(p) ==
  CASE code[p].op = "STR_INIT" -> Behind(code[p].dst.name, Words(code[p].at))
    [] code[p].op = "MEMCPY"   -> Behind(mem[code[p].a.name].to.name, Words(code[p].at))
    [] OTHER                   -> {}

Run ==
  /\ Running
  /\ pc' \in Flow(pc)
  /\ LET frame == Written(pc)
         overrun == Overrun(pc)
     IN  mem' = [n \in DOMAIN frame |-> IF n \in overrun THEN Unwritten ELSE frame[n]]
  /\ UNCHANGED <<parseVars, checkVars, lowerVars, emitted>>

\* The compiler has stopped, or the procedure has returned.
Stopped ==
  \/ verdict = "error" \/ lowered = "abort" \/ emitted = "abort"
  \/ Running /\ code[pc].op = "RET"

Halt == Stopped /\ UNCHANGED vars

Next == Parse \/ Check \/ Lower \/ Emit \/ Run \/ Halt

Spec == Init /\ [][Next]_vars
-----------------------------------------------------------------------------
(***************************************************************************)
(* Control flow.                                                           *)
(***************************************************************************)

\* The statement control is at, as the statements themselves say it.
Ctl == INSTANCE Structured
         WITH at <- IF Running /\ code[pc].at # 0 THEN Here(code[pc].at) ELSE 0

\* The code of the body is complete (and does not change any more).
Compiled == lowered = "ok" /\ emitted = "none"

\* The statements the emitted code may execute after statement n.
FlowNodes(n) ==
  LET own == {p \in 1 .. Len(code) : code[p].at \in Nodes /\ Here(code[p].at) = n}
  IN  {Here(code[q].at) : q \in UNION {Flow(p) : p \in own}} \ {n}

\* The code has every path the statements promise and no other (lower_stmt,
\* ir.c 503-776): after each statement it can reach exactly the statements
\* that may follow it.  In particular an exit leaves the innermost loop, after
\* whatever loops were nested in it before, and an arm never runs into the next.
ControlExact ==
  Compiled =>
    \A n \in Nodes : ~Silent(n) => FlowNodes(n) = Ctl!Successors(n)

\* Running the emitted code is an execution of the statements: every step of
\* the code stays in a statement or moves to one that may follow it.
Implements == Ctl!Spec

-----------------------------------------------------------------------------
(***************************************************************************)
(* Names.                                                                  *)
(***************************************************************************)

Binds(i) ==
  (CASE Kind(i) \in Declarations -> {prog[i].x}
     [] Kind(i) = "for"          -> {prog[i].x, prog[i].key}
     [] Kind(i) = "arm"          -> {prog[i].x}
     [] OTHER                    -> {}) \ {None}

\* The blocks a name bound at j is visible in.
Home(j) == IF Kind(j) \in {"for", "arm"} THEN Blocks(j) \cup {j} ELSE Blocks(j)

Temps == {TmpName(t) : t \in 0 .. tmp_counter}

Outermost == Range(Params) \cup Range(Outs) \cup Range(Globals)

\* No declaration reuses a name that is visible where it stands.
NoShadowing ==
  /\ IsInjective(Params \o Outs)
  /\ \A i \in Nodes :
       /\ Kind(i) = "for" /\ prog[i].key # None => prog[i].key # prog[i].x
       /\ Binds(i) \cap
            (Outermost \cup UNION {Binds(j) : j \in {j \in 1 .. i - 1 : Home(j) \subseteq Blocks(i)}})
              = {}

\* No field of a variant has the name of a variable, wherever that is declared:
\* the lowering does not bind the field, so that the name means the variable.
FieldsApart ==
  \A i, j \in Nodes : Kind(i) = "arm" /\ Kind(j) # "arm" => Binds(i) \cap Binds(j) = {}

\* No name declared in the text is one the compiler makes up.
NoTempNames == Temps \cap (Outermost \cup UNION {Binds(i) : i \in Nodes}) = {}

AllInitialised == \A i \in Nodes : Kind(i) \in {"var", "let"} => prog[i].y # None

\* No two declarations of a block, or of the tuples and the body under them,
\* have one name, and none reads its own name.
DistinctInBlock ==
  /\ IsInjective(Params \o Outs)
  /\ \A i \in Nodes :
       /\ Kind(i) = "for" => prog[i].key # prog[i].x
       /\ Kind(i) \in Declarations => prog[i].y # prog[i].x
       /\ \A j \in 1 .. i - 1 : Home(i) = Home(j) => Binds(i) \cap Binds(j) = {}
       /\ Home(i) = {} => Binds(i) \cap (Range(Params) \cup Range(Outs)) = {}

\* Variables of the text that only the checker binds.
ArmField(d) == d[1] = "node" /\ Kind(d[2]) = "arm"

\* The lowering resolves every operand of an accepted body to the declaration
\* the checker resolved it to (scope_lookup and lscope_find are two
\* implementations of one rule), shadowing included.  Fields of a variant are
\* bound by the checker alone and are left out here, as are two declarations
\* of a name in one block, where the checker takes the newest (check.c
\* scope_define) and the lowering the oldest, and bodies that declare a name of
\* the form t<k>, which the lowering defines too (the index of a for).
PassesAgree ==
  \A i \in 1 .. Min({Len(resolved), Len(bound)}) :
    resolved[i] # bound[i] =>
      \/ ~DistinctInBlock \/ ~NoTempNames
      \/ ArmField(bound[i].x) \/ ArmField(bound[i].y)

\* Declarations the checker accepts the use of and the back end cannot compile:
\* names of the file level, outputs, declarations without initialiser, and
\* the fields of a variant.
Uncompiled(d) ==
  \/ d[1] \in {"global", "out"}
  \/ ArmField(d)
  \/ d[1] = "node" /\ Kind(d[2]) \in {"var", "let"} /\ prog[d[2]].y = None

\* A body the checker accepts makes a later pass abort only over the use of a
\* declaration of one of those kinds, a string that is no initialiser
\* (lower_expr, ir.c 493), or the copy of an aggregate that is no number of words
\* (emit_instr, ir_codegen.c 403); in particular an exit always finds its loop,
\* and every other name that is read has a slot.
AbortsExplained ==
  lowered = "abort" \/ emitted = "abort" =>
    \/ \E i \in Nodes :
         \/ prog[i].y = why
             /\ (Uncompiled(bound[i].y) \/ why = StringLit \/ Kind(i) = "bytes")
         \/ prog[i].x = why /\ Kind(i) = "assign" /\ Uncompiled(bound[i].x)
    \/ why \in Range(Outs)

\* No block declares a variable under a name an earlier block gave to a smaller
\* one: alloc_slots sizes a slot by the first request for its name.
RoomForAll ==
  \A i, j \in Nodes : j < i /\ Binds(i) \cap Binds(j) # {} => Words(i) <= Words(j)

\* The word an instruction reads was last written for the declaration it is
\* meant to read: two variables alive at the same time never share a slot or
\* reach into each other's, a pointer still points to the variable it was taken
\* from, and every read is preceded by a write.  The slot map is keyed by names
\* alone, so this needs bodies that neither shadow nor use a name of the form
\* t<k>, in which no field of a variant is taken for a variable of a block that
\* is closed, and no block needs more room for a name than an earlier one.
LexicalReads ==
  /\ Running
  /\ \E v \in Operands(pc) :
       v.name # None /\ code[pc].op # "ADDR" /\ mem[v.name].d # v.d
  => ~NoShadowing \/ ~NoTempNames \/ ~AllInitialised \/ ~FieldsApart \/ ~RoomForAll

\* An output of a procedure is a variable that can be used (ir.c 825).
OutputsHaveStorage == emitted = "abort" => why \notin Range(Outs)
=============================================================================
