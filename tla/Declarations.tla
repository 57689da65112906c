---------------------------- MODULE Declarations ----------------------------
(***************************************************************************)
(* check_file (src/check.c): the names of a file are registered, then      *)
(* bodies and file-level variables are checked in the order of the text,   *)
(* in a scope where both passes leave their symbols.                       *)
(***************************************************************************)
EXTENDS Types

CONSTANT Files   (* the files, as trees of Grammar *)

VARIABLES
  file,
  pass,      (* "register", "check", "done"; "refused" or "error" by either *)
  decl,      (* the declaration the pass is at                             *)
  stmt,      (* the statement of its body; 0 outside                       *)
  scope,     (* symbols, oldest first; those of the body after all others  *)
  saved,     (* how many symbols are of the file                           *)
  defs,      (* the records registered so far                              *)
  checked    (* history: the expressions accepted, with their scopes       *)

vars == <<file, pass, decl, stmt, scope, saved, defs, checked>>

d == file[decl]
StringFields == <<[name |-> "length", type |-> Integer("uint"), offset |-> 0],
                  [name |-> "data", type |-> Ptr(Integer("u8")), offset |-> 8]>>
Def(extensible, fields, tags, variants) ==
  [extensible |-> extensible, fields |-> fields, tags |-> tags, variants |-> variants]

\* Names that checker_init puts into the file scope.
BuiltinNames == <<"word", "int", "uint", "float", "atom", "string">>
Init ==
  /\ file \in Files /\ pass = "register" /\ decl = 1 /\ stmt = 0 /\ saved = 0 /\ checked = <<>>
  /\ scope = [i \in DOMAIN BuiltinNames |-> Symbol(BuiltinNames[i], "record", Builtin[BuiltinNames[i]], 0)]
  /\ defs = [i \in {0} |-> Def(FALSE, StringFields, <<>>, <<>>)]

In(p, kinds) == pass = p /\ stmt = 0 /\ decl \in DOMAIN file /\ d.op \in kinds
Forward == decl' = decl + 1 /\ UNCHANGED <<file, pass, stmt, saved>>
Reject == /\ pass' = IF pass = "register" THEN "refused" ELSE "error"
          /\ UNCHANGED <<file, decl, stmt, scope, saved, defs, checked>>
Define(name, kind, ty) == scope' = Append(scope, Symbol(name, kind, ty, decl))
-----------------------------------------------------------------------------
(* register_toplevel *)

\* A record's items: its fields, and at the end perhaps the variants.
Params(r) == SelectSeq(Tail(r.kids), LAMBDA k : k.op = "param")
Arms(r) == FlattenSeq([i \in DOMAIN r.kids |-> IF r.kids[i].op = "variants" THEN Tail(r.kids[i].kids) ELSE <<>>])

RegisterRecord ==
  /\ In("register", Records)
  /\ LET fields == Fields(Params(d), scope)
         variants == [i \in DOMAIN Arms(d) |-> Fields(Arms(d)[i].kids[2].kids, scope)]
         tags == [i \in DOMAIN Arms(d) |-> Arms(d)[i].kids[1].op]
         def == Def(d.op = "record+", fields, tags, variants)
         longest == Max({0} \cup {Len(variants[i]) : i \in DOMAIN variants})
     IN  IF \E f \in ToSet(AllFields(def)) : f.type = Bad THEN Reject
         ELSE /\ Define(d.kids[1].op, "record", Record(8 * Len(fields) + 8 * longest, decl))
              /\ defs' = [i \in DOMAIN defs \cup {decl} |-> IF i = decl THEN def ELSE defs[i]]
              /\ Forward /\ UNCHANGED checked

RegisterProc ==
  /\ In("register", Procs)
  /\ LET in == Resolve(d.kids[2], scope)  out == Resolve(d.kids[3], scope)
     IN  IF Bad \in {in, out} THEN Reject
         ELSE /\ Define(d.kids[1].op, IF d.op = "proc" THEN "proc" ELSE "const",
                        IF d.op = "proc" THEN Proc(in, out) ELSE Const(Proc(in, out)))
              /\ Forward /\ UNCHANGED <<defs, checked>>

Variables == {"let", "var"}

\* The initialiser is not looked at: without a type it is a word.
RegisterVar ==
  /\ In("register", Variables)
  /\ LET ty == Resolve(d.kids[2], scope)
     IN  IF ty = Bad THEN Reject
         ELSE Define(d.kids[1].op, d.op, ty) /\ Forward /\ UNCHANGED <<defs, checked>>

\* Imports define nothing; records are done with after the first pass.
Skip ==
  \/ In("register", {"import"}) /\ Forward /\ UNCHANGED <<scope, defs, checked>>
  \/ In("check", Records \cup {"import"}) /\ Forward /\ UNCHANGED <<scope, defs, checked>>

Turn ==
  /\ decl > Len(file) /\ pass \in {"register", "check"}
  /\ IF pass = "register" THEN pass' = "check" /\ decl' = 1 ELSE pass' = "done" /\ UNCHANGED decl
  /\ UNCHANGED <<file, stmt, scope, saved, defs, checked>>
-----------------------------------------------------------------------------
(* check_stmt and check_proc *)

\* A declaration with its initialiser, or without.
Declared(s, inner) ==
  LET want == Resolve(s.kids[2], inner)
      got == TypeOf(s.kids[3], inner, defs)
  IN  IF s.kids[3] = Absent THEN want
      ELSE IF want = Bad \/ got = Bad THEN Bad
      ELSE IF s.kids[2] = Absent THEN got ELSE IF Compat(want, got) THEN want ELSE Bad

\* check_stmt turns the state c of the checker into the next one; ok is FALSE once
\* check_error is called.  log has every expression accepted, with its scope and
\* the innermost arm around it that binds fields.
NoArm == [type |-> Bad, tag |-> ""]
State == [scope |-> scope, in_loop |-> FALSE, ok |-> TRUE, arm |-> NoArm, log |-> checked]
Logged(c, e) == [c EXCEPT !.log = Append(@, [expr |-> e, scope |-> c.scope, arm |-> c.arm])]
CheckExpr(c, e) == IF TypeOf(e, c.scope, defs) = Bad THEN [c EXCEPT !.ok = FALSE] ELSE Logged(c, e)

\* What a for binds: its key, if it has one, and its value.
LoopTypes(iter) ==
  CASE iter.kind = "array" -> <<Integer("uint"), iter.parts[1]>>
    [] iter.kind = "record" /\ defs[iter.num].extensible -> <<atom, word>>
    [] OTHER -> <<word, word>>
LoopVars(names, iter) ==
  [i \in DOMAIN names |-> Symbol(names[i].op, "let", LoopTypes(iter)[i + 2 - Len(names)], decl)]

\* The variants of a tag; a wildcard has none.
Tagged(def, tag) == {i \in DOMAIN def.tags : def.tags[i] = tag /\ tag \in Atoms}

\* Variant: the last variant of the tag counts.
ArmVars_last(subject, tag) ==
  IF subject.kind # "record" \/ Tagged(defs[subject.num], tag) = {} THEN <<>>
  ELSE LET fields == defs[subject.num].variants[Max(Tagged(defs[subject.num], tag))]
       IN  [i \in DOMAIN fields |-> Symbol(fields[i].name, "let", fields[i].type, decl)]

\* The fields an arm binds, in the order of its variant.
ArmVars(subject, tag) ==
  IF subject.kind # "record" \/ Tagged(defs[subject.num], tag) = {} THEN <<>>
  ELSE LET fields == defs[subject.num].variants[Min(Tagged(defs[subject.num], tag))]
       IN  [i \in DOMAIN fields |-> Symbol(fields[i].name, "let", fields[i].type, decl)]

RECURSIVE CheckStmt(_, _)

\* Variant: what t declares stays in scope.
Scoped_open(c, begun, t) == [CheckStmt(begun, t) EXCEPT !.in_loop = c.in_loop, !.arm = c.arm]

\* Statement t, begun in the given state, in a scope that ends with it.
Scoped(c, begun, t) ==
  [CheckStmt(begun, t) EXCEPT !.scope = c.scope, !.in_loop = c.in_loop, !.arm = c.arm]

CheckStmt(c, s) ==
  LET k == s.kids
      subject == TypeOf(k[1], c.scope, defs)
      iter == k[Len(k) - 1]
  IN CASE ~c.ok -> c
       [] s.op \in Variables ->
            LET ty == Declared(s, c.scope)
                init == IF k[3] = Absent THEN c ELSE Logged(c, k[3])
            IN  IF ty = Bad THEN [c EXCEPT !.ok = FALSE]
                ELSE [init EXCEPT !.scope = Append(@, Symbol(k[1].op, s.op, ty, decl))]
       [] s.op = "if" -> FoldLeft(LAMBDA a, t : Scoped(a, a, t), CheckExpr(c, k[1]), Tail(k))
       [] s.op = "while" -> LET a == CheckExpr(c, k[1]) IN Scoped(a, [a EXCEPT !.in_loop = TRUE], k[2])
       [] s.op = "loop" -> Scoped(c, [c EXCEPT !.in_loop = TRUE], k[1])
       [] s.op = "for" ->
            LET a == CheckExpr(c, iter)
                bound == LoopVars(SubSeq(k, 1, Len(k) - 2), TypeOf(iter, c.scope, defs))
            IN  Scoped(a, [a EXCEPT !.in_loop = TRUE, !.scope = @ \o bound], Last(k))
       [] s.op = "case" ->
            FoldLeft(LAMBDA a, arm :
                       LET tag == arm.kids[1].op
                           bound == ArmVars(subject, tag)
                           within == IF bound = <<>> THEN a.arm ELSE [type |-> subject, tag |-> tag]
                       IN  Scoped(a, [a EXCEPT !.scope = @ \o bound, !.arm = within], arm.kids[2]),
                     CheckExpr(c, k[1]), Tail(k))
       [] s.op = "exit" -> [c EXCEPT !.ok = c.in_loop]
       [] s.op = "block" -> FoldLeft(CheckStmt, c, k)
       [] OTHER -> CheckExpr(c, s)

\* Variant: the first pass has defined it already.
CheckVar_once ==
  /\ In("check", Variables)
  /\ IF Declared(d, scope) = Bad THEN Reject
     ELSE checked' = CheckStmt(State, d).log /\ Forward /\ UNCHANGED <<scope, defs>>

\* A declaration of the file defines its name a second time.
CheckVar ==
  /\ In("check", Variables)
  /\ LET c == CheckStmt(State, d) IN
     IF ~c.ok THEN Reject
     ELSE scope' = c.scope /\ checked' = c.log /\ Forward /\ UNCHANGED defs

\* Variant: a parameter without a type is an int.
Bound_int(outer, params, kind) ==
  FoldLeft(LAMBDA inner, p :
             Append(inner, Symbol(p.kids[1].op, kind,
                                  IF p.kids[2] = Absent THEN Integer("int") ELSE Resolve(p.kids[2], inner), decl)),
           outer, params)

\* The types of the parameters are resolved again, each in a scope that holds the
\* parameters before it.
Bound(outer, params, kind) ==
  FoldLeft(LAMBDA inner, p : Append(inner, Symbol(p.kids[1].op, kind, Resolve(p.kids[2], inner), decl)),
           outer, params)

EnterProc ==
  /\ In("check", Procs)
  /\ LET bound == Bound(Bound(scope, d.kids[2].kids, "let"), d.kids[3].kids, "var") IN
     IF d.kids[4] = Absent THEN Forward /\ UNCHANGED <<scope, defs, checked>>
     ELSE IF \E s \in ToSet(bound) : s.type = Bad THEN Reject
     ELSE /\ scope' = bound /\ saved' = Len(scope)
          /\ stmt' = 1 /\ UNCHANGED <<file, pass, decl, defs, checked>>

body == d.kids[4].kids
CheckBlock ==
  /\ stmt > 0 /\ pass = "check" /\ stmt \in DOMAIN body
  /\ LET c == CheckStmt(State, body[stmt]) IN
     IF ~c.ok THEN Reject
     ELSE /\ scope' = c.scope /\ checked' = c.log /\ stmt' = stmt + 1
          /\ UNCHANGED <<file, pass, decl, saved, defs>>

LeaveProc ==
  /\ stmt > 0 /\ pass = "check" /\ stmt > Len(body)
  /\ scope' = SubSeq(scope, 1, saved)
  /\ stmt' = 0 /\ decl' = decl + 1 /\ UNCHANGED <<file, pass, saved, defs, checked>>

Next == RegisterRecord \/ RegisterProc \/ RegisterVar \/ Skip \/ Turn
          \/ CheckVar \/ EnterProc \/ CheckBlock \/ LeaveProc
Spec == Init /\ [][Next]_vars
-----------------------------------------------------------------------------
\* The declarations of a name, and the type names of a declaration that are not
\* built in.
Declaring(name) == {i \in DOMAIN file : file[i].op # "import" /\ file[i].kids[1].op = name}
Signature(i) ==
  IF file[i].op \in Procs THEN Nodes(file[i].kids[2]) \cup Nodes(file[i].kids[3])
  ELSE IF file[i].op \in Variables THEN {file[i]} \cup Nodes(file[i].kids[2]) ELSE Nodes(file[i])
TypeNames(nodes) ==
  {t.op : t \in {t \in {n.kids[2] : n \in {n \in nodes : n.op \in Variables \cup {"param", "slots"}}}
                        \cup {n.kids[1] : n \in {n \in nodes : n.op \in {"ptr", "const"}}} :
                   t.kids = <<>> /\ t # Absent}} \ DOMAIN Builtin

\* Every type name stands after its record, and array sizes are literals.
InOrder ==
  \A i \in DOMAIN file :
    /\ \A n \in TypeNames(Signature(i)) :
         LET before == Declaring(n) \cap 1 .. i - 1 IN before # {} /\ file[Max(before)].op \in Records
    /\ \A t \in Signature(i) : t.op = "slots" => t.kids[1] = Absent \/ t.kids[1].op \in DOMAIN Value

\* Registration accepts a file exactly when every type name stands after a record
\* of that name that nothing declared since has replaced, and array sizes are
\* literals: unlike procedures, records cannot be used before their declaration,
\* nor by themselves (check.c:207).  This disagrees with two comments: check.c:307,
\* "names may be used before declaration", and check.c:792, "so forward references
\* work", are true of procedures and variables in bodies, and false of records.
RegisteredInOrder == (pass = "refused" => ~InOrder) /\ (pass \in {"check", "done", "error"} => InOrder)

\* What a body takes a name of the file for: the last variable of that name before
\* it in the text, with the type of its initialiser; else the last declaration of
\* the name in the file, which is a word if it is a later variable without a type.
SeenAs ==
  stmt > 0 => \A n \in {file[i].kids[1].op : i \in {i \in DOMAIN file : file[i].op # "import"}} :
    LET earlier == {i \in Declaring(n) : i < decl /\ file[i].op \in Variables}
        seen == Lookup(SubSeq(scope, 1, saved), n)
    IN  /\ seen.decl = IF earlier # {} THEN Max(earlier) ELSE Max(Declaring(n))
        /\ seen.decl > decl /\ seen.kind \in Variables /\ file[seen.decl].kids[2] = Absent => seen.type = word

\* A type name of a signature that can mean something else the second time.
Hidden(n) == Cardinality(Declaring(n)) > 1 \/ \E p \in Signature(decl) : p.op = "param" /\ p.kids[1].op = n

\* A body sees its parameters with the types its callers are checked against, and
\* a signature that was registered is not rejected later, unless it names a type
\* that the file declares again or that one of its own parameters hides:
\* check_proc resolves the types again (check.c:753).
SignaturesAgree ==
  pass \in {"check", "error"} /\ decl \in DOMAIN file /\ d.op \in Procs
    /\ (\A n \in TypeNames(Signature(decl)) : ~Hidden(n)) =>
    LET own == scope[CHOOSE i \in DOMAIN scope : scope[i].decl = decl].type
        proc == IF own.kind = "const" THEN own.parts[1] ELSE own
        both == proc.parts[1].parts \o proc.parts[2].parts
    IN  /\ stmt > 0 => \A i \in DOMAIN both : scope[saved + i].type = both[i]
        /\ pass = "error" => stmt > 0

\* The names a statement adds to the scope it stands in.
RECURSIVE Adds(_)
Adds(s) ==
  IF s.op \in Variables THEN <<s.kids[1].op>>
  ELSE IF s.op = "block" THEN FlattenSeq([i \in DOMAIN s.kids |-> Adds(s.kids[i])]) ELSE <<>>

\* Between two statements of a body its scope holds the parameters, the outputs and
\* what the statements before declared, not what blocks, loops and arms declared in
\* them; a block that is a statement of its own has no scope (check.c:721).
BlocksClosed ==
  stmt > 0 =>
    LET signature == d.kids[2].kids \o d.kids[3].kids
        before == SubSeq(body, 1, stmt - 1)
    IN  [i \in 1 .. Len(scope) - saved |-> scope[saved + i].name]
        = [i \in DOMAIN signature |-> signature[i].kids[1].op]
            \o FlattenSeq([i \in DOMAIN before |-> Adds(before[i])])

\* In an arm, a field of its variant has the type and the offset that an access from
\* anywhere finds, exactly when no fixed field and no field of an earlier variant of
\* that name has another: accesses are searched over all variants in their order,
\* whatever the tag (check.c:468, ir.c:195).
ArmsAgree ==
  \A c \in {c \in ToSet(checked) : c.arm # NoArm} :
    LET def == defs[c.arm.type.num]
        v == Min(Tagged(def, c.arm.tag))
        own == def.variants[v]
        local == {i \in DOMAIN c.scope : c.scope[i].decl = Last(c.scope).decl}
        Others(f) == {g \in ToSet(def.fields \o FlattenSeq(SubSeq(def.variants, 1, v - 1))) : g.name = f.name}
    IN  \A f \in ToSet(own) :
          Cardinality(Named(c.scope, f.name) \cap local) = 1 /\ Cardinality(Others(f)) <= 1 =>
            (/\ AccessType(def, f.name) = Lookup(c.scope, f.name).type
             /\ field_offset(def, f.name) = f.offset)
            <=> Others(f) \subseteq {f}

\* The bytes an access to a field touches, and whether all accesses are well placed.
Span(ty, f) == LET at == AccessOffset(ty, f.name, defs) IN at .. at + Max({8, f.type.size}) - 1
Views(def) == {def.fields} \cup {def.fields \o v : v \in ToSet(def.variants)}
Sound(ty) ==
  \A v \in Views(defs[ty.num]) : \A i \in DOMAIN v :
    /\ Span(ty, v[i]) \subseteq 0 .. ty.size - 1
    /\ \A j \in DOMAIN v \ {i} : Span(ty, v[i]) \cap Span(ty, v[j]) = {}
Simple(def) ==
  /\ \A f \in ToSet(AllFields(def)) : f.type.size <= 8
  /\ def.fields = <<>> \/ FlattenSeq(def.variants) = <<>>

\* The bytes that accesses to two fields of a record touch are apart, and in the
\* record, exactly when no field is larger than a word and the record has not both
\* fixed fields and fields of a variant (check.c:174, 354).
AccessesApart ==
  \A s \in ToSet(scope) :
    LET def == defs[s.type.num]
        names == {f.name : f \in ToSet(AllFields(def))}
    IN  s.kind = "record" /\ s.decl > 0 /\ Cardinality(names) = Len(AllFields(def)) =>
          (Sound(s.type) <=> Simple(def))

\* The size of a type expression in unbounded arithmetic.
RECURSIVE TrueSize(_)
TrueSize(t) ==
  IF t.op = "slots" THEN IF t.kids[1] = Absent THEN 16 ELSE Value[t.kids[1].op] * TrueSize(t.kids[2])
  ELSE Resolve(t, scope).size

\* An array type has the size of its elements exactly when that fits an int:
\* lengths and products wrap, and a length that wraps to a negative one makes the
\* array dynamic (check.c:54, 221).
SizesTrue ==
  pass = "check" => \A i \in DOMAIN file : \A t \in Signature(i) :
    t.op = "slots" /\ Resolve(t, scope) # Bad =>
      (Resolve(t, scope).size = TrueSize(t) <=> TrueSize(t) < 2 ^ (IntBits - 1))
=============================================================================
