-------------------------------- MODULE Types --------------------------------
(***************************************************************************)
(* The types of the checker (src/inc/check.h, src/check.c): what a type    *)
(* expression resolves to, which types go together, how large they are and *)
(* where fields lie; the type of an expression; and the offsets accesses   *)
(* are lowered with (src/ir.c).  Expressions and type expressions are the  *)
(* trees of Grammar.                                                       *)
(***************************************************************************)
EXTENDS Integers, Sequences, SequencesExt, FiniteSetsExt, Grammar

CONSTANTS
  Value,      (* integer literals, with their values                      *)
  IntBits     (* width of int: 32 in the code                             *)

\* int arithmetic of the code, which wraps.
Wrap(n) == ((n + 2 ^ (IntBits - 1)) % 2 ^ IntBits) - 2 ^ (IntBits - 1)

\* num tells records and array lengths apart, parts are the types it is made of.
Ty(kind, size, name, num, parts) ==
  [kind |-> kind, size |-> size, name |-> name, num |-> num, parts |-> parts]
Plain(kind) == Ty(kind, 8, "", 0, <<>>)
word == Plain("word")
float == Plain("float")
atom == Plain("atom")
bool == Plain("bool")
type == Plain("type")
Bad == Plain("error")
Integer(name) == Ty("int", CASE name \in {"i8", "u8"} -> 1 [] name = "i32" -> 4 [] OTHER -> 8, name, 0, <<>>)
Ptr(t) == Ty("ptr", 8, "", 0, <<t>>)
Const(t) == Ty("const", t.size, "", 0, <<t>>)
Tuple(ts) == Ty("tuple", Len(ts) * 8, "", 0, ts)
Proc(in, out) == Ty("proc", 8, "", 0, <<in, out>>)

\* Variant: elements are a word each.
Array_words(t, n) == Ty("array", IF n >= 0 THEN Wrap(n * 8) ELSE 16, "", n, <<t>>)

\* A negative length is a dynamic array: a pointer and a length.
Array(t, n) == Ty("array", IF n >= 0 THEN Wrap(n * t.size) ELSE 16, "", n, <<t>>)

Record(size, num) == Ty("record", size, "", num, <<>>)
string == Record(16, 0)

Builtin ==
  [n \in {"word", "int", "uint", "i8", "u8", "i32", "float", "atom", "string"} |->
     CASE n = "word" -> word [] n = "float" -> float [] n = "atom" -> atom
       [] n = "string" -> string [] OTHER -> Integer(n)]

RECURSIVE Compat(_, _)

\* ty_compat.  A word goes with everything; float32 and float64 are one kind.
Compat(expected, got) ==
  \/ "word" \in {expected.kind, got.kind}
  \/ /\ expected.kind = got.kind /\ expected.name = got.name /\ expected.num = got.num
     /\ Len(expected.parts) = Len(got.parts)
     /\ \A i \in DOMAIN got.parts : Compat(expected.parts[i], got.parts[i])

Symbol(name, kind, ty, decl) == [name |-> name, kind |-> kind, type |-> ty, decl |-> decl]
Named(scope, name) == {i \in DOMAIN scope : scope[i].name = name}

\* Variant: the oldest symbol of that name is found.
Lookup_oldest(scope, name) ==
  IF Named(scope, name) = {} THEN Symbol(name, "none", Bad, 0) ELSE scope[Min(Named(scope, name))]

\* scope_lookup: the newest symbol of that name, the innermost scope first.
Lookup(scope, name) ==
  IF Named(scope, name) = {} THEN Symbol(name, "none", Bad, 0) ELSE scope[Max(Named(scope, name))]

RECURSIVE Resolve(_, _)

\* resolve_type: built-in names first, then records; a bad part makes a bad type.
Resolve(t, scope) ==
  LET k == t.kids
      last == Resolve(Last(k), scope)
  IN  CASE t = Absent \/ t.op \in DOMAIN Builtin -> IF t = Absent THEN word ELSE Builtin[t.op]
        [] t.op = "tuple" ->
             LET ts == [i \in DOMAIN k |-> Resolve(k[i].kids[2], scope)]
             IN  IF Bad \in ToSet(ts) THEN Bad ELSE Tuple(ts)
        [] t.op \in {"ptr", "const", "slots"} ->
             IF last = Bad \/ (t.op = "slots" /\ k[1] # Absent /\ k[1].op \notin DOMAIN Value) THEN Bad
             ELSE IF t.op = "ptr" THEN Ptr(last)
             ELSE IF t.op = "const" THEN Const(last)
             ELSE Array(last, IF k[1] = Absent THEN -1 ELSE Wrap(Value[k[1].op]))
        [] OTHER -> LET s == Lookup(scope, t.op) IN IF s.kind = "record" THEN s.type ELSE Bad

\* Variant: fields follow each other by their sizes.
Fields_packed(params, scope) ==
  LET ty(i) == Resolve(params[i].kids[2], scope)
      at[i \in Nat] == IF i <= 1 THEN 0 ELSE at[i - 1] + ty(i - 1).size
  IN  [i \in DOMAIN params |-> [name |-> params[i].kids[1].op, type |-> ty(i), offset |-> at[i]]]

\* resolve_fields: every field takes a word, in the order of the text.
Fields(params, scope) ==
  [i \in DOMAIN params |->
     [name |-> params[i].kids[1].op, type |-> Resolve(params[i].kids[2], scope), offset |-> 8 * (i - 1)]]

\* The fields an access is searched in: the fixed ones, then each variant's.
AllFields(def) == def.fields \o FlattenSeq(def.variants)
Matching(def, f) == SelectSeq(AllFields(def), LAMBDA x : x.name = f)

\* The type of an access to field f of a record.
AccessType(def, f) ==
  IF Matching(def, f) # <<>> THEN Matching(def, f)[1].type ELSE IF def.extensible THEN word ELSE Bad
-----------------------------------------------------------------------------
(* check_expr *)

Comparing == {"=", "<"}
Suffixed == [l \in {"1u8"} |-> "u8"]
FieldOf(access) == access.kids[2].op

\* A field node in a literal is a named field, whatever it was written as.
Operand(t, i) ==
  IF t.op = "mol" /\ t.kids[i].op \in {"field", "named"} THEN t.kids[i].kids[1] ELSE t.kids[i]
Operands(t) == IF t.op = "field" THEN {1} ELSE DOMAIN t.kids

RECURSIVE TypeOf(_, _, _)

TypeOf(t, scope, defs) ==
  LET ty == [i \in Operands(t) |-> TypeOf(Operand(t, i), scope, defs)]
      at == IF ty[1].kind = "ptr" THEN ty[1].parts[1] ELSE ty[1]
      proc == IF ty[1].kind = "const" THEN ty[1].parts[1] ELSE ty[1]
  IN CASE \E i \in DOMAIN ty : ty[i] = Bad -> Bad
       [] t.op = "1.5" -> float
       [] t.op = "str" -> string
       [] t.op \in DOMAIN Value -> Integer("int")
       [] t.op \in DOMAIN Suffixed -> Integer(Suffixed[t.op])
       [] t.op = "array" ->
            IF \E i \in DOMAIN ty : ~Compat(ty[1], ty[i]) THEN Bad
            ELSE Array(IF ty = <<>> THEN word ELSE ty[1], Len(ty))
       [] t.op = "mol" -> Tuple(ty)
       [] t.op = "field" ->
            CASE at.kind = "record" -> AccessType(defs[at.num], FieldOf(t))
              [] at.kind \in {"word", "tuple"} -> word
              [] at.kind = "const" -> type
              [] OTHER -> Bad
       [] t.op = "index" -> IF ty[1].kind \in {"array", "ptr"} THEN ty[1].parts[1]
                            ELSE IF ty[1].kind = "word" THEN word ELSE Bad
       [] t.op = "call" ->
            LET want == proc.parts[1].parts  out == proc.parts[2].parts
            IN  IF proc.kind # "proc" THEN Bad
                ELSE IF Len(want) # Len(ty) - 1 \/ \E i \in DOMAIN want : ~Compat(want[i], ty[i + 1])
                THEN Bad
                ELSE CASE Len(out) = 0 -> word [] Len(out) = 1 -> out[1] [] OTHER -> proc.parts[2]
       [] t.op = ":=" -> IF \/ Lookup(scope, t.kids[1].op).kind = "let"
                            \/ ~Compat(ty[1], ty[2]) THEN Bad ELSE ty[1]
       [] t.op \in Comparing -> bool
       [] t.op \in Binary \ Comparing ->
            IF "float" \in {ty[1].kind, ty[2].kind} THEN float
            ELSE IF Compat(ty[1], ty[2]) THEN ty[1] ELSE Bad
       [] t.op \in {"neg", "not"} -> ty[1]
       [] t.op = "deref" -> IF ty[1].kind = "ptr" THEN ty[1].parts[1]
                            ELSE IF ty[1].kind = "word" THEN word ELSE Bad
       [] t.op = "addr" -> Ptr(ty[1])
       [] t.op \in Atoms -> atom
       [] OTHER -> Lookup(scope, t.op).type
-----------------------------------------------------------------------------
(* The lowering *)

\* field_offset: where the first field of that name is, 0 if none is.
field_offset(def, f) == LET found == Matching(def, f) IN IF found = <<>> THEN 0 ELSE found[1].offset

\* The offset an access is lowered with; ty is the type of what it is an access to.
AccessOffset(ty, f, defs) ==
  LET at == IF ty.kind = "ptr" THEN ty.parts[1] ELSE ty
  IN  IF at.kind = "record" THEN field_offset(defs[at.num], f) ELSE 0
=============================================================================
