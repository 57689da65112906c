--------------------------- MODULE MCDeclarations ---------------------------
(* Small files: declarations in every order, record layouts, and bodies of one *)
(* expression in a file that declares something of every kind.                 *)
EXTENDS Declarations

MCValue == [l \in {"1", "2", "3", "8", "40", "130", "255", "256"} |->
              CASE l = "1" -> 1 [] l = "2" -> 2 [] l = "3" -> 3 [] l = "8" -> 8 [] l = "40" -> 40
                [] l = "130" -> 130 [] l = "255" -> 255 [] OTHER -> 256]

Slots(n, t) == Node("slots", <<IF n = "" THEN Absent ELSE Leaf(n), t>>)
Pointer(t) == Node("ptr", <<t>>)
Par(n, t) == Node("param", <<Leaf(n), t>>)
Unit == Node("tuple", <<>>)
Rec(op, n, items) == Node(op, <<Leaf(n)>> \o items)
Method(op, n, in, out, stmts) ==
  Node(op, <<Leaf(n), Node("tuple", in), Node("tuple", out), Node("block", stmts)>>)
Let(op, n, t, e) == Node(op, <<Leaf(n), t, e>>)
Variants(vs) == Node("variants", <<Leaf("a")>> \o [i \in DOMAIN vs |-> Node("variant", <<Leaf(":a"), Node("tuple", vs[i])>>)])

\* Declarations that name types, and others that take the name of a type.
Reffed == {Leaf("u8"), Leaf("r"), Pointer(Leaf("s")), Slots("2", Leaf("r"))}
Ordered ==
  {Rec("record", n, <<Par("a", t)>>) : n \in {"r", "s"}, t \in Reffed}
    \cup {Method("proc", "f", <<Par("x", t)>>, <<Par("y", Leaf("r"))>>, <<Leaf("x")>>) : t \in {Leaf("r"), Pointer(Leaf("s"))}}
    \cup {Method("proc", "f", <<Par("r", Leaf("u8")), Par("x", Leaf("r"))>>, <<>>, <<Leaf("x")>>),
          Let("let", "x", Leaf("r"), Absent), Let("let", "x", Slots("r", Leaf("u8")), Absent),
          Method("const proc", "r", <<>>, <<>>, <<>>), Let("var", "s", Absent, Absent), Leaf("import")}

\* Variables of the file, before and after the body that uses them.
Ordered2 ==
  {Let("let", n, t, e) : n \in {"x", "f"}, t \in {Absent, Leaf("u8")}, e \in {Absent, Leaf("1.5"), Leaf("x")}}
    \cup {Method("proc", n, <<>>, <<>>, <<Leaf("x")>>) : n \in {"f", "x"}}
    \cup {Method("proc", "f", <<Par("x", Leaf("float"))>>, <<>>, <<Let("var", "y", Absent, Leaf("x")), Leaf("y")>>),
          Rec("record", "x", <<>>)}

\* Layouts.
FieldTypes == {Absent, Leaf("u8"), Leaf("string"), Slots("", Leaf("u8")), Slots("3", Leaf("u8"))}
FieldLists(names) ==
  {<<>>} \cup {<<Par(names[1], t)>> : t \in FieldTypes}
    \cup {<<Par(names[1], t), Par(names[2], u)>> : t, u \in FieldTypes}
Layouts ==
  {Rec("record", "r", f \o v) :
     f \in FieldLists(<<"a", "b">>),
     v \in {<<>>} \cup {<<Variants(<<u, w>>)>> : u \in FieldLists(<<"c", "d">>), w \in {<<>>, <<Par("e", Leaf("u8"))>>}}}

Sizes == {Let("let", "x", t, Absent) :
            t \in UNION {{Slots(n, u), Slots("2", Slots(n, u)), Slots(n, Slots("3", u))} :
                           n \in DOMAIN MCValue, u \in {Leaf("u8"), Leaf("i32"), Leaf("word"), Leaf("string")}}}

\* Expressions.
Prelude ==
  <<Rec("record", "r", <<Par("a", Leaf("u8")), Par("b", Leaf("string"))>>),
    Rec("record+", "s", <<Par("a", Leaf("r"))>>),
    Method("proc", "f", <<Par("x", Leaf("u8"))>>, <<>>, <<>>),
    Method("proc", "g", <<>>, <<Par("o", Leaf("float"))>>, <<>>),
    Method("const proc", "h", <<Par("x", Absent)>>, <<Par("o", Leaf("u8"))>>, <<>>),
    Let("let", "k", Absent, Leaf("1.5")), Let("var", "v", Slots("3", Leaf("u8")), Absent)>>
Leaves == {Leaf(n) : n \in {"y", "1u8", "1.5", "str", "f", "g", "h", "k"}}
X == Leaf("x")
Ones(es) ==
  {Node(op, <<e>>) : op \in {"neg", "deref", "addr", "call", "array", "mol"}, e \in es}
    \cup {Node("field", <<e, Leaf(n)>>) : e \in es, n \in {"a", "b", "c"}}
Twos(es, fs) ==
  {Node(op, <<e, f>>) : op \in {"+", "|", "<", ":=", "index", "call", "array", "mol"}, e \in es, f \in fs}
OfX == Ones({X}) \cup Twos({X}, Leaves \cup {X}) \cup Twos(Leaves, {X})
         \cup Ones(Ones({X})) \cup Twos(Ones({X}), {Leaf("y"), Leaf("k")})
Exprs == Leaves \cup {Leaf("1"), Leaf(":a"), Leaf("u")} \cup Ones(Leaves) \cup Twos(Leaves, Leaves)
           \cup Ones(Twos({Leaf("1u8")}, {Leaf("1u8"), Leaf("1.5")}))
ParamTypes == {Absent, Leaf("u8"), Leaf("float"), Leaf("r"), Pointer(Leaf("s")), Slots("2", Leaf("u8")), Leaf("string"),
               Node("const", <<Leaf("u8")>>), Node("tuple", <<Par("a", Absent)>>)}
Body(t, ss) == Method("proc", "m", <<Par("x", t)>>, <<Par("y", Leaf("u8"))>>, ss)
Main(t, e) == Body(t, <<e>>)

\* Cases over a record with variants, whose fields share names.
Lists == {<<>>, <<Par("b", Leaf("u8"))>>, <<Par("b", Leaf("float"))>>, <<Par("a", Leaf("u8"))>>,
          <<Par("c", Leaf("float")), Par("b", Leaf("u8"))>>}
Tagged2 ==
  {Rec("record", "t", <<Par("a", Leaf("u8")),
                        Node("variants", <<Leaf("a"), Node("variant", <<Leaf(":a"), Node("tuple", fs)>>),
                                           Node("variant", <<Leaf(p), Node("tuple", gs)>>)>>)>>) :
     fs, gs \in Lists, p \in {":a", ":b", "_"}}
ArmBodies == {Leaf("b"), Leaf("x"), Node("block", <<Let("let", "b", Absent, Leaf("x")), Leaf("b")>>)}
Cases ==
  {Node("case", <<X, Node("arm", <<Leaf(p), s>>), Node("arm", <<Leaf(":b"), t>>)>>) :
     p \in {":a", "_"}, s, t \in ArmBodies}

\* Statements in statements.
Simple0 == {Leaf("exit"), Leaf("z"), Leaf("v"), Let("var", "z", Absent, Leaf("str"))}
Block(ss) == Node("block", ss)
Outer(bs) ==
  {Node("if", <<X, b>>) : b \in bs} \cup {Node("if", <<X, Block(<<>>), b>>) : b \in bs}
    \cup {Node("while", <<X, b>>) : b \in bs} \cup {Node("loop", <<b>>) : b \in bs} \cup bs
    \cup {Node("for", vs \o <<Leaf(e), b>>) :
             vs \in {<<Leaf("z")>>, <<Leaf("k"), Leaf("z")>>}, e \in {"v", "x", "str"}, b \in bs}
    \cup {Node("case", <<X, Node("arm", <<Leaf("_"), b>>)>>) : b \in bs}
Blocks == {Block(<<>>)} \cup {Block(<<s>>) : s \in Simple0} \cup {Block(<<s, t>>) : s, t \in Simple0}
Bodies ==
  {<<s, t>> : s \in Outer(Blocks), t \in Simple0}
    \cup {<<s, t>> : s \in Outer({Block(<<b, e>>) : b \in Outer({Block(<<e>>) : e \in Simple0}), e \in Simple0}), t \in {Leaf("z"), Leaf("v")}}

MCFiles ==
  [1 .. 3 -> Ordered] \cup [1 .. 3 -> Ordered2]
    \cup [1 .. 1 -> Layouts \cup Sizes]
    \cup {Append(Prelude, Main(Absent, e)) : e \in Exprs}
    \cup {Append(Prelude, Main(t, e)) : t \in ParamTypes, e \in OfX \cup {Let("let", "z", u, X) : u \in ParamTypes}}
    \cup {<<r, Main(Leaf("t"), c)>> : r \in Tagged2, c \in Cases}
    \cup {Append(Prelude, Body(Absent, b)) : b \in Bodies}
=============================================================================
