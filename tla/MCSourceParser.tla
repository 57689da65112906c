--------------------------- MODULE MCSourceParser ---------------------------
(* Texts of all small bodies, of small files, and all short sequences of tokens. *)
EXTENDS SourceParser

CONSTANT MaxTokens   \* bound: tokens of a sequence

X == Leaf("x")
Y == Leaf("y")
A == Leaf(":a")
E == Leaf("exit")

\* Expressions with one more node, above those of smaller sizes.
Unaries(es) ==
  {Node(op, <<e>>) : op \in {"neg", "deref", "call", "array"}, e \in es}
    \cup {Node("field", <<e, A>>) : e \in es}
    \cup {Node("mol", <<Node("named", <<e, A>>)>>) : e \in es}
Pairs(ls, rs) ==
  {Node(op, <<l, r>>) : op \in {"-", "*", ":=", "index", "call", "array", "mol"},
                        l \in ls, r \in rs}

E1 == {X, A}
E2 == {Node("mol", <<>>), Node("array", <<>>)} \cup Unaries(E1)
E3 == Unaries(E2) \cup Pairs(E1, E1)
E4 == Unaries(E3) \cup Pairs(E1, E2) \cup Pairs(E2, E1)

\* Two operators of any two levels, and three, nested on either side.
Levels == {"|", "^", "&", "=", "<", "<<", "-", "+", "*", ":="}
Ladders ==
  LET Both(ops, l, r) == {Node(op, <<l, r>>) : op \in ops}
      Two(ops) == UNION {Both(ops, X, e) \cup Both(ops, e, X) : e \in Both(ops, X, X)}
      some == {"-", "*", ":="}
  IN  Two(Levels) \cup UNION {Both(some, X, e) \cup Both(some, e, X) : e \in Two(some)}
        \cup {Node(op, <<e>>) : op \in {"neg", "not", "addr", "deref"}, e \in Both(Levels, X, X)}

Types == {X, Node("ptr", <<X>>), Node("const", <<X>>), Node("slots", <<Absent, X>>),
          Node("slots", <<A, X>>),
          Node("tuple", <<Node("param", <<X, Absent>>), Node("param", <<X, Node("ptr", <<X>>)>>)>>)}
Do(s) == Node("block", <<s>>)
Arms(s) == {Node("arm", <<p, b>>) : p \in {A, Leaf("_"), Node("mol", <<X>>)}, b \in {s, Do(s)}}
Let(t, e) == Node("let", <<X, t, e>>)

Over(stmts, es) ==
  {Let(t, e) : t \in {Absent, X}, e \in es}
    \cup UNION {{Node("loop", <<Do(s)>>), Node("while", <<X, Do(s)>>), Node("if", <<X, Do(s)>>),
                 Node("if", <<A, Do(s), Do(E)>>), Node("if", <<X, Do(E), Do(s)>>),
                 Node("for", <<X, A, Do(s)>>), Node("for", <<X, Y, X, Do(s)>>)} : s \in stmts}
    \cup {Node("case", <<X, a>>) : a \in UNION {Arms(s) : s \in stmts}}

S1 == E1 \cup {E, Let(Absent, Absent)} \cup {Let(t, Absent) : t \in Types}
S2 == E2 \cup Over(S1, E1)
        \cup {Node("case", <<X, a, b>>) : a, b \in Arms(X) \cup Arms(E)}
S3 == E3 \cup Over(S2, E2)

\* Lists as long as NLIST_MAX allows, and longer.
Long == {[i \in 1 .. n |-> X] : n \in {NLIST_MAX, NLIST_MAX + 1}}
Each(long, item) == [i \in DOMAIN long |-> item]
Params(ts) == Node("tuple", ts)
Unit == Params(<<>>)
Some == Node("param", <<X, X>>)
MCBodies ==
  {<<s>> : s \in S1 \cup S2 \cup S3 \cup E4 \cup Ladders}
    \cup {<<s, t>> : s, t \in S1} \cup {<<s, t>> : s \in S1, t \in S2}
    \cup {<<s, t>> : s \in S2, t \in S1}
    \cup {<<Node(op, k)>> : op \in {"array", "mol", "call"}, k \in Long}
    \cup {Each(k, E) : k \in Long}
    \cup {<<Let(Params(Each(k, Some)), Absent)>> : k \in Long}
    \cup {<<Node("case", <<X>> \o Each(k, Node("arm", <<A, Do(X)>>)))>> : k \in Long}

\* Declarations.
Main(b) == Node("proc", <<X, Unit, Unit, b>>)
Variant(p, fs) == Node("variant", <<p, Params(fs)>>)
Union(vs) == Node("variants", <<X>> \o vs)
D1 == {Leaf("import"), Let(Absent, Absent), Let(X, Absent), Let(Absent, A)}
        \cup {Node(op, <<X, Params(i), Params(o), b>>) :
                op \in Procs, b \in {Absent, Node("block", <<>>)}, i, o \in {<<>>, <<Some>>}}
        \cup {Node(op, <<X>> \o fs) :
                op \in Records,
                fs \in {<<>>, <<Some>>, <<Node("param", <<X, Absent>>)>>, <<Union(<<>>)>>,
                        <<Some, Union(<<Variant(A, <<Some>>), Variant(Leaf("_"), <<>>)>>)>>}}
MCFiles ==
  {<<d>> : d \in D1} \cup {<<c, d>> : c, d \in D1}
    \cup {<<Node("record", <<X>> \o Each(k, Some) \o u)>> : k \in Long, u \in {<<>>, <<Union(<<>>)>>}}
    \cup {<<Node("record", <<X, Union(Each(k, Variant(A, <<>>)))>>)>> : k \in Long}
    \cup {Each(k, Leaf("import")) : k \in Long}
    \cup {<<Main(Node("block", b))>> : b \in MCBodies}

Streams ==
  UNION {[1 .. n -> {"x", ":a", "-", "*", "(", ")", "[", "]", "!", ":=", ",", "let", "."}] :
           n \in 0 .. MaxTokens}
Heading == <<"x", ":", "(", ")", "->", "(", ")", "do">>

MCInputs ==
  {[text |-> Text(Node("file", f)), file |-> Node("file", f)] : f \in MCFiles}
    \cup {[text |-> Heading \o s \o e, file |-> Absent] : s \in Streams, e \in {<<"end">>, <<>>}}
=============================================================================
