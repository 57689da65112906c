----------------------------- MODULE MCCompiler -----------------------------
(***************************************************************************)
(* Small texts for Compiler.  The control texts nest every kind of block   *)
(* and use one variable; the name texts declare, shadow and use names, and *)
(* reuse them for strings and records in blocks that follow each other.    *)
(***************************************************************************)
EXTENDS Compiler, TLC

Node(k, x, y, key) == [k |-> k, x |-> x, y |-> y, key |-> key]

MCTmpName(n) == "t" \o ToString(n)

NoNames == <<>>
NoArms == {}

ControlStmts == {Node("exit", None, None, None), Node("var", "x", Literal, None)}
ControlOpens ==
  {Node("if", None, Literal, None), Node("while", None, Literal, None),
   Node("loop", None, None, None), Node("for", "e", Literal, None),
   Node("case", None, Literal, None)}
ControlArms == {Node("arm", None, Literal, None), Node("arm", None, None, None)}

NoOpens == {}

OneParam == <<"p">>
OneOut == <<"r">>
OneGlobal == <<"g">>

\* A string, an assignment and a record of three words where an earlier block may
\* have a scalar of the name; a string, and an aggregate of bytes, that the back end
\* refuses.
NameStmts ==
  {Node("var", "x", Literal, None), Node("var", "x", None, None),
   Node("var", "y", "x", None),     Node("let", "x", "x", None),
   Node("assign", "x", "y", None),  Node("assign", "g", "g", None),
   Node("string", "y", Literal, None), Node("record", "y", "x", None),
   Node("bytes", "z", "x", None),   Node("assign", "y", StringLit, None)}
NameOpens ==
  {Node("if", None, "x", None), Node("for", "x", "y", "k"), Node("case", None, "p", None)}
NameArms == {Node("arm", "y", Literal, None), Node("arm", None, None, None)}

MCWidth == [n \in Stmts |-> IF n.k = "record" THEN 3 ELSE 2]

OutStmts == {Node("assign", "r", Literal, None)}
=============================================================================
