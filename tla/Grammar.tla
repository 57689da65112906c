------------------------------ MODULE Grammar ------------------------------
(***************************************************************************)
(* The nodes the parser builds (src/inc/ast.h), as trees, and the text a   *)
(* programmer writes for them: the abstract side of SourceParser.          *)
(*                                                                         *)
(* A token is its spelling.  "x", "y" and "_" are identifiers, ":a" and *)
(* ":b" atoms, "1" an integer literal; the rest stand for themselves.      *)
(***************************************************************************)
EXTENDS Naturals, Sequences, SequencesExt

Node(op, kids) == [op |-> op, kids |-> kids]
Leaf(token) == Node(token, <<>>)
Absent == Leaf("")     \* a NULL child

Idents == {"x", "y", "_"}
Atoms == {":a", ":b"}
Literals == Idents \cup Atoms \cup {"1"}

\* binop_info, for one token of each level and both operators of level 8.
Precedence ==
  [t \in {"|", "^", "&", "=", "<", "<<", "+", "-", "*"} |->
     CASE t = "|" -> 2  [] t = "^" -> 3  [] t = "&" -> 4  [] t = "=" -> 5
       [] t = "<" -> 6  [] t = "<<" -> 7 [] t \in {"+", "-"} -> 8
       [] t = "*" -> 9]
Binary == DOMAIN Precedence

UnaryOp == [t \in {"-", "~", "@"} |->
              CASE t = "-" -> "neg" [] t = "~" -> "not" [] t = "@" -> "addr"]
Prefixed == {"neg", "not", "addr"}
Spelling(op) == CHOOSE t \in DOMAIN UnaryOp : UnaryOp[t] = op

Postfixed == {"deref", "index", "field", "call"}
PostfixTokens == {"!", "[", "(", "."} \cup Atoms

\* A statement that ends in an expression goes on as long as tokens like these
\* follow, on whatever line they stand.
Continuing == PostfixTokens \cup Binary \cup {":="}

Procs == {"proc", "const proc"}
Records == {"record", "record+"}
Statements == {"exit", "let", "if", "while", "loop", "for", "case", "block", "import"}
                \cup Procs \cup Records
EndsInExpr(s) == IF s.op = "let" THEN s.kids[3] # Absent ELSE s.op \notin Statements

\* How tightly a node holds together: a primary, a prefix, a postfix, an operator.
Level(t) == CASE t.op = ":=" -> 1
              [] t.op \in Binary -> Precedence[t.op]
              [] t.op \in Postfixed -> 10
              [] t.op \in Prefixed -> 11
              [] OTHER -> 12

Listed(texts) ==
  FlattenSeq([i \in DOMAIN texts |-> IF i = 1 THEN texts[i] ELSE <<",">> \o texts[i]])
Enclosed(open, text, close) == <<open>> \o text \o <<close>>

RECURSIVE Text(_), Within(_, _), Brace(_)

\* With the parentheses the node needs where its level must be at least l.
Within(t, l) == IF Level(t) >= l THEN Text(t) ELSE Enclosed("(", Text(t), ")")

\* An element of a literal in braces: one that begins with an atom is a named field.
Brace(t) ==
  IF t.op = "named" THEN <<t.kids[2].op>> \o Text(t.kids[1])
  ELSE IF Head(Text(t)) \in Atoms THEN Enclosed("(", Text(t), ")") ELSE Text(t)

Text(t) ==
  LET k == t.kids
      Each(s) == [i \in DOMAIN s |-> Text(s[i])]
  IN CASE t.op \in Binary ->
            Within(k[1], Precedence[t.op]) \o <<t.op>> \o Within(k[2], Precedence[t.op] + 1)
       [] t.op = ":="   -> Within(k[1], 2) \o <<":=">> \o Text(k[2])
       [] t.op \in Prefixed -> <<Spelling(t.op)>> \o Within(k[1], 11)
       [] t.op = "deref" -> Within(k[1], 10) \o <<"!">>
       [] t.op = "field" -> Within(k[1], 10) \o <<k[2].op>>
       [] t.op = "index" -> Within(k[1], 10) \o Enclosed("[", Text(k[2]), "]")
       [] t.op = "call"  -> Within(k[1], 10) \o Enclosed("(", Listed(Each(Tail(k))), ")")
       [] t.op = "array" -> Enclosed("[", Listed(Each(k)), "]")
       [] t.op = "mol"   ->
            IF Len(k) = 1 \/ \E i \in DOMAIN k : k[i].op = "named"
            THEN Enclosed("{", Listed([i \in DOMAIN k |-> Brace(k[i])]), "}")
            ELSE Enclosed("(", Listed(Each(k)), ")")
       [] t.op = "ptr"   -> Append(Text(k[1]), "!")
       [] t.op = "const" -> <<"const">> \o Text(k[1])
       [] t.op = "slots" -> Enclosed("[", Text(k[1]), "]") \o Text(k[2])
       [] t.op = "tuple" -> Enclosed("(", Listed(Each(k)), ")")
       [] t.op = "param" -> Text(k[1]) \o Text(k[2])
       [] t.op = "let"   -> <<"let">> \o Text(k[1]) \o Text(k[2])
                              \o (IF k[3] = Absent THEN <<>> ELSE <<":=">> \o Text(k[3]))
       [] t.op \in {"loop", "while"} -> <<t.op>> \o FlattenSeq(Each(k))
       [] t.op = "if"    -> <<"if">> \o Text(k[1])
                              \o (IF Len(k) = 2 THEN Text(k[2])
                                  ELSE Front(Text(k[2])) \o <<"else">> \o Text(k[3]))
       [] t.op = "for"   -> LET vars == Front(Front(k)) IN
                            <<"for">> \o Listed(Each(vars)) \o <<"in">>
                              \o FlattenSeq(Each(SubSeq(k, Len(vars) + 1, Len(k))))
       [] t.op = "block" -> Enclosed("do", FlattenSeq(Each(k)), "end")
       [] t.op \in {"case", "variants"} ->
            <<"case">> \o Text(k[1]) \o Enclosed("do", FlattenSeq(Each(Tail(k))), "end")
       [] t.op \in {"arm", "variant"} -> Text(k[1]) \o <<"=>">> \o Text(k[2])
       [] t.op \in Records -> Text(k[1]) \o (IF t.op = "record" THEN <<":">> ELSE <<"+", ":">>)
                                \o Enclosed("(", Listed(Each(Tail(k))), ")")
       [] t.op \in Procs -> (IF t.op = "proc" THEN <<>> ELSE <<"const">>) \o Text(k[1])
                              \o <<":">> \o Text(k[2]) \o <<"->">> \o Text(k[3]) \o Text(k[4])
       [] t.op = "import" -> <<"import", "str">>
       [] t.op = "file"  -> FlattenSeq(Each(k))
       [] t = Absent     -> <<>>
       [] OTHER          -> <<t.op>>

\* Whether the token that follows statement s is taken for a part of s: an
\* operator, a call, a field; or the type of a declaration that has neither a
\* type nor an initialiser.
Runs(s, token) ==
  \/ EndsInExpr(s) /\ token \in Continuing
  \/ s.op = "let" /\ s.kids[2] = Absent /\ s.kids[3] = Absent

RECURSIVE Nodes(_), AsRead(_)

\* The tree and all trees in it.
Nodes(t) == {t} \cup UNION {Nodes(t.kids[i]) : i \in DOMAIN t.kids}

\* No statement of a block, no arm and no declaration of a file runs into the next.
Separated(t) ==
  \A b \in {b \in Nodes(t) : b.op \in {"block", "case", "file"}} :
    \A i \in (IF b.op = "case" THEN 2 ELSE 1) .. Len(b.kids) - 1 :
      LET item == b.kids[i]
          s == IF item.op = "arm" THEN item.kids[2] ELSE item
      IN  ~Runs(s, Head(Text(b.kids[i + 1])))

\* How checker and lowering read a literal: every field node in it is a named
\* field, the access p:a as well.
AsRead(t) ==
  Node(t.op, [i \in DOMAIN t.kids |->
    LET k == AsRead(t.kids[i])
    IN  IF t.op = "mol" /\ k.op = "field" THEN Node("named", k.kids) ELSE k])

\* A literal that has an access for an element given by position.
Misread(t) == t.op = "mol" /\ \E i \in DOMAIN t.kids : t.kids[i].op = "field"
=============================================================================
