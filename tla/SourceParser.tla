---------------------------- MODULE SourceParser ----------------------------
(***************************************************************************)
(* The parser (src/parse.c), token by token: declarations of a file,       *)
(* types, statements, the arms of a case, and Pratt expressions.  Each     *)
(* function waits for the functions it calls on the stack; at says where   *)
(* the running one stands, node is what the last one returned.             *)
(***************************************************************************)
EXTENDS Integers, Sequences, SequencesExt, FiniteSetsExt, Grammar

CONSTANTS
  Inputs,     (* texts: the tokens, and the file they were written for *)
  NLIST_MAX   (* 256 in the code: items of a list                      *)

VARIABLES
  input,      (* the text, with the file it was written for as history *)
  pos,        (* tokens consumed                                       *)
  stack, at, node

vars == <<input, pos, stack, at, node>>

EOF == "eof"
Token(i) == IF i <= Len(input.text) THEN input.text[i] ELSE EOF
Ahead(n) == Token(pos + n)
next == Ahead(1)     \* lex_peek

Frame(fn, min, op, kids) == [fn |-> fn, min |-> min, op |-> op, kids |-> kids]
Waiting(fn, kids) == Frame(fn, 0, "", kids)
top == Last(stack)
below == Front(stack)
With(frame, tree) == [frame EXCEPT !.kids = Append(@, tree)]
In(place, fns) == at = place /\ top.fn \in fns

Go(consumed, frames, place, tree) ==
  /\ pos' = pos + consumed /\ stack' = frames /\ at' = place /\ node' = tree
  /\ UNCHANGED input
Call(consumed, frames, place) == Go(consumed, frames, place, Absent)
Return(consumed, tree) == Go(consumed, below, "value", tree)

\* parse_expr calls parse_expr_prec with 1, parse_block begins with no statement.
Expr(consumed, frames) ==
  Call(consumed, frames \o <<Waiting("expr", <<>>), Frame("prec", 1, "", <<>>)>>, "unary")
Block(consumed, frames) == Call(consumed, Append(frames, Waiting("block", <<>>)), "stmt")

\* The children of a frame that are items of its list: not the callee, the
\* subject of a case, the name of a record.
Items(f) == Len(f.kids) - (IF f.fn \in {"call", "case", "variants", "record"} THEN 1 ELSE 0)

\* Variant: the limit is looked at after the item is stored.
Pushed_late(frame, tree) == IF Items(frame) > NLIST_MAX THEN {} ELSE {With(frame, tree)}

\* nl_push: no frame if the list is full.
Pushed(frame, tree) == IF Items(frame) >= NLIST_MAX THEN {} ELSE {With(frame, tree)}

\* nl_push, then the comma that may follow.
Comma == IF next = "," THEN 1 ELSE 0

Init ==
  /\ input \in Inputs /\ pos = 0 /\ node = Absent
  /\ stack = <<Waiting("file", <<>>)>> /\ at = "file"
-----------------------------------------------------------------------------
(* Expressions *)

Primary ==
  /\ at = "unary"
  /\ \/ /\ next \in DOMAIN UnaryOp
        /\ Call(1, Append(stack, Frame("unary", 0, UnaryOp[next], <<>>)), "unary")
     \/ next \in Literals /\ Go(1, stack, "operand", Leaf(next))
     \/ next \in {"(", "[", "{"} /\ Call(1, Append(stack, Waiting(next, <<>>)), "list")

\* parse_unary returns before any postfix is looked for.
Prefix == In("operand", {"unary"}) /\ Go(0, below, "operand", Node(top.op, <<node>>))

Postfix ==
  /\ In("operand", {"prec"})
  /\ \/ next = "!" /\ Go(1, stack, "operand", Node("deref", <<node>>))
     \/ next \in Atoms /\ Go(1, stack, "operand", Node("field", <<node, Leaf(next)>>))
     \/ next = "." /\ Ahead(2) \in Idents
          /\ Go(2, stack, "operand", Node("field", <<node, Leaf(Ahead(2))>>))
     \/ next = "[" /\ Expr(1, Append(stack, Waiting("index", <<node>>)))
     \/ next = "(" /\ Call(1, Append(stack, Waiting("call", <<node>>)), "list")

Binds == next \in Binary /\ Precedence[next] >= top.min

\* Variant: the right operand takes operators of the same level too.
Infix_right ==
  /\ In("operand", {"prec"}) /\ Binds
  /\ Call(1, below \o <<[top EXCEPT !.op = next, !.kids = <<node>>],
                        Frame("prec", Precedence[next], "", <<>>)>>, "unary")

\* All operators are left associative: the right operand takes tighter ones only.
Infix ==
  /\ In("operand", {"prec"}) /\ Binds
  /\ Call(1, below \o <<[top EXCEPT !.op = next, !.kids = <<node>>],
                        Frame("prec", Precedence[next] + 1, "", <<>>)>>, "unary")

\* parse_expr_prec returns: to one that wants a right operand, or to parse_expr.
Operand ==
  LET caller == Last(below) IN
  /\ In("operand", {"prec"}) /\ next \notin PostfixTokens /\ ~Binds
  /\ \/ /\ caller.fn = "prec"
        /\ Go(0, Append(Front(below), [caller EXCEPT !.op = "", !.kids = <<>>]), "operand",
              Node(caller.op, <<caller.kids[1], node>>))
     \/ /\ caller.fn = "expr" /\ next = ":="
        /\ Expr(1, Append(Front(below), Waiting("assign", <<node>>)))
     \/ caller.fn = "expr" /\ next # ":=" /\ Go(0, Front(below), "value", node)

Inner ==
  \/ In("value", {"assign"}) /\ Return(0, Node(":=", Append(top.kids, node)))
  \/ In("value", {"named"}) /\ Return(0, Node("field", <<node, top.kids[1]>>))
  \/ /\ In("value", {"index"}) /\ next = "]"
     /\ Go(1, below, "operand", Node("index", Append(top.kids, node)))

Lists == {"(", "[", "{", "call"}
Closer == [fn \in Lists |-> CASE fn = "[" -> "]" [] fn = "{" -> "}" [] OTHER -> ")"]

Store == /\ In("value", Lists)
         /\ \E f \in Pushed(top, node) : Call(Comma, Append(below, f), "list")

\* Variant: an empty element is passed over, but its comma is not consumed.
Element_wait ==
  \/ at = "list" /\ next = "," /\ UNCHANGED vars
  \/ /\ at = "list" /\ next \notin {Closer[top.fn], EOF, ","}
     /\ IF top.fn = "{" /\ next \in Atoms
        THEN Expr(1, Append(stack, Waiting("named", <<Leaf(next)>>)))
        ELSE Expr(0, stack)
  \/ Store

Element ==
  \/ /\ at = "list" /\ next \notin {Closer[top.fn], EOF}
     /\ IF top.fn = "{" /\ next \in Atoms
        THEN Expr(1, Append(stack, Waiting("named", <<Leaf(next)>>)))
        ELSE Expr(0, stack)
  \/ Store

ListNode(f) ==
  CASE f.fn = "call" -> Node("call", f.kids)
    [] f.fn = "[" -> Node("array", f.kids)
    [] f.fn = "(" /\ Len(f.kids) = 1 -> f.kids[1]
    [] OTHER -> Node("mol", f.kids)

CloseList == at = "list" /\ next = Closer[top.fn] /\ Go(1, below, "operand", ListNode(top))
-----------------------------------------------------------------------------
(* Types *)

Type ==
  /\ at = "type"
  /\ \/ next \in Idents /\ Ahead(2) = "!" /\ Go(2, stack, "typed", Node("ptr", <<Leaf(next)>>))
     \/ next \in Idents /\ Ahead(2) # "!" /\ Go(1, stack, "typed", Leaf(next))
     \/ next = "const" /\ Call(1, Append(stack, Waiting("const", <<>>)), "type")
     \/ next = "(" /\ Call(1, Append(stack, Waiting("tuple", <<>>)), "fields")
     \/ /\ next = "[" /\ Ahead(2) = "]"
        /\ Call(2, Append(stack, Waiting("slots", <<Absent>>)), "type")
     \/ next = "[" /\ Ahead(2) # "]" /\ Expr(1, Append(stack, Waiting("slots", <<>>)))

Compound ==
  \/ In("value", {"slots"}) /\ next = "]" /\ Call(1, Append(below, With(top, node)), "type")
  \/ In("typed", {"const", "slots"}) /\ Go(0, below, "typed", Node(top.fn, Append(top.kids, node)))

\* parse_field_decl in the loop of a tuple or of a record.
FieldEnds == {",", ")", "case", EOF}
Field ==
  \/ /\ at = "fields" /\ next \in Idents
     /\ LET bare == Node("param", <<Leaf(next), Absent>>) IN
        IF Ahead(2) \notin FieldEnds THEN Call(1, Append(stack, Waiting("param", <<Leaf(next)>>)), "type")
        ELSE \E f \in Pushed(top, bare) :
               Call(IF Ahead(2) = "," THEN 2 ELSE 1, Append(below, f), "fields")
  \/ /\ In("typed", {"param"})
     /\ \E f \in Pushed(Last(below), Node("param", Append(top.kids, node))) :
          Call(Comma, Append(Front(below), f), "fields")
  \/ In("fields", {"tuple"}) /\ next = ")" /\ Go(1, below, "typed", Node("tuple", top.kids))
-----------------------------------------------------------------------------
(* Statements *)

BlockEnds == {"end", "else", EOF}
StartsStmt ==
  \/ at = "stmt" /\ (top.fn = "block" => next \notin BlockEnds)
  \/ at = "file" /\ next = "let"

Untyped == {":=", "end", "else", EOF, ","}

Declare ==
  \/ /\ StartsStmt /\ next = "let" /\ Ahead(2) \in Idents
     /\ Call(2, Append(stack, Waiting("let", <<Leaf(Ahead(2))>>)),
             IF Ahead(3) \in Untyped THEN "typed" ELSE "type")
  \/ In("typed", {"let"}) /\ next = ":=" /\ Expr(1, Append(below, With(top, node)))
  \/ In("typed", {"let"}) /\ next # ":=" /\ Return(0, Node("let", top.kids \o <<node, Absent>>))
  \/ In("value", {"let"}) /\ Return(0, Node("let", Append(top.kids, node)))

Headed == {"if", "while", "for", "case"}
Vars(n) == [i \in 1 .. n |-> Leaf(Ahead(2 * i))]     \* after for: x in, or x, y in

\* A frame's op is "do" once the head of the statement is parsed.
Statement ==
  \/ StartsStmt /\ next = "exit" /\ Go(1, stack, "value", Leaf("exit"))
  \/ StartsStmt /\ next = "loop" /\ Ahead(2) = "do" /\ Block(2, Append(stack, Frame("loop", 0, "do", <<>>)))
  \/ StartsStmt /\ next \in Headed \ {"for"} /\ Expr(1, Append(stack, Waiting(next, <<>>)))
  \/ /\ StartsStmt /\ next = "for"
     /\ \E n \in 1 .. 2 : /\ \A i \in 1 .. n : Ahead(2 * i) \in Idents
                          /\ n = 2 => Ahead(3) = ","
                          /\ Ahead(2 * n + 1) = "in"
                          /\ Expr(2 * n + 1, Append(stack, Waiting("for", Vars(n))))
  \/ /\ StartsStmt /\ next \notin Headed \cup {"let", "exit", "loop"}
     /\ Expr(0, stack)

Head_ ==
  /\ In("value", Headed) /\ top.op = "" /\ next = "do"
  /\ LET f == [With(top, node) EXCEPT !.op = "do"] IN
     IF top.fn = "case" THEN Call(1, Append(below, f), "arms") ELSE Block(1, Append(below, f))

Else ==
  /\ In("stmt", {"block"}) /\ next = "else" /\ Ahead(2) = "do"
  /\ Last(below).fn = "if" /\ Len(Last(below).kids) = 1
  /\ Block(2, Append(Front(below), With(Last(below), Node("block", top.kids))))

\* parse_block returns and its caller expects end.
BlockEnd == In("stmt", {"block"}) /\ next = "end" /\ Return(1, Node("block", top.kids))

Close ==
  \/ In("value", {"loop", "if", "while", "for"}) /\ top.op = "do"
       /\ Return(0, Node(top.fn, Append(top.kids, node)))
  \/ In("value", {"block", "file"})
       /\ \E f \in Pushed(top, node) : Call(0, Append(below, f), IF top.fn = "file" THEN "file" ELSE "stmt")

\* The arrow, and the body: a block after do, else one statement.
Body(consumed, frames) ==
  IF Ahead(consumed + 1) = "do" THEN Block(consumed + 1, frames) ELSE Call(consumed, frames, "stmt")

Patterns == Atoms \cup {"_"}
Arm ==
  \/ /\ In("arms", {"case"}) /\ next \in Patterns /\ Ahead(2) = "=>"
     /\ Body(2, Append(stack, Waiting("arm", <<Leaf(next)>>)))
  \/ In("arms", {"case"}) /\ next = "{" /\ Call(0, Append(stack, Waiting("pattern", <<>>)), "unary")
  \/ In("operand", {"pattern"}) /\ next = "=>" /\ Body(1, Append(below, Waiting("arm", <<node>>)))
  \/ /\ In("value", {"arm"})
     /\ \E f \in Pushed(Last(below), Node("arm", Append(top.kids, node))) :
          Call(0, Append(Front(below), f), "arms")
  \/ In("arms", {"case"}) /\ next = "end" /\ Return(1, Node("case", top.kids))
-----------------------------------------------------------------------------
(* Declarations *)

\* sniff_is_proc: an arrow follows the parenthesis that closes the one at i.
\* It looks at characters, which is the same where the text has no comments.
Depth(i, j) == Quantify(i .. j, LAMBDA k : Token(k) = "(") - Quantify(i .. j, LAMBDA k : Token(k) = ")")
IsProc(i) ==
  \E j \in i .. Len(input.text) :
    /\ Depth(i, j) = 0 /\ \A k \in i .. j - 1 : Depth(i, k) > 0
    /\ Token(i) = "(" /\ Token(j + 1) = "->"

\* [const] name [+] : and where what follows begins.
const == IF next = "const" THEN 1 ELSE 0
plus == IF Ahead(const + 2) = "+" THEN 1 ELSE 0
Colon == const + plus + 2
Declaration == at = "file" /\ Ahead(const + 1) \in Idents /\ Ahead(Colon) = ":"
Name == <<Leaf(Ahead(const + 1))>>
TypeFollows == IsProc(pos + Colon + 1)

Import == at = "file" /\ next = "import" /\ Ahead(2) = "str" /\ Go(2, stack, "value", Leaf("import"))

Proc ==
  \/ /\ Declaration /\ TypeFollows /\ plus = 0
     /\ Call(Colon + 1, stack \o <<Waiting(IF const = 1 THEN "const proc" ELSE "proc", Name),
                                   Waiting("tuple", <<>>)>>, "fields")
  \/ /\ In("typed", {"proc", "const proc"}) /\ Len(top.kids) = 1 /\ next = "->" /\ Ahead(2) = "("
     /\ Call(2, below \o <<With(top, node), Waiting("tuple", <<>>)>>, "fields")
  \/ /\ In("typed", {"proc", "const proc"}) /\ Len(top.kids) = 2 /\ next = "do"
     /\ Block(1, Append(below, With(top, node)))
  \/ /\ In("typed", {"proc", "const proc"}) /\ Len(top.kids) = 2 /\ next # "do"
     /\ Return(0, Node(top.fn, top.kids \o <<node, Absent>>))
  \/ In("value", {"proc", "const proc"}) /\ Return(0, Node(top.fn, Append(top.kids, node)))

Record ==
  \/ /\ Declaration /\ ~TypeFollows /\ const = 0 /\ Ahead(Colon + 1) = "("
     /\ Call(Colon + 1, Append(stack, Frame("record", 0, IF plus = 1 THEN "record+" ELSE "record", Name)), "fields")
  \/ In("fields", {"record"}) /\ next = ")" /\ Return(1, Node(top.op, top.kids))
  \/ In("fields", {"record"}) /\ next = "case" /\ Expr(1, Append(stack, Waiting("variants", <<>>)))

\* parse_case_block, and the parenthesis expected after it.
Variants ==
  \/ In("value", {"variants"}) /\ next = "do" /\ Call(1, Append(below, With(top, node)), "arms")
  \/ /\ In("arms", {"variants"}) /\ next \in Patterns /\ Ahead(2) = "=>" /\ Ahead(3) = "("
     /\ Call(3, stack \o <<Waiting("variant", <<Leaf(next)>>), Waiting("tuple", <<>>)>>, "fields")
  \/ /\ In("typed", {"variant"})
     /\ \E f \in Pushed(Last(below), Node("variant", Append(top.kids, node))) :
          Call(Comma, Append(Front(below), f), "arms")
  \/ /\ In("arms", {"variants"}) /\ next = "end" /\ Ahead(2) = ")"
     /\ Go(2, Front(below), "value",
           Node(Last(below).op, Append(Last(below).kids, Node("variants", top.kids))))

Done == at = "file" /\ next = EOF /\ Go(0, <<>>, "done", Node("file", top.kids))

\* perror_ is the only exit on texts that are not a file: no other action is left.
Parse ==
  \/ Primary \/ Prefix \/ Postfix \/ Infix \/ Operand \/ Inner \/ Element \/ CloseList
  \/ Type \/ Compound \/ Field
  \/ Declare \/ Statement \/ Head_ \/ Else \/ BlockEnd \/ Close \/ Arm
  \/ Import \/ Proc \/ Record \/ Variants \/ Done
Refuse == at \notin {"done", "error"} /\ ~ENABLED Parse /\ Go(0, <<>>, "error", Absent)

Next == Parse \/ Refuse
Spec == Init /\ [][Next]_vars /\ WF_vars(Next)
-----------------------------------------------------------------------------
Written == input.file # Absent

\* Lists that nl_push refuses.
TooLong(t) ==
  /\ t.op \in Records \cup {"file", "block", "tuple", "array", "mol", "call", "case", "variants"}
  /\ Len(SelectSeq(t.kids, LAMBDA k : k.op # "variants"))
       - (IF t.op \in Records \cup {"call", "case", "variants"} THEN 1 ELSE 0) > NLIST_MAX

\* A text is read as the tree it was written for, precedence, postfixes, lists
\* and blocks included, exactly where no statement runs into the next one and
\* no literal has an access for an element (parse.c:472: a statement has no end
\* of its own; ir.c:470: an access in a literal is read as a named field).
RoundTrip ==
  at = "done" /\ Written =>
    (AsRead(node) = input.file <=>
       Separated(input.file) /\ ~\E t \in Nodes(input.file) : Misread(t))

\* A text written for a file is refused only where a statement runs into the
\* next or a list has more items than nl_push stores (parse.c:39), and no such
\* list is ever returned.
RefusedFor ==
  /\ at = "error" /\ Written =>
       ~Separated(input.file) \/ \E t \in Nodes(input.file) : TooLong(t)
  /\ at = "done" => ~\E t \in Nodes(node) : TooLong(t)

\* Every text is accepted or refused: no loop over a list, a block or a file
\* turns round without consuming a token.
Terminates == <>(at \in {"done", "error"})
=============================================================================
