------------------------------ MODULE Program ------------------------------
(***************************************************************************)
(* The body of one procedure as the passes of the compiler walk it: the    *)
(* nodes of the statement tree in the order in which check_stmt and        *)
(* lower_stmt visit them.  A node that holds a block is an opening node,   *)
(* matched by an "end" (and, for an if, perhaps an "else" in between).     *)
(*                                                                         *)
(*   k = "var", "let"   declaration of x, initialised with the operand y   *)
(*   k = "string"       declaration of x, initialised with a string        *)
(*   k = "record"       declaration of x as an aggregate, initialised with *)
(*                      the name y                                         *)
(*   k = "bytes"        the same, of a size that is no number of words     *)
(*   k = "assign"       x := y                                             *)
(*   k = "exit"                                                            *)
(*   k = "if", "while"  condition y             k = "loop"                 *)
(*   k = "for"          value x, key key, iterated array y                 *)
(*   k = "case"         subject y, holds arms   k = "arm"   pattern y      *)
(*                                                                         *)
(* An operand is a name, Literal, StringLit, or None where there is none.  *)
(***************************************************************************)
EXTENDS Integers, Sequences, FiniteSets, SequencesExt, FiniteSetsExt

CONSTANTS
  Literal,    (* a constant operand                                         *)
  StringLit,  (* a string literal as an operand                             *)
  None,       (* no operand, no name                                        *)
  Params,     (* the names of the input tuple, in order                     *)
  Outs        (* the names of the output tuple, in order                    *)

ASSUME OperandsAssumption == Literal # None /\ StringLit \notin {Literal, None}

ASSUME TuplesAssumption == Params \in Seq(Range(Params)) /\ Outs \in Seq(Range(Outs))

VARIABLE prog

Loops == {"while", "loop", "for"}
Openers == Loops \cup {"if", "case", "arm"}
Declarations == {"var", "let", "string", "record", "bytes"}

\* Declarations of an aggregate: what they are initialised with is copied.
Aggregates == {"record", "bytes"}

\* Operands that name nothing.
Unnamed == {Literal, StringLit, None}

Nodes == 1 .. Len(prog)
Kind(i) == prog[i].k

\* How many blocks are open before node i.
Level(i) ==
  Cardinality({j \in 1 .. i - 1 : Kind(j) \in Openers})
    - Cardinality({j \in 1 .. i - 1 : Kind(j) = "end"})

\* The end that closes the opening node i, and the else of an if.
Close(i) == Min({j \in Nodes : j > i /\ Kind(j) = "end" /\ Level(j) = Level(i) + 1})

Else(i) == {j \in i + 1 .. Close(i) : Kind(j) = "else" /\ Level(j) = Level(i) + 1}

\* The innermost opening node that holds node i (for an end: the one it closes).
Holder(i) == Max({j \in 1 .. i - 1 : Kind(j) \in Openers /\ Level(j) = Level(i) - 1})

Enclosing(i) == {j \in 1 .. i - 1 : Kind(j) \in Openers /\ Close(j) > i}

EnclosingLoops(i) == {j \in Enclosing(i) : Kind(j) \in Loops}

\* How many blocks are open behind node j, if it begins one.
Depth(j) == IF Kind(j) = "else" THEN Level(j) ELSE Level(j) + 1

\* The nodes that begin the blocks node i is in: an else or end in as many
\* blocks ends a block.
Blocks(i) ==
  {j \in 1 .. i - 1 :
     /\ Kind(j) \in Openers \cup {"else"}
     /\ \A m \in j + 1 .. i : Kind(m) \in {"else", "end"} => Level(m) # Depth(j)}

\* Nodes that do nothing when control reaches them: a declaration without
\* initialiser, an arm without pattern, and a case (its subject is an operand).
Silent(i) ==
  \/ Kind(i) \in {"var", "let"} /\ prog[i].y = None
  \/ Kind(i) = "arm" /\ prog[i].y = None
  \/ Kind(i) = "case"

\* The first node at or after position p that does something.
Here(p) == Min({q \in p .. Len(prog) + 1 : q \in Nodes => ~Silent(q)})

\* Names a scope chain can hold: <<kind, node or position>> names a declaration.
Decl(kind, i) == <<kind, i>>

\* A scope chain: <<outermost, ..., innermost>>, each a sequence of entries in
\* the order they were defined.
Define(chain, entry) == [chain EXCEPT ![Len(chain)] = Append(@, entry)]
Push(chain) == Append(chain, <<>>)

Pop(chain) == Front(chain)

\* The innermost scope of the chain that defines name, and its entries there.
Holding(chain, name) ==
  {s \in 1 .. Len(chain) : \E e \in 1 .. Len(chain[s]) : chain[s][e].name = name}

Entries(chain, name) ==
  LET s == Max(Holding(chain, name))
  IN  {e \in 1 .. Len(chain[s]) : chain[s][e].name = name}
=============================================================================
