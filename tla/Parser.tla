------------------------------- MODULE Parser -------------------------------
(***************************************************************************)
(* The statement parser (src/parse.c) as the source of the bodies the      *)
(* later passes walk: parse_block, parse_stmt_inner and parse_case_arms    *)
(* recurse, and the nodes come out in the order of the text.  What a token *)
(* decides is the choice of the next node; a text that is not a body stops *)
(* the compiler in perror_ and is not followed.                            *)
(***************************************************************************)
EXTENDS Program

CONSTANTS
  Stmts,     (* the nodes without a block a text may hold                   *)
  Opens,     (* the if, while, loop, for and case nodes a text may hold     *)
  Arms,      (* the arms a text may hold                                    *)
  MaxLen,    (* bound: nodes of a body                                      *)
  MaxDepth   (* bound: nested blocks                                        *)

\* parse_stmt_inner and parse_case_arms build no other nodes: only a for binds
\* names, and what is declared or assigned to has one.  A string that initialises
\* a variable makes it a "string"; a pattern is no operand.
ASSUME NodesAssumption ==
  /\ \A n \in Stmts : n.k \in Declarations \cup {"assign", "exit"}
  /\ \A n \in Stmts : n.k \in Declarations \cup {"assign"} => n.x \notin Unnamed
  /\ \A n \in Stmts : n.k = "string" => n.y = Literal
  /\ \A n \in Stmts : n.k \in {"record", "bytes"} => n.y \notin Unnamed
  /\ \A n \in Stmts \cup Opens \cup Arms :
       n.y = StringLit => n.k \in {"assign", "if", "while", "for", "case"}
  /\ \A n \in Opens : n.k \in {"if", "case"} \cup Loops
  /\ \A n \in Opens : n.k # "for" => n.x = None /\ n.key = None
  /\ \A n \in Arms : n.k = "arm"

VARIABLES
  open,      (* the calls of the parser that have not returned: the kind of *)
             (* the node whose block is being read, "else" for its second   *)
  parsed     (* parse_block has returned to parse_proc                      *)

parseVars == <<prog, open, parsed>>

ParseInit == prog = <<>> /\ open = <<>> /\ parsed = FALSE

Room(nodes, blocks) ==
  /\ ~parsed
  /\ Len(prog) + Len(open) + nodes <= MaxLen
  /\ Len(open) + blocks <= MaxDepth

\* The call the parser is in: "proc" when only the body's own block is open.
Reading == IF open = <<>> THEN "proc" ELSE Last(open)

Mark(kind) == [k |-> kind, x |-> None, y |-> None, key |-> None]

ParseStmt ==
  /\ Room(1, 0) /\ Reading # "case"
  /\ \E n \in Stmts : prog' = Append(prog, n)
  /\ UNCHANGED <<open, parsed>>

ParseOpen ==
  /\ Room(2, 1) /\ Reading # "case"
  /\ \E n \in Opens : prog' = Append(prog, n) /\ open' = Append(open, n.k)
  /\ UNCHANGED parsed

\* parse_block stops at an else; only the parser of an if takes it.
ParseElse ==
  /\ Room(1, 0) /\ Reading = "if"
  /\ prog' = Append(prog, Mark("else"))
  /\ open' = Append(Front(open), "else")
  /\ UNCHANGED parsed

ParseArm ==
  /\ Room(2, 1) /\ Reading = "case"
  /\ \E n \in Arms : prog' = Append(prog, n) /\ open' = Append(open, n.k)
  /\ UNCHANGED parsed

ParseEnd ==
  /\ ~parsed /\ open # <<>>
  /\ prog' = Append(prog, Mark("end"))
  /\ open' = Front(open)
  /\ UNCHANGED parsed

ParseDone ==
  /\ ~parsed /\ open = <<>>
  /\ parsed' = TRUE
  /\ UNCHANGED <<prog, open>>

ParseNext ==
  ParseStmt \/ ParseOpen \/ ParseElse \/ ParseArm \/ ParseEnd \/ ParseDone
=============================================================================
