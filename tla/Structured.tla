----------------------------- MODULE Structured -----------------------------
(***************************************************************************)
(* What the statements of a procedure promise about control flow: which    *)
(* node may be executed after which, whatever the conditions evaluate to.  *)
(* at is the node whose execution has begun; 0 before the body is entered  *)
(* and Len(prog) + 1 at the return.                                        *)
(*                                                                         *)
(* Control is never at a silent node (Program).                            *)
(***************************************************************************)
EXTENDS Program

VARIABLE at

\* The nodes that may follow node i.
Follow(i) ==
  CASE Kind(i) = "exit"                   -> {Close(Max(EnclosingLoops(i))) + 1}
    [] Kind(i) = "if" /\ Else(i) = {}     -> {i + 1, Close(i)}
    [] Kind(i) = "if" /\ Else(i) # {}     -> {i + 1} \cup {e + 1 : e \in Else(i)}
    [] Kind(i) = "else"                   -> {Close(Holder(i))}
    [] Kind(i) \in {"while", "for"}       -> {i + 1, Close(i) + 1}
    [] Kind(i) = "arm" /\ prog[i].y # None -> {i + 1, Close(i) + 1}
    [] Kind(i) = "end" ->
         LET o == Holder(i)
         IN  IF Kind(o) \in Loops THEN {o}
             ELSE IF Kind(o) = "arm" THEN {Close(Holder(o))}
             ELSE {i + 1}
    [] OTHER                              -> {i + 1}

Successors(i) == {Here(p) : p \in Follow(i)}

Init == at = 0

\* The body is fixed before control enters it.
Given == at = 0 /\ at' = 0

Enter == at = 0 /\ at' = Here(1) /\ UNCHANGED prog

Step == at \in Nodes /\ at' \in Successors(at) /\ UNCHANGED prog

Next == Given \/ Enter \/ Step

Spec == Init /\ [][Next]_<<prog, at>>
=============================================================================
