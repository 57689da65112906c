---------------------------- MODULE MCExpressions ----------------------------
(* Instances of Expressions for TLC: a number and a pointer to it.                *)
EXTENDS Expressions

MCTmpName(n) == "t" \o ToString(n)

MCInitial == [x |-> Num(1), p |-> Addr("x", 0)]
Procedure(ins, outs, const) == [ins |-> ins, outs |-> outs, const |-> const]
MCProcs == {Procedure(1, 2, FALSE), Procedure(2, 1, TRUE), Procedure(3, 1, FALSE)}
=============================================================================
