------------------------------ MODULE MCFrame ------------------------------
(* Instances of Frame for TLC: every code of at most MaxCode instructions     *)
(* over a few names and sizes, and arrays at the ends of an int of 18 bits.   *)
EXTENDS Frame

CONSTANTS MaxCode

MCNames == {"x", "y", "z"}

Scalars == {[op |-> "OTHER", dst |-> d, size |-> z, nbytes |-> 0, rets |-> <<>>] :
              d \in {"x", "y", NoName}, z \in {1, 16}}
Allocas == {[op |-> "ALLOCA", dst |-> d, size |-> 0, nbytes |-> n, rets |-> <<>>] :
              d \in {"x", "y"}, n \in {0, 12, 16}}
            \cup {[op |-> "ALLOCA", dst |-> NoName, size |-> 0, nbytes |-> 8, rets |-> <<>>]}
Calls == {[op |-> "CALL", dst |-> NoName, size |-> 0, nbytes |-> 0, rets |-> r] :
            r \in {<<>>, <<[name |-> "z", size |-> 0]>>,
                   <<[name |-> "y", size |-> 16], [name |-> "z", size |-> 8]>>}}

SmallCodes == UNION {[1 .. n -> Scalars \cup Allocas \cup Calls] : n \in 0 .. MaxCode}

\* Arrays around the largest frame of four digits.
LargeArrays ==
  {<<[op |-> "ALLOCA", dst |-> "x", size |-> 0, nbytes |-> n, rets |-> <<>>]>> :
     n \in {8000, 9984, 9992, 12000, 99992}}

Array(d, n) == [op |-> "ALLOCA", dst |-> d, size |-> 0, nbytes |-> n, rets |-> <<>>]

\* Arrays whose sizes, or whose sum, meet the end of the ints, and the negative
\* products of literals that are larger still.
HugeArrays ==
  {<<Array("x", n), Array("y", m), Array("z", 8)>> :
     n \in {16, INT_MAX - 15, INT_MAX - 7, INT_MAX - 6, INT_MAX, -INT_MAX - 1, -8},
     m \in {8, 99992, INT_MAX - 15, INT_MAX - 7}}

MCCodes == SmallCodes \cup LargeArrays \cup HugeArrays
=============================================================================
