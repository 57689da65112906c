----------------------------- MODULE MCBuilder -----------------------------
(* Instances of Builder for TLC: arrays that start with room for two        *)
(* instructions, and the first procedure the code has no room for.          *)
EXTENDS Builder
MCInstrs == {"copy", "jmp"}
=============================================================================
