------------------------------ MODULE MCArena ------------------------------
(* Instance of Arena for TLC: blocks of 20 and 24 bytes, so that a few requests of  *)
(* one to four words meet the end of a block and the oversized case.         *)
EXTENDS Arena

MCBlockSizes == {20, 24}
MCRequests == {0, 5, 8, 9, 17, 40}
=============================================================================
