------------------------ MODULE MCUpdateTransaction ------------------------
(* UpdateTransaction for TLC: two jobs, a few commits and troubles.         *)
EXTENDS UpdateTransaction
=============================================================================
