------------------------------- MODULE MCCodes -------------------------------
(* Codes with interchangeable threads.                                     *)
EXTENDS Codes, TLC

Symmetry == Permutations(Threads)
=============================================================================
