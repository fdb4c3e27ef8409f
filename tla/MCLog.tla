------------------------------- MODULE MCLog -------------------------------
(* The log for TLC: blocks are interchangeable, and so are processes.      *)
EXTENDS Log, TLC

LogSymmetry == Permutations(Blocks) \cup Permutations(Ops)
=============================================================================
