------------------------------ MODULE MCServer ------------------------------
(* Server with symmetric request structures. *)
EXTENDS Server, TLC

Symmetry == Permutations(Requests)
=============================================================================
