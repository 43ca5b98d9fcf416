-------------------------- MODULE MCRequestQueue --------------------------
(* RequestQueue with three request structures. *)
EXTENDS RequestQueue, TLC

Symmetry == Permutations(Requests)
=============================================================================
