---------------------------- MODULE MCMmapCache ----------------------------
(* A table of three slots, three files two of which collide, and four      *)
(* requests.                                                               *)
EXTENDS MmapCache, TLC

CONSTANTS f1, f2, f3

MCHash == f1 :> 2 @@ f2 :> 2 @@ f3 :> 0

Symmetry == Permutations(Holders)
=============================================================================
