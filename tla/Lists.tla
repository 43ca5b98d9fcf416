------------------------------- MODULE Lists --------------------------------
(***************************************************************************)
(* The linked lists of boa as sequences: what it means to put a structure  *)
(* at the head of a list (enqueue), to unlink one (dequeue), and to unlink *)
(* several while the list is walked through (the event loops,              *)
(* ranges_fixup).                                                          *)
(***************************************************************************)
EXTENDS Naturals, Sequences

(* What is on a list. *)
Elems(s) == {s[i] : i \in DOMAIN s}

(* Nothing is on the list twice. *)
Distinct(s) == \A i, j \in DOMAIN s : s[i] = s[j] => i = j

(* enqueue: the request becomes the head. *)
Push(s, r) == <<r>> \o s

(* The place of r on s. *)
IndexOf(s, r) == CHOOSE i \in DOMAIN s : s[i] = r

(* dequeue: the list without its i-th request, then without r. *)
DropAt(s, i) == [j \in 1 .. Len(s) - 1 |-> IF j < i THEN s[j] ELSE s[j + 1]]

Remove(s, r) == DropAt(s, IndexOf(s, r))

(* A walk through the list that unlinks all but the places K: what it has  *)
(* kept after i places, and at the end.                                    *)
Walk(s, K) ==
    LET kept[i \in 0 .. Len(s)] ==
          IF i = 0 THEN <<>>
          ELSE IF i \in K THEN Append(kept[i - 1], s[i]) ELSE kept[i - 1]
    IN  kept

Kept(s, K) == Walk(s, K)[Len(s)]
=============================================================================
