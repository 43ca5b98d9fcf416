---------------------------- MODULE RequestLists ----------------------------
(***************************************************************************)
(* The three request lists of queue.c (request_ready, request_block and    *)
(* request_free) as sequences: Lists says what enqueue and dequeue mean,   *)
(* and here is the traversal "current = current->next".  RequestQueue      *)
(* shows that the pointer code computes these operators; Server is         *)
(* written with them.                                                      *)
(***************************************************************************)
EXTENDS Lists

CONSTANTS
    Requests,   \* the request structures malloc can hand out
    NULL        \* the null pointer

ASSUME NullAssumption == NULL \notin Requests

(* *head, and r->next for an r on the list. *)
First(s) == IF s = <<>> THEN NULL ELSE s[1]

After(s, r) == LET i == IndexOf(s, r)
               IN  IF i = Len(s) THEN NULL ELSE s[i + 1]

(* r->prev for an r on the list. *)
Before(s, r) == LET i == IndexOf(s, r)
                IN  IF i = 1 THEN NULL ELSE s[i - 1]
=============================================================================
