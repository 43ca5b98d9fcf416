---------------------------- MODULE RequestQueue ----------------------------
(***************************************************************************)
(* queue.c at the level of its pointers: the heads of the three lists and  *)
(* the next and prev fields of the request structures, and every operation *)
(* of the server that relinks them.  The history variable `lists` performs *)
(* the same operations on sequences (RequestLists); Represents says that   *)
(* the pointers are those sequences.                                       *)
(***************************************************************************)
EXTENDS RequestLists

VARIABLES
    head,   \* request_ready, request_block, request_free
    next,   \* req->next
    prev,   \* req->prev
    lists   \* history: the three lists as sequences

vars == <<head, next, prev, lists>>

ListName == {"ready", "block", "free"}
Pointer == Requests \cup {NULL}
Links == [head : [ListName -> Pointer],
          next : [Requests -> Pointer],
          prev : [Requests -> Pointer]]

TypeOK ==
    /\ head \in [ListName -> Pointer]
    /\ next \in [Requests -> Pointer]
    /\ prev \in [Requests -> Pointer]
    /\ lists \in [ListName -> Seq(Requests)]

(* A structure fresh from malloc has next and prev fields that nobody      *)
(* initialised: sanitize_request does not clear them.                      *)
Init ==
    /\ head = [l \in ListName |-> NULL]
    /\ next \in [Requests -> Pointer]
    /\ prev \in [Requests -> Pointer]
    /\ lists = [l \in ListName |-> <<>>]

-----------------------------------------------------------------------------
(* The pointer operations, on a record of the three pointer variables.     *)

links == [head |-> head, next |-> next, prev |-> prev]

(* dequeue with the successor's prev left pointing at the removed request. *)
dequeueKeepsPrev(q, l, r) ==
    [head |-> IF q.head[l] = r THEN [q.head EXCEPT ![l] = q.next[r]] ELSE q.head,
     next |-> [x \in Requests |-> IF x = r THEN NULL
                                  ELSE IF x = q.prev[r] THEN q.next[r]
                                  ELSE q.next[x]],
     prev |-> [q.prev EXCEPT ![r] = NULL]]

dequeue(q, l, r) ==
    [head |-> IF q.head[l] = r THEN [q.head EXCEPT ![l] = q.next[r]] ELSE q.head,
     next |-> [x \in Requests |-> IF x = r THEN NULL
                                  ELSE IF x = q.prev[r] THEN q.next[r]
                                  ELSE q.next[x]],
     prev |-> [x \in Requests |-> IF x = r THEN NULL
                                  ELSE IF x = q.next[r] THEN q.prev[r]
                                  ELSE q.prev[x]]]

enqueue(q, l, r) ==
    [head |-> [q.head EXCEPT ![l] = r],
     next |-> [q.next EXCEPT ![r] = q.head[l]],
     prev |-> [x \in Requests |-> IF x = r THEN NULL
                                  ELSE IF x = q.head[l] THEN r
                                  ELSE q.prev[x]]]

Relink(q) == /\ head' = q.head
             /\ next' = q.next
             /\ prev' = q.prev

(* Take r off list `from` and put it in front of list `to`.                *)
Move(r, from, to) ==
    /\ r \in Elems(lists[from])
    /\ Relink(enqueue(dequeue(links, from, r), to, r))
    /\ lists' = [[lists EXCEPT ![from] = Remove(@, r)] EXCEPT ![to] = Push(@, r)]

Unlisted == {r \in Requests : \A l \in ListName : r \notin Elems(lists[l])}
-----------------------------------------------------------------------------
(* The operations of the server on the lists.                              *)

block_request(r) == Move(r, "ready", "block")

ready_request(r) == Move(r, "block", "ready")

(* free_request: a connection kept alive waits for its next request, any   *)
(* other structure goes back to the free list.                             *)
free_request(r) == Move(r, "ready", "block") \/ Move(r, "ready", "free")

(* get_request with new_request: the structure comes off the free list if  *)
(* there is one, else from malloc; it ends on the ready list, or on the    *)
(* free list when the set-up of the connection fails.                      *)
get_request(to) ==
    \/ /\ head["free"] # NULL
       /\ Move(head["free"], "free", to)
    \/ /\ head["free"] = NULL
       /\ \E r \in Unlisted :
             /\ Relink(enqueue(links, to, r))
             /\ lists' = [lists EXCEPT ![to] = Push(@, r)]

(* free_requests: the structures on the free list are returned to malloc,  *)
(* which may scribble over their links.                                    *)
free_requests ==
    /\ head' = [head EXCEPT !["free"] = NULL]
    /\ lists' = [lists EXCEPT !["free"] = <<>>]
    /\ \E junk \in [Elems(lists["free"]) -> Pointer] :
          /\ next' = [r \in Requests |-> IF r \in Elems(lists["free"])
                                         THEN junk[r] ELSE next[r]]
          /\ prev' = [r \in Requests |-> IF r \in Elems(lists["free"])
                                         THEN junk[r] ELSE prev[r]]

Next ==
    \/ \E r \in Requests : block_request(r) \/ ready_request(r) \/ free_request(r)
    \/ \E to \in {"ready", "free"} : get_request(to)
    \/ free_requests

Spec == Init /\ [][Next]_vars
-----------------------------------------------------------------------------
(* Following the pointers of q visits exactly the lists ls, forwards and   *)
(* backwards.                                                              *)
RepresentedBy(q, ls) ==
    \A l \in ListName :
        /\ q.head[l] = First(ls[l])
        /\ \A i \in DOMAIN ls[l] :
              /\ q.next[ls[l][i]] = IF i = Len(ls[l]) THEN NULL ELSE ls[l][i + 1]
              /\ q.prev[ls[l][i]] = IF i = 1 THEN NULL ELSE ls[l][i - 1]

Separate(ls) ==
    /\ \A l \in ListName : Distinct(ls[l])
    /\ \A l, m \in ListName : l # m => Elems(ls[l]) \cap Elems(ls[m]) = {}

(* No request structure is on two lists, or twice on one list: block,      *)
(* ready, get_request and free_request move structures and never copy one. *)
OnOneList == Separate(lists)

(* The pointers are the lists: the head is the first request, each next    *)
(* the following request and each prev the preceding one, NULL at the two  *)
(* ends.  So the traversals of process_requests and update_blocked meet    *)
(* every request of their list exactly once and end, whatever the order of *)
(* the enqueue and dequeue calls before.                                   *)
Represents == RepresentedBy(links, lists)
=============================================================================
