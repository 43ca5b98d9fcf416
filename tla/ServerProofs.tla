---------------------------- MODULE ServerProofs ----------------------------
(***************************************************************************)
(* Proofs about Server for every number of request structures, every limit *)
(* and every outcome of the handlers.  ListInv is about the lists, the     *)
(* cursor and the count of connections, LimitInv about when get_request    *)
(* may be called.  Neither looks into a request, and nothing about the     *)
(* handlers is used except that they leave the lists alone.                *)
(*                                                                         *)
(* RequestInv is about the requests themselves: no descriptor, mapping or  *)
(* range is ever lost, and a handler finds what it dereferences.  It rests *)
(* on one lemma for each handler, which says that every outcome is Good    *)
(* when the request it was called on is Fit.                               *)
(***************************************************************************)
EXTENDS Server, ListsProofs

ListsTyped ==
    /\ ready \in Seq(Requests)
    /\ block \in Seq(Requests)
    /\ free \in Seq(Requests)

(* The inductive invariant of the lists. *)
ListInv == ListsTyped /\ ListsSeparate /\ CursorOnList /\ Accounting

(* current->next of a request on the list is NULL or another request of    *)
(* the list.                                                               *)
LEMMA AfterOnList ==
    ASSUME NEW S, NEW s \in Seq(S), Distinct(s), NEW r \in Elems(s),
           After(s, r) # NULL
    PROVE  After(s, r) \in Elems(s) \ {r}
<1>1. /\ IndexOf(s, r) \in 1 .. Len(s)
      /\ s[IndexOf(s, r)] = r
      /\ Len(s) \in Nat
      /\ DOMAIN s = 1 .. Len(s)
  BY IndexOfPlace
<1>2. /\ IndexOf(s, r) + 1 \in DOMAIN s
      /\ After(s, r) = s[IndexOf(s, r) + 1]
  BY <1>1 DEF After
<1>3. QED BY <1>1, <1>2 DEF Elems, Distinct

(* The head of a list is NULL exactly when the list is empty.              *)
LEMMA FirstOnList ==
    ASSUME NEW S, NEW s \in Seq(S), NULL \notin S
    PROVE  /\ First(s) # NULL => First(s) \in Elems(s)
           /\ First(s) = NULL <=> s = <<>>
<1>1. CASE s = <<>>
  BY <1>1 DEF First
<1>2. CASE s # <<>>
  <2>1. 1 \in DOMAIN s /\ s[1] \in S
    BY <1>2
  <2>2. QED BY <1>2, <2>1 DEF First, Elems
<1>3. QED BY <1>1, <1>2

(* Moving a request from one list to another keeps both free of            *)
(* repetitions and moves exactly that request.                             *)
LEMMA MoveElems ==
    ASSUME NEW S, NEW s \in Seq(S), NEW t \in Seq(S), Distinct(s), Distinct(t),
           Elems(s) \cap Elems(t) = {}, NEW r \in Elems(s)
    PROVE  /\ Remove(s, r) \in Seq(S) /\ Push(t, r) \in Seq(S)
           /\ Distinct(Remove(s, r)) /\ Distinct(Push(t, r))
           /\ Elems(Remove(s, r)) = Elems(s) \ {r}
           /\ Elems(Push(t, r)) = Elems(t) \cup {r}
           /\ Len(Remove(s, r)) = Len(s) - 1
           /\ Len(Push(t, r)) = Len(t) + 1
<1>1. r \in S /\ r \notin Elems(t)
  BY IndexOfPlace
<1>2. /\ Remove(s, r) \in Seq(S) /\ Distinct(Remove(s, r))
      /\ Elems(Remove(s, r)) = Elems(s) \ {r}
      /\ Len(Remove(s, r)) = Len(s) - 1
  BY RemoveElems
<1>3. Push(t, r) \in Seq(S) /\ Len(Push(t, r)) = Len(t) + 1
  BY <1>1, PushPlaces
<1>4. Distinct(Push(t, r)) /\ Elems(Push(t, r)) = Elems(t) \cup {r}
  BY <1>1, PushElems
<1>5. QED BY <1>2, <1>3, <1>4

(* get_request keeps the lists apart and the count right, whatever becomes *)
(* of the connection, and takes nothing off the ready list; the count      *)
(* grows by at most one.                                                   *)
LEMMA GetRequestLists ==
    ASSUME ListsTyped, ListsSeparate, Accounting, get_request, block' = block
    PROVE  /\ ListsTyped' /\ ListsSeparate' /\ Accounting'
           /\ Elems(ready) \subseteq Elems(ready')
<1>1. CASE UNCHANGED <<ready, free, total_connections>>
  BY <1>1 DEF ListsTyped, ListsSeparate, Accounting
<1>2. ASSUME NEW r \in Requests, new_request(r)
      PROVE  /\ FreeAfterNew \in Seq(Requests)
             /\ Distinct(FreeAfterNew)
             /\ Elems(FreeAfterNew) \subseteq Elems(free)
             /\ r \notin Elems(FreeAfterNew) \cup Elems(ready) \cup Elems(block)
  <2>1. CASE free # <<>>
    <3>1. r = free[1] /\ FreeAfterNew = Tail(free)
      BY <1>2, <2>1 DEF new_request, FreeAfterNew
    <3>2. /\ Tail(free) \in Seq(Requests) /\ Distinct(Tail(free))
          /\ Elems(Tail(free)) = Elems(free) \ {free[1]}
          /\ free[1] \in Elems(free)
      BY <2>1, TailElems DEF ListsTyped, ListsSeparate
    <3>3. QED BY <3>1, <3>2 DEF ListsSeparate
  <2>2. CASE free = <<>>
    BY <1>2, <2>2 DEF new_request, FreeAfterNew, Listed, ListsTyped, ListsSeparate
  <2>3. QED BY <2>1, <2>2
<1>3. ASSUME NEW r \in Requests, AcceptFreed(r)
      PROVE  ListsTyped' /\ ListsSeparate' /\ Accounting' /\ Elems(ready) \subseteq Elems(ready')
  <2>1. /\ new_request(r) /\ free' = Push(FreeAfterNew, r) /\ ready' = ready
        /\ total_connections' = total_connections
    BY <1>3 DEF AcceptFreed
  <2>2. /\ free' \in Seq(Requests) /\ Distinct(free')
        /\ Elems(free') = Elems(FreeAfterNew) \cup {r}
    <3>1. Push(FreeAfterNew, r) \in Seq(Requests)
      BY <1>2, <2>1, PushPlaces
    <3>2. /\ Elems(Push(FreeAfterNew, r)) = Elems(FreeAfterNew) \cup {r}
          /\ Distinct(Push(FreeAfterNew, r))
      BY <1>2, <2>1, PushElems
    <3>3. QED BY <2>1, <3>1, <3>2
  <2>3. QED BY <1>2, <2>1, <2>2 DEF ListsTyped, ListsSeparate, Accounting
<1>4. ASSUME NEW r \in Requests, Accepted(r)
      PROVE  ListsTyped' /\ ListsSeparate' /\ Accounting' /\ Elems(ready) \subseteq Elems(ready')
  <2>1. /\ new_request(r) /\ free' = FreeAfterNew /\ ready' = Push(ready, r)
        /\ total_connections' = total_connections + 1
    BY <1>4 DEF Accepted
  <2>2. /\ ready' \in Seq(Requests) /\ Distinct(ready')
        /\ Elems(ready') = Elems(ready) \cup {r}
        /\ Len(ready') = Len(ready) + 1
    <3>1. ready \in Seq(Requests) /\ Distinct(ready) /\ r \notin Elems(ready)
      BY <1>2, <2>1 DEF ListsTyped, ListsSeparate
    <3>2. Push(ready, r) \in Seq(Requests) /\ Len(Push(ready, r)) = Len(ready) + 1
      BY <3>1, PushPlaces
    <3>3. Elems(Push(ready, r)) = Elems(ready) \cup {r} /\ Distinct(Push(ready, r))
      BY <3>1, PushElems
    <3>4. QED BY <2>1, <3>2, <3>3
  <2>3. Accounting'
    <3>1. Len(ready) \in Nat /\ Len(block) \in Nat
      BY DEF ListsTyped
    <3>2. QED BY <2>1, <2>2, <3>1 DEF Accounting
  <2>4. QED BY <1>2, <2>1, <2>2, <2>3 DEF ListsTyped, ListsSeparate
<1>5. QED BY <1>1, <1>3, <1>4 DEF get_request, AcceptFails, AcceptDropped

(* A request taken off the ready list by block_request or free_request     *)
(* goes to the block list or to the free list.                             *)
LEMMA LeaveReady ==
    ASSUME ListsTyped, ListsSeparate, Accounting, NEW r \in Elems(ready),
           ready' = Remove(ready, r),
           \/ /\ block' = Push(block, r) /\ free' = free
              /\ total_connections' = total_connections
           \/ /\ block' = block /\ free' = Push(free, r)
              /\ total_connections' = total_connections - 1
    PROVE  ListsTyped' /\ ListsSeparate' /\ Accounting'
           /\ Elems(ready') = Elems(ready) \ {r}
<1>0. Len(ready) \in Nat /\ Len(block) \in Nat
  BY DEF ListsTyped
<1>1. CASE block' = Push(block, r) /\ free' = free /\ total_connections' = total_connections
  <2>1. /\ ready' \in Seq(Requests) /\ block' \in Seq(Requests)
        /\ Distinct(ready') /\ Distinct(block')
        /\ Elems(ready') = Elems(ready) \ {r} /\ Elems(block') = Elems(block) \cup {r}
        /\ Len(ready') = Len(ready) - 1 /\ Len(block') = Len(block) + 1
    BY <1>1, MoveElems DEF ListsTyped, ListsSeparate
  <2>2. Accounting'
    BY <1>0, <1>1, <2>1 DEF Accounting
  <2>3. QED BY <1>1, <2>1, <2>2 DEF ListsTyped, ListsSeparate
<1>2. CASE block' = block /\ free' = Push(free, r) /\ total_connections' = total_connections - 1
  <2>1. /\ ready' \in Seq(Requests) /\ free' \in Seq(Requests)
        /\ Distinct(ready') /\ Distinct(free')
        /\ Elems(ready') = Elems(ready) \ {r} /\ Elems(free') = Elems(free) \cup {r}
        /\ Len(ready') = Len(ready) - 1
    BY <1>2, MoveElems DEF ListsTyped, ListsSeparate
  <2>2. Accounting'
    BY <1>0, <1>2, <2>1 DEF Accounting
  <2>3. QED BY <1>2, <2>1, <2>2 DEF ListsTyped, ListsSeparate
<1>3. QED BY <1>1, <1>2

(* Dispose moves the cursor on before the request it was on leaves the     *)
(* ready list.                                                             *)
LEMMA DisposeLists == ListInv /\ Dispose => ListInv'
<1> SUFFICES ASSUME ListInv, Dispose PROVE ListInv'
  OBVIOUS
<1>1. /\ current \in Elems(ready)
      /\ current' = After(ready, current)
      /\ pc' = IF current' = NULL THEN "top" ELSE "handle"
  BY DEF ListInv, CursorOnList, Dispose
<1>2. current' # NULL => current' \in Elems(ready) \ {current}
  BY <1>1, AfterOnList DEF ListInv, ListsTyped, ListsSeparate
<1>3. \/ UNCHANGED <<lists, total_connections>>
      \/ /\ ready' = Remove(ready, current)
         /\ \/ block' = Push(block, current) /\ free' = free
                /\ total_connections' = total_connections
            \/ block' = block /\ free' = Push(free, current)
                /\ total_connections' = total_connections - 1
  BY DEF Dispose, free_request
<1>4. CASE UNCHANGED <<lists, total_connections>>
  BY <1>1, <1>2, <1>4
     DEF ListInv, ListsTyped, ListsSeparate, Accounting, CursorOnList, lists
<1>5. CASE ready' = Remove(ready, current) /\ ~UNCHANGED <<lists, total_connections>>
  <2>1. ListsTyped' /\ ListsSeparate' /\ Accounting' /\ Elems(ready') = Elems(ready) \ {current}
    BY <1>1, <1>3, <1>5, LeaveReady DEF ListInv
  <2>2. CursorOnList'
    BY <1>1, <1>2, <2>1 DEF CursorOnList
  <2>3. QED BY <2>1, <2>2 DEF ListInv
<1>6. QED BY <1>3, <1>4, <1>5

(* update_blocked reads current->next before it moves the request to the   *)
(* ready list.                                                             *)
LEMMA UpdateBlockedLists == ListInv /\ update_blocked => ListInv'
<1> SUFFICES ASSUME ListInv, update_blocked PROVE ListInv'
  OBVIOUS
<1>1. /\ current \in Elems(block)
      /\ current' = After(block, current)
      /\ pc' = IF current' = NULL THEN "entry" ELSE "update"
      /\ free' = free /\ total_connections' = total_connections
  BY DEF ListInv, CursorOnList, update_blocked, limits
<1>2. current' # NULL => current' \in Elems(block) \ {current}
  BY <1>1, AfterOnList DEF ListInv, ListsTyped, ListsSeparate
<1>3. \/ UNCHANGED <<ready, block>>
      \/ block' = Remove(block, current) /\ ready' = Push(ready, current)
  BY DEF update_blocked
<1>4. CASE UNCHANGED <<ready, block>>
  BY <1>1, <1>2, <1>4 DEF ListInv, ListsTyped, ListsSeparate, Accounting, CursorOnList
<1>5. CASE block' = Remove(block, current) /\ ready' = Push(ready, current)
  <2>1. /\ ready' \in Seq(Requests) /\ block' \in Seq(Requests)
        /\ Distinct(ready') /\ Distinct(block')
        /\ Elems(block') = Elems(block) \ {current}
        /\ Elems(ready') = Elems(ready) \cup {current}
        /\ Len(block') = Len(block) - 1 /\ Len(ready') = Len(ready) + 1
    <3>1. /\ ready \in Seq(Requests) /\ block \in Seq(Requests)
          /\ Distinct(ready) /\ Distinct(block) /\ Elems(ready) \cap Elems(block) = {}
          /\ current \in Elems(block)
      BY <1>1 DEF ListInv, ListsTyped, ListsSeparate
    <3>2. QED BY <1>5, <3>1, MoveElems
  <2>2. Accounting'
    <3>1. Len(ready) \in Nat /\ Len(block) \in Nat
      BY DEF ListInv, ListsTyped
    <3>2. QED BY <1>1, <2>1, <3>1 DEF ListInv, Accounting
  <2>3. CursorOnList'
    BY <1>1, <1>2, <2>1 DEF CursorOnList
  <2>4. QED BY <1>1, <2>1, <2>2, <2>3 DEF ListInv, ListsTyped, ListsSeparate
<1>6. QED BY <1>3, <1>4, <1>5

(* ListInv holds in every state.                                           *)
LEMMA ListInvariant == Spec => []ListInv
<1>1. Init => ListInv
  <2> SUFFICES ASSUME Init PROVE ListInv
    OBVIOUS
  <2>1. ready = <<>> /\ block = <<>> /\ free = <<>> /\ total_connections = 0 /\ pc = "top"
    BY DEF Init
  <2>2. Elems(<<>>) = {} /\ Distinct(<<>>) /\ <<>> \in Seq(Requests) /\ Len(<<>>) = 0
    BY DEF Elems, Distinct
  <2>3. QED BY <2>1, <2>2 DEF ListInv, ListsTyped, ListsSeparate, CursorOnList, Accounting
<1>2. ListInv /\ [Next]_vars => ListInv'
  <2> SUFFICES ASSUME ListInv, [Next]_vars PROVE ListInv'
    OBVIOUS
  <2>1. CASE LoopTop
    <3>1. /\ ready' = ready /\ block' = block /\ total_connections' = total_connections
          /\ pc' \in {"exit", "poll", "entry"}
          /\ free' = free \/ free' = <<>>
      BY <2>1 DEF LoopTop, free_requests
    <3>2. Elems(<<>>) = {} /\ Distinct(<<>>) /\ <<>> \in Seq(Requests)
      BY DEF Elems, Distinct
    <3>3. QED BY <3>1, <3>2
              DEF ListInv, ListsTyped, ListsSeparate, CursorOnList, Accounting
  <2>2. CASE CallPoll
    BY <2>2 DEF CallPoll, lists, limits, ListInv, ListsTyped, ListsSeparate, CursorOnList, Accounting
  <2>3. CASE PollReturn
    <3>1. /\ UNCHANGED <<ready, block, free, total_connections>>
          /\ current' = First(block)
          /\ pc' = IF block = <<>> THEN "entry" ELSE "update"
      BY <2>3 DEF PollReturn, lists, limits
    <3>2. block # <<>> => First(block) \in Elems(block)
      BY FirstOnList, NullAssumption DEF ListInv, ListsTyped
    <3>3. QED BY <3>1, <3>2 DEF ListInv, ListsTyped, ListsSeparate, CursorOnList, Accounting
  <2>4. CASE update_blocked
    BY <2>4, UpdateBlockedLists
  <2>5. CASE EnterProcess
    <3>1. /\ block' = block /\ current' = First(ready')
          /\ pc' = IF current' = NULL THEN "top" ELSE "handle"
          /\ get_request \/ UNCHANGED <<ready, free, total_connections>>
      BY <2>5 DEF EnterProcess
    <3>2. ListsTyped' /\ ListsSeparate' /\ Accounting'
      <4>1. CASE get_request
        BY <3>1, <4>1, GetRequestLists DEF ListInv
      <4>2. CASE UNCHANGED <<ready, free, total_connections>>
        BY <3>1, <4>2 DEF ListInv, ListsTyped, ListsSeparate, Accounting
      <4>3. QED BY <3>1, <4>1, <4>2
    <3>3. current' # NULL => current' \in Elems(ready')
      BY <3>1, <3>2, FirstOnList, NullAssumption DEF ListsTyped
    <3>4. QED BY <3>1, <3>2, <3>3 DEF ListInv, CursorOnList
  <2>6. CASE Handle
    BY <2>6 DEF Handle, lists, limits, ListInv, ListsTyped, ListsSeparate, CursorOnList, Accounting
  <2>7. CASE AcceptMore
    <3>1. /\ get_request /\ block' = block /\ current' = current
          /\ pc = "accept" /\ pc' = "dispose"
      BY <2>7 DEF AcceptMore
    <3>2. /\ ListsTyped' /\ ListsSeparate' /\ Accounting'
          /\ Elems(ready) \subseteq Elems(ready')
      BY <3>1, GetRequestLists DEF ListInv
    <3>3. QED BY <3>1, <3>2 DEF ListInv, CursorOnList
  <2>8. CASE Dispose
    BY <2>8, DisposeLists
  <2>9. CASE Connect \/ Tick
    BY <2>9 DEF Connect, Tick, lists, limits, ListInv, ListsTyped, ListsSeparate,
                CursorOnList, Accounting
  <2>10. CASE SigTerm \/ SigHup
    BY <2>10 DEF SigTerm, SigHup, Interrupted, lists, limits, ListInv, ListsTyped,
                 ListsSeparate, CursorOnList, Accounting
  <2>11. CASE UNCHANGED vars
    BY <2>11 DEF vars, lists, limits, ListInv, ListsTyped, ListsSeparate, CursorOnList, Accounting
  <2>12. QED BY <2>1, <2>2, <2>3, <2>4, <2>5, <2>6, <2>7, <2>8, <2>9, <2>10, <2>11
             DEF Next, Loop
<1>3. QED BY <1>1, <1>2, PTL DEF Spec

(* The lists of the server stay apart, both traversals stay on the list    *)
(* they traverse, and total_connections is the number of connections, with *)
(* any number of request structures and whatever the handlers do.          *)
THEOREM ListsCorrect == Spec => [](ListsSeparate /\ CursorOnList /\ Accounting)
<1>1. ListInv => ListsSeparate /\ CursorOnList /\ Accounting
  BY DEF ListInv
<1>2. QED BY <1>1, ListInvariant, PTL
-----------------------------------------------------------------------------
(* Accepting is on only below the limit: the server socket is watched when *)
(* there is room, a connection is pending only then, and get_request turns *)
(* pending_requests off when it goes over.                                 *)
LimitInv ==
    /\ total_connections \in Int
    /\ max_connections \in Nat
    /\ pending_requests \in BOOLEAN
    /\ watch_server \in BOOLEAN
    /\ pc \in {"poll", "inpoll"} /\ watch_server = TRUE
          => total_connections < max_connections
    /\ pc \in {"update", "entry"} /\ pending_requests = TRUE
          => total_connections < max_connections
    /\ pc \in {"update", "entry", "handle", "accept", "dispose"} /\ pending_requests = TRUE
          => total_connections <= max_connections
    /\ pc = "accept" => pending_requests = TRUE

(* get_request called below the limit leaves pending_requests set only     *)
(* below the limit.                                                        *)
LEMMA GetRequestLimit ==
    ASSUME LimitInv, get_request, max_connections' = max_connections,
           total_connections <= max_connections
    PROVE  /\ total_connections' \in Int
           /\ pending_requests' \in BOOLEAN
           /\ pending_requests' = TRUE => total_connections' <= max_connections
<1>1. ASSUME NEW r \in Requests, Accepted(r)
      PROVE  /\ total_connections' = total_connections + 1
             /\ pending_requests' \in BOOLEAN
             /\ pending_requests' = TRUE => total_connections + 1 <= max_connections
  <2>1. /\ total_connections' = total_connections + 1
        /\ pending_requests' = IF total_connections + 1 > max_connections
                               THEN FALSE ELSE pending_requests
    BY <1>1 DEF Accepted
  <2>2. CASE total_connections + 1 > max_connections
    <3>1. pending_requests' = FALSE
      BY <2>1, <2>2, Zenon
    <3>2. QED BY <2>1, <3>1, Zenon
  <2>3. CASE ~(total_connections + 1 > max_connections)
    <3>1. pending_requests' = pending_requests
      BY <2>1, <2>3, Zenon
    <3>2. pending_requests' \in BOOLEAN
      BY <3>1, Zenon DEF LimitInv
    <3>3. total_connections + 1 <= max_connections
      BY <2>3 DEF LimitInv
    <3>4. QED BY <2>1, <3>2, <3>3, Zenon
  <2>4. QED BY <2>2, <2>3, Zenon
<1>2. CASE AcceptFails
  BY <1>2, Zenon DEF AcceptFails, LimitInv
<1>3. ASSUME UNCHANGED <<total_connections, pending_requests>>
      PROVE  /\ total_connections' \in Int
             /\ pending_requests' \in BOOLEAN
             /\ pending_requests' = TRUE => total_connections' <= max_connections
  BY <1>3, Zenon DEF LimitInv
<1>4. ASSUME NEW r \in Requests, Accepted(r)
      PROVE  /\ total_connections' \in Int
             /\ pending_requests' \in BOOLEAN
             /\ pending_requests' = TRUE => total_connections' <= max_connections
  <2>1. total_connections' \in Int
    <3>1. total_connections' = total_connections + 1
      BY <1>1, <1>4, Zenon
    <3>2. QED BY <3>1 DEF LimitInv
  <2>2. QED BY <1>1, <1>4, <2>1, Zenon
<1>5. QED BY <1>2, <1>3, <1>4, Zenon DEF get_request, AcceptDropped, AcceptFreed

(* LimitInv holds in every state.                                          *)
LEMMA LimitInvariant == Spec => []LimitInv
<1>1. Init => LimitInv
  <2> SUFFICES ASSUME Init PROVE LimitInv
    OBVIOUS
  <2>1. /\ total_connections = 0 /\ pc = "top"
        /\ pending_requests = FALSE /\ watch_server = TRUE
    BY DEF Init
  <2>2. max_connections \in Nat
    BY ServerAssumption DEF Init
  <2>3. /\ total_connections \in Int /\ pc # "accept"
        /\ pc \notin {"poll", "inpoll", "update", "entry", "handle", "accept", "dispose"}
    BY <2>1
  <2>4. QED BY <2>1, <2>2, <2>3, Zenon DEF LimitInv
<1>2. LimitInv /\ [Next]_vars => LimitInv'
  <2> SUFFICES ASSUME LimitInv, [Next]_vars PROVE LimitInv'
    OBVIOUS
  <2>1. CASE LoopTop
    <3>1. /\ max_connections' \in Nat
          /\ total_connections' = total_connections
          /\ pending_requests' = FALSE
          /\ pc' \in {"exit", "poll", "entry"}
      BY <2>1, ServerAssumption DEF LoopTop, sighup_run, LimitInv
    <3>2. watch_server' \in BOOLEAN
          /\ (watch_server' = TRUE => total_connections < max_connections')
      BY <2>1 DEF LoopTop, WatchServer, sigterm_stage1_run
    <3>3. QED BY <3>1, <3>2 DEF LimitInv
  <2>2. CASE CallPoll
    BY <2>2 DEF CallPoll, limits, LimitInv
  <2>3. CASE PollReturn
    <3>1. /\ pc = "inpoll" /\ pc' \in {"entry", "update"}
          /\ UNCHANGED <<total_connections, max_connections, watch_server>>
          /\ pending_requests' \in BOOLEAN
          /\ (pending_requests' = TRUE => watch_server = TRUE)
      BY <2>3 DEF PollReturn, limits, LimitInv
    <3>2. QED BY <3>1 DEF LimitInv
  <2>4. CASE update_blocked
    BY <2>4 DEF update_blocked, limits, LimitInv
  <2>5. CASE EnterProcess
    <3>1. CASE pending_requests = TRUE
      <4>1. /\ get_request /\ pc = "entry" /\ pc' \in {"top", "handle"}
            /\ UNCHANGED <<max_connections, watch_server>>
        BY <2>5, <3>1 DEF EnterProcess
      <4>2. /\ total_connections' \in Int /\ pending_requests' \in BOOLEAN
            /\ pending_requests' = TRUE => total_connections' <= max_connections
        BY <3>1, <4>1, GetRequestLimit DEF LimitInv
      <4>3. QED BY <4>1, <4>2 DEF LimitInv
    <3>2. CASE pending_requests = FALSE
      BY <2>5, <3>2 DEF EnterProcess, LimitInv
    <3>3. QED BY <3>1, <3>2 DEF LimitInv
  <2>6. CASE Handle
    <3>1. /\ pc = "handle" /\ pc' = IF pending_requests THEN "accept" ELSE "dispose"
          /\ UNCHANGED <<total_connections, max_connections, pending_requests, watch_server>>
      BY <2>6 DEF Handle, limits
    <3>2. QED BY <3>1 DEF LimitInv
  <2>7. CASE AcceptMore
    <3>1. /\ get_request /\ pc = "accept" /\ pc' = "dispose"
          /\ UNCHANGED <<max_connections, watch_server>>
      BY <2>7 DEF AcceptMore
    <3>2. /\ total_connections' \in Int /\ pending_requests' \in BOOLEAN
          /\ pending_requests' = TRUE => total_connections' <= max_connections
      BY <3>1, GetRequestLimit DEF LimitInv
    <3>3. QED BY <3>1, <3>2 DEF LimitInv
  <2>8. CASE Dispose
    <3>1. /\ pc = "dispose" /\ pc' \in {"top", "handle"}
          /\ UNCHANGED <<max_connections, pending_requests, watch_server>>
          /\ total_connections' \in {total_connections, total_connections - 1}
      BY <2>8 DEF Dispose, free_request
    <3>2. QED BY <3>1 DEF LimitInv
  <2>9. CASE Connect \/ Tick \/ SigTerm \/ SigHup
    BY <2>9 DEF Connect, Tick, SigTerm, SigHup, Interrupted, limits, LimitInv
  <2>10. CASE UNCHANGED vars
    BY <2>10 DEF vars, limits, LimitInv
  <2>11. QED BY <2>1, <2>2, <2>3, <2>4, <2>5, <2>6, <2>7, <2>8, <2>9, <2>10 DEF Next, Loop
<1>3. QED BY <1>1, <1>2, PTL DEF Spec
-----------------------------------------------------------------------------
(* The resources of a response, which nothing may lose: descriptors of     *)
(* files and pipes, mappings and ranges.                                   *)
Held == {"data_fd", "mmap", "ranges"}

(* A request at any moment: nothing is lost, and the scanner is not ahead  *)
(* of what was read.                                                       *)
Sound(q) == q \in Request /\ q.parse <= q.pos /\ q.lost \cap Held = {}

(* No file is open yet.                                                    *)
NoData(q) == q.owns \cap {"data_fd", "mmap"} = {}

(* A request that a handler may be called on: it has what the handler of   *)
(* its status dereferences, and until a response starts no file is open.   *)
Fit(q) ==
    /\ Sound(q)
    /\ q.status = "WRITE" => {"mmap", "ranges"} \subseteq q.owns
    /\ q.status = "IOSHUFFLE" => "ranges" \in q.owns
    /\ q.status \in {"PIPE_READ", "PIPE_WRITE"} => "data_fd" \in q.owns
    /\ q.status \in {"BODY_READ", "BODY_WRITE"} => "post_data_fd" \in q.owns
    /\ q.status \in {"READ_HEADER", "BODY_READ", "BODY_WRITE"} => NoData(q)

(* What a handler may leave: a request that is over need not be fit.       *)
Good(o) == o.ret \in -1 .. 1 /\ Sound(o.q) /\ (o.ret # 0 => Fit(o.q))

(* p has the resources and the place in the stream of q.                   *)
Same(p, q) == /\ p \in Request
              /\ p.owns = q.owns /\ p.lost = q.lost
              /\ p.parse = q.parse /\ p.pos = q.pos

(* A status in which no handler dereferences anything.                     *)
Over == {"DONE", "DEAD", "TIMED_OUT"}

(* Constants and sets as the leaves use them.                              *)
LEMMA HandlerNumbers ==
    /\ KaMax \in Nat /\ TransferSteps \in Nat /\ RequestTimeout \in Nat
    /\ StreamSize \in Nat \ {0} /\ BufferSize \in Nat \ {0}
BY HandlerAssumption

(* Nothing is lost by a request that keeps its resources and its place.    *)
LEMMA SameSound == ASSUME NEW p, NEW q, Sound(q), Same(p, q) PROVE Sound(p)
BY DEF Sound, Same

(* It stays fit in its status, and in one that dereferences nothing.       *)
LEMMA SameFit ==
    ASSUME NEW p, NEW q, Fit(q), Same(p, q), p.status \in {q.status} \cup Over
    PROVE  Fit(p)
BY DEF Fit, Sound, Same, Over, NoData

(* A request whose status dereferences nothing needs nothing.              *)
LEMMA OverFit == ASSUME NEW q, Sound(q), q.status \in Over PROVE Fit(q)
BY DEF Fit, Over

(* What the outcomes Outs(n, Q) of a handler are.                          *)
LEMMA OutsIn ==
    ASSUME NEW n, NEW Q, NEW o \in Outs(n, Q)
    PROVE  o.ret = n /\ o.q \in Q
BY DEF Outs, Out

(* Outcomes that end the request need only be sound.                       *)
LEMMA GoodOver == ASSUME NEW Q, \A q \in Q : Sound(q) PROVE \A o \in Outs(0, Q) : Good(o)
BY OutsIn DEF Good

(* Outcomes that go on need requests fit for the handler of their status.  *)
LEMMA GoodOn == ASSUME NEW Q, NEW n \in {-1, 1}, \A q \in Q : Fit(q)
                PROVE  \A o \in Outs(n, Q) : Good(o)
BY OutsIn DEF Good, Fit

(* The same for a single outcome.                                          *)
LEMMA GoodOut == ASSUME NEW q, NEW n \in -1 .. 1, Sound(q), n # 0 => Fit(q)
                 PROVE  Good(Out(n, q))
BY DEF Good, Out

(* Assigning a field that is not a resource.                               *)
LEMMA SetFields ==
    ASSUME NEW q \in Request
    PROVE  /\ \A s \in Status : Same([q EXCEPT !.status = s], q)
                                /\ [q EXCEPT !.status = s].status = s
           /\ \A k \in {"INACTIVE", "ACTIVE", "STOPPED"} :
                 Same([q EXCEPT !.keepalive = k], q)
                 /\ [q EXCEPT !.keepalive = k].status = q.status
           /\ \A c \in Response : Same([q EXCEPT !.response = c], q)
                                  /\ [q EXCEPT !.response = c].status = q.status
           /\ \A n \in 0 .. BufferSize : Same([q EXCEPT !.buffer = n], q)
                                         /\ [q EXCEPT !.buffer = n].status = q.status
           /\ \A n \in 0 .. TransferSteps : Same([q EXCEPT !.steps = n], q)
                                            /\ [q EXCEPT !.steps = n].status = q.status
<1>1. \A s \in Status : Same([q EXCEPT !.status = s], q) /\ [q EXCEPT !.status = s].status = s
  BY DEF Same, Request
<1>2. \A k \in {"INACTIVE", "ACTIVE", "STOPPED"} :
         Same([q EXCEPT !.keepalive = k], q) /\ [q EXCEPT !.keepalive = k].status = q.status
  BY DEF Same, Request
<1>3. \A c \in Response : Same([q EXCEPT !.response = c], q)
                          /\ [q EXCEPT !.response = c].status = q.status
  BY DEF Same, Request
<1>4. \A n \in 0 .. BufferSize : Same([q EXCEPT !.buffer = n], q)
                                 /\ [q EXCEPT !.buffer = n].status = q.status
  BY DEF Same, Request
<1>5. \A n \in 0 .. TransferSteps : Same([q EXCEPT !.steps = n], q)
                                    /\ [q EXCEPT !.steps = n].status = q.status
  BY DEF Same, Request
<1>6. QED BY <1>1, <1>2, <1>3, <1>4, <1>5

(* p is q, or q after its connection has failed.                           *)
Stays(p, q) == Same(p, q) /\ p.status \in {q.status, "DEAD"}

(* A failed connection makes no request unsound or unfit.                  *)
LEMMA StaysFit ==
    ASSUME NEW p, NEW q, Stays(p, q)
    PROVE  (Sound(q) => Sound(p)) /\ (Fit(q) => Fit(p))
BY SameSound, SameFit DEF Stays, Over

(* Two such steps are one.                                                 *)
LEMMA StaysOn ==
    ASSUME NEW p, NEW q, NEW x, Stays(p, q), Stays(x, p) PROVE Stays(x, q)
BY DEF Stays, Same

(* The status DEAD that an error of write(2) leaves.                       *)
LEMMA DeadStays == ASSUME NEW q \in Request PROVE Stays(q, q) /\ Stays(Dead(q), q)
<1>1. Same(q, q)
  BY DEF Same
<1>2. "DEAD" \in Status
  BY DEF Status, Closing
<1>3. Same(Dead(q), q) /\ Dead(q).status = "DEAD"
  BY <1>2, SetFields DEF Dead
<1>4. QED BY <1>1, <1>3 DEF Stays

(* SQUASH_KA gives up keepalive and nothing else.                          *)
LEMMA SquashStays == ASSUME NEW q \in Request PROVE Stays(SQUASH_KA(q), q)
BY SetFields DEF Stays, SQUASH_KA

(* Assigning response_status.                                              *)
LEMMA RespondStays ==
    ASSUME NEW q \in Request, NEW c \in Response PROVE Stays([q EXCEPT !.response = c], q)
BY SetFields DEF Stays

(* Assigning buffer_end and buffer_start.                                  *)
LEMMA BufferStays ==
    ASSUME NEW q \in Request, NEW n \in 0 .. BufferSize PROVE Stays([q EXCEPT !.buffer = n], q)
BY SetFields DEF Stays

(* A step of a transfer changes nothing but the number of steps left.      *)
LEMMA StepStays == ASSUME NEW q \in Request PROVE \A p \in Step(q) : Stays(p, q)
<1> SUFFICES ASSUME NEW p \in Step(q) PROVE Stays(p, q)
  OBVIOUS
<1>1. q.steps \in 0 .. TransferSteps /\ q.steps > 0 /\ p = [q EXCEPT !.steps = q.steps - 1]
  BY DEF Step, Request
<1>2. q.steps - 1 \in 0 .. TransferSteps
  BY <1>1, HandlerNumbers
<1>3. QED BY <1>1, <1>2, SetFields DEF Stays

(* Writing into the buffer and flushing it leave everything else alone,    *)
(* unless the connection fails.                                            *)
LEMMA WriteStays == ASSUME NEW q \in Request PROVE \A p \in req_write(q) : Stays(p, q)
<1> SUFFICES ASSUME NEW p \in req_write(q) PROVE Stays(p, q)
  OBVIOUS
<1>1. \/ p = q \/ p = Dead(q)
      \/ \E n \in q.buffer .. BufferSize : p = [q EXCEPT !.buffer = n]
  BY DEF req_write
<1>2. ASSUME NEW n \in q.buffer .. BufferSize PROVE n \in 0 .. BufferSize
  BY HandlerNumbers DEF Request
<1>3. QED BY <1>1, <1>2, DeadStays, BufferStays

(* req_flush: its result, and the request it leaves.                       *)
LEMMA FlushStays ==
    ASSUME NEW q \in Request
    PROVE  \A o \in req_flush(q) : o.ret \in Int /\ o.ret >= -2 /\ Stays(o.q, q)
<1> SUFFICES ASSUME NEW o \in req_flush(q)
             PROVE  o.ret \in Int /\ o.ret >= -2 /\ Stays(o.q, q)
  OBVIOUS
<1>1. \/ o = Out(-2, q) \/ o = Out(0, q) \/ o = Out(-1, q)
      \/ o = Out(-2, [Dead(q) EXCEPT !.buffer = 0])
      \/ \E n \in 0 .. q.buffer - 1 : o = Out(n, [q EXCEPT !.buffer = n])
  BY DEF req_flush
<1>2. Stays([Dead(q) EXCEPT !.buffer = 0], q)
  <2>1. Dead(q) \in Request /\ Stays(Dead(q), q)
    BY DeadStays DEF Stays, Same
  <2>2. 0 \in 0 .. BufferSize
    BY HandlerNumbers
  <2>3. QED BY <2>1, <2>2, BufferStays, StaysOn
<1>3. ASSUME NEW n \in 0 .. q.buffer - 1 PROVE n \in 0 .. BufferSize
  BY HandlerNumbers DEF Request
<1>4. ASSUME NEW n \in 0 .. q.buffer - 1 PROVE Stays([q EXCEPT !.buffer = n], q)
  BY <1>3, BufferStays
<1>5. \E n \in Int, x \in Request : n >= -2 /\ o = Out(n, x) /\ Stays(x, q)
  <2>1. \A x : Stays(x, q) => x \in Request
    BY DEF Stays, Same
  <2>2. CASE \E n \in 0 .. q.buffer - 1 : o = Out(n, [q EXCEPT !.buffer = n])
    BY <1>4, <2>1, <2>2
  <2>3. CASE o = Out(-2, [Dead(q) EXCEPT !.buffer = 0])
    BY <1>2, <2>1, <2>3
  <2>4. CASE o = Out(-2, q) \/ o = Out(0, q) \/ o = Out(-1, q)
    BY <2>4, DeadStays
  <2>5. QED BY <1>1, <2>2, <2>3, <2>4
<1>6. QED BY <1>5 DEF Out

(* req_flush after any other such step.                                    *)
LEMMA FlushedStays ==
    ASSUME NEW Q, NEW q, \A x \in Q : Stays(x, q)
    PROVE  \A p \in Flushed(Q) : Stays(p, q)
<1> SUFFICES ASSUME NEW x \in Q, NEW o \in req_flush(x) PROVE Stays(o.q, q)
  BY DEF Flushed
<1>1. Stays(x, q) /\ x \in Request
  BY DEF Stays, Same
<1>2. QED BY <1>1, FlushStays, StaysOn

(* A response that ends the connection, and one that goes on.              *)
LEMMA SendStays ==
    ASSUME NEW q \in Request, NEW c \in Response
    PROVE  \A p \in send_r(q, c) : Stays(p, q)
<1> DEFINE k == SQUASH_KA(q)
           s == [k EXCEPT !.response = c]
<1>1. Stays(k, q) /\ k \in Request
  BY SquashStays DEF Stays, Same
<1>2. Stays(s, k) /\ s \in Request
  BY <1>1, RespondStays DEF Stays, Same
<1>3. Stays(s, q)
  BY <1>1, <1>2, StaysOn
<1>4. \A x \in req_write(s) : Stays(x, q)
  BY <1>2, <1>3, WriteStays, StaysOn
<1>5. QED BY <1>4, FlushedStays DEF send_r

(* send_r_request_ok writes a header into the buffer.                      *)
LEMMA SendOkStays == ASSUME NEW q \in Request PROVE \A p \in send_ok(q) : Stays(p, q)
<1> DEFINE s == [q EXCEPT !.response = 200]
<1>1. 200 \in Response
  BY DEF Response
<1>2. Stays(s, q) /\ s \in Request
  BY <1>1, RespondStays DEF Stays, Same
<1>3. QED BY <1>2, WriteStays, StaysOn DEF send_ok

(* Refusing a request releases nothing: free_request does that.            *)
LEMMA RefuseGood == ASSUME NEW q, Sound(q) PROVE \A o \in Refuse(q) : Good(o)
<1> DEFINE S == UNION {send_r(q, c) : c \in {200, 400, 500}}
<1>1. q \in Request
  BY DEF Sound
<1>2. \A p \in S : Stays(p, q)
  BY <1>1, SendStays DEF Response
<1>3. \A p \in S : Sound(p)
  BY <1>2, StaysFit
<1> HIDE DEF S
<1>4. \A o \in Outs(0, S) : Good(o)
  BY <1>3, GoodOver
<1>5. QED BY <1>4 DEF Refuse, S

(* Resources are released and acquired without loss, but for the           *)
(* temporary file, which process_header_end may meet twice.                *)
LEMMA ReleaseSound ==
    ASSUME NEW q, Sound(q), NEW x
    PROVE  /\ Sound(Release(q, x)) /\ Release(q, x).status = q.status
           /\ Release(q, x).owns = q.owns \ {x} /\ Release(q, x).pos = q.pos
BY DEF Sound, Release, Request

(* Acquiring what is not held, or the temporary file, loses none of Held.  *)
LEMMA AcquireSound ==
    ASSUME NEW q, Sound(q), NEW x \in Resource, x \notin q.owns \/ x = "post_data_fd"
    PROVE  /\ Sound(Acquire(q, x)) /\ Acquire(q, x).status = q.status
           /\ Acquire(q, x).owns = q.owns \cup {x}
<1>1. Acquire(q, x) \in Request
  BY DEF Sound, Acquire, Request
<1>2. (q.lost \cup (q.owns \cap {x})) \cap Held = {}
  BY DEF Sound, Held, Resource
<1>3. /\ Acquire(q, x).lost = q.lost \cup (q.owns \cap {x})
      /\ Acquire(q, x).owns = q.owns \cup {x}
      /\ Acquire(q, x).parse = q.parse /\ Acquire(q, x).pos = q.pos
      /\ Acquire(q, x).status = q.status
  BY DEF Sound, Acquire, Request
<1>4. QED BY <1>1, <1>2, <1>3 DEF Sound

(* Assigning the status keeps the request sound.                           *)
LEMMA SetStatus ==
    ASSUME NEW q, Sound(q), NEW s \in Status
    PROVE  /\ Sound([q EXCEPT !.status = s]) /\ [q EXCEPT !.status = s].status = s
           /\ [q EXCEPT !.status = s].owns = q.owns
<1> DEFINE p == [q EXCEPT !.status = s]
<1>1. q \in Request
  BY DEF Sound
<1>2. Same(p, q) /\ p.status = s
  BY <1>1, SetFields
<1> HIDE DEF p
<1>3. Sound(p) /\ p.owns = q.owns
  BY <1>2, SameSound DEF Same
<1>4. QED BY <1>2, <1>3 DEF p

(* So does the start of a transfer.                                        *)
LEMMA SetSteps ==
    ASSUME NEW q, Sound(q)
    PROVE  LET p == [q EXCEPT !.steps = TransferSteps]
           IN  Sound(p) /\ p.status = q.status /\ p.owns = q.owns
<1>1. TransferSteps \in 0 .. TransferSteps
  BY HandlerNumbers
<1> DEFINE p == [q EXCEPT !.steps = TransferSteps]
<1>2. q \in Request
  BY DEF Sound
<1>3. Same(p, q) /\ p.status = q.status
  BY <1>1, <1>2, SetFields
<1> HIDE DEF p
<1>4. Sound(p) /\ p.owns = q.owns
  BY <1>3, SameSound DEF Same
<1>5. QED BY <1>3, <1>4 DEF p

(* Flushing keeps requests sound, and fit.                                 *)
LEMMA FlushedFit ==
    ASSUME NEW Q, \A x \in Q : Fit(x)
    PROVE  \A p \in Flushed(Q) : Fit(p)
<1> SUFFICES ASSUME NEW x \in Q, NEW o \in req_flush(x) PROVE Fit(o.q)
  BY DEF Flushed
<1>1. Fit(x) /\ x \in Request
  BY DEF Fit, Sound
<1>2. QED BY <1>1, FlushStays, StaysFit

(* A request that is marked as done.                                       *)
LEMMA DoneFit == ASSUME NEW q, Sound(q) PROVE Fit([q EXCEPT !.status = "DONE"])
<1>1. "DONE" \in Status
  BY DEF Status
<1>2. QED BY <1>1, SetStatus, OverFit DEF Over

(* complete_response is called on a request that is fit.                   *)
LEMMA CompleteGood == ASSUME NEW q, Fit(q) PROVE \A o \in complete_response(q) : Good(o)
<1> DEFINE p == Release(q, "ranges")
           N == UNION {req_write(x) : x \in Step(q)}
           D == {[x EXCEPT !.status = "DONE"] : x \in req_write(p)}
           F == Flushed(D)
<1>1. Sound(q) /\ q \in Request /\ Sound(p) /\ p \in Request
  BY ReleaseSound DEF Fit, Sound
<1>2. Good(Out(0, [p EXCEPT !.status = "DONE"]))
  BY <1>1, DoneFit, GoodOut DEF Fit
<1>3. \A x \in N : Fit(x)
  <2>1. \A x \in Step(q) : Stays(x, q) /\ x \in Request
    BY <1>1, StepStays DEF Stays, Same
  <2>2. \A y \in N : Stays(y, q)
    BY <2>1, WriteStays, StaysOn
  <2>3. QED BY <2>2, StaysFit
<1>4. \A x \in F : Fit(x)
  <2>1. \A x \in req_write(p) : Sound(x)
    BY <1>1, WriteStays, StaysFit
  <2>2. \A x \in D : Fit(x)
    BY <2>1, DoneFit
  <2>3. QED BY <2>2, FlushedFit
<1>5. complete_response(q) = {Out(0, [p EXCEPT !.status = "DONE"])} \cup Outs(1, N) \cup Outs(1, F)
  BY DEF complete_response
<1> HIDE DEF p, N, F
<1>6. \A o \in Outs(1, N) \cup Outs(1, F) : Good(o)
  BY <1>3, <1>4, GoodOn
<1>7. QED BY <1>2, <1>5, <1>6

(* Starting a CGI: the pipe is acquired when no file is open yet.          *)
LEMMA InitCgiGood ==
    ASSUME NEW q, Sound(q), "data_fd" \notin q.owns
    PROVE  \A o \in init_cgi(q) : Good(o)
<1> DEFINE k == SQUASH_KA(q)
           p == Release(k, "post_data_fd")
           a == Acquire(p, "data_fd")
           r == [a EXCEPT !.status = "PIPE_READ", !.steps = TransferSteps]
           S == send_r(k, 500)
<1>1. Sound(k) /\ k \in Request /\ k.owns = q.owns
  BY SquashStays, StaysFit DEF Sound, Stays, Same
<1>2. Sound(p) /\ "data_fd" \notin p.owns
  BY <1>1, ReleaseSound
<1>3. Sound(a) /\ "data_fd" \in a.owns
  BY <1>2, AcquireSound DEF Resource
<1>4. Fit(r)
  <2>1. TransferSteps \in 0 .. TransferSteps /\ "PIPE_READ" \in Status
    BY HandlerNumbers DEF Status
  <2>2. /\ r \in Request /\ r.status = "PIPE_READ" /\ r.owns = a.owns
        /\ r.parse = a.parse /\ r.pos = a.pos /\ r.lost = a.lost
    BY <1>3, <2>1 DEF Sound, Request
  <2>3. QED BY <1>3, <2>2 DEF Fit, Sound
<1>5. \A x \in S : Sound(x)
  <2>1. 500 \in Response
    BY DEF Response
  <2>2. QED BY <1>1, <2>1, SendStays, StaysFit
<1>6. init_cgi(q) = {Out(0, k)} \cup Outs(0, S) \cup {Out(0, p), Out(1, r)}
  BY DEF init_cgi, CgiRuns
<1> HIDE DEF k, p, r, S
<1>7. Good(Out(0, k)) /\ Good(Out(0, p)) /\ Good(Out(1, r))
  BY <1>1, <1>2, <1>4, GoodOut DEF Fit
<1>8. \A o \in Outs(0, S) : Good(o)
  BY <1>5, GoodOver
<1>9. QED BY <1>6, <1>7, <1>8

(* Sending a file: the mapping or the descriptor is acquired when no file  *)
(* is open yet, and the first range of the request is kept.                *)
LEMMA SendFileGood ==
    ASSUME NEW q, Sound(q), NoData(q), q.status = "WRITE"
    PROVE  \A o \in SendFile(q) : Good(o)
<1> DEFINE r == IF "ranges" \in q.owns THEN q ELSE Acquire(q, "ranges")
           m == Acquire(r, "mmap")
           d == Acquire(r, "data_fd")
           i == [d EXCEPT !.status = "IOSHUFFLE"]
           S == UNION {send_ok(x) : x \in {m, i}}
           B == UNION {send_r([x EXCEPT !.buffer = 0], 500) : x \in {y \in S : "mmap" \in y.owns}}
           C == UNION {complete_response(x) : x \in S}
<1>1. Sound(r) /\ "ranges" \in r.owns /\ NoData(r) /\ r.status = "WRITE"
  <2>1. CASE "ranges" \in q.owns
    BY <2>1
  <2>2. CASE "ranges" \notin q.owns
    BY <2>2, AcquireSound DEF NoData, Resource
  <2>3. QED BY <2>1, <2>2
<1>2. Sound(m) /\ {"mmap", "ranges"} \subseteq m.owns /\ m.status = "WRITE"
  BY <1>1, AcquireSound DEF NoData, Resource
<1>3. Sound(d) /\ "ranges" \in d.owns
  BY <1>1, AcquireSound DEF NoData, Resource
<1>4. Sound(i) /\ "ranges" \in i.owns /\ i.status = "IOSHUFFLE"
  <2>1. "IOSHUFFLE" \in Status
    BY DEF Status
  <2>2. QED BY <1>3, <2>1, SetStatus
<1>5. Fit(m) /\ Fit(i)
  BY <1>2, <1>4 DEF Fit
<1>6. \A x \in S : Fit(x)
  <2>1. m \in Request /\ i \in Request
    BY <1>2, <1>4 DEF Sound
  <2>2. QED BY <1>5, <2>1, SendOkStays, StaysFit
<1>7. \A x \in B : Sound(x)
  <2>1. 500 \in Response /\ 0 \in 0 .. BufferSize
    BY HandlerNumbers DEF Response
  <2> HIDE DEF S
  <2>2. ASSUME NEW x \in S
        PROVE  Sound([x EXCEPT !.buffer = 0]) /\ [x EXCEPT !.buffer = 0] \in Request
    <3>1. x \in Request /\ Sound(x)
      BY <1>6, <2>2 DEF Fit, Sound
    <3> DEFINE y == [x EXCEPT !.buffer = 0]
    <3>2. Stays(y, x)
      BY <2>1, <3>1, BufferStays
    <3> HIDE DEF y
    <3>3. Sound(y) /\ y \in Request
      BY <3>1, <3>2, StaysFit DEF Sound
    <3>4. QED BY <3>3 DEF y
  <2>3. ASSUME NEW x \in S, NEW y \in send_r([x EXCEPT !.buffer = 0], 500) PROVE Sound(y)
    <3> DEFINE z == [x EXCEPT !.buffer = 0]
    <3>1. Sound(z) /\ z \in Request /\ y \in send_r(z, 500)
      BY <2>2, <2>3
    <3> HIDE DEF z
    <3>2. Stays(y, z)
      BY <2>1, <3>1, SendStays
    <3>3. QED BY <3>1, <3>2, StaysFit
  <2>4. QED BY <2>3, ZenonT(60)
<1>8. SendFile(q) = Outs(1, S) \cup C \cup Outs(0, B)
  BY DEF SendFile
<1>9. \A o \in C : Good(o)
  <2> HIDE DEF S
  <2>1. QED BY <1>6, CompleteGood
<1> HIDE DEF S, B, C
<1>10. \A o \in Outs(1, S) \cup Outs(0, B) : Good(o)
  BY <1>6, <1>7, GoodOn, GoodOver
<1>11. QED BY <1>8, <1>9, <1>10

(* A response made by a child process.                                     *)
LEMMA GenerateGood ==
    ASSUME NEW q, Sound(q), NoData(q)
    PROVE  \A o \in Generate(q) : Good(o)
<1> DEFINE S == Flushed(send_ok(q))
<1>1. q \in Request
  BY DEF Sound
<1>2. \A x \in S : Stays(x, q)
  BY <1>1, SendOkStays, FlushedStays
<1>3. \A x \in S : Sound(x) /\ "data_fd" \notin x.owns
  BY <1>2, StaysFit DEF NoData, Stays, Same
<1>4. Generate(q) = Outs(0, S) \cup UNION {init_cgi(x) : x \in S}
  BY DEF Generate
<1> HIDE DEF S
<1>5. \A o \in Outs(0, S) : Good(o)
  BY <1>3, GoodOver
<1>6. \A o \in UNION {init_cgi(x) : x \in S} : Good(o)
  BY <1>3, InitCgiGood
<1>7. QED BY <1>4, <1>5, <1>6

(* All the ways a GET starts.                                              *)
LEMMA InitGetGood ==
    ASSUME NEW q, Sound(q), NoData(q), q.status = "WRITE"
    PROVE  \A o \in init_get(q) : Good(o)
<1>1. \A o \in Refuse(q) : Good(o)
  BY RefuseGood
<1>2. \A o \in Generate(q) \cup SendFile(q) : Good(o)
  BY GenerateGood, SendFileGood
<1>3. \A o \in get_dir(q) : Good(o)
  <2>1. Sound(SQUASH_KA(q)) /\ NoData(SQUASH_KA(q))
    BY SquashStays, StaysFit DEF Sound, Stays, Same, NoData
  <2>2. QED BY <1>1, <2>1, GenerateGood DEF get_dir
<1>4. \A o \in CheckFile(q) : Good(o)
  <2>1. \A o \in Refuse(Release(q, "ranges")) : Good(o)
    BY ReleaseSound, RefuseGood
  <2>2. \A x \in send_ok(q) : Sound(x)
    BY SendOkStays, StaysFit DEF Sound
  <2>3. \A o \in Outs(0, send_ok(q)) : Good(o)
    BY <2>2, GoodOver
  <2>4. QED BY <1>1, <2>1, <2>3 DEF CheckFile
<1>5. QED BY <1>1, <1>2, <1>3, <1>4 DEF init_get

(* Writing a mapped file.                                                  *)
LEMMA ProcessGetGood == ASSUME NEW q, Fit(q) PROVE \A o \in process_get(q) : Good(o)
<1>1. Sound(q) /\ q \in Request
  BY DEF Fit, Sound
<1>2. Good(Out(-1, q)) /\ Good(Out(0, Dead(q)))
  BY <1>1, DeadStays, StaysFit, GoodOut
<1>3. \A o \in Outs(1, Step(q)) : Good(o)
  <2>1. \A x \in Step(q) : Fit(x)
    BY <1>1, StepStays, StaysFit
  <2>2. QED BY <2>1, GoodOn
<1>4. QED BY <1>2, <1>3, CompleteGood DEF process_get

(* Reading a file and writing it: at the end of the file the descriptor is *)
(* closed, and the range is still there.                                   *)
LEMMA IoShuffleGood ==
    ASSUME NEW q, Fit(q), q.status = "IOSHUFFLE"
    PROVE  \A o \in io_shuffle(q) : Good(o)
<1> DEFINE open == "data_fd" \in q.owns
           more == IF open THEN {[q EXCEPT !.buffer = n] : n \in q.buffer .. BufferSize}
                   ELSE {}
           rest == IF open THEN {Release(q, "data_fd")} ELSE {q}
           M == more \cup rest
           D == {Out(0, Dead(x)) : x \in M}
           C == UNION {complete_response(x) : x \in more}
           E == {x \in rest : x.buffer = 0}
           T == UNION {Step(x) : x \in M}
           W == UNION {{[y EXCEPT !.buffer = n] : n \in 0 .. y.buffer} : y \in T}
<1>1. Sound(q) /\ q \in Request
  BY DEF Fit, Sound
<1>2. \A x \in more : Fit(x)
  <2>1. \A n \in q.buffer .. BufferSize : n \in 0 .. BufferSize
    BY <1>1, HandlerNumbers DEF Request
  <2>2. QED BY <1>1, <2>1, BufferStays, StaysFit
<1>3. \A x \in rest : Fit(x)
  <2>1. Fit(Release(q, "data_fd"))
    <3>1. /\ Sound(Release(q, "data_fd")) /\ Release(q, "data_fd").status = "IOSHUFFLE"
          /\ "ranges" \in Release(q, "data_fd").owns
      BY <1>1, ReleaseSound DEF Fit
    <3>2. QED BY <3>1 DEF Fit
  <2>2. QED BY <2>1
<1>4. \A x \in M : Fit(x) /\ Sound(x) /\ x \in Request
  BY <1>2, <1>3 DEF Fit, Sound
<1>5. io_shuffle(q) = Outs(-1, M) \cup D \cup C \cup Outs(0, E) \cup Outs(1, W)
  BY DEF io_shuffle
<1> HIDE DEF open, more, rest
<1>6. E \subseteq M
  OBVIOUS
<1> HIDE DEF M
<1>7. \A x \in T : Fit(x) /\ x \in Request
  <2>1. \A x \in M : \A y \in Step(x) : Stays(y, x)
    BY <1>4, StepStays
  <2>2. QED BY <1>4, <2>1, StaysFit DEF Stays, Same
<1> HIDE DEF T
<1>8. \A x \in W : Fit(x)
  <2>1. ASSUME NEW y \in T, NEW n \in 0 .. y.buffer PROVE Fit([y EXCEPT !.buffer = n])
    <3>1. n \in 0 .. BufferSize
      BY <1>7, HandlerNumbers DEF Request
    <3>2. QED BY <1>7, <3>1, BufferStays, StaysFit
  <2>2. QED BY <2>1
<1> HIDE DEF W
<1>9. \A o \in D : Good(o)
  BY <1>4, DeadStays, StaysFit, GoodOut
<1>10. \A o \in C : Good(o)
  BY <1>2, CompleteGood
<1> HIDE DEF C, D
<1>11. \A o \in Outs(-1, M) \cup Outs(1, W) : Good(o)
  BY <1>4, <1>8, GoodOn
<1>12. \A o \in Outs(0, E) : Good(o)
  <2>1. \A x \in E : Sound(x)
    BY <1>4, <1>6
  <2> HIDE DEF E
  <2>2. QED BY <2>1, GoodOver
<1>13. QED BY <1>5, <1>9, <1>10, <1>11, <1>12

(* The end of the header of a CGI.                                         *)
LEMMA CgiHeaderGood == ASSUME NEW q, Fit(q) PROVE \A o \in process_cgi_header(q) : Good(o)
<1> DEFINE ok == Flushed(send_ok(q))
           b == [q EXCEPT !.buffer = 0]
           E == send_r(q, 500) \cup send_r(b, 500)
           R == send_r(q, 200) \cup send_r(q, 400)
           D == {[x EXCEPT !.status = "DONE"] : x \in R}
<1>1. Sound(q) /\ q \in Request
  BY DEF Fit, Sound
<1>2. Sound(b) /\ b \in Request
  <2>1. 0 \in 0 .. BufferSize
    BY HandlerNumbers
  <2>2. QED BY <1>1, <2>1, BufferStays, StaysFit DEF Sound
<1>3. 200 \in Response /\ 400 \in Response /\ 500 \in Response
  BY DEF Response
<1>4. \A x \in E : Sound(x)
  BY <1>1, <1>2, <1>3, SendStays, StaysFit
<1>5. \A x \in D : Fit(x)
  <2>1. \A x \in R : Sound(x)
    BY <1>1, <1>3, SendStays, StaysFit
  <2>2. QED BY <2>1, DoneFit
<1>6. \A x \in ok : Fit(x) /\ Sound(x)
  <2>1. \A x \in send_ok(q) : Fit(x)
    BY <1>1, SendOkStays, StaysFit
  <2>2. QED BY <2>1, FlushedFit DEF Fit
<1>7. Good(Out(1, q))
  BY <1>1, GoodOut
<1>8. ASSUME NEW o \in process_cgi_header(q)
      PROVE  \/ o \in Outs(0, E) \/ o = Out(1, q) \/ o \in Outs(1, D)
             \/ o \in Outs(0, ok) \/ o \in Outs(1, ok)
  BY <1>8 DEF process_cgi_header, Outs
<1> HIDE DEF ok, E, D
<1>9. \A o \in Outs(0, E) \cup Outs(0, ok) : Good(o)
  BY <1>4, <1>6, GoodOver
<1>10. \A o \in Outs(1, D) \cup Outs(1, ok) : Good(o)
  BY <1>5, <1>6, GoodOn
<1>11. QED BY <1>7, <1>8, <1>9, <1>10

(* The pipe of a CGI stays open from its first read to its last write.     *)
LEMMA PipeWriteGood ==
    ASSUME NEW q, Fit(q), q.status \in {"PIPE_READ", "PIPE_WRITE"}
    PROVE  \A o \in write_from_pipe(q) : Good(o)
<1> DEFINE T == UNION {{x, [x EXCEPT !.status = "PIPE_READ"]} : x \in Step(q)}
<1>1. Sound(q) /\ q \in Request /\ "data_fd" \in q.owns
  BY DEF Fit, Sound
<1>2. Good(Out(-1, q)) /\ Good(Out(0, Dead(q))) /\ Good(Out(0, q))
  BY <1>1, DeadStays, StaysFit, GoodOut
<1>3. \A x \in T : Fit(x)
  <2>1. "PIPE_READ" \in Status
    BY DEF Status
  <2>2. \A x \in Step(q) : Fit(x) /\ Sound(x) /\ x.owns = q.owns
    BY <1>1, StepStays, StaysFit DEF Stays, Same
  <2>3. \A x \in Step(q) : Fit([x EXCEPT !.status = "PIPE_READ"])
    BY <1>1, <2>1, <2>2, SetStatus DEF Fit
  <2>4. QED BY <2>2, <2>3
<1>4. write_from_pipe(q) = {Out(-1, q), Out(0, Dead(q)), Out(0, q)} \cup Outs(1, T)
  BY DEF write_from_pipe
<1> HIDE DEF T
<1>5. \A o \in Outs(1, T) : Good(o)
  BY <1>3, GoodOn
<1>6. QED BY <1>2, <1>4, <1>5

(* read_from_pipe, with the header of a CGI and the first write from it.   *)
LEMMA PipeReadGood ==
    ASSUME NEW q, Fit(q), q.status = "PIPE_READ"
    PROVE  \A o \in read_from_pipe(q) : Good(o)
<1> DEFINE P == UNION {{x, [x EXCEPT !.status = "PIPE_WRITE"]} : x \in Step(q)}
           w == [q EXCEPT !.status = "PIPE_WRITE"]
           H == UNION {process_cgi_header(x) \cup write_from_pipe(x) : x \in P}
<1>1. Sound(q) /\ q \in Request /\ "data_fd" \in q.owns
  BY DEF Fit, Sound
<1>2. Good(Out(-1, q)) /\ Good(Out(0, Dead(q)))
  BY <1>1, DeadStays, StaysFit, GoodOut
<1>3. "PIPE_WRITE" \in Status
  BY DEF Status
<1>4. ASSUME NEW x, Sound(x), "data_fd" \in x.owns
      PROVE  LET y == [x EXCEPT !.status = "PIPE_WRITE"]
             IN  Fit(y) /\ y.status = "PIPE_WRITE"
  BY <1>3, <1>4, SetStatus DEF Fit
<1>5. \A x \in Step(q) : Fit(x) /\ Sound(x) /\ x.owns = q.owns /\ x.status \in {"PIPE_READ", "DEAD"}
  BY <1>1, StepStays, StaysFit DEF Stays, Same
<1>6. \A x \in Step(q) : x.status = "PIPE_READ"
  BY <1>1 DEF Step, Request
<1>7. \A x \in P : Fit(x) /\ x.status \in {"PIPE_READ", "PIPE_WRITE"}
  <2>1. \A x \in Step(q) : /\ Fit([x EXCEPT !.status = "PIPE_WRITE"])
                           /\ [x EXCEPT !.status = "PIPE_WRITE"].status = "PIPE_WRITE"
    BY <1>1, <1>4, <1>5
  <2>2. QED BY <1>5, <1>6, <2>1
<1>8. Fit(w)
  BY <1>1, <1>4
<1>9. read_from_pipe(q) = {Out(-1, q), Out(0, Dead(q))} \cup Outs(1, P) \cup H
                          \cup process_cgi_header(w)
  BY DEF read_from_pipe
<1> HIDE DEF P, w
<1>10. \A o \in Outs(1, P) : Good(o)
  BY <1>7, GoodOn
<1>11. \A o \in H : Good(o)
  BY <1>7, CgiHeaderGood, PipeWriteGood
<1> HIDE DEF H
<1>12. \A o \in process_cgi_header(w) : Good(o)
  BY <1>8, CgiHeaderGood
<1>13. QED BY <1>2, <1>9, <1>10, <1>11, <1>12

(* Reading a body and writing it to the temporary file.                    *)
LEMMA WriteBodyGood ==
    ASSUME NEW q, Fit(q), q.status = "BODY_WRITE"
    PROVE  \A o \in write_body(q) : Good(o)
<1> DEFINE r == [q EXCEPT !.status = "BODY_READ"]
           S == send_r(q, 500)
<1>1. Sound(q) /\ q \in Request /\ NoData(q) /\ "post_data_fd" \in q.owns
  BY DEF Fit, Sound
<1>2. \A o \in init_cgi(q) : Good(o)
  BY <1>1, InitCgiGood DEF NoData
<1>3. Fit(r)
  <2>1. "BODY_READ" \in Status
    BY DEF Status
  <2>2. QED BY <1>1, <2>1, SetStatus DEF Fit, NoData
<1>4. Good(Out(1, r)) /\ Good(Out(-1, q))
  <2>1. Sound(r)
    BY <1>3 DEF Fit
  <2> HIDE DEF r
  <2>2. QED BY <1>1, <1>3, <2>1, GoodOut
<1>5. \A o \in Outs(1, Step(q)) : Good(o)
  <2>1. \A x \in Step(q) : Fit(x)
    BY <1>1, StepStays, StaysFit
  <2>2. QED BY <2>1, GoodOn
<1>6. \A o \in Outs(0, S) : Good(o)
  <2>1. 500 \in Response
    BY DEF Response
  <2>2. \A x \in S : Sound(x)
    BY <1>1, <2>1, SendStays, StaysFit
  <2>3. QED BY <2>2, GoodOver
<1>7. QED BY <1>2, <1>4, <1>5, <1>6 DEF write_body

(* read_body, whose temporary file stays open until the CGI is started.    *)
LEMMA ReadBodyGood ==
    ASSUME NEW q, Fit(q), q.status = "BODY_READ"
    PROVE  \A o \in read_body(q) : Good(o)
<1> DEFINE B == {[x EXCEPT !.status = "BODY_WRITE"] : x \in Step(q)}
           F == {Out(0, [x EXCEPT !.response = 400]) : x \in send_r(q, 500)}
           S == send_r(q, 400)
<1>1. Sound(q) /\ q \in Request /\ NoData(q) /\ "post_data_fd" \in q.owns
  BY DEF Fit, Sound
<1>2. Good(Out(-1, q))
  BY <1>1, GoodOut
<1>3. \A x \in B : Fit(x)
  <2>1. "BODY_WRITE" \in Status
    BY DEF Status
  <2>2. \A x \in Step(q) : Sound(x) /\ x.owns = q.owns
    BY <1>1, StepStays, StaysFit DEF Stays, Same
  <2>3. ASSUME NEW x \in Step(q) PROVE Fit([x EXCEPT !.status = "BODY_WRITE"])
    <3> DEFINE y == [x EXCEPT !.status = "BODY_WRITE"]
    <3>1. Sound(y) /\ y.status = "BODY_WRITE" /\ y.owns = q.owns
      BY <2>1, <2>2, SetStatus
    <3> HIDE DEF y
    <3>2. Fit(y)
      BY <1>1, <3>1 DEF Fit, NoData
    <3>3. QED BY <3>2 DEF y
  <2>4. QED BY <2>3
<1>4. 400 \in Response /\ 500 \in Response
  BY DEF Response
<1>5. \A o \in F : Good(o)
  <2>1. \A x \in send_r(q, 500) : Sound(x) /\ x \in Request
    BY <1>1, <1>4, SendStays, StaysFit DEF Sound
  <2>2. \A x \in send_r(q, 500) : Sound([x EXCEPT !.response = 400])
    BY <1>4, <2>1, RespondStays, StaysFit
  <2>3. ASSUME NEW y, Sound(y) PROVE Good(Out(0, y))
    <3>1. 0 \in -1 .. 1 /\ Out(0, y).ret = 0 /\ Out(0, y).q = y
      BY DEF Out
    <3>2. QED BY <2>3, <3>1 DEF Good
  <2>4. QED BY <2>2, <2>3, ZenonT(60)
<1>6. \A x \in S : Sound(x)
  BY <1>1, <1>4, SendStays, StaysFit
<1>7. read_body(q) = {Out(-1, q)} \cup Outs(1, B) \cup F \cup Outs(0, S)
  BY DEF read_body
<1> HIDE DEF B, F, S
<1>8. (\A o \in Outs(1, B) : Good(o)) /\ (\A o \in Outs(0, S) : Good(o))
  BY <1>3, <1>6, GoodOn, GoodOver
<1>9. QED BY <1>2, <1>5, <1>7, <1>8

(* The end of a header: the request has opened nothing but, perhaps, the   *)
(* temporary file, and starts at most one response.                        *)
LEMMA HeaderEndGood ==
    ASSUME NEW q, Sound(q), NoData(q), NEW body \in {"BODY_WRITE", "READ_HEADER"}
    PROVE  \A o \in process_header_end(q, body) : Good(o)
<1> DEFINE w == [q EXCEPT !.steps = TransferSteps]
           u == [w EXCEPT !.status = body]
           post == Acquire(u, "post_data_fd")
           S == send_r(Release(post, "post_data_fd"), 500)
           g == [w EXCEPT !.status = "WRITE"]
<1>1. Sound(w) /\ w.owns = q.owns
  BY SetSteps
<1>2. body \in Status /\ "WRITE" \in Status /\ 500 \in Response /\ "post_data_fd" \in Resource
  BY DEF Status, Response, Resource
<1>3. Sound(u) /\ u.status = body /\ u.owns = q.owns
  BY <1>1, <1>2, SetStatus
<1>4. Sound(post) /\ post.status = body /\ post.owns = q.owns \cup {"post_data_fd"}
  <2> HIDE DEF u
  <2>1. QED BY <1>2, <1>3, AcquireSound
<1>5. Fit(post)
  BY <1>4 DEF Fit, NoData
<1>6. \A x \in S : Sound(x)
  <2>1. /\ Sound(Release(post, "post_data_fd"))
        /\ Release(post, "post_data_fd") \in Request
    BY <1>4, ReleaseSound DEF Sound
  <2>2. QED BY <1>2, <2>1, SendStays, StaysFit
<1>7. Sound(g) /\ NoData(g) /\ g.status = "WRITE"
  BY <1>1, <1>2, SetStatus DEF NoData
<1>8. \A o \in init_cgi(w) \cup init_get(g) : Good(o)
  BY <1>1, <1>7, InitCgiGood, InitGetGood DEF NoData
<1>9. ASSUME NEW o \in process_header_end(q, body)
      PROVE  \/ o \in Refuse(q) \/ o = Out(1, post) \/ o \in Outs(0, S)
             \/ o \in init_cgi(w) \cup init_get(g)
  BY <1>9 DEF process_header_end
<1> HIDE DEF w, post, S, g
<1>10. Good(Out(1, post))
  BY <1>4, <1>5, GoodOut
<1>11. \A o \in Outs(0, S) : Good(o)
  BY <1>6, GoodOver
<1>12. QED BY <1>8, <1>9, <1>10, <1>11, RefuseGood

(* A request whose header is being read: no file is open.                  *)
Reading(q) == Sound(q) /\ NoData(q) /\ q.status = "READ_HEADER"

(* That is what Fit asks of this status.                                   *)
LEMMA ReadingFit == ASSUME NEW q PROVE Reading(q) <=> Fit(q) /\ q.status = "READ_HEADER"
BY DEF Reading, Fit

(* The scanner moves up to what was read, and the lines it meets set       *)
(* nothing but keepalive and the ranges.                                   *)
LEMMA ScannedReading ==
    ASSUME NEW q, Reading(q), NEW p \in q.parse + 1 .. q.pos
    PROVE  \A x \in Scanned(q, p) : Reading(x)
<1> DEFINE at == [q EXCEPT !.parse = p]
           line == IF q.logline THEN {at} ELSE process_logline(at)
           Ka == {"INACTIVE", "ACTIVE", "STOPPED"}
<1>1. Reading(at)
  <2>1. q \in Request /\ q.parse \in 0 .. StreamSize /\ q.pos \in 0 .. StreamSize
    BY DEF Reading, Sound, Request
  <2>2. p \in 0 .. StreamSize /\ p <= q.pos
    BY <2>1, HandlerNumbers
  <2>3. /\ at \in Request /\ at.parse = p /\ at.pos = q.pos /\ at.lost = q.lost
        /\ at.owns = q.owns /\ at.status = q.status
    BY <2>1, <2>2 DEF Request
  <2>4. QED BY <2>2, <2>3 DEF Reading, Sound, NoData
<1> HIDE DEF at
<1>2. ASSUME NEW x, Reading(x), NEW l \in BOOLEAN, NEW k \in Ka
      PROVE  Reading([x EXCEPT !.logline = l, !.keepalive = k])
  BY <1>2 DEF Reading, Sound, NoData, Request
<1>3. \A x \in line : Reading(x)
  <2>1. at.keepalive \in Ka
    BY <1>1 DEF Reading, Sound, Request
  <2>2. ASSUME NEW x \in process_logline(at) PROVE Reading(x)
    <3>1. PICK k \in {at.keepalive, "ACTIVE"} :
             x = [at EXCEPT !.logline = TRUE, !.keepalive = k]
      BY DEF process_logline
    <3>2. k \in Ka
      BY <2>1
    <3>3. QED BY <1>1, <1>2, <3>1, <3>2
  <2>3. QED BY <1>1, <2>2
<1>4. ASSUME NEW x, Reading(x), NEW y \in process_option_line(x) PROVE Reading(y)
  <2> DEFINE ka == IF KaMax = 0 \/ x.keepalive = "STOPPED" THEN {x.keepalive}
                   ELSE {x.keepalive, "ACTIVE", "STOPPED"}
             P == {[x EXCEPT !.keepalive = k] : k \in ka}
  <2>1. x.keepalive \in Ka /\ x \in Request
    BY <1>4 DEF Reading, Sound, Request
  <2>2. \A z \in P : Reading(z)
    <3>1. \A k \in ka : k \in Ka
      BY <2>1
    <3>2. ASSUME NEW k \in ka PROVE Reading([x EXCEPT !.keepalive = k])
      <4> DEFINE z == [x EXCEPT !.keepalive = k]
      <4>1. Same(z, x) /\ z.status = x.status
        BY <2>1, <3>1, SetFields
      <4> HIDE DEF z
      <4>2. Reading(z)
        BY <1>4, <4>1, SameSound DEF Reading, Same, NoData
      <4>3. QED BY <4>2 DEF z
    <3>3. QED BY <3>2
  <2>3. ASSUME NEW z, Reading(z) PROVE Reading([z EXCEPT !.owns = z.owns \cup {"ranges"}])
    BY <2>3 DEF Reading, Sound, NoData, Request, Resource
  <2>4. process_option_line(x) = P \cup {[z EXCEPT !.owns = z.owns \cup {"ranges"}] : z \in P}
    BY DEF process_option_line
  <2> HIDE DEF P
  <2>5. QED BY <1>4, <2>2, <2>3, <2>4
<1>5. Scanned(q, p) = {at} \cup UNION {process_option_line(x) : x \in line}
  BY DEF Scanned, at
<1> HIDE DEF line
<1>6. QED BY <1>1, <1>3, <1>4, <1>5

(* The end of a header with the checks of a body's length.                 *)
LEMMA EndOfHeaderGood == ASSUME NEW q, Reading(q) PROVE \A o \in EndOfHeader(q) : Good(o)
<1> DEFINE P == process_header_end(q, "BODY_WRITE")
           L == {p \in P : p.ret = 1 /\ p.q.status = "BODY_WRITE"}
           S == UNION {send_r(o.q, 400) : o \in L}
<1>1. \A o \in P : Good(o)
  BY HeaderEndGood DEF Reading
<1> HIDE DEF P
<1>2. \A x \in S : Sound(x)
  <2>1. 400 \in Response
    BY DEF Response
  <2>2. \A o \in L : Sound(o.q) /\ o.q \in Request
    BY <1>1 DEF Good, Sound
  <2>3. QED BY <2>1, <2>2, SendStays, StaysFit
<1>3. EndOfHeader(q) = P \cup Outs(0, S)
  BY DEF EndOfHeader, P
<1> HIDE DEF S
<1>4. \A o \in Outs(0, S) : Good(o)
  BY <1>2, GoodOver
<1>5. QED BY <1>1, <1>3, <1>4

(* More of the header is read, behind what the scanner has seen.           *)
LEMMA ReadMoreGood == ASSUME NEW q, Reading(q) PROVE \A o \in ReadMore(q) : Good(o)
<1> DEFINE d == [Dead(q) EXCEPT !.response = 400]
           e == [q EXCEPT !.response = 400]
<1>1. Sound(q) /\ q \in Request /\ Fit(q)
  BY ReadingFit DEF Reading, Sound
<1>2. 400 \in Response
  BY DEF Response
<1>3. Sound(d)
  <2>1. Dead(q) \in Request /\ Sound(Dead(q))
    BY <1>1, DeadStays, StaysFit DEF Sound
  <2>2. QED BY <1>2, <2>1, RespondStays, StaysFit
<1>4. Sound(e)
  BY <1>1, <1>2, RespondStays, StaysFit
<1>5. ASSUME NEW n \in q.pos + 1 .. StreamSize PROVE Fit([q EXCEPT !.pos = n])
  <2> DEFINE x == [q EXCEPT !.pos = n]
  <2>1. q.pos \in 0 .. StreamSize /\ q.parse \in 0 .. StreamSize /\ q.parse <= q.pos
    BY <1>1 DEF Sound, Request
  <2>2. n \in 0 .. StreamSize /\ q.parse <= n
    BY <2>1, HandlerNumbers
  <2>3. /\ x \in Request /\ x.parse = q.parse /\ x.pos = n /\ x.lost = q.lost
        /\ x.owns = q.owns /\ x.status = q.status
    BY <1>1, <2>2 DEF Request
  <2> HIDE DEF x
  <2>4. Reading(x)
    BY <2>2, <2>3 DEF Reading, Sound, NoData
  <2>5. QED BY <2>4, ReadingFit DEF x
<1>6. \A o \in ReadMore(q) : \/ o = Out(0, d) \/ o = Out(-1, q) \/ o = Out(0, e)
                             \/ \E n \in q.pos + 1 .. StreamSize : o = Out(1, [q EXCEPT !.pos = n])
  BY DEF ReadMore
<1> HIDE DEF d, e
<1>7. Good(Out(0, d)) /\ Good(Out(-1, q)) /\ Good(Out(0, e))
  BY <1>1, <1>3, <1>4, GoodOut
<1>8. \A x : Fit(x) => Good(Out(1, x))
  <2>1. \A x : Fit(x) => Sound(x)
    BY DEF Fit
  <2>2. QED BY <2>1, GoodOut
<1>9. QED BY <1>5, <1>6, <1>7, <1>8

(* Reading a header, whatever the client sends.                            *)
LEMMA ReadHeaderGood == ASSUME NEW q, Reading(q) PROVE \A o \in read_header(q) : Good(o)
<1> DEFINE mid == UNION {Scanned(q, p) : p \in q.parse + 1 .. q.pos}
           line == {x \in mid : x.logline}
           R == UNION {Refuse(x) : x \in mid}
           E == UNION {EndOfHeader(x) : x \in line}
           H == UNION {process_header_end(x, "READ_HEADER") : x \in line}
           M == UNION {ReadMore(x) : x \in {y \in mid \cup {q} : y.parse = q.pos}}
<1>1. \A x \in mid : Reading(x)
  BY ScannedReading
<1>2. \A o \in read_header(q) : o \in R \/ o \in Outs(0, line) \/ o \in E \/ o \in H \/ o \in M
  BY DEF read_header
<1> HIDE DEF mid
<1>3. \A o \in R : Good(o)
  BY <1>1, RefuseGood DEF Reading
<1>4. \A x \in line : Reading(x) /\ Sound(x)
  BY <1>1 DEF Reading
<1>5. \A o \in M : Good(o)
  BY <1>1, ReadMoreGood
<1> HIDE DEF line, R, M
<1>6. \A o \in Outs(0, line) : Good(o)
  BY <1>4, GoodOver
<1>7. \A o \in E : Good(o)
  BY <1>4, EndOfHeaderGood
<1>8. \A o \in H : Good(o)
  BY <1>4, HeaderEndGood DEF Reading
<1> HIDE DEF E, H
<1>9. QED BY <1>2, <1>3, <1>5, <1>6, <1>7, <1>8

(* Every status has its handler, and the handler leaves the request fit    *)
(* unless it is over.                                                      *)
LEMMA DispatchGood == ASSUME NEW q, Fit(q) PROVE \A o \in Dispatch(q) : Good(o)
<1>1. Sound(q) /\ q \in Request /\ q.status \in Status
  BY DEF Fit, Sound, Request
<1>2. CASE q.status = "READ_HEADER"
  <2>1. Dispatch(q) = read_header(q)
    BY <1>2 DEF Dispatch, Closing
  <2>2. QED BY <1>2, <2>1, ReadingFit, ReadHeaderGood
<1>3. CASE q.status = "BODY_READ"
  <2>1. Dispatch(q) = read_body(q)
    BY <1>3 DEF Dispatch, Closing
  <2>2. QED BY <1>3, <2>1, ReadBodyGood
<1>4. CASE q.status = "BODY_WRITE"
  <2>1. Dispatch(q) = write_body(q)
    BY <1>4 DEF Dispatch, Closing
  <2>2. QED BY <1>4, <2>1, WriteBodyGood
<1>5. CASE q.status = "WRITE"
  <2>1. Dispatch(q) = process_get(q)
    BY <1>5 DEF Dispatch, Closing
  <2>2. QED BY <1>5, <2>1, ProcessGetGood
<1>6. CASE q.status = "PIPE_READ"
  <2>1. Dispatch(q) = read_from_pipe(q)
    BY <1>6 DEF Dispatch, Closing
  <2>2. QED BY <1>6, <2>1, PipeReadGood
<1>7. CASE q.status = "PIPE_WRITE"
  <2>1. Dispatch(q) = write_from_pipe(q)
    BY <1>7 DEF Dispatch, Closing
  <2>2. QED BY <1>7, <2>1, PipeWriteGood
<1>8. CASE q.status = "IOSHUFFLE"
  <2>1. Dispatch(q) = process_get(q) \cup io_shuffle(q)
    BY <1>8 DEF Dispatch, Closing, io_shuffle_sendfile
  <2>2. QED BY <1>8, <2>1, ProcessGetGood, IoShuffleGood
<1>9. CASE q.status = "DONE"
  <2>1. ASSUME NEW o \in req_flush(q)
        PROVE  Good(IF o.ret = -2 THEN Out(0, Dead(o.q)) ELSE IF o.ret > 0 THEN Out(1, o.q) ELSE o)
    <3>1. /\ o.ret \in Int /\ o.ret >= -2
          /\ Fit(o.q) /\ Sound(o.q) /\ o.q \in Request /\ Sound(Dead(o.q))
      BY <1>1, FlushStays, StaysFit, DeadStays DEF Fit, Sound
    <3>2. Good(Out(0, Dead(o.q))) /\ Good(Out(1, o.q))
      BY <3>1, GoodOut
    <3>3. o.ret # -2 /\ ~(o.ret > 0) => o.ret \in -1 .. 1
      BY <3>1
    <3>4. o.ret \in -1 .. 1 => Good(o)
      BY <3>1 DEF Good
    <3>5. QED BY <3>2, <3>3, <3>4
  <2>2. Dispatch(q) = {IF o.ret = -2 THEN Out(0, Dead(o.q))
                       ELSE IF o.ret > 0 THEN Out(1, o.q) ELSE o : o \in req_flush(q)}
    BY <1>9 DEF Dispatch, Closing
  <2>3. QED BY <2>1, <2>2
<1>10. CASE q.status \in Closing
  <2>1. Dispatch(q) = {Out(0, [SQUASH_KA(q) EXCEPT !.buffer = 0])}
    BY <1>10 DEF Dispatch, Closing
  <2>2. SQUASH_KA(q) \in Request /\ Sound(SQUASH_KA(q)) /\ 0 \in 0 .. BufferSize
    BY <1>1, SquashStays, StaysFit, HandlerNumbers DEF Sound
  <2>3. Sound([SQUASH_KA(q) EXCEPT !.buffer = 0])
    BY <2>2, BufferStays, StaysFit
  <2>4. QED BY <2>1, <2>3, GoodOut
<1>11. QED BY <1>1, <1>2, <1>3, <1>4, <1>5, <1>6, <1>7, <1>8, <1>9, <1>10 DEF Status

(* One turn of a request that is fit leaves it fit, or over.               *)
LEMMA TurnGood == ASSUME NEW q, Fit(q) PROVE \A o \in Turn(q) : Good(o)
<1>1. CASE q.buffer = 0 \/ q.status \in Closing
  BY <1>1, DispatchGood DEF Turn
<1>2. CASE ~(q.buffer = 0 \/ q.status \in Closing)
  <2>1. ASSUME NEW f \in req_flush(q),
               NEW o \in IF f.ret = -2 THEN {Out(0, Dead(f.q))}
                         ELSE IF f.ret = -1 THEN {f} ELSE Dispatch(f.q)
        PROVE  Good(o)
    <3>1. /\ f.ret \in Int /\ f.ret >= -2
          /\ Fit(f.q) /\ Sound(f.q) /\ f.q \in Request /\ Sound(Dead(f.q))
      BY FlushStays, StaysFit, DeadStays DEF Fit, Sound
    <3>2. Good(Out(0, Dead(f.q))) /\ (f.ret = -1 => Good(f))
      BY <3>1, GoodOut DEF Good
    <3>3. QED BY <2>1, <3>1, <3>2, DispatchGood
  <2>2. QED BY <1>2, <2>1 DEF Turn
<1>3. QED BY <1>1, <1>2

-----------------------------------------------------------------------------
(* The clock touches nothing but the idle time.                            *)
LEMMA IdleStays ==
    ASSUME NEW q \in Request, NEW n \in 0 .. RequestTimeout + 1
    PROVE  Stays([q EXCEPT !.idle = n], q)
BY DEF Stays, Same, Request

(* A connection begins with nothing, a kept one with what was read ahead,  *)
(* and a closed one leaves nothing behind.                                 *)
LEMMA NewReading == ASSUME NEW q PROVE Reading(sanitize_request(q, TRUE))
<1> DEFINE p == sanitize_request(q, TRUE)
<1>1. /\ 0 \in 0 .. StreamSize /\ 0 \in 0 .. BufferSize /\ 0 \in 0 .. TransferSteps
      /\ KaMax \in 0 .. KaMax /\ 0 \in 0 .. RequestTimeout + 1
  BY HandlerNumbers
<1>2. p = [status |-> "READ_HEADER", keepalive |-> "INACTIVE", response |-> 0,
           logline |-> FALSE, parse |-> 0, buffer |-> 0, steps |-> 0, owns |-> {},
           kacount |-> KaMax, pos |-> 0, idle |-> 0, lost |-> {}]
  BY DEF sanitize_request
<1> HIDE DEF p
<1>3. "READ_HEADER" \in Status /\ 0 \in Response
  BY DEF Status, Response
<1>4. p \in Request
  BY <1>1, <1>2, <1>3 DEF Request
<1>5. Reading(p)
  BY <1>2, <1>4 DEF Reading, Sound, NoData
<1>6. QED BY <1>5 DEF p

(* A connection that free_request keeps starts its next request afresh.    *)
LEMMA KeptReading ==
    ASSUME NEW q, Sound(q), q.kacount > 0
    PROVE  Reading(KeptOpen(q))
<1> DEFINE s == sanitize_request(Released(q), FALSE)
           p == [s EXCEPT !.kacount = q.kacount - 1]
<1>1. /\ q \in Request /\ q.owns \subseteq Resource /\ q.lost \subseteq Resource \cup {"response"}
      /\ q.pos \in 0 .. StreamSize /\ q.parse \in 0 .. StreamSize /\ q.parse <= q.pos
      /\ q.kacount \in 0 .. KaMax /\ q.kacount > 0 /\ q.idle \in 0 .. RequestTimeout + 1
  BY DEF Sound, Request
<1>2. /\ Released(q).owns = {} /\ Released(q).kacount = q.kacount
      /\ Released(q).pos = q.pos /\ Released(q).parse = q.parse
      /\ Released(q).idle = q.idle /\ Released(q).lost = q.lost
  BY <1>1 DEF Released, Request
<1>3. s = [status |-> "READ_HEADER", keepalive |-> "INACTIVE", response |-> 0,
           logline |-> FALSE, parse |-> 0, buffer |-> 0, steps |-> 0, owns |-> {},
           kacount |-> q.kacount, pos |-> q.pos - q.parse, idle |-> q.idle,
           lost |-> q.lost \cup {}]
  BY <1>2 DEF sanitize_request
<1> HIDE DEF s
<1>4. /\ 0 \in 0 .. StreamSize /\ 0 \in 0 .. BufferSize /\ 0 \in 0 .. TransferSteps
      /\ q.kacount - 1 \in 0 .. KaMax /\ q.pos - q.parse \in 0 .. StreamSize
      /\ 0 <= q.pos - q.parse
  BY <1>1, HandlerNumbers
<1>5. "READ_HEADER" \in Status /\ 0 \in Response /\ q.lost \cup {} = q.lost
  BY DEF Status, Response
<1>6. s \in Request
  BY <1>1, <1>3, <1>4, <1>5 DEF Request
<1>7. /\ p \in Request /\ p.status = "READ_HEADER" /\ p.owns = {} /\ p.lost = q.lost
      /\ p.parse = 0 /\ p.pos = q.pos - q.parse
  <2>2. /\ p \in Request /\ p.status = s.status /\ p.owns = s.owns /\ p.lost = s.lost
        /\ p.parse = s.parse /\ p.pos = s.pos
    BY <1>4, <1>6 DEF Request
  <2> HIDE DEF p
  <2>3. QED BY <1>3, <1>5, <2>2
<1>8. Reading(p)
  <2> HIDE DEF p
  <2>1. QED BY <1>4, <1>7 DEF Reading, Sound, NoData
<1>9. QED BY <1>8 DEF s, KeptOpen

(* A structure that malloc has just handed out.                            *)
LEMMA BlankSound == Sound(Blank)
<1>1. /\ 0 \in 0 .. StreamSize /\ 0 \in 0 .. BufferSize /\ 0 \in 0 .. TransferSteps
      /\ 0 \in 0 .. KaMax /\ 0 \in 0 .. RequestTimeout + 1
      /\ "DEAD" \in Status /\ 0 \in Response
  BY HandlerNumbers DEF Status, Closing, Response
<1>2. Blank \in Request
  BY <1>1 DEF Request, Blank
<1>3. QED BY <1>2 DEF Sound, Blank

(* A structure that free_request puts on the free list has lost nothing.   *)
LEMMA ClosedSound == ASSUME NEW q, Sound(q) PROVE Sound(Closed(q))
<1> DEFINE L == q.lost \cup Released(q).owns
           p == [Blank EXCEPT !.lost = L]
<1>1. L = q.lost
  BY DEF Released, Sound, Request
<1>2. L \subseteq Resource \cup {"response"} /\ L \cap Held = {}
  BY <1>1 DEF Sound, Request
<1>3. p = Closed(q)
  BY DEF Closed
<1> HIDE DEF L
<1>4. p \in Request /\ p.parse = Blank.parse /\ p.pos = Blank.pos /\ p.lost = L
  BY <1>2, BlankSound DEF Sound, Request
<1> HIDE DEF p
<1>5. Sound(p)
  BY <1>2, <1>4, BlankSound DEF Sound
<1>6. QED BY <1>3, <1>5

(* The flush in free_request loses at most bytes of the response.          *)
LEMMA FinalFlushSound ==
    ASSUME NEW q, Sound(q)
    PROVE  \A o \in FinalFlush(q) : Sound(o.q) /\ (o.ret = 1 => Fit(o.q))
<1>1. q \in Request
  BY DEF Sound
<1>2. CASE q.buffer = 0 \/ q.status \in Closing
  BY <1>2 DEF FinalFlush, Out
<1>3. CASE ~(q.buffer = 0 \/ q.status \in Closing)
  <2> DEFINE d == [q EXCEPT !.status = "DONE"]
             L(o) == [o.q EXCEPT !.lost = IF o.ret = -1 THEN @ \cup {"response"} ELSE @]
             R(o) == IF o.ret = -2 THEN Out(0, Dead(o.q))
                     ELSE IF o.ret > 0 THEN Out(1, o.q) ELSE Out(0, L(o))
  <2>1. Fit(d) /\ d \in Request
    BY DoneFit DEF Fit, Sound
  <2>2. FinalFlush(q) = {R(o) : o \in req_flush(d)}
    BY <1>3 DEF FinalFlush
  <2> HIDE DEF d
  <2>3. ASSUME NEW o \in req_flush(d) PROVE Sound(R(o).q) /\ (R(o).ret = 1 => Fit(R(o).q))
    <3>1. Stays(o.q, d) /\ Fit(o.q) /\ Sound(o.q) /\ o.q \in Request
      BY <2>1, FlushStays, StaysFit DEF Fit, Sound
    <3>2. Sound(Dead(o.q))
      BY <3>1, DeadStays, StaysFit
    <3>3. Sound(L(o))
      <4>1. ASSUME NEW x, Sound(x) PROVE Sound([x EXCEPT !.lost = x.lost \cup {"response"}])
        BY <4>1 DEF Sound, Request, Held
      <4>2. ASSUME NEW x, Sound(x) PROVE Sound([x EXCEPT !.lost = x.lost])
        BY <4>2 DEF Sound, Request
      <4>3. QED BY <3>1, <4>1, <4>2
    <3> HIDE DEF L
    <3>4. QED BY <3>1, <3>2, <3>3 DEF Out
  <2> HIDE DEF R
  <2>4. QED BY <2>2, <2>3
<1>4. QED BY <1>2, <1>3

-----------------------------------------------------------------------------
(* The loop's own variables have their types.                              *)
ControlInv ==
    /\ pc \in {"top", "poll", "inpoll", "update", "entry", "handle", "accept",
               "dispose", "exit"}
    /\ max_connections \in MaxConns
    /\ sighup_flag \in BOOLEAN
    /\ sigterm_flag \in 0 .. 2
    /\ restarts \in 0 .. Restarts

(* The connections in use, those waiting and those still to come are never *)
(* more than all of them.                                                  *)
ArrivalInv ==
    /\ backlog \in Nat /\ arrivals \in Nat /\ total_connections \in Nat
    /\ total_connections + backlog + arrivals <= Arrivals

(* ControlInv holds in every state.                                        *)
LEMMA ControlInvariant == Spec => []ControlInv
<1>0. Restarts \in Nat
  BY ServerAssumption
<1>1. Init => ControlInv
  <2> SUFFICES ASSUME Init PROVE ControlInv
    OBVIOUS
  <2>1. 0 \in 0 .. 2 /\ Restarts \in 0 .. Restarts
    BY <1>0
  <2>2. QED BY <2>1 DEF Init, ControlInv
<1>2. ControlInv /\ [Next]_vars => ControlInv'
  <2> SUFFICES ASSUME ControlInv, [Next]_vars PROVE ControlInv'
    OBVIOUS
  <2>1. CASE LoopTop
    <3>1. /\ pc' \in {"exit", "poll", "entry"} /\ max_connections' \in MaxConns
          /\ sighup_flag' = FALSE /\ restarts' = restarts
      BY <2>1 DEF LoopTop, sighup_run, env, ControlInv
    <3>2. sigterm_flag' \in 0 .. 2
      BY <2>1 DEF LoopTop, sigterm_stage1_run
    <3>3. QED BY <3>1, <3>2 DEF ControlInv
  <2>2. CASE CallPoll
    BY <2>2 DEF CallPoll, limits, signals, env, ControlInv
  <2>3. CASE PollReturn
    BY <2>3 DEF PollReturn, limits, signals, env, ControlInv
  <2>4. CASE update_blocked
    BY <2>4 DEF update_blocked, limits, signals, env, ControlInv
  <2>5. CASE EnterProcess
    BY <2>5 DEF EnterProcess, signals, ControlInv
  <2>6. CASE Handle
    BY <2>6 DEF Handle, limits, signals, env, ControlInv
  <2>7. CASE AcceptMore
    BY <2>7 DEF AcceptMore, signals, ControlInv
  <2>8. CASE Dispose
    BY <2>8 DEF Dispose, signals, env, ControlInv
  <2>9. CASE Connect \/ Tick
    BY <2>9 DEF Connect, Tick, limits, signals, env, ControlInv
  <2>10. CASE SigTerm
    <3>1. /\ pc' = Interrupted /\ sigterm_flag' = 1
          /\ UNCHANGED <<max_connections, sighup_flag, restarts>>
      BY <2>10 DEF SigTerm, limits, env
    <3>2. QED BY <3>1 DEF ControlInv, Interrupted
  <2>11. CASE SigHup
    <3>1. /\ pc' = Interrupted /\ sighup_flag' = TRUE /\ restarts > 0 /\ restarts' = restarts - 1
          /\ UNCHANGED <<max_connections, sigterm_flag>>
      BY <2>11 DEF SigHup, limits
    <3>2. restarts' \in 0 .. Restarts
      BY <1>0, <3>1 DEF ControlInv
    <3>3. pc' \in {"top", "poll", "inpoll", "update", "entry", "handle", "accept",
                   "dispose", "exit"}
      BY <3>1 DEF ControlInv, Interrupted
    <3>4. QED BY <3>1, <3>2, <3>3 DEF ControlInv
  <2>12. CASE UNCHANGED vars
    BY <2>12 DEF vars, limits, signals, env, ControlInv
  <2>13. QED BY <2>1, <2>2, <2>3, <2>4, <2>5, <2>6, <2>7, <2>8, <2>9, <2>10, <2>11, <2>12
             DEF Next, Loop
<1>3. QED BY <1>1, <1>2, PTL DEF Spec

(* get_request takes at most one connection off the backlog, and counts it *)
(* only then.                                                              *)
LEMMA GetRequestArrivals ==
    ASSUME ArrivalInv, get_request, arrivals' = arrivals
    PROVE  ArrivalInv'
<1>1. /\ backlog \in Nat /\ arrivals \in Nat /\ total_connections \in Nat
      /\ total_connections + backlog + arrivals <= Arrivals /\ Arrivals \in Nat
  BY ServerAssumption DEF ArrivalInv
<1>2. \/ backlog' = backlog /\ total_connections' = total_connections
      \/ backlog > 0 /\ backlog' = backlog - 1
         /\ total_connections' \in {total_connections, total_connections + 1}
  <2>1. CASE AcceptFails
    BY <1>1, <2>1 DEF AcceptFails
  <2>2. CASE AcceptDropped
    BY <2>2 DEF AcceptDropped
  <2>3. ASSUME NEW r \in Requests, AcceptFreed(r) \/ Accepted(r)
        PROVE  backlog > 0 /\ backlog' = backlog - 1
               /\ total_connections' \in {total_connections, total_connections + 1}
    BY <2>3 DEF AcceptFreed, Accepted
  <2>4. QED BY <2>1, <2>2, <2>3 DEF get_request
<1>3. QED BY <1>1, <1>2 DEF ArrivalInv

(* ArrivalInv holds in every state; that total_connections does not go     *)
(* below zero is the accounting of the lists.                              *)
LEMMA ArrivalInvariant == Spec => []ArrivalInv
<1>1. Init => ArrivalInv
  BY ServerAssumption DEF Init, ArrivalInv
<1>2. ArrivalInv /\ ListInv' /\ [Next]_vars => ArrivalInv'
  <2> SUFFICES ASSUME ArrivalInv, ListInv', [Next]_vars PROVE ArrivalInv'
    OBVIOUS
  <2>1. CASE LoopTop \/ CallPoll \/ PollReturn \/ update_blocked \/ Handle \/ Tick \/ SigTerm \/ SigHup
    BY <2>1 DEF LoopTop, CallPoll, PollReturn, update_blocked, Handle, Tick, SigTerm, SigHup,
                env, limits, ArrivalInv
  <2>2. CASE EnterProcess
    <3>1. /\ arrivals' = arrivals
          /\ get_request \/ UNCHANGED <<backlog, total_connections>>
      BY <2>2 DEF EnterProcess
    <3>2. CASE get_request
      BY <3>1, <3>2, GetRequestArrivals
    <3>3. CASE UNCHANGED <<backlog, total_connections>>
      BY <3>1, <3>3 DEF ArrivalInv
    <3>4. QED BY <3>1, <3>2, <3>3
  <2>3. CASE AcceptMore
    BY <2>3, GetRequestArrivals DEF AcceptMore
  <2>4. CASE Dispose
    <3>1. /\ UNCHANGED <<backlog, arrivals>>
          /\ total_connections' \in {total_connections, total_connections - 1}
      BY <2>4 DEF Dispose, free_request, env
    <3>2. total_connections' \in Nat
      BY DEF ListInv, Accounting, ListsTyped
    <3>3. QED BY <3>1, <3>2, ServerAssumption DEF ArrivalInv
  <2>5. CASE Connect
    <3>1. /\ arrivals > 0 /\ arrivals' = arrivals - 1 /\ backlog' = backlog + 1
          /\ total_connections' = total_connections
      BY <2>5 DEF Connect, limits
    <3>2. QED BY <3>1, ServerAssumption DEF ArrivalInv
  <2>6. CASE UNCHANGED vars
    BY <2>6 DEF vars, env, limits, ArrivalInv
  <2>7. QED BY <2>1, <2>2, <2>3, <2>4, <2>5, <2>6 DEF Next, Loop
<1>3. QED BY <1>1, <1>2, ListInvariant, PTL DEF Spec

-----------------------------------------------------------------------------
(* The turn of r has ended with nothing more to do; free_request comes     *)
(* next.                                                                   *)
TurnOver(r) == pc \in {"accept", "dispose"} /\ current = r /\ retval = 0

InUse == Elems(ready) \cup Elems(block)

(* The inductive invariant of the requests: every structure is sound, and  *)
(* every one in use is fit for the handler of its status, but for the one  *)
(* that is about to be freed.                                              *)
RequestInv ==
    /\ retval \in -1 .. 1
    /\ req \in [Requests -> Request]
    /\ current \in Requests \cup {NULL}
    /\ \A r \in Requests : Sound(req[r])
    /\ \A r \in InUse : TurnOver(r) \/ Fit(req[r])

(* A structure that is on a list is one of malloc's.                       *)
LEMMA InUseRequests == ASSUME ListInv PROVE InUse \subseteq Requests
BY DEF ListInv, ListsTyped, InUse, Elems

(* A step that leaves the requests alone, and no turn half done.           *)
LEMMA RequestsKept ==
    ASSUME RequestInv, UNCHANGED <<retval, req, ready, block>>,
           current' \in Requests \cup {NULL},
           pc \notin {"accept", "dispose"} \/ UNCHANGED <<pc, current>>
    PROVE  RequestInv'
<1>1. \A r \in InUse : TurnOver(r)' \/ Fit(req[r])
  BY DEF RequestInv, TurnOver
<1>2. InUse' = InUse
  BY DEF InUse
<1>3. QED BY <1>1, <1>2 DEF RequestInv

(* One request changes to a sound one, and is fit unless its turn is over; *)
(* the structures in use are no more than before, and perhaps that one.    *)
LEMMA RequestChanged ==
    ASSUME RequestInv, ListInv, NEW c \in Requests, NEW q,
           req' = [req EXCEPT ![c] = q], Sound(q),
           InUse' \subseteq InUse \cup {c},
           c \in InUse' => TurnOver(c)' \/ Fit(q),
           \A r \in InUse \ {c} : TurnOver(r) => TurnOver(r)',
           retval' \in -1 .. 1, current' \in Requests \cup {NULL}
    PROVE  RequestInv'
<1>1. q \in Request
  BY DEF Sound
<1>2. /\ req' \in [Requests -> Request] /\ req'[c] = q
      /\ \A r \in Requests \ {c} : req'[r] = req[r]
  BY <1>1 DEF RequestInv
<1>3. \A r \in Requests : Sound(req'[r])
  BY <1>2 DEF RequestInv
<1>4. ASSUME NEW r \in InUse' PROVE TurnOver(r)' \/ Fit(req'[r])
  <2>1. CASE r = c
    BY <1>2, <1>4, <2>1
  <2>2. CASE r # c
    <3>1. r \in InUse \ {c} /\ r \in Requests
      BY <2>2, InUseRequests
    <3>2. QED BY <1>2, <3>1 DEF RequestInv
  <2>3. QED BY <2>1, <2>2
<1>5. QED BY <1>2, <1>3, <1>4 DEF RequestInv

(* get_request: a new connection is fit, and the other requests are not    *)
(* touched.                                                                *)
LEMMA GetRequestFit ==
    ASSUME RequestInv, ListInv, get_request, block' = block, retval' = retval,
           current' \in Requests \cup {NULL},
           \A r \in InUse : TurnOver(r) => TurnOver(r)'
    PROVE  RequestInv'
<1>1. CASE UNCHANGED <<ready, req>>
  <2>1. InUse' = InUse
    BY <1>1 DEF InUse
  <2>2. \A r \in InUse : TurnOver(r)' \/ Fit(req[r])
    BY DEF RequestInv
  <2>3. QED BY <1>1, <2>1, <2>2 DEF RequestInv
<1>2. ASSUME NEW r \in Requests, Accepted(r) PROVE RequestInv'
  <2> DEFINE conn == sanitize_request(req[r], TRUE)
  <2>1. PICK q : /\ req' = [req EXCEPT ![r] = q]
                 /\ \/ q = conn
                    \/ \E x \in send_r(conn, 500) : q = [x EXCEPT !.status = "DONE"]
    <3> DEFINE over == total_connections + 1 > max_connections
               Q == {[x EXCEPT !.status = "DONE"] : x \in send_r(conn, 500)}
    <3>1. \E q \in IF over THEN Q ELSE {conn} : req' = [req EXCEPT ![r] = q]
      BY <1>2 DEF Accepted
    <3> HIDE DEF over, conn
    <3>2. QED BY <3>1, ZenonT(60)
  <2>2. Reading(conn)
    BY NewReading
  <2>3. Fit(q)
    <3>1. Fit(conn) /\ Sound(conn) /\ conn \in Request
      BY <2>2, ReadingFit DEF Reading, Sound
    <3>2. 500 \in Response
      BY DEF Response
    <3> HIDE DEF conn
    <3>3. \A x \in send_r(conn, 500) : Fit([x EXCEPT !.status = "DONE"])
      <4> SUFFICES ASSUME NEW x \in send_r(conn, 500)
                   PROVE  Fit([x EXCEPT !.status = "DONE"])
        OBVIOUS
      <4>1. Stays(x, conn)
        BY <3>1, <3>2, SendStays
      <4>2. Sound(x)
        BY <3>1, <4>1, StaysFit
      <4>3. QED BY <4>2, DoneFit
    <3>4. QED BY <2>1, <3>1, <3>3
  <2>4. InUse' \subseteq InUse \cup {r}
    <3>1. ready' = Push(ready, r) /\ ready \in Seq(Requests)
      BY <1>2 DEF Accepted, ListInv, ListsTyped
    <3>2. Elems(ready') = Elems(ready) \cup {r}
      BY <3>1, PushElems
    <3>3. QED BY <3>2 DEF InUse
  <2>5. Sound(q)
    BY <2>3 DEF Fit
  <2>6. retval' \in -1 .. 1
    BY DEF RequestInv
  <2>7. QED BY <2>1, <2>3, <2>4, <2>5, <2>6, RequestChanged
<1>3. QED BY <1>1, <1>2 DEF get_request, AcceptFails, AcceptDropped, AcceptFreed

(* A turn.                                                                 *)
LEMMA HandleRequests == ASSUME RequestInv, ListInv, Handle PROVE RequestInv'
<1>1. /\ pc = "handle" /\ current' = current /\ UNCHANGED <<ready, block>>
      /\ pc' \in {"accept", "dispose"}
  BY DEF Handle, lists
<1>2. PICK c \in Requests : c = current
  BY <1>1, InUseRequests DEF ListInv, CursorOnList, InUse
<1>3. c \in InUse /\ Fit(req[c])
  BY <1>1, <1>2 DEF ListInv, CursorOnList, InUse, RequestInv, TurnOver
<1>4. PICK o \in Turn(req[c]) :
         /\ retval' = o.ret
         /\ req' = [req EXCEPT ![c] = IF sigterm_flag # 0 THEN SQUASH_KA(o.q) ELSE o.q]
  BY <1>2 DEF Handle
<1> DEFINE q == IF sigterm_flag # 0 THEN SQUASH_KA(o.q) ELSE o.q
<1>5. Good(o)
  BY <1>3, <1>4, TurnGood
<1>6. Sound(q) /\ (o.ret # 0 => Fit(q))
  <2>1. Stays(SQUASH_KA(o.q), o.q)
    BY <1>5, SquashStays DEF Good, Sound
  <2>2. QED BY <1>5, <2>1, StaysFit DEF Good
<1>7. PICK p : p = q
  OBVIOUS
<1>8. req' = [req EXCEPT ![c] = p] /\ Sound(p)
  BY <1>4, <1>6, <1>7
<1>9. TurnOver(c)' \/ Fit(p)
  BY <1>1, <1>2, <1>4, <1>6, <1>7 DEF TurnOver
<1>10. InUse' = InUse
  BY <1>1 DEF InUse
<1>11. /\ \A r \in InUse : ~TurnOver(r)
       /\ retval' \in -1 .. 1
       /\ current' \in Requests \cup {NULL}
  BY <1>1, <1>2, <1>4, <1>5 DEF TurnOver, Good
<1>12. QED BY <1>8, <1>9, <1>10, <1>11, RequestChanged

(* What becomes of a request after its turn: blocked or ready it is fit    *)
(* for its next turn; when it is over it is closed, or its connection is   *)
(* kept and starts with nothing of the old request.                        *)
LEMMA DisposeRequests == ASSUME RequestInv, ListInv, Dispose PROVE RequestInv'
<1>1. /\ pc = "dispose" /\ pc' \in {"top", "handle"} /\ retval' = 1
      /\ current' = After(ready, current)
  BY DEF Dispose
<1>2. PICK c \in Requests : c = current
  BY <1>1, InUseRequests DEF ListInv, CursorOnList, InUse
<1>3. /\ c \in Elems(ready) /\ c \in InUse
      /\ ready \in Seq(Requests) /\ block \in Seq(Requests) /\ Distinct(ready)
  BY <1>1, <1>2 DEF ListInv, CursorOnList, InUse, ListsTyped, ListsSeparate
<1>4. current' \in Requests \cup {NULL}
  BY <1>1, <1>2, <1>3, AfterOnList, InUseRequests DEF InUse
<1>5. (\A r : ~TurnOver(r)') /\ (\A r \in InUse \ {c} : ~TurnOver(r)) /\ retval' \in -1 .. 1
  BY <1>1, <1>2 DEF TurnOver
<1>6. retval # 0 => Fit(req[c])
  BY <1>2, <1>3 DEF RequestInv, TurnOver
<1> DEFINE touched == [req[c] EXCEPT !.idle = 0]
<1>7. /\ req[c] \in Request /\ Sound(req[c]) /\ Stays(touched, req[c]) /\ Sound(touched)
      /\ (Fit(req[c]) => Fit(touched))
  <2>1. 0 \in 0 .. RequestTimeout + 1
    BY HandlerNumbers
  <2>2. req[c] \in Request /\ Sound(req[c])
    BY DEF RequestInv
  <2>3. QED BY <2>1, <2>2, IdleStays, StaysFit
<1>8. ASSUME UNCHANGED <<ready, block>> PROVE InUse' = InUse
  BY <1>8 DEF InUse
<1>9. ASSUME ready' = Remove(ready, c), block' = Push(block, c) PROVE InUse' = InUse
  <2>1. Elems(ready') = Elems(ready) \ {c} /\ Elems(block') = Elems(block) \cup {c}
    BY <1>3, <1>9, RemoveElems, PushElems
  <2>2. QED BY <1>3, <2>1 DEF InUse
<1>10. ASSUME ready' = Remove(ready, c), block' = block PROVE InUse' = InUse \ {c}
  <2>1. Elems(ready') = Elems(ready) \ {c}
    BY <1>3, <1>10, RemoveElems
  <2>2. c \notin Elems(block)
    BY <1>3 DEF ListInv, ListsSeparate
  <2>3. QED BY <1>10, <2>1, <2>2 DEF InUse
<1>11. CASE retval = -1
  <2>1. UNCHANGED req /\ ready' = Remove(ready, c) /\ block' = Push(block, c)
    BY <1>2, <1>11 DEF Dispose
  <2>2. InUse' = InUse
    BY <1>9, <2>1
  <2>3. \A r \in InUse : Fit(req[r])
    BY <1>5, <1>6, <1>11 DEF RequestInv
  <2>4. QED BY <1>4, <1>5, <2>1, <2>2, <2>3 DEF RequestInv
<1>12. CASE retval = 1
  <2>1. req' = [req EXCEPT ![c] = touched] /\ UNCHANGED <<ready, block>>
    BY <1>2, <1>12 DEF Dispose, lists
  <2>2. PICK q : q = touched
    OBVIOUS
  <2>3. Sound(q) /\ Fit(q) /\ req' = [req EXCEPT ![c] = q]
    BY <1>6, <1>7, <1>12, <2>1, <2>2
  <2>4. InUse' = InUse
    BY <1>8, <2>1
  <2>5. QED BY <1>4, <1>5, <2>3, <2>4, RequestChanged
<1>13. CASE retval = 0
  <2>1. free_request(c, touched)
    BY <1>2, <1>13 DEF Dispose
  <2> HIDE DEF touched
  <2>2. PICK o \in FinalFlush(touched) :
          \/ /\ o.ret = 1
             /\ req' = [req EXCEPT ![c] = o.q]
             /\ UNCHANGED <<lists, total_connections>>
          \/ /\ o.ret = 0 /\ KeepAlive(o.q)
             /\ req' = [req EXCEPT ![c] = KeptOpen(o.q)]
             /\ ready' = Remove(ready, c) /\ block' = Push(block, c)
          \/ /\ o.ret = 0 /\ ~KeepAlive(o.q)
             /\ req' = [req EXCEPT ![c] = Closed(o.q)]
             /\ ready' = Remove(ready, c) /\ block' = block
    BY <2>1 DEF free_request
  <2>3. Sound(o.q) /\ (o.ret = 1 => Fit(o.q))
    BY <1>7, <2>2, FinalFlushSound
  <2>4. CASE o.ret = 1
    <3>1. PICK q : q = o.q
      OBVIOUS
    <3>2. Sound(q) /\ Fit(q) /\ req' = [req EXCEPT ![c] = q] /\ UNCHANGED <<ready, block>>
      BY <2>2, <2>3, <2>4, <3>1 DEF lists
    <3>3. InUse' = InUse
      BY <1>8, <3>2
    <3>4. QED BY <1>4, <1>5, <3>2, <3>3, RequestChanged
  <2>5. CASE o.ret = 0 /\ KeepAlive(o.q)
    <3>1. PICK q : q = KeptOpen(o.q)
      OBVIOUS
    <3>2. Reading(q)
      BY <2>3, <2>5, <3>1, KeptReading DEF KeepAlive
    <3>3. Sound(q) /\ Fit(q)
      BY <3>2, ReadingFit DEF Reading
    <3>4. req' = [req EXCEPT ![c] = q] /\ ready' = Remove(ready, c) /\ block' = Push(block, c)
      BY <2>2, <2>5, <3>1
    <3>5. InUse' = InUse
      BY <1>9, <3>4
    <3>6. QED BY <1>4, <1>5, <3>3, <3>4, <3>5, RequestChanged
  <2>6. CASE o.ret = 0 /\ ~KeepAlive(o.q)
    <3>1. PICK q : q = Closed(o.q)
      OBVIOUS
    <3>2. req' = [req EXCEPT ![c] = q] /\ ready' = Remove(ready, c) /\ block' = block
      BY <2>2, <2>6, <3>1
    <3>3. Sound(q)
      BY <2>3, <3>1, ClosedSound
    <3>4. InUse' = InUse \ {c}
      BY <1>10, <3>2
    <3>5. QED BY <1>4, <1>5, <3>2, <3>3, <3>4, RequestChanged
  <2>7. QED BY <2>2, <2>4, <2>5, <2>6
<1>14. QED BY <1>11, <1>12, <1>13 DEF RequestInv

(* update_blocked: a request that leaves the block list is as it was, or   *)
(* dead, or timed out.                                                     *)
LEMMA UpdateBlockedRequests == ASSUME RequestInv, ListInv, update_blocked PROVE RequestInv'
<1>1. pc = "update" /\ retval' = retval /\ current' = After(block, current)
  BY DEF update_blocked
<1>2. PICK c \in Requests : c = current
  BY <1>1, InUseRequests DEF ListInv, CursorOnList, InUse
<1>3. /\ c \in Elems(block) /\ c \in InUse
      /\ ready \in Seq(Requests) /\ block \in Seq(Requests) /\ Distinct(block)
  BY <1>1, <1>2 DEF ListInv, CursorOnList, InUse, ListsTyped, ListsSeparate
<1>4. current' \in Requests \cup {NULL}
  BY <1>1, <1>2, <1>3, AfterOnList, InUseRequests DEF InUse
<1>5. Fit(req[c])
  BY <1>1, <1>3 DEF RequestInv, TurnOver
<1>6. CASE UNCHANGED <<ready, block, req>>
  BY <1>1, <1>4, <1>6, RequestsKept
<1>7. CASE /\ \E q \in Unblocked(req[c]) : req' = [req EXCEPT ![c] = q]
           /\ block' = Remove(block, c)
           /\ ready' = Push(ready, c)
  <2>1. PICK q \in Unblocked(req[c]) : req' = [req EXCEPT ![c] = q]
    BY <1>7
  <2>2. Fit(q) /\ Sound(q)
    <3>1. req[c] \in Request /\ Sound(req[c])
      BY <1>5 DEF Fit, Sound
    <3>2. q = Dead(req[c]) \/ q = req[c] \/ q = [req[c] EXCEPT !.status = "TIMED_OUT"]
      BY <2>1 DEF Unblocked
    <3>3. Fit(Dead(req[c]))
      BY <1>5, <3>1, DeadStays, StaysFit
    <3>4. Fit([req[c] EXCEPT !.status = "TIMED_OUT"])
      <4>1. "TIMED_OUT" \in Status
        BY DEF Status, Closing
      <4>2. QED BY <3>1, <4>1, SetStatus, OverFit DEF Over
    <3>5. Fit(q)
      BY <1>5, <3>2, <3>3, <3>4
    <3>6. QED BY <3>5 DEF Fit
  <2>3. InUse' = InUse
    <3>1. Elems(block') = Elems(block) \ {c} /\ Elems(ready') = Elems(ready) \cup {c}
      BY <1>3, <1>7, RemoveElems, PushElems
    <3>2. QED BY <1>3, <3>1 DEF InUse
  <2>4. (\A r : ~TurnOver(r)) /\ retval' \in -1 .. 1
    BY <1>1 DEF TurnOver, RequestInv
  <2>5. QED BY <1>4, <2>1, <2>2, <2>3, <2>4, RequestChanged
<1>8. QED BY <1>2, <1>6, <1>7 DEF update_blocked

(* The clock makes no request unfit.                                       *)
LEMMA TickRequests == ASSUME RequestInv, ListInv, Tick PROVE RequestInv'
<1>1. /\ pc \notin {"accept", "dispose"} /\ UNCHANGED <<pc, ready, block, current, retval>>
      /\ req' = [r \in Requests |->
                   IF r \in InUse /\ req[r].idle <= RequestTimeout
                   THEN [req[r] EXCEPT !.idle = @ + 1] ELSE req[r]]
  BY DEF Tick, lists, InUse
<1>2. ASSUME NEW r \in Requests PROVE Stays(req'[r], req[r])
  <2>1. req[r] \in Request /\ req[r].idle \in 0 .. RequestTimeout + 1
    BY DEF RequestInv, Request
  <2>2. CASE r \in InUse /\ req[r].idle <= RequestTimeout
    <3>1. req[r].idle + 1 \in 0 .. RequestTimeout + 1
      BY <2>1, <2>2, HandlerNumbers
    <3>2. req'[r] = [req[r] EXCEPT !.idle = req[r].idle + 1]
      BY <1>1, <2>2
    <3>3. QED BY <2>1, <3>1, <3>2, IdleStays
  <2>3. CASE ~(r \in InUse /\ req[r].idle <= RequestTimeout)
    BY <1>1, <2>1, <2>3, DeadStays
  <2>4. QED BY <2>2, <2>3
<1>3. \A r \in Requests : Sound(req'[r]) /\ req'[r] \in Request
  BY <1>2, StaysFit DEF RequestInv, Sound
<1>4. \A r \in InUse : Fit(req'[r])
  BY <1>1, <1>2, InUseRequests, StaysFit DEF RequestInv, TurnOver
<1>5. InUse' = InUse
  BY <1>1 DEF InUse
<1>6. req' \in [Requests -> Request]
  BY <1>1, <1>3
<1>7. QED BY <1>1, <1>3, <1>4, <1>5, <1>6 DEF RequestInv

(* RequestInv holds in every state.                                        *)
LEMMA RequestInvariant == Spec => []RequestInv
<1>1. Init => RequestInv
  <2> SUFFICES ASSUME Init PROVE RequestInv
    OBVIOUS
  <2>1. /\ ready = <<>> /\ block = <<>> /\ current = NULL /\ retval = 1
        /\ req = [r \in Requests |-> Blank]
    BY DEF Init
  <2>2. InUse = {}
    BY <2>1 DEF InUse, Elems
  <2>3. Blank \in Request
    BY BlankSound DEF Sound
  <2>4. QED BY <2>1, <2>2, <2>3, BlankSound DEF RequestInv
<1>2. RequestInv /\ ListInv /\ [Next]_vars => RequestInv'
  <2> SUFFICES ASSUME RequestInv, ListInv, [Next]_vars PROVE RequestInv'
    OBVIOUS
  <2>1. CASE LoopTop \/ CallPoll
    <3>1. /\ UNCHANGED <<retval, req, ready, block, current>>
          /\ pc \notin {"accept", "dispose"}
      BY <2>1 DEF LoopTop, CallPoll, lists
    <3>2. QED BY <3>1, RequestsKept DEF RequestInv
  <2>2. CASE PollReturn
    <3>1. /\ UNCHANGED <<retval, req, ready, block>> /\ pc = "inpoll"
          /\ current' = First(block)
      BY <2>2 DEF PollReturn, lists
    <3>2. First(block) \in Requests \cup {NULL}
      BY FirstOnList, NullAssumption, InUseRequests DEF InUse, ListInv, ListsTyped
    <3>3. QED BY <3>1, <3>2, RequestsKept
  <2>3. CASE update_blocked
    BY <2>3, UpdateBlockedRequests
  <2>4. CASE EnterProcess
    <3>1. /\ pc = "entry" /\ block' = block /\ retval' = retval /\ current' = First(ready')
          /\ get_request \/ UNCHANGED <<ready, free, req, total_connections>>
      BY <2>4 DEF EnterProcess
    <3>2. ready' \in Seq(Requests)
      <4>1. CASE get_request
        BY <3>1, <4>1, GetRequestLists DEF ListInv, ListsTyped
      <4>2. CASE UNCHANGED <<ready, free, req, total_connections>>
        BY <4>2 DEF ListInv, ListsTyped
      <4>3. QED BY <3>1, <4>1, <4>2
    <3>3. current' \in Requests \cup {NULL}
      BY <3>1, <3>2, FirstOnList, NullAssumption DEF Elems
    <3>4. CASE get_request
      BY <3>1, <3>3, <3>4, GetRequestFit DEF TurnOver
    <3>5. CASE UNCHANGED <<ready, free, req, total_connections>>
      BY <3>1, <3>3, <3>5, RequestsKept
    <3>6. QED BY <3>1, <3>4, <3>5
  <2>5. CASE Handle
    BY <2>5, HandleRequests
  <2>6. CASE AcceptMore
    <3>1. /\ get_request /\ UNCHANGED <<block, retval, current>>
          /\ pc = "accept" /\ pc' = "dispose"
      BY <2>6 DEF AcceptMore
    <3>2. \A r \in InUse : TurnOver(r) => TurnOver(r)'
      BY <3>1 DEF TurnOver
    <3>3. current' \in Requests \cup {NULL}
      BY <3>1 DEF RequestInv
    <3>4. QED BY <3>1, <3>2, <3>3, GetRequestFit
  <2>7. CASE Dispose
    BY <2>7, DisposeRequests
  <2>8. CASE Tick
    BY <2>8, TickRequests
  <2>9. CASE Connect \/ SigTerm \/ SigHup \/ UNCHANGED vars
    <3>1. /\ UNCHANGED <<retval, req, ready, block, current>>
          /\ pc' = pc \/ pc = "inpoll"
      BY <2>9 DEF Connect, SigTerm, SigHup, Interrupted, vars, lists
    <3>2. QED BY <3>1, RequestsKept DEF RequestInv
  <2>10. QED BY <2>1, <2>2, <2>3, <2>4, <2>5, <2>6, <2>7, <2>8, <2>9 DEF Next, Loop
<1>3. QED BY <1>1, <1>2, ListInvariant, PTL DEF Spec

(* Whatever the clients, the files, the CGI programs and the kernel do,    *)
(* with any number of connections and any buffer sizes: a handler finds    *)
(* what it dereferences, every variable has its type, and no descriptor of *)
(* a file or pipe, no mapping and no range is leaked.                      *)
THEOREM RequestsCorrect == Spec => [](HandlersEquipped /\ NoLeak)
<1>1. ListInv /\ LimitInv /\ ControlInv /\ ArrivalInv /\ RequestInv => HandlersEquipped /\ NoLeak
  <2> SUFFICES ASSUME ListInv, LimitInv, ControlInv, ArrivalInv, RequestInv
               PROVE  HandlersEquipped /\ NoLeak
    OBVIOUS
  <2>1. {pending_requests, watch_server, sighup_flag} \subseteq BOOLEAN
    BY DEF LimitInv, ControlInv
  <2>2. /\ total_connections \in 0 .. Arrivals
        /\ {backlog, arrivals} \subseteq 0 .. Arrivals
    BY ServerAssumption DEF ArrivalInv
  <2>3. {ready, block, free} \subseteq Seq(Requests)
    BY DEF ListInv, ListsTyped
  <2>4. TypeOK
    BY <2>1, <2>2, <2>3 DEF TypeOK, ControlInv, RequestInv
  <2>5. NoLeak
    BY DEF NoLeak, RequestInv, Sound, Held
  <2>6. ASSUME NEW r \in Elems(ready) \cup Elems(block),
               ~(pc \in {"accept", "dispose"} /\ current = r)
        PROVE  Fit(req[r])
    BY <2>6 DEF RequestInv, InUse, TurnOver
  <2>7. HandlersEquipped
    BY <2>4, <2>6 DEF HandlersEquipped, Fit
  <2>8. QED BY <2>5, <2>7
<1>2. QED BY <1>1, ListInvariant, LimitInvariant, ControlInvariant, ArrivalInvariant,
             RequestInvariant, PTL

(* For every limit, every change of the limit by SIGHUP and every order of *)
(* arrivals: a connection taken without room for it is one over the limit, *)
(* has had its answer, and is the last of its pass.                        *)
THEOREM LimitRespected == Spec => AcceptWithinLimit
<1> DEFINE New == Elems(ready') \ (Elems(ready) \cup Elems(block))
           Refused(r) == /\ total_connections = max_connections
                         /\ req'[r].status = "DONE"
                         /\ ~pending_requests'
           Within == \A r \in New : total_connections >= max_connections => Refused(r)
<1>1. LimitInv /\ ListInv /\ RequestInv /\ [Next]_vars => [Within]_vars
  <2> SUFFICES ASSUME LimitInv, ListInv, RequestInv, Next PROVE Within
    BY Zenon
  <2>1. ASSUME get_request, total_connections <= max_connections PROVE Within
    <3>1. CASE \E x \in Requests : Accepted(x)
      <4>1. PICK x \in Requests : Accepted(x)
        BY <3>1
      <4>2. New \subseteq {x}
        <5>1. ready' = Push(ready, x)
          BY <4>1 DEF Accepted
        <5>2. Elems(ready') = Elems(ready) \cup {x}
          BY <5>1, <4>1, PushElems DEF ListInv, ListsTyped
        <5>3. QED BY <5>2
      <4>3. CASE total_connections < max_connections
        BY <4>3 DEF LimitInv
      <4>4. CASE total_connections = max_connections
        <5>1. total_connections + 1 > max_connections
          BY <4>4 DEF LimitInv
        <5>2. PICK q \in {[y EXCEPT !.status = "DONE"] :
                              y \in send_r(sanitize_request(req[x], TRUE), 500)} :
                req' = [req EXCEPT ![x] = q]
          BY <4>1, <5>1, Zenon DEF Accepted
        <5>3. pending_requests' = FALSE
          BY <4>1, <5>1, Zenon DEF Accepted
        <5>4. req'[x].status = "DONE"
          <6> DEFINE conn == sanitize_request(req[x], TRUE)
          <6>1. conn \in Request /\ 500 \in Response
            <7>1. Sound(conn)
              BY NewReading, ReadingFit DEF Reading
            <7>2. QED BY <7>1 DEF Sound, Response
          <6>2. PICK y \in send_r(conn, 500) : q = [y EXCEPT !.status = "DONE"]
            BY <5>2
          <6> HIDE DEF conn
          <6>3. y \in Request
            <7>1. Stays(y, conn)
              BY <6>1, SendStays
            <7>2. QED BY <7>1 DEF Stays, Same
          <6>4. q.status = "DONE"
            BY <6>2, <6>3 DEF Request
          <6>5. QED BY <4>1, <5>2, <6>4 DEF RequestInv
        <5>5. QED BY <4>2, <4>4, <5>3, <5>4, Zenon
      <4>5. QED BY <2>1, <4>3, <4>4 DEF LimitInv
    <3>2. CASE UNCHANGED ready
      BY <3>2, Zenon
    <3>3. QED BY <2>1, <3>1, <3>2, Zenon DEF get_request, AcceptFails, AcceptDropped, AcceptFreed
  <2>2. CASE EnterProcess
    <3>1. CASE pending_requests = TRUE
      BY <2>1, <2>2, <3>1 DEF EnterProcess, LimitInv
    <3>2. CASE pending_requests = FALSE
      BY <2>2, <3>2, Zenon DEF EnterProcess
    <3>3. QED BY <3>1, <3>2 DEF LimitInv
  <2>3. CASE AcceptMore
    BY <2>1, <2>3 DEF AcceptMore, LimitInv
  <2>4. CASE LoopTop \/ CallPoll \/ PollReturn \/ Handle \/ Connect \/ Tick \/ SigTerm \/ SigHup
    <3>1. UNCHANGED ready
      BY <2>4 DEF LoopTop, CallPoll, PollReturn, Handle, Connect, Tick, SigTerm, SigHup, lists
    <3>2. QED BY <3>1, Zenon
  <2>5. CASE update_blocked
    <3>1. CASE UNCHANGED ready
      BY <3>1, Zenon
    <3>2. CASE ready' = Push(ready, current)
      <4>1. current \in Elems(block) /\ current \in Requests
        BY <2>5 DEF update_blocked, ListInv, ListsTyped, CursorOnList, Elems
      <4>2. Elems(ready') = Elems(ready) \cup {current}
        BY <3>2, <4>1, PushElems DEF ListInv, ListsTyped
      <4>3. QED BY <4>1, <4>2
    <3>3. QED BY <2>5, <3>1, <3>2, Zenon DEF update_blocked
  <2>6. CASE Dispose
    <3>1. CASE UNCHANGED ready
      BY <3>1, Zenon
    <3>2. CASE ready' = Remove(ready, current)
      <4>1. Elems(ready') \subseteq Elems(ready)
        BY <2>6, <3>2, RemoveElems DEF ListInv, ListsTyped, Dispose, CursorOnList, ListsSeparate
      <4>2. QED BY <4>1
    <3>3. QED BY <2>6, <3>1, <3>2, Zenon DEF Dispose, free_request, lists
  <2>7. QED BY <2>2, <2>3, <2>4, <2>5, <2>6, Zenon DEF Next, Loop
<1>2. QED BY <1>1, LimitInvariant, ListInvariant, RequestInvariant, PTL DEF Spec, AcceptWithinLimit
=============================================================================
