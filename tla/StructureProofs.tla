-------------------------- MODULE StructureProofs ---------------------------
(***************************************************************************)
(* What all requests share: the request lists of queue.c, the table of     *)
(* mapped files, and the tables of the configuration.                      *)
(*                                                                         *)
(* The pointer code of queue.c implements the three lists, for any number  *)
(* of request structures.                                                  *)
(*                                                                         *)
(* The mapping cache is right for every table size, every limit, every     *)
(* hash function and any number of requests.  DataMapped is not inductive: *)
(* that a release or a new entry disturbs no other request rests on the    *)
(* reference counts, and that a hit gives the right file rests on an entry *)
(* in use being mapped to the file it names (Consistent).                  *)
(*                                                                         *)
(* A URI is decoded, cleaned, found in the tables and split, for all       *)
(* configurations, hash functions, table sizes, files and URIs.  The       *)
(* recursions of Uri and Translate are unfolded with RecursionExists and   *)
(* BackRecursionExists, and reasoned about place by place.                 *)
(***************************************************************************)
EXTENDS RequestQueue, MmapCache, Translate, ListsProofs, FiniteSetTheorems

AbstractLists == [ListName -> Seq(Requests)]

(* dequeue(&head, req) on a list that holds req leaves pointers that       *)
(* represent the lists without req.                                        *)
LEMMA DequeueCorrect ==
    ASSUME NEW q \in Links, NEW ls \in AbstractLists, NEW l \in ListName,
           NEW r \in Elems(ls[l]), Separate(ls), RepresentedBy(q, ls)
    PROVE  LET q1 == dequeue(q, l, r)
               ls1 == [ls EXCEPT ![l] = Remove(@, r)]
           IN  /\ q1 \in Links
               /\ ls1 \in AbstractLists
               /\ Separate(ls1)
               /\ RepresentedBy(q1, ls1)
               /\ \A m \in ListName : r \notin Elems(ls1[m])
<1> DEFINE q1 == dequeue(q, l, r)
           s == ls[l]
           n == Len(s)
           k == IndexOf(s, r)
           t == Remove(s, r)
           ls1 == [ls EXCEPT ![l] = t]
<1>1. s \in Seq(Requests) /\ Distinct(s)
  BY DEF AbstractLists, Separate
<1>2. /\ k \in 1 .. n
      /\ s[k] = r
      /\ r \in Requests
      /\ n \in Nat \ {0}
      /\ DOMAIN s = 1 .. n
  BY <1>1, IndexOfPlace
<1>3. /\ t \in Seq(Requests)
      /\ Len(t) = n - 1
      /\ Distinct(t)
      /\ Elems(t) = Elems(s) \ {r}
  BY <1>1, RemoveElems
<1>4. /\ DOMAIN t = 1 .. n - 1
      /\ \A j \in 1 .. n - 1 : t[j] = IF j < k THEN s[j] ELSE s[j + 1]
  BY <1>1, <1>2, DropAtPlaces DEF Remove
<1>5. /\ q.next[r] = IF k = n THEN NULL ELSE s[k + 1]
      /\ q.prev[r] = IF k = 1 THEN NULL ELSE s[k - 1]
      /\ q.head[l] = s[1]
  <2>1. s # <<>>
    BY <1>1, <1>2
  <2>2. QED BY <1>2, <2>1 DEF RepresentedBy, First
<1>6. \A i \in 1 .. n : s[i] \in Requests /\ s[i] \in Elems(s) /\ s[i] # NULL
  BY <1>1, <1>2, NullAssumption DEF Elems
<1>7. \A i, j \in 1 .. n : s[i] = s[j] => i = j
  BY <1>1, <1>2 DEF Distinct
<1>0. \A i \in 1 .. n : /\ q.next[s[i]] = IF i = n THEN NULL ELSE s[i + 1]
                        /\ q.prev[s[i]] = IF i = 1 THEN NULL ELSE s[i - 1]
  BY <1>2 DEF RepresentedBy
<1> HIDE DEF s, n, k, t
<1>8. q1 \in Links
  BY <1>2 DEF dequeue, Links, Pointer
<1>9. ls1 \in AbstractLists
  BY <1>3 DEF AbstractLists
<1>10. \A m \in ListName : Elems(ls1[m]) = Elems(ls[m]) \ {r}
  <2> TAKE m \in ListName
  <2>1. CASE m = l
    BY <1>3, <2>1 DEF AbstractLists, s
  <2>2. CASE m # l
    BY <2>2 DEF AbstractLists, Separate
  <2>3. QED BY <2>1, <2>2
<1>11. Separate(ls1)
  <2>1. \A m \in ListName : Distinct(ls1[m])
    BY <1>3 DEF AbstractLists, Separate
  <2>2. QED BY <2>1, <1>10 DEF Separate
<1>12. RepresentedBy(q1, ls1)
  <2>1. ASSUME NEW m \in ListName, m # l
        PROVE  /\ q1.head[m] = First(ls1[m])
               /\ \A i \in DOMAIN ls1[m] :
                    /\ q1.next[ls1[m][i]] = IF i = Len(ls1[m]) THEN NULL ELSE ls1[m][i + 1]
                    /\ q1.prev[ls1[m][i]] = IF i = 1 THEN NULL ELSE ls1[m][i - 1]
    <3>1. ls1[m] = ls[m] /\ ls[m] \in Seq(Requests)
      BY <2>1 DEF AbstractLists
    <3>2. q1.head[m] = q.head[m]
      BY <2>1 DEF dequeue, Links
    <3>3. ASSUME NEW i \in DOMAIN ls[m]
          PROVE  q1.next[ls[m][i]] = q.next[ls[m][i]] /\ q1.prev[ls[m][i]] = q.prev[ls[m][i]]
      <4>1. ls[m][i] \in Requests /\ ls[m][i] \in Elems(ls[m]) /\ ls[m][i] # NULL
        BY <3>1, NullAssumption DEF Elems
      <4>2. ls[m][i] \notin Elems(s)
        BY <2>1, <4>1 DEF Separate, s
      <4>3. ls[m][i] # r /\ ls[m][i] # q.next[r] /\ ls[m][i] # q.prev[r]
        BY <4>1, <4>2, <1>2, <1>5, <1>6
      <4>4. ASSUME NEW x \in Requests, x # r, x # q.next[r], x # q.prev[r]
            PROVE  q1.next[x] = q.next[x] /\ q1.prev[x] = q.prev[x]
        BY <4>4 DEF dequeue
      <4>5. QED BY <4>1, <4>3, <4>4
    <3>4. /\ q.head[m] = First(ls[m])
          /\ \A i \in DOMAIN ls[m] :
               /\ q.next[ls[m][i]] = IF i = Len(ls[m]) THEN NULL ELSE ls[m][i + 1]
               /\ q.prev[ls[m][i]] = IF i = 1 THEN NULL ELSE ls[m][i - 1]
      BY DEF RepresentedBy
    <3> HIDE DEF q1, ls1
    <3>5. q1.head[m] = First(ls[m])
      BY <3>2, <3>4
    <3>6. ASSUME NEW i \in DOMAIN ls[m]
          PROVE  /\ q1.next[ls[m][i]] = IF i = Len(ls[m]) THEN NULL ELSE ls[m][i + 1]
                 /\ q1.prev[ls[m][i]] = IF i = 1 THEN NULL ELSE ls[m][i - 1]
      BY <3>3, <3>4
    <3>7. ls1[m] = ls[m]
      BY <3>1
    <3>8. QED BY <3>5, <3>6, <3>7, Zenon
  <2>2. ls1[l] = t
    BY DEF AbstractLists
  <2>3. q1.head[l] = First(t)
    <3>1. q1.head[l] = IF k = 1 THEN q.next[r] ELSE s[1]
      BY <1>2, <1>5, <1>7 DEF dequeue, Links
    <3>2. CASE n = 1
      <4>1. t = <<>>
        BY <1>3, <3>2
      <4>2. QED BY <4>1, <3>1, <3>2, <1>2, <1>5 DEF First
    <3>3. CASE n # 1
      <4>1. t # <<>> /\ 1 \in 1 .. n - 1
        BY <1>2, <1>3, <3>3
      <4>2. t[1] = IF 1 < k THEN s[1] ELSE s[2]
        BY <1>4, <4>1
      <4>3. QED BY <4>1, <4>2, <3>1, <3>3, <1>2, <1>5 DEF First
    <3>4. QED BY <3>2, <3>3
  <2>4. ASSUME NEW j \in 1 .. n - 1
        PROVE  /\ q1.next[t[j]] = IF j = n - 1 THEN NULL ELSE t[j + 1]
               /\ q1.prev[t[j]] = IF j = 1 THEN NULL ELSE t[j - 1]
    <3> DEFINE u == IF j < k THEN j ELSE j + 1
    <3>1. u \in 1 .. n /\ u # k /\ t[j] = s[u]
      BY <1>2, <1>4
    <3> HIDE DEF u
    <3>2. /\ s[u] \in Requests
          /\ s[u] # r
          /\ q.next[s[u]] = IF u = n THEN NULL ELSE s[u + 1]
          /\ q.prev[s[u]] = IF u = 1 THEN NULL ELSE s[u - 1]
      BY <1>0, <1>2, <1>6, <1>7, <3>1
    <3>3. q1.next[s[u]] = IF s[u] = q.prev[r] THEN q.next[r] ELSE q.next[s[u]]
      BY <3>2 DEF dequeue
    <3>4. q1.prev[s[u]] = IF s[u] = q.next[r] THEN q.prev[r] ELSE q.prev[s[u]]
      BY <3>2 DEF dequeue
    <3>5. s[u] = q.prev[r] <=> u = k - 1
      BY <1>2, <1>5, <1>6, <1>7, <3>1
    <3>6. s[u] = q.next[r] <=> u = k + 1
      BY <1>2, <1>5, <1>6, <1>7, <3>1
    <3>7. q1.next[t[j]] = IF j = n - 1 THEN NULL ELSE t[j + 1]
      <4>1. CASE u = k - 1
        BY <4>1, <1>2, <1>4, <1>5, <3>1, <3>3, <3>5 DEF u
      <4>2. CASE u # k - 1
        BY <4>2, <1>2, <1>4, <3>1, <3>2, <3>3, <3>5 DEF u
      <4>3. QED BY <4>1, <4>2
    <3>8. q1.prev[t[j]] = IF j = 1 THEN NULL ELSE t[j - 1]
      <4>1. CASE u = k + 1
        BY <4>1, <1>2, <1>4, <1>5, <3>1, <3>4, <3>6 DEF u
      <4>2. CASE u # k + 1
        BY <4>2, <1>2, <1>4, <3>1, <3>2, <3>4, <3>6 DEF u
      <4>3. QED BY <4>1, <4>2
    <3>9. QED BY <3>7, <3>8
  <2>5. /\ q1.head[l] = First(ls1[l])
        /\ \A i \in DOMAIN ls1[l] :
             /\ q1.next[ls1[l][i]] = IF i = Len(ls1[l]) THEN NULL ELSE ls1[l][i + 1]
             /\ q1.prev[ls1[l][i]] = IF i = 1 THEN NULL ELSE ls1[l][i - 1]
    BY <1>3, <1>4, <2>2, <2>3, <2>4
  <2> HIDE DEF q1, ls1
  <2>6. QED BY <2>1, <2>5 DEF RepresentedBy
<1>13. ls1 = [ls EXCEPT ![l] = Remove(@, r)]
  BY DEF s, t
<1>14. QED BY <1>8, <1>9, <1>10, <1>11, <1>12, <1>13

(* enqueue(&head, req) of a request on no list leaves pointers that        *)
(* represent the lists with req in front of that one, whatever garbage its *)
(* own links held.                                                         *)
LEMMA EnqueueCorrect ==
    ASSUME NEW q \in Links, NEW ls \in AbstractLists, NEW l \in ListName,
           NEW r \in Requests, \A m \in ListName : r \notin Elems(ls[m]),
           Separate(ls), RepresentedBy(q, ls)
    PROVE  LET q1 == enqueue(q, l, r)
               ls1 == [ls EXCEPT ![l] = Push(@, r)]
           IN  /\ q1 \in Links
               /\ ls1 \in AbstractLists
               /\ Separate(ls1)
               /\ RepresentedBy(q1, ls1)
<1> DEFINE q1 == enqueue(q, l, r)
           s == ls[l]
           n == Len(s)
           t == Push(s, r)
           ls1 == [ls EXCEPT ![l] = t]
<1>1. /\ s \in Seq(Requests)
      /\ Distinct(s)
      /\ n \in Nat
      /\ DOMAIN s = 1 .. n
  BY DEF AbstractLists, Separate
<1>2. /\ t \in Seq(Requests)
      /\ Len(t) = n + 1
      /\ DOMAIN t = 1 .. n + 1
      /\ t # <<>>
      /\ t[1] = r
      /\ \A i \in 2 .. n + 1 : t[i] = s[i - 1]
  BY <1>1 DEF Push
<1>3. Elems(t) = Elems(s) \cup {r} /\ Distinct(t)
  BY <1>1, PushElems
<1>4. \A i \in 1 .. n : /\ q.next[s[i]] = IF i = n THEN NULL ELSE s[i + 1]
                        /\ q.prev[s[i]] = IF i = 1 THEN NULL ELSE s[i - 1]
  <2>1. \A i \in DOMAIN ls[l] :
           /\ q.next[ls[l][i]] = IF i = Len(ls[l]) THEN NULL ELSE ls[l][i + 1]
           /\ q.prev[ls[l][i]] = IF i = 1 THEN NULL ELSE ls[l][i - 1]
    BY DEF RepresentedBy
  <2> HIDE DEF s, n
  <2>2. QED BY <1>1, <2>1 DEF s, n
<1>14. \A i \in 1 .. n : /\ s[i] \in Elems(s)
                         /\ s[i] \in Requests
                         /\ s[i] # NULL
                         /\ s[i] # r
  <2>1. \A i \in 1 .. n : s[i] \in Elems(s) /\ s[i] \in Requests
    BY <1>1 DEF Elems
  <2>2. QED BY <2>1, NullAssumption
<1>5. q.head[l] = First(s)
  BY DEF RepresentedBy
<1>6. q.head[l] = IF n = 0 THEN NULL ELSE s[1]
  BY <1>1, <1>5 DEF First
<1>7. \A i, j \in 1 .. n : s[i] = s[j] => i = j
  BY <1>1 DEF Distinct
<1>8. q1 \in Links
  BY DEF enqueue, Links, Pointer
<1> HIDE DEF s, n, t
<1>9. ls1 \in AbstractLists
  BY <1>2 DEF AbstractLists
<1>10. Separate(ls1)
  <2>1. \A m \in ListName : Distinct(ls1[m])
    BY <1>3 DEF AbstractLists, Separate
  <2>2. \A m \in ListName : Elems(ls1[m]) = IF m = l THEN Elems(ls[m]) \cup {r} ELSE Elems(ls[m])
    BY <1>3 DEF AbstractLists, s
  <2>3. ASSUME NEW k \in ListName, NEW m \in ListName, k # m
        PROVE  Elems(ls1[k]) \cap Elems(ls1[m]) = {}
    <3>1. Elems(ls[k]) \cap Elems(ls[m]) = {} /\ r \notin Elems(ls[k]) /\ r \notin Elems(ls[m])
      BY <2>3 DEF Separate
    <3> HIDE DEF ls1
    <3>2. QED BY <2>2, <2>3, <3>1
  <2> HIDE DEF ls1
  <2>4. QED BY <2>1, <2>3 DEF Separate
<1>11. RepresentedBy(q1, ls1)
  <2>1. ASSUME NEW m \in ListName, m # l
        PROVE  /\ q1.head[m] = First(ls1[m])
               /\ \A i \in DOMAIN ls1[m] :
                    /\ q1.next[ls1[m][i]] = IF i = Len(ls1[m]) THEN NULL ELSE ls1[m][i + 1]
                    /\ q1.prev[ls1[m][i]] = IF i = 1 THEN NULL ELSE ls1[m][i - 1]
    <3>1. ls1[m] = ls[m] /\ ls[m] \in Seq(Requests)
      BY <2>1 DEF AbstractLists
    <3>2. q1.head[m] = q.head[m]
      BY <2>1 DEF enqueue, Links
    <3>3. ASSUME NEW i \in DOMAIN ls[m]
          PROVE  q1.next[ls[m][i]] = q.next[ls[m][i]] /\ q1.prev[ls[m][i]] = q.prev[ls[m][i]]
      <4>1. ls[m][i] \in Requests /\ ls[m][i] \in Elems(ls[m]) /\ ls[m][i] # NULL
        BY <3>1, NullAssumption DEF Elems
      <4>2. ls[m][i] \notin Elems(s)
        BY <2>1, <4>1 DEF Separate, s
      <4>3. ls[m][i] # r /\ ls[m][i] # q.head[l]
        BY <4>1, <4>2, <1>1, <1>14, <1>6
      <4>4. QED BY <4>1, <4>3 DEF enqueue, Links
    <3>4. /\ q.head[m] = First(ls[m])
          /\ \A i \in DOMAIN ls[m] :
               /\ q.next[ls[m][i]] = IF i = Len(ls[m]) THEN NULL ELSE ls[m][i + 1]
               /\ q.prev[ls[m][i]] = IF i = 1 THEN NULL ELSE ls[m][i - 1]
      BY DEF RepresentedBy
    <3> HIDE DEF q1, ls1
    <3>5. q1.head[m] = First(ls1[m])
      BY <3>1, <3>2, <3>4
    <3>6. ASSUME NEW i \in DOMAIN ls[m]
          PROVE  /\ q1.next[ls[m][i]] = IF i = Len(ls[m]) THEN NULL ELSE ls[m][i + 1]
                 /\ q1.prev[ls[m][i]] = IF i = 1 THEN NULL ELSE ls[m][i - 1]
      BY <3>3, <3>4
    <3>7. QED BY <3>1, <3>5, <3>6
  <2>2. ls1[l] = t
    BY DEF AbstractLists
  <2>3. q1.head[l] = First(t)
    BY <1>2 DEF enqueue, Links, First
  <2>4. ASSUME NEW j \in 1 .. n + 1
        PROVE  /\ q1.next[t[j]] = IF j = n + 1 THEN NULL ELSE t[j + 1]
               /\ q1.prev[t[j]] = IF j = 1 THEN NULL ELSE t[j - 1]
    <3>1. CASE j = 1
      <4>1. q1.next[r] = q.head[l] /\ q1.prev[r] = NULL
        BY DEF enqueue, Links
      <4>2. QED BY <3>1, <4>1, <1>1, <1>2, <1>6
    <3>2. CASE j # 1
      <4>1. j - 1 \in 1 .. n /\ t[j] = s[j - 1]
        BY <3>2, <1>1, <1>2
      <4>2. q1.next[s[j - 1]] = q.next[s[j - 1]]
        BY <4>1, <1>14 DEF enqueue, Links
      <4>3. q1.prev[s[j - 1]] = IF s[j - 1] = q.head[l] THEN r ELSE q.prev[s[j - 1]]
        BY <4>1, <1>14 DEF enqueue, Links
      <4>4. s[j - 1] = q.head[l] <=> j = 2
        BY <4>1, <1>1, <1>6, <1>7
      <4>5. QED BY <3>2, <4>1, <4>2, <4>3, <4>4, <1>1, <1>2, <1>4
    <3>3. QED BY <3>1, <3>2
  <2> HIDE DEF q1, ls1
  <2>5. /\ q1.head[l] = First(ls1[l])
        /\ \A i \in DOMAIN ls1[l] :
             /\ q1.next[ls1[l][i]] = IF i = Len(ls1[l]) THEN NULL ELSE ls1[l][i + 1]
             /\ q1.prev[ls1[l][i]] = IF i = 1 THEN NULL ELSE ls1[l][i - 1]
    BY <1>2, <2>2, <2>3, <2>4
  <2>6. QED BY <2>1, <2>5 DEF RepresentedBy
<1>12. ls1 = [ls EXCEPT ![l] = Push(@, r)]
  BY DEF s, t
<1>13. QED BY <1>8, <1>9, <1>10, <1>11, <1>12

-----------------------------------------------------------------------------
(* The inductive invariant. *)
IInv == TypeOK /\ OnOneList /\ Represents

(* The pointers and the lists have their types.                            *)
LEMMA LinksTyped == ASSUME TypeOK PROVE links \in Links /\ lists \in AbstractLists
BY DEF TypeOK, links, Links, AbstractLists

(* A move from a list to a list, be it the same one, keeps the invariant. *)
LEMMA MoveCorrect ==
    ASSUME IInv, NEW from \in ListName, NEW to \in ListName,
           NEW r, Move(r, from, to)
    PROVE  IInv'
<1> DEFINE q1 == dequeue(links, from, r)
           ls1 == [lists EXCEPT ![from] = Remove(@, r)]
           q2 == enqueue(q1, to, r)
           ls2 == [ls1 EXCEPT ![to] = Push(@, r)]
<1>1. /\ links \in Links
      /\ lists \in AbstractLists
      /\ Separate(lists)
      /\ RepresentedBy(links, lists)
      /\ r \in Elems(lists[from])
  BY LinksTyped DEF IInv, OnOneList, Represents, Move
<1>2. r \in Requests
  <2>1. lists[from] \in Seq(Requests)
    BY <1>1 DEF AbstractLists
  <2>2. QED BY <1>1, <2>1, IndexOfPlace
<1>3. /\ q1 \in Links
      /\ ls1 \in AbstractLists
      /\ Separate(ls1)
      /\ RepresentedBy(q1, ls1)
      /\ \A m \in ListName : r \notin Elems(ls1[m])
  BY <1>1, DequeueCorrect
<1> HIDE DEF q1, ls1
<1>4. /\ q2 \in Links
      /\ ls2 \in AbstractLists
      /\ Separate(ls2)
      /\ RepresentedBy(q2, ls2)
  BY <1>2, <1>3, EnqueueCorrect
<1>5. lists' = ls2
  BY DEF Move, ls1
<1>6. head' = q2.head /\ next' = q2.next /\ prev' = q2.prev
  BY DEF Move, Relink, q1
<1> HIDE DEF q2, ls2
<1>7. links' = q2
  BY <1>4, <1>6 DEF links, Links
<1>8. QED BY <1>4, <1>5, <1>6, <1>7 DEF IInv, TypeOK, OnOneList, Represents, Links, AbstractLists

(* The pointer code keeps the three lists: the heads, next and prev fields *)
(* of queue.c are at all times the lists that block_request,               *)
(* ready_request, get_request, free_request and free_requests are meant to *)
(* build, and no structure is on two of them.                              *)
THEOREM QueueCorrect == Spec => [](TypeOK /\ OnOneList /\ Represents)
<1>1. Init => IInv
  <2> SUFFICES ASSUME Init PROVE IInv
    OBVIOUS
  <2>1. TypeOK
    BY DEF Init, TypeOK, Pointer
  <2>2. \A l \in ListName : lists[l] = <<>> /\ head[l] = NULL
    BY DEF Init
  <2>3. OnOneList
    BY <2>2 DEF OnOneList, Separate, Distinct, Elems
  <2>4. Represents
    BY <2>2 DEF Represents, RepresentedBy, links, First
  <2>5. QED BY <2>1, <2>3, <2>4 DEF IInv
<1>2. IInv /\ [Next]_vars => IInv'
  <2> SUFFICES ASSUME IInv, [Next]_vars PROVE IInv'
    OBVIOUS
  <2>0. "ready" \in ListName /\ "block" \in ListName /\ "free" \in ListName
    BY DEF ListName
  <2>1. CASE \E r \in Requests : block_request(r) \/ ready_request(r) \/ free_request(r)
    BY <2>0, <2>1, MoveCorrect DEF block_request, ready_request, free_request
  <2>2. ASSUME NEW to \in {"ready", "free"}, get_request(to) PROVE IInv'
    <3>1. CASE head["free"] # NULL /\ Move(head["free"], "free", to)
      BY <2>0, <2>2, <3>1, MoveCorrect
    <3>2. ASSUME NEW r \in Unlisted,
                 Relink(enqueue(links, to, r)),
                 lists' = [lists EXCEPT ![to] = Push(@, r)]
          PROVE  IInv'
      <4> DEFINE q2 == enqueue(links, to, r)
                 ls2 == [lists EXCEPT ![to] = Push(@, r)]
      <4>1. /\ links \in Links
            /\ lists \in AbstractLists
            /\ Separate(lists)
            /\ RepresentedBy(links, lists)
            /\ to \in ListName
            /\ r \in Requests
            /\ \A m \in ListName : r \notin Elems(lists[m])
        BY <2>0, LinksTyped DEF IInv, OnOneList, Represents, Unlisted
      <4>2. /\ q2 \in Links
            /\ ls2 \in AbstractLists
            /\ Separate(ls2)
            /\ RepresentedBy(q2, ls2)
        BY <4>1, EnqueueCorrect
      <4>3. head' = q2.head /\ next' = q2.next /\ prev' = q2.prev /\ lists' = ls2
        BY <3>2 DEF Relink
      <4> HIDE DEF q2, ls2
      <4>4. links' = q2
        BY <4>2, <4>3 DEF links, Links
      <4>5. QED BY <4>2, <4>3, <4>4
                DEF IInv, TypeOK, OnOneList, Represents, Links, AbstractLists
    <3>3. QED BY <2>2, <3>1, <3>2 DEF get_request
  <2>3. CASE free_requests
    <3>1. /\ lists' = [lists EXCEPT !["free"] = <<>>]
          /\ head' = [head EXCEPT !["free"] = NULL]
      BY <2>3 DEF free_requests
    <3>2. PICK junk \in [Elems(lists["free"]) -> Pointer] :
            /\ next' = [r \in Requests |-> IF r \in Elems(lists["free"]) THEN junk[r] ELSE next[r]]
            /\ prev' = [r \in Requests |-> IF r \in Elems(lists["free"]) THEN junk[r] ELSE prev[r]]
      BY <2>3 DEF free_requests
    <3>3. TypeOK'
      <4>1. head' \in [ListName -> Pointer] /\ lists' \in [ListName -> Seq(Requests)]
        <5>1. NULL \in Pointer /\ <<>> \in Seq(Requests)
          BY DEF Pointer
        <5>2. QED BY <2>0, <3>1, <5>1 DEF IInv, TypeOK
      <4>2. next' \in [Requests -> Pointer] /\ prev' \in [Requests -> Pointer]
        BY <3>2 DEF IInv, TypeOK
      <4>3. QED BY <4>1, <4>2 DEF TypeOK
    <3>4. lists'["free"] = <<>> /\ head'["free"] = NULL
      BY <2>0, <3>1 DEF IInv, TypeOK
    <3>5. \A l \in ListName : l # "free" => lists'[l] = lists[l] /\ head'[l] = head[l]
      BY <3>1 DEF IInv, TypeOK
    <3>6. Elems(<<>>) = {} /\ Distinct(<<>>)
      BY DEF Elems, Distinct
    <3>7. OnOneList'
      BY <3>4, <3>5, <3>6 DEF IInv, OnOneList, Separate
    <3>8. ASSUME NEW l \in ListName, l # "free", NEW i \in DOMAIN lists[l]
          PROVE  next'[lists[l][i]] = next[lists[l][i]] /\ prev'[lists[l][i]] = prev[lists[l][i]]
      <4>1. lists[l][i] \in Requests /\ lists[l][i] \in Elems(lists[l])
        BY <3>8 DEF IInv, TypeOK, Elems
      <4>2. lists[l][i] \notin Elems(lists["free"])
        BY <2>0, <3>8, <4>1 DEF IInv, OnOneList, Separate
      <4>3. QED BY <3>2, <4>1, <4>2
    <3>9. Represents'
      <4> SUFFICES ASSUME NEW l \in ListName
                   PROVE  /\ head'[l] = First(lists'[l])
                          /\ \A i \in DOMAIN lists'[l] :
                               /\ next'[lists'[l][i]] = IF i = Len(lists'[l]) THEN NULL ELSE lists'[l][i + 1]
                               /\ prev'[lists'[l][i]] = IF i = 1 THEN NULL ELSE lists'[l][i - 1]
        BY DEF Represents, RepresentedBy, links
      <4>1. CASE l = "free"
        BY <3>4, <4>1 DEF First
      <4>2. CASE l # "free"
        BY <3>5, <3>8, <4>2 DEF IInv, Represents, RepresentedBy, links
      <4>3. QED BY <4>1, <4>2
    <3>10. QED BY <3>3, <3>7, <3>9 DEF IInv
  <2>4. CASE UNCHANGED vars
    BY <2>4 DEF vars, IInv, TypeOK, OnOneList, Represents, links
  <2>5. QED BY <2>1, <2>2, <2>3, <2>4 DEF Next
<1>3. IInv => TypeOK /\ OnOneList /\ Represents
  BY DEF IInv
<1>4. QED BY <1>1, <1>2, <1>3, PTL DEF Spec
-----------------------------------------------------------------------------
(* The mapping cache. *)

(* An entry in use is mapped to its file, an empty one is not mapped.      *)
Consistent == \A i \in Slots : IF use_count[i] > 0 THEN mapping[i] = file[i]
                                                   ELSE mapping[i] = NONE

(* The inductive invariant. *)
CacheInv == CacheTypeOK /\ RefCounts /\ EntriesUsed /\ DataMapped /\ Consistent

(* The table is finite. *)
LEMMA SlotsFinite == IsFiniteSet(Slots)
BY FS_Interval, CacheAssumption DEF Slots

(* The probe ends at a slot of the table where it may stop.                *)
LEMMA ProbeStops ==
    ASSUME NEW f \in Files, Probe(f) # NONE
    PROVE  Probe(f) \in Slots /\ Stops(f, Probe(f))
<1>1. FirstStop(f) # {}
  BY DEF Probe
<1>2. PICK k : k \in FirstStop(f) /\ Probe(f) = MMAP_LIST_NEXT(f, k)
  BY <1>1 DEF Probe
<1>3. k \in Slots /\ Stops(f, Probe(f))
  BY <1>2 DEF FirstStop
<1>4. Hash[f] \in Slots
  BY CacheAssumption
<1>5. MMAP_LIST_NEXT(f, k) \in Slots
  BY <1>3, <1>4, CacheAssumption DEF Slots, MMAP_LIST_NEXT
<1>6. QED BY <1>2, <1>3, <1>5

(* A holder without an entry takes a reference to i: the holders of i      *)
(* become one more, those of the other entries stay.                       *)
LEMMA AddHolder ==
    ASSUME CacheTypeOK, NEW h \in Holders, NEW i \in Slots, entry[h] = NONE,
           entry' = [entry EXCEPT ![h] = i]
    PROVE  /\ Cardinality(HoldersOf(i))' = Cardinality(HoldersOf(i)) + 1
           /\ \A j \in Slots \ {i} : HoldersOf(j)' = HoldersOf(j)
<1>1. HoldersOf(i)' = HoldersOf(i) \cup {h}
  BY DEF CacheTypeOK, HoldersOf
<1>2. h \notin HoldersOf(i) /\ IsFiniteSet(HoldersOf(i))
  BY CacheAssumption, FS_Subset DEF HoldersOf
<1>3. Cardinality(HoldersOf(i) \cup {h}) = Cardinality(HoldersOf(i)) + 1
  BY <1>2, FS_AddElement
<1>4. \A j \in Slots \ {i} : HoldersOf(j)' = HoldersOf(j)
  BY CacheAssumption DEF CacheTypeOK, HoldersOf
<1>5. QED BY <1>1, <1>3, <1>4

(* A holder of i gives its reference back.                                 *)
LEMMA RemoveHolder ==
    ASSUME CacheTypeOK, NEW h \in Holders, NEW i \in Slots, entry[h] = i,
           entry' = [entry EXCEPT ![h] = NONE]
    PROVE  /\ Cardinality(HoldersOf(i))' = Cardinality(HoldersOf(i)) - 1
           /\ \A j \in Slots \ {i} : HoldersOf(j)' = HoldersOf(j)
<1>1. HoldersOf(i)' = HoldersOf(i) \ {h}
  BY CacheAssumption DEF CacheTypeOK, HoldersOf
<1>2. h \in HoldersOf(i) /\ IsFiniteSet(HoldersOf(i))
  BY CacheAssumption, FS_Subset DEF HoldersOf
<1>3. Cardinality(HoldersOf(i) \ {h}) = Cardinality(HoldersOf(i)) - 1
  BY <1>2, FS_RemoveElement
<1>4. \A j \in Slots \ {i} : HoldersOf(j)' = HoldersOf(j)
  BY CacheAssumption DEF CacheTypeOK, HoldersOf
<1>5. QED BY <1>1, <1>3, <1>4

(* An entry with a holder has a positive count, so it is never recycled.   *)
LEMMA HeldUsed ==
    ASSUME CacheTypeOK, RefCounts, NEW h \in Holders, entry[h] # NONE
    PROVE  entry[h] \in Slots /\ use_count[entry[h]] > 0
<1>1. entry[h] \in Slots
  BY DEF CacheTypeOK
<1>2. h \in HoldersOf(entry[h]) /\ IsFiniteSet(HoldersOf(entry[h]))
  BY CacheAssumption, FS_Subset DEF HoldersOf
<1>3. Cardinality(HoldersOf(entry[h])) # 0 /\ Cardinality(HoldersOf(entry[h])) \in Nat
  BY <1>2, FS_EmptySet, FS_CardinalityType
<1>4. QED BY <1>1, <1>3 DEF RefCounts

(* The table starts empty. *)
LEMMA CacheInitInv == CacheInit => CacheInv
<1> SUFFICES ASSUME CacheInit PROVE CacheInv
  OBVIOUS
<1>1. CacheTypeOK
  BY DEF CacheInit, CacheTypeOK
<1>2. \A i \in Slots : HoldersOf(i) = {}
  BY CacheAssumption DEF CacheInit, HoldersOf
<1>3. RefCounts
  BY <1>2, FS_EmptySet DEF CacheInit, RefCounts
<1>4. Used = {}
  BY DEF CacheInit, Used
<1>5. EntriesUsed
  BY <1>4, FS_EmptySet DEF CacheInit, EntriesUsed
<1>6. DataMapped /\ Consistent
  BY DEF CacheInit, DataMapped, Consistent
<1>7. QED BY <1>1, <1>3, <1>5, <1>6 DEF CacheInv

(* find_mmap with a hit. *)
LEMMA FindOldInv ==
    ASSUME CacheInv, NEW h \in Holders, NEW f \in Files, FindOld(h, f)
    PROVE  CacheInv'
<1>1. PICK i \in Slots : i = Probe(f) /\ file[i] = f /\ use_count[i] > 0
  BY ProbeStops DEF FindOld, Stops
<1>2. /\ entry[h] = NONE
      /\ use_count' = [use_count EXCEPT ![i] = @ + 1]
      /\ entry' = [entry EXCEPT ![h] = i]
      /\ wants' = [wants EXCEPT ![h] = f]
      /\ UNCHANGED <<file, mmap_list_entries_used, mapping>>
  BY <1>1 DEF FindOld
<1>3. CacheTypeOK'
  BY <1>1, <1>2 DEF CacheInv, CacheTypeOK
<1>4. RefCounts'
  BY <1>1, <1>2, AddHolder DEF CacheInv, CacheTypeOK, RefCounts
<1>5. Used' = Used
  BY <1>1, <1>2 DEF CacheInv, CacheTypeOK, Used
<1>6. EntriesUsed'
  BY <1>2, <1>5 DEF CacheInv, EntriesUsed
<1>7. Consistent'
  BY <1>1, <1>2 DEF CacheInv, CacheTypeOK, Consistent
<1>8. mapping[i] = f
  BY <1>1 DEF CacheInv, Consistent
<1>9. DataMapped'
  BY <1>1, <1>2, <1>8 DEF CacheInv, CacheTypeOK, DataMapped
<1>10. QED BY <1>3, <1>4, <1>6, <1>7, <1>9 DEF CacheInv

(* find_mmap with a new entry. *)
LEMMA FindNewInv ==
    ASSUME CacheInv, NEW h \in Holders, NEW f \in Files, FindNew(h, f)
    PROVE  CacheInv'
<1>1. PICK i \in Slots : i = Probe(f) /\ use_count[i] = 0
  BY ProbeStops DEF FindNew
<1>2. /\ entry[h] = NONE
      /\ use_count' = [use_count EXCEPT ![i] = 1]
      /\ file' = [file EXCEPT ![i] = f]
      /\ mapping' = [mapping EXCEPT ![i] = f]
      /\ entry' = [entry EXCEPT ![h] = i]
      /\ wants' = [wants EXCEPT ![h] = f]
      /\ mmap_list_entries_used' = mmap_list_entries_used + 1
  BY <1>1 DEF FindNew
<1>3. CacheTypeOK'
  BY <1>1, <1>2 DEF CacheInv, CacheTypeOK
<1>4. RefCounts'
  <2>1. /\ Cardinality(HoldersOf(i))' = Cardinality(HoldersOf(i)) + 1
        /\ \A j \in Slots \ {i} : HoldersOf(j)' = HoldersOf(j)
    BY <1>1, <1>2, AddHolder DEF CacheInv
  <2>2. Cardinality(HoldersOf(i)) = 0
    BY <1>1 DEF CacheInv, RefCounts
  <2>3. use_count'[i] = Cardinality(HoldersOf(i))'
    BY <1>1, <1>2, <2>1, <2>2 DEF CacheInv, CacheTypeOK
  <2>4. \A j \in Slots \ {i} : use_count'[j] = Cardinality(HoldersOf(j))'
    BY <1>2, <2>1 DEF CacheInv, CacheTypeOK, RefCounts
  <2>5. QED BY <2>3, <2>4 DEF RefCounts
<1>5. Used' = Used \cup {i} /\ i \notin Used
  BY <1>1, <1>2 DEF CacheInv, CacheTypeOK, Used
<1>6. IsFiniteSet(Used)
  BY SlotsFinite, FS_Subset DEF Used
<1>7. EntriesUsed'
  BY <1>2, <1>5, <1>6, FS_AddElement DEF CacheInv, EntriesUsed
<1>8. Consistent'
  BY <1>1, <1>2 DEF CacheInv, CacheTypeOK, Consistent
<1>9. \A g \in Holders : entry[g] # NONE => entry[g] # i
  BY <1>1, HeldUsed DEF CacheInv
<1>10. DataMapped'
  BY <1>1, <1>2, <1>9 DEF CacheInv, CacheTypeOK, DataMapped
<1>11. QED BY <1>3, <1>4, <1>7, <1>8, <1>10 DEF CacheInv

(* release_mmap. *)
LEMMA ReleaseInv ==
    ASSUME CacheInv, NEW h \in Holders, release_mmap(h)
    PROVE  CacheInv'
<1>1. PICK i \in Slots : i = entry[h] /\ use_count[i] > 0 /\ use_count[i] \in Nat
  BY HeldUsed DEF CacheInv, release_mmap, CacheTypeOK
<1>2. /\ entry[h] = i
      /\ entry' = [entry EXCEPT ![h] = NONE]
      /\ wants' = [wants EXCEPT ![h] = NONE]
      /\ use_count' = [use_count EXCEPT ![i] = @ - 1]
      /\ file' = file
  BY <1>1 DEF release_mmap
<1>3. RefCounts'
  BY <1>1, <1>2, RemoveHolder DEF CacheInv, CacheTypeOK, RefCounts
<1>4. CASE use_count[i] = 1
  <2>1. /\ mapping' = [mapping EXCEPT ![i] = NONE]
        /\ mmap_list_entries_used' = mmap_list_entries_used - 1
    BY <1>1, <1>4 DEF release_mmap
  <2>2. CacheTypeOK'
    BY <1>1, <1>2, <2>1 DEF CacheInv, CacheTypeOK
  <2>3. Used' = Used \ {i} /\ i \in Used
    BY <1>1, <1>2, <1>4 DEF CacheInv, CacheTypeOK, Used
  <2>4. IsFiniteSet(Used)
    BY SlotsFinite, FS_Subset DEF Used
  <2>5. EntriesUsed'
    BY <2>1, <2>3, <2>4, FS_RemoveElement DEF CacheInv, EntriesUsed
  <2>6. Consistent'
    BY <1>1, <1>2, <1>4, <2>1 DEF CacheInv, CacheTypeOK, Consistent
  <2>7. \A g \in Holders : entry'[g] # NONE => entry'[g] # i
    <3> SUFFICES ASSUME NEW g \in Holders, entry'[g] # NONE, entry'[g] = i
                 PROVE  FALSE
      OBVIOUS
    <3>1. Cardinality(HoldersOf(i))' = 0
      BY <1>1, <1>2, <1>3, <1>4 DEF CacheInv, CacheTypeOK, RefCounts
    <3>2. g \in HoldersOf(i)' /\ IsFiniteSet(HoldersOf(i)')
      BY CacheAssumption, FS_Subset DEF HoldersOf
    <3>3. HoldersOf(i)' = {}
      BY <3>1, <3>2, FS_EmptySet
    <3>4. QED BY <3>2, <3>3
  <2>8. DataMapped'
    BY <1>1, <1>2, <2>1, <2>7 DEF CacheInv, CacheTypeOK, DataMapped
  <2>9. QED BY <1>3, <2>2, <2>5, <2>6, <2>8 DEF CacheInv
<1>5. CASE use_count[i] # 1
  <2>1. UNCHANGED <<mapping, mmap_list_entries_used>>
    BY <1>1, <1>5 DEF release_mmap
  <2>2. CacheTypeOK'
    BY <1>1, <1>2, <2>1 DEF CacheInv, CacheTypeOK
  <2>3. Used' = Used
    BY <1>1, <1>2, <1>5 DEF CacheInv, CacheTypeOK, Used
  <2>4. EntriesUsed'
    BY <2>1, <2>3 DEF CacheInv, EntriesUsed
  <2>5. Consistent'
    BY <1>1, <1>2, <1>5, <2>1 DEF CacheInv, CacheTypeOK, Consistent
  <2>6. DataMapped'
    BY <1>1, <1>2, <2>1 DEF CacheInv, CacheTypeOK, DataMapped
  <2>7. QED BY <1>3, <2>2, <2>4, <2>5, <2>6 DEF CacheInv
<1>6. QED BY <1>4, <1>5

(* A mapping without a holder would be one whose entry is in use with a    *)
(* count of zero.                                                          *)
LEMMA InvNoOrphan == CacheInv => NoOrphan
<1> SUFFICES ASSUME CacheInv, NEW i \in Slots, mapping[i] # NONE
             PROVE  \E h \in Holders : entry[h] = i
  BY DEF NoOrphan
<1>1. use_count[i] # 0
  BY DEF CacheInv, CacheTypeOK, Consistent
<1>2. HoldersOf(i) # {}
  BY <1>1, FS_EmptySet DEF CacheInv, RefCounts
<1>3. QED BY <1>2 DEF HoldersOf

(* In every behaviour of the mapping cache, with any number of requests,   *)
(* any table and any hash function: the reference counts and the entry     *)
(* count are right, a request that holds an entry sees the file it asked   *)
(* for, and a mapping without a request is gone.                           *)
THEOREM CacheCorrect ==
    CacheSpec => [](CacheTypeOK /\ RefCounts /\ EntriesUsed /\ DataMapped /\ NoOrphan)
<1>1. CacheInit => CacheInv
  BY CacheInitInv
<1>2. CacheInv /\ [CacheNext]_cacheVars => CacheInv'
  <2> SUFFICES ASSUME CacheInv, [CacheNext]_cacheVars PROVE CacheInv'
    OBVIOUS
  <2>1. ASSUME NEW h \in Holders, NEW f \in Files,
               FindOld(h, f) \/ FindNew(h, f) PROVE CacheInv'
    BY <2>1, FindOldInv, FindNewInv
  <2>2. ASSUME NEW h \in Holders, release_mmap(h) PROVE CacheInv'
    BY <2>2, ReleaseInv
  <2>3. CASE UNCHANGED cacheVars
    BY <2>3 DEF cacheVars, CacheInv, CacheTypeOK, RefCounts, EntriesUsed, DataMapped, Consistent,
                HoldersOf, Used
  <2>4. ASSUME NEW h \in Holders, NEW f \in Files, FindFails(h, f) PROVE CacheInv'
    BY <2>3, <2>4 DEF FindFails
  <2>5. QED BY <2>1, <2>2, <2>3, <2>4 DEF CacheNext
<1>3. CacheInv => CacheTypeOK /\ RefCounts /\ EntriesUsed /\ DataMapped /\ NoOrphan
  BY InvNoOrphan DEF CacheInv
<1>4. QED BY <1>1, <1>2, <1>3, PTL DEF CacheSpec
-----------------------------------------------------------------------------
(* The tables of the configuration, and the way of a URI through them.     *)

(* The first of a set of places is its least element.                      *)
LEMMA FirstOfIs ==
    ASSUME NEW I \in SUBSET (Nat \ {0})
    PROVE  /\ FirstOf(I) \in Nat
           /\ FirstOf(I) = 0 <=> I = {}
           /\ I # {} => FirstOf(I) \in I /\ \A i \in I : FirstOf(I) <= i
<1>1. CASE I = {}
  BY <1>1 DEF FirstOf
<1>2. CASE I # {}
  <2>1. \E i \in I : \A j \in I : i <= j
    BY <1>2, LeastNumber
  <2>2. FirstOf(I) \in I /\ \A i \in I : FirstOf(I) <= i
    BY <1>2, <2>1 DEF FirstOf
  <2>3. QED BY <1>2, <2>2
<1>3. QED BY <1>1, <1>2

(* A least element is the first.                                           *)
LEMMA FirstOfEq ==
    ASSUME NEW I \in SUBSET (Nat \ {0}), NEW n \in I, \A i \in I : n <= i
    PROVE  FirstOf(I) = n
BY FirstOfIs

(* The first entry of a table, up to the place k, that is in M, or none.   *)
FirstIn(t, k, M) ==
    LET n == FirstOf({i \in 1 .. k : t[i] \in M}) IN IF n = 0 THEN <<>> ELSE <<t[n]>>

(* No entry is first of none.                                              *)
LEMMA FirstInNone == ASSUME NEW t, NEW M PROVE FirstIn(t, 0, M) = <<>>
<1>1. {i \in 1 .. 0 : t[i] \in M} = {}
  OBVIOUS
<1>2. QED BY <1>1 DEF FirstIn, FirstOf

(* Another entry of M changes the first one only when there was none.      *)
LEMMA FirstInStep ==
    ASSUME NEW S, NEW t \in Seq(S), NEW k \in Nat \ {0}, NEW M
    PROVE  FirstIn(t, k, M) = IF FirstIn(t, k - 1, M) # <<>> THEN FirstIn(t, k - 1, M)
                              ELSE IF t[k] \in M THEN <<t[k]>> ELSE <<>>
<1> DEFINE I == {i \in 1 .. k : t[i] \in M}
           J == {i \in 1 .. k - 1 : t[i] \in M}
<1>1. /\ I \in SUBSET (Nat \ {0}) /\ J \in SUBSET (Nat \ {0})
      /\ I = IF t[k] \in M THEN J \cup {k} ELSE J
      /\ \A i \in J : i < k
  OBVIOUS
<1>2. /\ FirstIn(t, k, M) = IF FirstOf(I) = 0 THEN <<>> ELSE <<t[FirstOf(I)]>>
      /\ FirstIn(t, k - 1, M) = IF FirstOf(J) = 0 THEN <<>> ELSE <<t[FirstOf(J)]>>
  BY DEF FirstIn
<1> HIDE DEF I, J
<1>3. I = {} => FirstOf(I) = 0
  BY DEF FirstOf
<1>4. \A x : <<x>> # <<>>
  OBVIOUS
<1>5. CASE J # {}
  <2>1. FirstOf(J) \in J /\ FirstOf(J) # 0 /\ \A i \in J : FirstOf(J) <= i
    BY <1>1, <1>5, FirstOfIs
  <2>2. FirstOf(J) \in I /\ \A i \in I : FirstOf(J) <= i
    <3>1. J \subseteq I /\ I \subseteq J \cup {k}
      BY <1>1, Zenon
    <3>2. FirstOf(J) <= k
      <4>1. FirstOf(J) < k /\ FirstOf(J) \in Nat
        BY <1>1, <2>1, Zenon
      <4>2. QED BY <4>1
    <3>3. QED BY <2>1, <3>1, <3>2, Zenon
  <2>3. FirstOf(I) = FirstOf(J)
    BY <1>1, <2>2, FirstOfEq
  <2>4. QED BY <1>2, <1>3, <1>4, <2>1, <2>3
<1>6. CASE J = {}
  <2>1. FirstOf(J) = 0
    BY <1>6 DEF FirstOf
  <2>2. CASE t[k] \in M
    <3>1. k \in I /\ \A i \in I : k <= i
      BY <1>1, <1>6, <2>2
    <3>2. FirstOf(I) = k
      BY <1>1, <3>1, FirstOfEq
    <3>3. QED BY <1>2, <1>3, <2>1, <2>2, <3>2
  <2>3. CASE t[k] \notin M
    BY <1>1, <1>2, <1>3, <1>6, <2>1, <2>3
  <2>4. QED BY <2>2, <2>3
<1>7. QED BY <1>5, <1>6

(* There is a first entry when there is one.                               *)
LEMMA FirstInSome ==
    ASSUME NEW S, NEW t \in Seq(S), NEW M, NEW j \in DOMAIN t, t[j] \in M
    PROVE  FirstIn(t, Len(t), M) # <<>>
<1> DEFINE I == {i \in 1 .. Len(t) : t[i] \in M}
<1>1. I \in SUBSET (Nat \ {0}) /\ j \in I
  OBVIOUS
<1>2. FirstIn(t, Len(t), M) = IF FirstOf(I) = 0 THEN <<>> ELSE <<t[FirstOf(I)]>>
  BY DEF FirstIn
<1> HIDE DEF I
<1>3. FirstOf(I) # 0
  BY <1>1, FirstOfIs
<1>4. QED BY <1>2, <1>3

(* The first entry of a table depends only on its entries.                 *)
LEMMA FirstInSame ==
    ASSUME NEW t, NEW u, NEW k \in Nat, NEW M, \A i \in 1 .. k : t[i] = u[i]
    PROVE  FirstIn(t, k, M) = FirstIn(u, k, M)
<1> DEFINE I == {i \in 1 .. k : t[i] \in M}
           J == {i \in 1 .. k : u[i] \in M}
<1>1. I = J /\ I \in SUBSET (Nat \ {0}) /\ I \subseteq 1 .. k
  OBVIOUS
<1>2. /\ FirstIn(t, k, M) = IF FirstOf(I) = 0 THEN <<>> ELSE <<t[FirstOf(I)]>>
      /\ FirstIn(u, k, M) = IF FirstOf(J) = 0 THEN <<>> ELSE <<u[FirstOf(J)]>>
  BY DEF FirstIn
<1> HIDE DEF I, J
<1>3. FirstOf(I) # 0 => FirstOf(I) \in 1 .. k
  BY <1>1, FirstOfIs
<1>4. QED BY <1>1, <1>2, <1>3

(* A table to which the lines are added one after the other, but for some  *)
(* of those that have an equal in the table, gives the first line of every *)
(* set M that does not tell equals apart.                                  *)
Adds(w, lines, S, M) ==
    /\ w[0] = <<>>
    /\ \A i \in 1 .. Len(lines) : w[i - 1] \in Seq(S) =>
          \/ w[i] = Append(w[i - 1], lines[i])
          \/ /\ w[i] = w[i - 1]
             /\ lines[i] \in M => \E j \in DOMAIN w[i] : w[i][j] \in M

(* The table and the lines have the same first entry.                      *)
LEMMA TableFirst ==
    ASSUME NEW S, NEW lines \in Seq(S), NEW M, NEW w, Adds(w, lines, S, M)
    PROVE  LET t == w[Len(lines)]
           IN  t \in Seq(S) /\ FirstIn(t, Len(t), M) = FirstIn(lines, Len(lines), M)
<1> USE DEF Adds
<1> DEFINE P(i) == /\ w[i] \in Seq(S)
                   /\ FirstIn(w[i], Len(w[i]), M) = FirstIn(lines, i, M)
           T == {i \in 0 .. Len(lines) : P(i)}
<1>1. Len(lines) \in Nat
  OBVIOUS
<1>2. 0 \in T
  <2>1. FirstIn(w[0], Len(w[0]), M) = <<>>
    <3>1. Len(w[0]) = 0
      OBVIOUS
    <3>2. QED BY <3>1, FirstInNone
  <2>2. FirstIn(lines, 0, M) = <<>>
    BY FirstInNone
  <2>3. <<>> \in Seq(S)
    OBVIOUS
  <2>4. w[0] \in Seq(S)
    BY <2>3, Zenon
  <2>5. P(0)
    BY <2>1, <2>2, <2>4, Zenon
  <2> HIDE DEF P
  <2>6. QED BY <1>1, <2>5
<1>3. ASSUME NEW i \in 1 .. Len(lines), i - 1 \in T PROVE i \in T
  <2> DEFINE t == w[i - 1]
             u == w[i]
  <2>1. /\ i - 1 \in 0 .. Len(lines) /\ i \in 0 .. Len(lines) /\ i \in Nat \ {0}
        /\ t \in Seq(S) /\ lines[i] \in S
    BY <1>1, <1>3
  <2>2. FirstIn(t, Len(t), M) = FirstIn(lines, i - 1, M)
    BY <1>3
  <2>3. FirstIn(lines, i, M) =
           IF FirstIn(lines, i - 1, M) # <<>> THEN FirstIn(lines, i - 1, M)
           ELSE IF lines[i] \in M THEN <<lines[i]>> ELSE <<>>
    BY <2>1, FirstInStep
  <2>4. \/ u = Append(t, lines[i])
        \/ u = t /\ (lines[i] \in M => \E j \in DOMAIN u : u[j] \in M)
    BY <2>1
  <2> HIDE DEF t, u
  <2>5. CASE u = Append(t, lines[i])
    <3>1. /\ u \in Seq(S) /\ Len(t) \in Nat /\ Len(u) = Len(t) + 1 /\ u[Len(u)] = lines[i]
          /\ \A j \in 1 .. Len(t) : u[j] = t[j]
      BY <2>1, <2>5
    <3>2. FirstIn(u, Len(t), M) = FirstIn(t, Len(t), M)
      BY <3>1, FirstInSame, ZenonT(40)
    <3>3. FirstIn(u, Len(u), M) =
             IF FirstIn(u, Len(t), M) # <<>> THEN FirstIn(u, Len(t), M)
             ELSE IF u[Len(u)] \in M THEN <<u[Len(u)]>> ELSE <<>>
      <4>1. Len(u) \in Nat \ {0} /\ Len(u) - 1 = Len(t)
        BY <3>1
      <4>2. QED BY <3>1, <4>1, FirstInStep
    <3>4. FirstIn(u, Len(u), M) = FirstIn(lines, i, M)
      BY <2>2, <2>3, <3>1, <3>2, <3>3
    <3>5. P(i)
      BY <3>1, <3>4 DEF u
    <3> HIDE DEF P
    <3>6. QED BY <2>1, <3>5
  <2>6. CASE u = t /\ (lines[i] \in M => \E j \in DOMAIN u : u[j] \in M)
    <3>1. lines[i] \in M => FirstIn(u, Len(u), M) # <<>>
      BY <2>1, <2>6, FirstInSome
    <3>2. FirstIn(u, Len(u), M) = FirstIn(lines, i, M)
      BY <2>2, <2>3, <2>6, <3>1
    <3>3. P(i)
      BY <2>1, <2>6, <3>2 DEF u
    <3> HIDE DEF P
    <3>4. QED BY <2>1, <3>3
  <2>7. QED BY <2>4, <2>5, <2>6
<1>4. Len(lines) \in T
  <2> HIDE DEF T
  <2>1. 0 .. Len(lines) \subseteq T
    BY <1>1, <1>2, <1>3, PlaceInduction
  <2>2. QED BY <1>1, <2>1
<1>5. QED BY <1>4

(* The alias table of any lines: its entries are lines, and it gives the   *)
(* first line of every set that does not tell lines of one name apart.     *)
LEMMA AliasTable ==
    ASSUME NEW S, NEW lines \in Seq(S), NEW M,
           \A d, e \in S : d.fake = e.fake /\ d \in M => e \in M
    PROVE  LET t == c_add_alias(lines)
           IN  t \in Seq(S) /\ FirstIn(t, Len(t), M) = FirstIn(lines, Len(lines), M)
<1> DEFINE n == Len(lines)
           Step(t, i) == add_alias(t, lines[i])
           Def(g) == [i \in 0 .. n |-> IF i = 0 THEN <<>> ELSE Step(g[i - 1], i)]
           F == [a \in Seq(S) \X (1 .. n) |-> Step(a[1], a[2])]
           w == CHOOSE g : g = Def(g)
<1>1. n \in Nat /\ <<>> \in Seq(S) /\ \A i \in 1 .. n : lines[i] \in S
  OBVIOUS
<1>2. ASSUME NEW t \in Seq(S), NEW i \in 1 .. n
      PROVE  /\ Step(t, i) \in Seq(S)
             /\ \/ Step(t, i) = Append(t, lines[i])
                \/ Step(t, i) = t /\ \E j \in DOMAIN t : t[j].fake = lines[i].fake
  <2>1. \/ Step(t, i) = Append(t, lines[i])
        \/ Step(t, i) = t /\ \E j \in DOMAIN t : t[j].fake = lines[i].fake
    BY DEF add_alias
  <2> HIDE DEF Step
  <2>2. QED BY <1>1, <2>1
<1>3. c_add_alias(lines) = w[n]
  BY DEF c_add_alias, Empty
<1> HIDE DEF Step, n
<1>4. w = Def(w)
  <2>1. Stepper(F, Seq(S), n)
    BY <1>2 DEF Stepper
  <2>2. PICK f : Recursion(f, F, <<>>, Seq(S), n)
    <3> HIDE DEF F
    <3>1. QED BY <1>1, <2>1, RecursionExists
  <2>3. ASSUME NEW i \in 0 .. n PROVE f[i] = Def(f)[i]
    <3>1. CASE i = 0
      BY <1>1, <2>2, <3>1 DEF Recursion
    <3>2. CASE i # 0
      <4>1. i \in 1 .. n /\ i - 1 \in 0 .. n
        BY <1>1, <3>2
      <4>2. f[i - 1] \in Seq(S)
        BY <2>2, <4>1 DEF Recursion
      <4>3. f[i] = F[<<f[i - 1], i>>]
        BY <2>2, <4>1 DEF Recursion
      <4>4. QED BY <3>2, <4>1, <4>2, <4>3
    <3>3. QED BY <3>1, <3>2
  <2>4. f = Def(f)
    <3>1. f \in [0 .. n -> Seq(S)] /\ DOMAIN Def(f) = 0 .. n
      BY <2>2 DEF Recursion
    <3>2. QED BY <2>3, <3>1
  <2> HIDE DEF Def
  <2>5. QED BY <2>4
<1> HIDE DEF w
<1>5. \A i \in 0 .. n : w[i] = IF i = 0 THEN <<>> ELSE Step(w[i - 1], i)
  BY <1>4
<1>6. w[0] = <<>>
  BY <1>1, <1>5
<1>7. Adds(w, lines, S, M)
  <2> SUFFICES ASSUME NEW i \in 1 .. n, w[i - 1] \in Seq(S)
               PROVE  \/ w[i] = Append(w[i - 1], lines[i])
                      \/ /\ w[i] = w[i - 1]
                         /\ lines[i] \in M => \E j \in DOMAIN w[i] : w[i][j] \in M
    BY <1>6 DEF Adds, n
  <2> DEFINE t == w[i - 1]
  <2>1. w[i] = Step(t, i) /\ t \in Seq(S)
    BY <1>1, <1>5
  <2> HIDE DEF t
  <2>2. ASSUME NEW j \in DOMAIN t, t[j].fake = lines[i].fake, lines[i] \in M
        PROVE  t[j] \in M
    <3>1. t[j] \in S /\ lines[i] \in S
      BY <1>1, <2>1
    <3>2. QED BY <2>2, <3>1
  <2>3. QED BY <1>2, <2>1, <2>2 DEF t
<1>8. QED BY <1>3, <1>7, TableFirst DEF n

(* What hash_find returns is the first entry of its key.                   *)
LEMMA HashFindFirst ==
    ASSUME NEW S, NEW t \in Seq(S), NEW key
    PROVE  hash_find(t, key) = FirstIn(t, Len(t), {m \in S : m.key = key})
<1> DEFINE I == {i \in DOMAIN t : /\ boa_hash(t[i].key) % HashSize = boa_hash(key) % HashSize
                                  /\ t[i].key = key}
           J == {i \in 1 .. Len(t) : t[i] \in {m \in S : m.key = key}}
<1>1. DOMAIN t = 1 .. Len(t) /\ \A i \in 1 .. Len(t) : t[i] \in S
  OBVIOUS
<1>2. I = J
  BY <1>1
<1>3. QED BY <1>2 DEF hash_find, FirstIn

(* What hash_find returns has the key that was asked for.                  *)
LEMMA HashFindKey ==
    ASSUME NEW S, NEW t \in Seq(S), NEW key, hash_find(t, key) # <<>>
    PROVE  \E j \in DOMAIN t : t[j].key = key /\ hash_find(t, key) = <<t[j]>>
<1> DEFINE M == {m \in S : m.key = key}
           I == {i \in 1 .. Len(t) : t[i] \in M}
<1>1. hash_find(t, key) = IF FirstOf(I) = 0 THEN <<>> ELSE <<t[FirstOf(I)]>>
  BY HashFindFirst DEF FirstIn
<1>2. I \in SUBSET (Nat \ {0}) /\ \A i \in I : i \in DOMAIN t /\ t[i].key = key
  OBVIOUS
<1> HIDE DEF I
<1>3. FirstOf(I) \in I
  BY <1>1, <1>2, FirstOfIs
<1>4. FirstOf(I) # 0
  BY <1>2, <1>3
<1>5. QED BY <1>1, <1>2, <1>3, <1>4

(* The table of types, likewise.                                           *)
LEMMA MimeTable ==
    ASSUME NEW S, NEW lines \in Seq(S), NEW M,
           \A d, e \in S : d.key = e.key /\ d \in M => e \in M
    PROVE  LET t == c_add_mime_types(lines)
           IN  t \in Seq(S) /\ FirstIn(t, Len(t), M) = FirstIn(lines, Len(lines), M)
<1> DEFINE n == Len(lines)
           Step(t, i) == add_mime_type(t, lines[i])
           Def(g) == [i \in 0 .. n |-> IF i = 0 THEN <<>> ELSE Step(g[i - 1], i)]
           F == [a \in Seq(S) \X (1 .. n) |-> Step(a[1], a[2])]
           w == CHOOSE g : g = Def(g)
<1>1. n \in Nat /\ <<>> \in Seq(S) /\ \A i \in 1 .. n : lines[i] \in S
  OBVIOUS
<1>2. ASSUME NEW t \in Seq(S), NEW i \in 1 .. n
      PROVE  /\ Step(t, i) \in Seq(S)
             /\ \/ Step(t, i) = Append(t, lines[i])
                \/ Step(t, i) = t /\ \E j \in DOMAIN t : t[j].key = lines[i].key
  <2>1. \/ Step(t, i) = Append(t, lines[i])
        \/ Step(t, i) = t /\ \E j \in DOMAIN t : t[j].key = lines[i].key
    <3>1. hash_find(t, lines[i].key) # <<>> => \E j \in DOMAIN t : t[j].key = lines[i].key
      BY HashFindKey
    <3>2. QED BY <3>1 DEF add_mime_type, hash_insert
  <2> HIDE DEF Step
  <2>2. QED BY <1>1, <2>1
<1>3. c_add_mime_types(lines) = w[n]
  BY DEF c_add_mime_types, Empty
<1> HIDE DEF Step, n
<1>4. w = Def(w)
  <2>1. Stepper(F, Seq(S), n)
    BY <1>2 DEF Stepper
  <2>2. PICK f : Recursion(f, F, <<>>, Seq(S), n)
    <3> HIDE DEF F
    <3>1. QED BY <1>1, <2>1, RecursionExists
  <2>3. ASSUME NEW i \in 0 .. n PROVE f[i] = Def(f)[i]
    <3>1. CASE i = 0
      BY <1>1, <2>2, <3>1 DEF Recursion
    <3>2. CASE i # 0
      <4>1. i \in 1 .. n /\ i - 1 \in 0 .. n
        BY <1>1, <3>2
      <4>2. f[i - 1] \in Seq(S)
        BY <2>2, <4>1 DEF Recursion
      <4>3. f[i] = F[<<f[i - 1], i>>]
        BY <2>2, <4>1 DEF Recursion
      <4>4. QED BY <3>2, <4>1, <4>2, <4>3
    <3>3. QED BY <3>1, <3>2
  <2>4. f = Def(f)
    <3>1. f \in [0 .. n -> Seq(S)] /\ DOMAIN Def(f) = 0 .. n
      BY <2>2 DEF Recursion
    <3>2. QED BY <2>3, <3>1
  <2> HIDE DEF Def
  <2>5. QED BY <2>4
<1> HIDE DEF w
<1>5. \A i \in 0 .. n : w[i] = IF i = 0 THEN <<>> ELSE Step(w[i - 1], i)
  BY <1>4
<1>6. w[0] = <<>>
  BY <1>1, <1>5
<1>7. Adds(w, lines, S, M)
  <2> SUFFICES ASSUME NEW i \in 1 .. n, w[i - 1] \in Seq(S)
               PROVE  \/ w[i] = Append(w[i - 1], lines[i])
                      \/ /\ w[i] = w[i - 1]
                         /\ lines[i] \in M => \E j \in DOMAIN w[i] : w[i][j] \in M
    BY <1>6 DEF Adds, n
  <2> DEFINE t == w[i - 1]
  <2>1. w[i] = Step(t, i) /\ t \in Seq(S)
    BY <1>1, <1>5
  <2> HIDE DEF t
  <2>2. ASSUME NEW j \in DOMAIN t, t[j].key = lines[i].key, lines[i] \in M
        PROVE  t[j] \in M
    <3>1. t[j] \in S /\ lines[i] \in S
      BY <1>1, <2>1
    <3>2. QED BY <2>2, <3>1
  <2>3. QED BY <1>2, <2>1, <2>2 DEF t
<1>8. QED BY <1>3, <1>7, TableFirst DEF n

(* A text is a string of characters.                                       *)
LEMMA TextIsChar == ASSUME NEW s \in Seq(Text) PROVE s \in Seq(Char)
BY DEF Text

(* What is left of a buffer up to its terminator has none.                 *)
LEMMA CStringText == ASSUME NEW s \in Seq(Char) PROVE CString(s) \in Seq(Text)
<1> DEFINE I == {i \in 1 .. Len(s) : s[i] = "NUL"}
           n == FirstOf(I)
<1>1. /\ Len(s) \in Nat /\ I \in SUBSET (Nat \ {0}) /\ I \subseteq 1 .. Len(s)
      /\ \A i \in 1 .. Len(s) : s[i] \in Char /\ (i \notin I => s[i] \in Text)
  BY DEF Text
<1>2. CString(s) = IF n = 0 THEN s ELSE SubSeq(s, 1, n - 1)
  BY DEF CString
<1> HIDE DEF I
<1>3. n \in Nat /\ (n = 0 <=> I = {}) /\ (I # {} => n \in I /\ \A i \in I : n <= i)
  BY <1>1, FirstOfIs
<1> HIDE DEF n
<1>4. CASE n = 0
  <2>1. \A i \in 1 .. Len(s) : s[i] \in Text
    BY <1>1, <1>3, <1>4
  <2>2. QED BY <1>1, <1>2, <1>4, <2>1
<1>5. CASE n # 0
  <2>1. n \in 1 .. Len(s) /\ \A i \in 1 .. n - 1 : i \notin I
    BY <1>1, <1>3, <1>5
  <2>2. \A i \in 1 .. n - 1 : s[i] \in Text
    BY <1>1, <2>1
  <2>3. SubSeq(s, 1, n - 1) = [i \in 1 .. n - 1 |-> s[i]]
    BY <1>1, <2>1
  <2>4. QED BY <1>2, <1>3, <1>5, <2>2, <2>3
<1>6. QED BY <1>4, <1>5

(* unescape_uri returns a string.                                          *)
LEMMA UnescapedText == ASSUME NEW s \in Seq(Char) PROVE unescape_uri(s).uri \in Seq(Text)
<1> DEFINE n == Len(s)
           V == [mode : {"copy", "hex", "hex2", "query", "fragment"}, digit : Char,
                 uri : Seq(Char), query : Seq(Char)]
           base == [mode |-> "copy", digit |-> "NUL", uri |-> <<>>, query |-> <<>>]
           Step(v, i) == UnescapeChar(v, s[i])
           Def(g) == [i \in 0 .. n |-> IF i = 0 THEN base ELSE Step(g[i - 1], i)]
           F == [a \in V \X (1 .. n) |-> Step(a[1], a[2])]
           w == CHOOSE g : g = Def(g)
<1>1. n \in Nat /\ base \in V
  BY UriAssumption
<1>2. ASSUME NEW v \in V, NEW i \in 1 .. n PROVE Step(v, i) \in V
  <2>1. s[i] \in Char /\ Decode(v.digit, s[i]) \in Char
    BY UriAssumption
  <2>2. Append(v.uri, s[i]) \in Seq(Char) /\ Append(v.query, s[i]) \in Seq(Char)
    BY <2>1
  <2>3. Append(v.uri, Decode(v.digit, s[i])) \in Seq(Char)
    BY <2>1
  <2>4. CASE v.mode = "copy"
    BY <2>1, <2>2, <2>4 DEF UnescapeChar
  <2>5. CASE v.mode = "hex"
    BY <2>1, <2>5 DEF UnescapeChar
  <2>6. CASE v.mode = "hex2"
    BY <2>3, <2>6 DEF UnescapeChar
  <2>7. CASE v.mode = "query"
    BY <2>2, <2>7 DEF UnescapeChar
  <2>8. CASE v.mode = "fragment"
    BY <2>8 DEF UnescapeChar
  <2>9. QED BY <2>4, <2>5, <2>6, <2>7, <2>8
<1>3. unescape_uri(s).uri = CString(w[n].uri)
  BY DEF unescape_uri
<1> HIDE DEF Step, n, V, base
<1>4. w = Def(w)
  <2>1. Stepper(F, V, n)
    BY <1>2 DEF Stepper
  <2>2. PICK f : Recursion(f, F, base, V, n)
    <3> HIDE DEF F
    <3>1. QED BY <1>1, <2>1, RecursionExists
  <2>3. ASSUME NEW i \in 0 .. n PROVE f[i] = Def(f)[i]
    <3>1. CASE i = 0
      BY <1>1, <2>2, <3>1 DEF Recursion
    <3>2. CASE i # 0
      <4>1. i \in 1 .. n /\ i - 1 \in 0 .. n
        BY <1>1, <3>2
      <4>2. f[i - 1] \in V
        BY <2>2, <4>1 DEF Recursion
      <4>3. f[i] = F[<<f[i - 1], i>>]
        BY <2>2, <4>1 DEF Recursion
      <4>4. QED BY <3>2, <4>1, <4>2, <4>3
    <3>3. QED BY <3>1, <3>2
  <2>4. f = Def(f)
    <3>1. f \in [0 .. n -> V] /\ DOMAIN Def(f) = 0 .. n
      BY <2>2 DEF Recursion
    <3>2. QED BY <2>3, <3>1
  <2> HIDE DEF Def
  <2>5. QED BY <2>4
<1> HIDE DEF w
<1>5. \A i \in 0 .. n : w[i] = IF i = 0 THEN base ELSE Step(w[i - 1], i)
  BY <1>4
<1>6. w[n] \in V
  <2> DEFINE T == {i \in 0 .. n : w[i] \in V}
  <2>1. 0 \in T
    BY <1>1, <1>5
  <2>2. ASSUME NEW i \in 1 .. n, i - 1 \in T PROVE i \in T
    BY <1>1, <1>2, <1>5, <2>2
  <2>3. 0 .. n \subseteq T
    <3> HIDE DEF T
    <3>1. QED BY <1>1, <2>1, <2>2, PlaceInduction
  <2>4. QED BY <1>1, <2>3
<1>7. w[n].uri \in Seq(Char)
  BY <1>6 DEF V
<1>8. QED BY <1>3, <1>7, CStringText

(* The parts that are skipped.                                             *)
SlashAt(s, j) == At(s, j) = "/"
DotAt(s, j) == At(s, j) = "." /\ At(s, j + 1) = "/"
DotsAt(s, j) == At(s, j) = "." /\ At(s, j + 1) = "." /\ At(s, j + 2) = "/"

(* They end within the string, and exclude each other.                     *)
LEMMA PartsWithin ==
    ASSUME NEW S, NEW s \in Seq(S), NEW j \in 1 .. Len(s) + 1
    PROVE  /\ SlashAt(s, j) => j + 1 \in j + 1 .. Len(s) + 1
           /\ DotAt(s, j) => j + 2 \in j + 1 .. Len(s) + 1
           /\ DotsAt(s, j) => j + 3 \in j + 1 .. Len(s) + 1
           /\ SlashAt(s, j) => ~DotAt(s, j) /\ ~DotsAt(s, j)
           /\ DotAt(s, j) => ~DotsAt(s, j)
BY DEF At, SlashAt, DotAt, DotsAt

(* The recursion of AfterSlash is well defined.                            *)
LEMMA AfterSlashSteps ==
    ASSUME NEW S, NEW s \in Seq(S), NEW i \in 1 .. Len(s) + 1
    PROVE  /\ SlashAt(s, i) => AfterSlash(s, i) = AfterSlash(s, i + 1)
           /\ DotAt(s, i) => AfterSlash(s, i) = AfterSlash(s, i + 2)
           /\ DotsAt(s, i) => AfterSlash(s, i) = AfterSlash(s, i + 3)
           /\ ~SlashAt(s, i) /\ ~DotAt(s, i) /\ ~DotsAt(s, i) => AfterSlash(s, i) = i
<1> DEFINE n == Len(s) + 1
           Slash(j) == SlashAt(s, j)
           Dot(j) == DotAt(s, j)
           Dots(j) == DotsAt(s, j)
           Def(g) == [j \in 1 .. n |-> CASE Slash(j) -> g[j + 1] [] Dot(j) -> g[j + 2]
                                         [] Dots(j) -> g[j + 3] [] OTHER -> j]
           Stop == {j \in 1 .. n : ~Slash(j) /\ ~Dot(j) /\ ~Dots(j)}
           after == [j \in 1 .. n |-> IF Slash(j) THEN j + 1 ELSE IF Dot(j) THEN j + 2 ELSE j + 3]
           base == [j \in 1 .. n |-> j]
           F == [a \in (1 .. n) \X (1 .. n) |-> a[1]]
           w == CHOOSE g : g = Def(g)
<1>1. n \in Nat /\ i \in 1 .. n
  OBVIOUS
<1>2. ASSUME NEW j \in 1 .. n
      PROVE  /\ Slash(j) => j + 1 \in j + 1 .. n
             /\ Dot(j) => j + 2 \in j + 1 .. n
             /\ Dots(j) => j + 3 \in j + 1 .. n
             /\ Slash(j) => ~Dot(j) /\ ~Dots(j)
             /\ Dot(j) => ~Dots(j)
  BY PartsWithin
<1>3. \A j : AfterSlash(s, j) = w[j]
  BY DEF AfterSlash, SlashAt, DotAt, DotsAt
<1> HIDE DEF Slash, Dot, Dots, n
<1>4. w = Def(w)
  <2>1. BackStepper(F, after, base, Stop, 1 .. n, n)
    <3>1. F \in [(1 .. n) \X (1 .. n) -> 1 .. n]
      OBVIOUS
    <3>2. base \in [1 .. n -> 1 .. n] /\ after \in [1 .. n -> Nat]
      BY <1>1
    <3>3. \A j \in 1 .. n : j \notin Stop => after[j] \in j + 1 .. n
      BY <1>2
    <3> HIDE DEF F, base, after, Stop
    <3>4. QED BY <3>1, <3>2, <3>3 DEF BackStepper
  <2>2. PICK f : BackRecursion(f, F, after, base, Stop, 1 .. n, n)
    <3> HIDE DEF F, base, after, Stop
    <3>1. QED BY <1>1, <2>1, BackRecursionExists
  <2>3. ASSUME NEW j \in 1 .. n PROVE f[j] = Def(f)[j]
    <3>1. f[j] = IF j \in Stop THEN base[j] ELSE F[<<f[after[j]], j>>]
      <4> HIDE DEF F, base, after, Stop
      <4>1. QED BY <2>2 DEF BackRecursion
    <3>2. CASE j \in Stop
      BY <3>1, <3>2
    <3>3. CASE j \notin Stop
      <4>1. after[j] \in 1 .. n
        BY <1>1, <1>2, <3>3
      <4>2. f[after[j]] \in 1 .. n
        <5> HIDE DEF after
        <5>1. QED BY <2>2, <4>1 DEF BackRecursion
      <4>3. f[j] = f[after[j]]
        <5> HIDE DEF after, Stop
        <5>1. QED BY <3>1, <3>3, <4>2
      <4>4. QED BY <1>2, <3>3, <4>3
    <3>4. QED BY <3>2, <3>3
  <2>4. f = Def(f)
    <3>1. f \in [1 .. n -> 1 .. n] /\ DOMAIN Def(f) = 1 .. n
      BY <2>2 DEF BackRecursion
    <3> HIDE DEF F, base, after, Stop
    <3>2. QED BY <2>3, <3>1
  <2> HIDE DEF Def
  <2>5. QED BY <2>4
<1> HIDE DEF w
<1>5. \A j \in 1 .. n : w[j] = CASE Slash(j) -> w[j + 1] [] Dot(j) -> w[j + 2]
                                 [] Dots(j) -> w[j + 3] [] OTHER -> j
  BY <1>4
<1>6. QED BY <1>1, <1>2, <1>3, <1>5 DEF Slash, Dot, Dots

(* After a slash, at least nothing and at most the rest is skipped, in     *)
(* whole parts with their slashes, up to what is no such part.             *)
Skipped(s, i, e) ==
    /\ e \in i .. Len(s) + 1
    /\ ~SlashAt(s, e) /\ ~DotAt(s, e) /\ ~DotsAt(s, e)
    /\ e # i => s[e - 1] = "/"

(* That is what AfterSlash does.                                           *)
LEMMA AfterSlashWithin ==
    ASSUME NEW S, NEW s \in Seq(S)
    PROVE  \A i \in 1 .. Len(s) + 1 : Skipped(s, i, AfterSlash(s, i))
<1> DEFINE n == Len(s) + 1
           e(j) == AfterSlash(s, j)
           T == {j \in 1 .. n : Skipped(s, j, e(j))}
<1>1. n \in Nat
  OBVIOUS
<1>2. ASSUME NEW j \in 1 .. n, \A k \in j + 1 .. n : k \in T PROVE j \in T
  <2>1. /\ SlashAt(s, j) => e(j) = e(j + 1) /\ j + 1 \in j + 1 .. n /\ s[j] = "/"
        /\ DotAt(s, j) => e(j) = e(j + 2) /\ j + 2 \in j + 1 .. n /\ s[j + 1] = "/"
        /\ DotsAt(s, j) => e(j) = e(j + 3) /\ j + 3 \in j + 1 .. n /\ s[j + 2] = "/"
        /\ ~SlashAt(s, j) /\ ~DotAt(s, j) /\ ~DotsAt(s, j) => e(j) = j
    <3>1. /\ SlashAt(s, j) => s[j] = "/"
          /\ DotAt(s, j) => s[j + 1] = "/"
          /\ DotsAt(s, j) => s[j + 2] = "/"
      BY DEF At, SlashAt, DotAt, DotsAt
    <3>2. QED BY <3>1, PartsWithin, AfterSlashSteps
  <2> HIDE DEF e
  <2>2. \A k \in j + 1 .. n : Skipped(s, k, e(k))
    BY <1>2
  <2>3. ASSUME NEW k \in j + 1 .. n, e(j) = e(k), s[k - 1] = "/" PROVE Skipped(s, j, e(j))
    <3>1. Skipped(s, k, e(k))
      BY <2>2
    <3>2. QED BY <1>1, <2>3, <3>1 DEF Skipped
  <2>4. (j + 1) - 1 = j /\ (j + 2) - 1 = j + 1 /\ (j + 3) - 1 = j + 2
    OBVIOUS
  <2>5. CASE SlashAt(s, j)
    BY <2>1, <2>3, <2>4, <2>5
  <2>6. CASE DotAt(s, j)
    BY <2>1, <2>3, <2>4, <2>6
  <2>7. CASE DotsAt(s, j)
    BY <2>1, <2>3, <2>4, <2>7
  <2>8. CASE ~SlashAt(s, j) /\ ~DotAt(s, j) /\ ~DotsAt(s, j)
    <3>1. e(j) = j
      BY <2>1, <2>8
    <3>2. QED BY <1>1, <2>8, <3>1 DEF Skipped
  <2>9. QED BY <2>5, <2>6, <2>7, <2>8
<1>3. 1 .. n \subseteq T
  <2> HIDE DEF T
  <2>1. QED BY <1>1, <1>2, BackInduction
<1>4. QED BY <1>3

(* The recursion of clean_pathname, and the place at which it goes on.     *)
Cleaning(s) ==
    CHOOSE clean : clean = [i \in 1 .. Len(s) + 1 |->
                              IF i > Len(s) THEN <<>>
                              ELSE IF s[i] = "/" THEN <<"/">> \o clean[AfterSlash(s, i + 1)]
                              ELSE <<s[i]>> \o clean[i + 1]]
NextPlace(s, i) == IF s[i] = "/" THEN AfterSlash(s, i + 1) ELSE i + 1

(* That place is behind the present one, and not behind the end.           *)
LEMMA NextWithin ==
    ASSUME NEW S, NEW s \in Seq(S), NEW i \in 1 .. Len(s)
    PROVE  s[i] \in S /\ NextPlace(s, i) \in i + 1 .. Len(s) + 1
<1>1. s[i] \in S /\ i + 1 \in 1 .. Len(s) + 1
  OBVIOUS
<1>2. AfterSlash(s, i + 1) \in i + 1 .. Len(s) + 1
  BY <1>1, AfterSlashWithin DEF Skipped
<1>3. QED BY <1>1, <1>2 DEF NextPlace

(* It is well defined, and clean_pathname only leaves characters out.      *)
LEMMA CleanSteps ==
    ASSUME NEW S, NEW s \in Seq(S)
    PROVE  /\ clean_pathname(s) = Cleaning(s)[1]
           /\ Cleaning(s)[Len(s) + 1] = <<>>
           /\ \A i \in 1 .. Len(s) :
                 Cleaning(s)[i] = <<s[i]>> \o Cleaning(s)[NextPlace(s, i)]
           /\ \A i \in 1 .. Len(s) + 1 : Cleaning(s)[i] \in Seq(S)
<1> DEFINE n == Len(s) + 1
           nxt(i) == NextPlace(s, i)
           one(i, t) == <<s[i]>> \o t
           Def(g) == [i \in 1 .. n |->
                        IF i > Len(s) THEN <<>>
                        ELSE IF s[i] = "/" THEN <<"/">> \o g[AfterSlash(s, i + 1)]
                        ELSE <<s[i]>> \o g[i + 1]]
           Stop == {n}
           after == [i \in 1 .. n |-> IF i = n THEN n ELSE nxt(i)]
           base == [i \in 1 .. n |-> <<>>]
           F == [a \in Seq(S) \X (1 .. n) |-> IF a[2] = n THEN <<>> ELSE one(a[2], a[1])]
           w == Cleaning(s)
<1>1. n \in Nat /\ Len(s) \in Nat /\ 1 \in 1 .. n /\ <<>> \in Seq(S)
  OBVIOUS
<1>2. ASSUME NEW i \in 1 .. n, i # n
      PROVE  i \in 1 .. Len(s) /\ s[i] \in S /\ nxt(i) \in i + 1 .. n
  <2>1. i \in 1 .. Len(s)
    BY <1>2
  <2>2. QED BY <2>1, NextWithin
<1>3. ASSUME NEW i \in 1 .. n, NEW t \in Seq(S), i # n PROVE one(i, t) \in Seq(S)
  <2>1. s[i] \in S
    BY <1>2, <1>3
  <2>2. <<s[i]>> \in Seq(S)
    BY <2>1
  <2>3. QED BY <2>2
<1>4. clean_pathname(s) = w[1] /\ w = CHOOSE g : g = Def(g)
  BY DEF clean_pathname, Cleaning
<1>5. \A g : \A i \in 1 .. n : Def(g)[i] = IF i = n THEN <<>> ELSE one(i, g[nxt(i)])
  BY <1>1 DEF NextPlace
<1>6. \A g : Def(g) = [i \in 1 .. n |-> Def(g)[i]]
  OBVIOUS
<1> HIDE DEF n, nxt, one, Def
<1>7. w = Def(w)
  <2>1. BackStepper(F, after, base, Stop, Seq(S), n)
    <3>1. F \in [Seq(S) \X (1 .. n) -> Seq(S)]
      BY <1>1, <1>3
    <3>2. base \in [1 .. n -> Seq(S)]
      BY <1>1
    <3>3. after \in [1 .. n -> Nat]
      BY <1>1, <1>2
    <3>4. \A i \in 1 .. n : i \notin Stop => after[i] \in i + 1 .. n
      BY <1>2
    <3> HIDE DEF F, base, after, Stop
    <3>5. QED BY <3>1, <3>2, <3>3, <3>4 DEF BackStepper
  <2>2. PICK f : BackRecursion(f, F, after, base, Stop, Seq(S), n)
    <3> HIDE DEF F, base, after, Stop
    <3>1. QED BY <1>1, <2>1, BackRecursionExists
  <2>3. ASSUME NEW i \in 1 .. n PROVE f[i] = Def(f)[i]
    <3>1. f[i] = IF i \in Stop THEN base[i] ELSE F[<<f[after[i]], i>>]
      <4> HIDE DEF F, base, after, Stop
      <4>1. QED BY <2>2 DEF BackRecursion
    <3>2. CASE i = n
      <4>1. f[i] = <<>>
        BY <3>1, <3>2
      <4>2. QED BY <1>5, <3>2, <4>1
    <3>3. CASE i # n
      <4>1. after[i] = nxt(i) /\ nxt(i) \in 1 .. n
        BY <1>1, <1>2, <3>3
      <4>2. f[nxt(i)] \in Seq(S)
        BY <2>2, <4>1 DEF BackRecursion
      <4>3. F[<<f[nxt(i)], i>>] = one(i, f[nxt(i)])
        BY <3>3, <4>2
      <4>4. i \notin Stop
        BY <3>3
      <4> HIDE DEF F, base, after, Stop
      <4>5. f[i] = one(i, f[nxt(i)])
        BY <3>1, <4>1, <4>3, <4>4
      <4>6. QED BY <1>5, <3>3, <4>5
    <3>4. QED BY <3>2, <3>3
  <2>4. f = Def(f)
    <3>1. f = [i \in 1 .. n |-> f[i]]
      BY <2>2 DEF BackRecursion
    <3> HIDE DEF F, base, after, Stop
    <3>2. [i \in 1 .. n |-> f[i]] = [i \in 1 .. n |-> Def(f)[i]]
      BY <2>3
    <3>3. QED BY <1>6, <3>1, <3>2
  <2> HIDE DEF w
  <2>5. QED BY <1>4, <2>4
<1> HIDE DEF w
<1>8. \A i \in 1 .. n : w[i] = IF i = n THEN <<>> ELSE one(i, w[nxt(i)])
  BY <1>5, <1>7
<1> DEFINE T == {i \in 1 .. n : w[i] \in Seq(S)}
<1>9. ASSUME NEW i \in 1 .. n, \A k \in i + 1 .. n : k \in T PROVE i \in T
  <2>1. CASE i = n
    <3>1. w[i] \in Seq(S)
      BY <1>1, <1>8, <2>1, Zenon
    <3>2. QED BY <3>1
  <2>2. CASE i # n
    <3>1. w[nxt(i)] \in Seq(S)
      BY <1>2, <1>9, <2>2
    <3>2. w[i] = one(i, w[nxt(i)])
      BY <1>8, <2>2
    <3>3. QED BY <1>3, <2>2, <3>1, <3>2
  <2>3. QED BY <2>1, <2>2
<1>10. 1 .. n \subseteq T
  <2> HIDE DEF T
  <2>1. QED BY <1>1, <1>9, BackInduction
<1>11. ASSUME NEW i \in 1 .. Len(s) PROVE w[i] = <<s[i]>> \o w[NextPlace(s, i)]
  <2>1. i \in 1 .. n /\ i # n
    BY <1>1 DEF n
  <2>2. QED BY <1>8, <2>1 DEF one, nxt
<1>12. w[n] = <<>>
  BY <1>1, <1>8
<1>13. \A i \in 1 .. n : w[i] \in Seq(S)
  BY <1>10
<1>14. QED BY <1>4, <1>11, <1>12, <1>13 DEF n, w

(* clean_pathname makes up no characters.                                  *)
LEMMA CleanText == ASSUME NEW S, NEW s \in Seq(S) PROVE clean_pathname(s) \in Seq(S)
<1>1. 1 \in 1 .. Len(s) + 1
  OBVIOUS
<1>2. QED BY <1>1, CleanSteps

(* Neither does the stripping of a first part.                             *)
LEMMA StrippedText ==
    ASSUME NEW S, NEW s \in Seq(S) PROVE Stripped(s) \in Seq(S)
<1>1. CASE Len(s) > 3
  <2>1. SubSeq(s, 3, Len(s)) \in Seq(S)
    BY <1>1
  <2>2. QED BY <2>1 DEF Stripped
<1>2. CASE ~(Len(s) > 3)
  BY <1>2 DEF Stripped
<1>3. QED BY <1>1, <1>2

(* The first part of a name that matches a URI up to a slash or to its end *)
(* is the first part of the URI.                                           *)
LEMMA MatchFirstPart ==
    ASSUME NEW uri \in Seq(Text), NEW d, d.fake \in Seq(Text) \ {<<>>}, Matches(d, uri),
           d.fake # <<"/">>
    PROVE  FirstPart(d.fake) = FirstPart(uri)
<1> DEFINE f == d.fake
           I == {i \in 2 .. Len(f) : f[i] = "/"}
           J == {i \in 2 .. Len(uri) : uri[i] = "/"}
           n == FirstOf(I)
           m == FirstOf(J)
<1>1. /\ f \in Seq(Text) /\ Len(f) \in Nat \ {0} /\ Len(uri) \in Nat /\ DOMAIN f = 1 .. Len(f)
      /\ I \in SUBSET (Nat \ {0}) /\ J \in SUBSET (Nat \ {0})
  OBVIOUS
<1>2. /\ Len(f) <= Len(uri) /\ \A i \in 1 .. Len(f) : uri[i] = f[i]
      /\ f[Len(f)] = "/" \/ At(uri, Len(f) + 1) \in {"NUL", "/"}
  BY <1>1 DEF Matches, BeginsWith
<1>3. /\ FirstPart(f) = IF n = 0 THEN f ELSE SubSeq(f, 1, n - 1)
      /\ FirstPart(uri) = IF m = 0 THEN uri ELSE SubSeq(uri, 1, m - 1)
  BY DEF FirstPart
<1>4. CASE I # {}
  <2>1. n \in I /\ n # 0 /\ \A i \in I : n <= i
    BY <1>1, <1>4, FirstOfIs
  <2>2. n \in J /\ \A i \in J : n <= i
    <3>1. n \in 2 .. Len(f) /\ f[n] = "/"
      BY <2>1
    <3>2. n \in J
      <4> HIDE DEF n
      <4>1. n \in 2 .. Len(uri) /\ uri[n] = "/"
        BY <1>1, <1>2, <3>1
      <4>2. QED BY <4>1
    <3>3. ASSUME NEW i \in J PROVE n <= i
      <4>1. CASE i <= Len(f)
        <5>1. i \in I
          BY <1>1, <1>2, <4>1
        <5>2. QED BY <2>1, <5>1
      <4>2. CASE ~(i <= Len(f))
        BY <1>1, <3>1, <4>2
      <4>3. QED BY <4>1, <4>2
    <3>4. QED BY <3>2, <3>3
  <2>3. m = n
    BY <1>1, <2>2, FirstOfEq
  <2>4. n \in 2 .. Len(f)
    BY <2>1
  <2> HIDE DEF n, m
  <2>5. SubSeq(f, 1, n - 1) = SubSeq(uri, 1, n - 1)
    <3>1. SubSeq(f, 1, n - 1) = [i \in 1 .. n - 1 |-> f[i]]
      BY <1>1, <2>4
    <3>2. SubSeq(uri, 1, n - 1) = [i \in 1 .. n - 1 |-> uri[i]]
      BY <1>1, <1>2, <2>4
    <3>3. \A i \in 1 .. n - 1 : uri[i] = f[i]
      BY <1>1, <1>2, <2>4
    <3>4. QED BY <3>1, <3>2, <3>3
  <2>6. QED BY <1>3, <2>1, <2>3, <2>5
<1>5. CASE I = {}
  <2>1. n = 0
    BY <1>5 DEF FirstOf
  <2>2. \A i \in 2 .. Len(f) : f[i] # "/"
    BY <1>5
  <2>3. f[Len(f)] # "/"
    <3>1. CASE Len(f) = 1
      <4>1. f = <<f[1]>>
        BY <1>1, <3>1
      <4>2. QED BY <3>1, <4>1
    <3>2. CASE Len(f) # 1
      BY <1>1, <2>2, <3>2
    <3>3. QED BY <3>1, <3>2
  <2>4. CASE Len(uri) = Len(f)
    <3>1. uri = f
      BY <1>1, <1>2, <2>4
    <3>2. QED BY <3>1
  <2>5. CASE Len(uri) # Len(f)
    <3>1. Len(f) + 1 \in 2 .. Len(uri) /\ uri[Len(f) + 1] \in Text
      BY <1>1, <1>2, <2>5
    <3>2. uri[Len(f) + 1] = "/"
      BY <1>2, <2>3, <3>1 DEF At, Text
    <3>3. Len(f) + 1 \in J
      BY <3>1, <3>2
    <3>4. \A i \in J : Len(f) + 1 <= i
      BY <1>1, <1>2, <2>2
    <3>5. m = Len(f) + 1
      BY <1>1, <3>3, <3>4, FirstOfEq
    <3> HIDE DEF m
    <3>6. SubSeq(uri, 1, m - 1) = f
      <4>1. SubSeq(uri, 1, Len(f)) = [i \in 1 .. Len(f) |-> uri[i]]
        BY <1>1, <1>2
      <4>2. f = [i \in 1 .. Len(f) |-> f[i]]
        BY <1>1, SMTT(30)
      <4>3. m - 1 = Len(f)
        BY <1>1, <3>5
      <4>4. QED BY <1>2, <4>1, <4>2, <4>3
    <3>7. m # 0
      BY <1>1, <3>5
    <3>8. QED BY <1>3, <2>1, <3>6, <3>7
  <2>6. QED BY <2>4, <2>5
<1>6. QED BY <1>4, <1>5

AliasLine == [fake : Seq(Text) \ {<<>>}, real : Seq(Text) \ {<<>>},
              type : {"ALIAS", "REDIRECT", "SCRIPTALIAS"}]
MimeLine == [key : Seq(Char), value : STRING]

(* Lines are a sequence of their entries.                                  *)
LEMMA ElemsSeq ==
    ASSUME NEW S, NEW lines \in Seq(S)
    PROVE  lines \in Seq(Elems(lines)) /\ Elems(lines) \subseteq S
<1>1. \A i \in 1 .. Len(lines) : lines[i] \in Elems(lines)
  BY DEF Elems
<1>2. QED BY <1>1 DEF Elems

(* The lines of a configuration.                                           *)
LEMMA ConfigLines ==
    ASSUME NEW c \in Configs
    PROVE  /\ c.alias \in Seq(AliasLine) /\ c.alias \in Seq(Elems(c.alias))
           /\ Elems(c.alias) \subseteq AliasLine
           /\ c.mime \in Seq(MimeLine) /\ c.mime \in Seq(Elems(c.mime))
           /\ Elems(c.mime) \subseteq MimeLine
           /\ c.options \subseteq Option
<1>1. c.alias \in Seq(AliasLine) /\ c.mime \in Seq(MimeLine) /\ c.options \subseteq Option
  BY TranslateAssumption DEF AliasLine, MimeLine
<1>2. QED BY <1>1, ElemsSeq

(* The entries of an alias table are lines of the configuration.           *)
LEMMA TablesTyped ==
    ASSUME NEW c \in Configs
    PROVE  /\ c_add_alias(c.alias) \in Seq(Elems(c.alias))
           /\ c_add_mime_types(c.mime) \in Seq(Elems(c.mime))
<1>1. c_add_alias(c.alias) \in Seq(Elems(c.alias))
  BY ConfigLines, AliasTable
<1>2. c_add_mime_types(c.mime) \in Seq(Elems(c.mime))
  BY ConfigLines, MimeTable
<1>3. QED BY <1>1, <1>2

(* An entry that find_alias returns is in the table.                       *)
LEMMA FindAliasEntry ==
    ASSUME NEW S, aliases \in Seq(S), NEW uri, find_alias(uri) # <<>>
    PROVE  find_alias(uri)[1] \in S /\ find_alias(uri) = <<find_alias(uri)[1]>>
<1> DEFINE I == {i \in ChainOf(uri) : Matches(aliases[i], uri)}
<1>1. I \in SUBSET (Nat \ {0}) /\ I \subseteq DOMAIN aliases
  BY DEF ChainOf
<1>2. find_alias(uri) = IF FirstOf(I) = 0 THEN <<>> ELSE <<aliases[FirstOf(I)]>>
  BY DEF find_alias
<1> HIDE DEF I
<1>3. FirstOf(I) \in DOMAIN aliases
  BY <1>1, <1>2, FirstOfIs
<1>4. aliases[FirstOf(I)] \in S
  BY <1>3
<1>5. QED BY <1>2, <1>4

(* Every translation has one of the outcomes.                              *)
LEMMA ScriptOutcome ==
    ASSUME NEW d, NEW uri, NEW http09
    PROVE  init_script_alias(d, uri, http09).out \in Outcome
<1> DEFINE path == ScriptPath(d, uri)
           type == IF http09 \/ At(path, Len(d.real) + 1) = "n" THEN "nph" ELSE "cgi"
           split == Split(d, uri)
           info == split.info
           a == [Answer(type, split.file) EXCEPT
                 !.info = info,
                 !.script = IF Len(info) > Len(uri) THEN uri
                            ELSE SubSeq(uri, 1, Len(uri) - Len(info))]
           o == init_script_alias(d, uri, http09)
<1>1. \A x : Refused(x).out = x
  BY DEF Refused, Answer
<1>2. a.out \in {"nph", "cgi"}
  BY DEF Answer
<1>3. PathTranslated(a).out \in {a.out, "bad", "not_found"}
  <2> HIDE DEF a
  <2>1. \A x : [a EXCEPT !.xlat = x].out = a.out
    <3>1. "out" \in DOMAIN a
      BY DEF a, Answer
    <3>2. QED BY <3>1
  <2>2. QED BY <1>1, <2>1 DEF PathTranslated
<1> HIDE DEF a
<1>4. o \in {Refused("bad"), Refused("not_found"), Refused("forbidden"), a, PathTranslated(a)}
  BY DEF init_script_alias, a, stat
<1> HIDE DEF o
<1>5. QED BY <1>1, <1>2, <1>3, <1>4 DEF Outcome, o

(* ByType gives one of the answers.                                        *)
LEMMA TypeOutcome ==
    ASSUME NEW path, NEW uri, NEW method, NEW http09
    PROVE  ByType(path, uri, method, http09).out \in Outcome
BY DEF ByType, Refused, Answer, Outcome

(* So does translate_uri.                                                  *)
LEMMA TranslateOutcome ==
    ASSUME NEW S, aliases \in Seq(S), S \subseteq AliasLine, NEW uri, NEW method, NEW http09
    PROVE  translate_uri(uri, method, http09).out \in Outcome
<1> DEFINE found == find_alias(uri)
           d == found[1]
           o == translate_uri(uri, method, http09)
<1>1. /\ \A x \in Outcome : Refused(x).out \in Outcome
      /\ \A x : Answer("file", x).out \in Outcome
      /\ \A x : ByType(x, uri, method, http09).out \in Outcome
      /\ init_script_alias(d, uri, http09).out \in Outcome
      /\ {"bad", "moved", "not_found"} \subseteq Outcome
  BY ScriptOutcome, TypeOutcome DEF Refused, Answer, Outcome
<1>2. CASE found = <<>>
  BY <1>1, <1>2 DEF translate_uri
<1>3. CASE found # <<>>
  <2>1. d.type \in {"ALIAS", "REDIRECT", "SCRIPTALIAS"}
    BY <1>3, FindAliasEntry DEF AliasLine
  <2>2. QED BY <1>1, <1>3, <2>1 DEF translate_uri
<1>4. QED BY <1>2, <1>3

(* The static buffer keeps its size and its type.                          *)
LEMMA FilledTyped ==
    ASSUME NEW path \in Seq(Char), Fits(path), pathname \in [1 .. MaxPath + 1 -> Char]
    PROVE  Filled(path) \in [1 .. MaxPath + 1 -> Char]
<1> DEFINE k == Len(path)
           rest == SubSeq(pathname, k + 2, MaxPath + 1)
           front == path \o <<"NUL">>
<1>1. k \in Nat /\ MaxPath \in Nat /\ k <= MaxPath /\ "NUL" \in Char
  BY UriAssumption, TranslateAssumption DEF Fits
<1>2. pathname \in Seq(Char) /\ Len(pathname) = MaxPath + 1
  <2>1. pathname \in Seq(Char)
    BY <1>1
  <2>2. QED BY <1>1, <2>1, LenOfDomain
<1>3. rest \in Seq(Char) /\ Len(rest) = MaxPath - k
  BY <1>1, <1>2
<1>4. front \in Seq(Char) /\ Len(front) = k + 1
  BY <1>1
<1> HIDE DEF rest, front
<1>5. front \o rest \in Seq(Char) /\ Len(front \o rest) = MaxPath + 1
  BY <1>1, <1>3, <1>4
<1>6. Filled(path) = front \o rest
  BY DEF Filled, front, rest
<1>7. Filled(path) \in Seq(Char) /\ Len(Filled(path)) = MaxPath + 1
  BY <1>5, <1>6
<1>8. QED BY <1>7

(* The split of a script from its extra path stays within the buffer.      *)
LEMMA SplitTyped ==
    ASSUME NEW d \in AliasLine, NEW uri \in Seq(Char), Fits(ScriptPath(d, uri)),
           pathname \in [1 .. MaxPath + 1 -> Char]
    PROVE  Split(d, uri).buf \in [1 .. MaxPath + 1 -> Char]
<1> DEFINE path == ScriptPath(d, uri)
           buf == Filled(path)
           cut == Cut(d, uri)
<1>1. path \in Seq(Char)
  <2>1. d.real \in Seq(Char) /\ d.fake \in Seq(Char) /\ Len(d.fake) \in Nat
    BY TextIsChar DEF AliasLine
  <2>2. SubSeq(uri, Len(d.fake) + 1, Len(uri)) \in Seq(Char)
    BY <2>1
  <2>3. Replaced(d, uri) \in Seq(Char)
    BY <2>1, <2>2 DEF Replaced
  <2>4. <<"vhost/">> \in Seq(Char) /\ <<>> \in Seq(Char)
    BY TranslateAssumption
  <2>5. QED BY <2>3, <2>4 DEF ScriptPath
<1>2. buf \in [1 .. MaxPath + 1 -> Char]
  BY <1>1, FilledTyped
<1>3. Split(d, uri).buf = buf \/ Split(d, uri).buf = [buf EXCEPT ![cut] = "NUL"]
  BY DEF Split
<1> HIDE DEF buf, cut
<1>4. [buf EXCEPT ![cut] = "NUL"] \in [1 .. MaxPath + 1 -> Char]
  BY <1>2, UriAssumption
<1>5. QED BY <1>2, <1>3, <1>4

(* The lines that find_alias would return, if they were in the table: they *)
(* match and are in the chain of the URI.                                  *)
Hits(uri) == {d \in AliasLine : /\ get_alias_hash_value(d.fake) = get_alias_hash_value(uri)
                                /\ Matches(d, uri)}

(* find_alias returns the first of them in the table.                      *)
LEMMA FindAliasFirst ==
    ASSUME aliases \in Seq(AliasLine), NEW uri
    PROVE  find_alias(uri) = FirstIn(aliases, Len(aliases), Hits(uri))
<1> DEFINE I == {i \in ChainOf(uri) : Matches(aliases[i], uri)}
           J == {i \in 1 .. Len(aliases) : aliases[i] \in Hits(uri)}
<1>1. DOMAIN aliases = 1 .. Len(aliases) /\ \A i \in 1 .. Len(aliases) : aliases[i] \in AliasLine
  OBVIOUS
<1>2. I = J
  BY <1>1 DEF ChainOf, Hits
<1>3. QED BY <1>2 DEF find_alias, FirstIn

(* The users of the cached homes had them, those of the database too.      *)
HomesHeld ==
    /\ \A i \in DOMAIN homes : <<homes[i].key, homes[i].value>> \in held
    /\ \A u \in Users : <<u, passwd[u]>> \in held

(* The answer goes back to the tables, which only change between requests. *)
FoundNow ==
    ans # NoRequest /\ ans.out # "bad" =>
        /\ ans.uri \in Seq(Text)
        /\ ans.found = FirstIn(aliases, Len(aliases), Hits(ans.uri))

(* The inductive invariant.  The tables are those that the configuration   *)
(* read last makes when its lines are added to empty ones: sighup_run      *)
(* empties them first, and nothing but a home is added between two         *)
(* readings.                                                               *)
TransInv ==
    /\ TransTypeOK
    /\ aliases = c_add_alias(config.alias) /\ mimes = c_add_mime_types(config.mime)
    /\ HomesHeld
    /\ FoundNow

(* It holds at the start.                                                  *)
LEMMA TransInitInv == TransInit => TransInv
<1> SUFFICES ASSUME TransInit PROVE TransInv
  OBVIOUS
<1> USE DEF TransInit
<1>1. /\ c_add_alias(config.alias) \in Seq(Elems(config.alias))
      /\ c_add_mime_types(config.mime) \in Seq(Elems(config.mime))
      /\ config.options \subseteq Option
  BY TablesTyped, ConfigLines
<1>2. pathname \in [1 .. MaxPath + 1 -> Char]
  BY UriAssumption
<1>3. homes = <<>> /\ homes \in Seq([key : Users, value : Homes])
  BY DEF Empty
<1>4. ans.out = "none"
  BY DEF NoRequest
<1>5. TransTypeOK
  BY <1>1, <1>2, <1>3, <1>4 DEF TransTypeOK
<1>6. HomesHeld
  BY <1>3 DEF HomesHeld
<1>7. FoundNow
  BY DEF FoundNow
<1>8. QED BY <1>5, <1>6, <1>7 DEF TransInv

(* SIGHUP makes the tables of the configuration it reads.                  *)
LEMMA SighupInv == ASSUME TransInv, sighup_run PROVE TransInv'
<1> USE DEF sighup_run
<1>1. PICK c \in Configs : read_config_files(c)
  OBVIOUS
<1>2. /\ config' = c /\ options' = options \cup c.options /\ running' \in BOOLEAN
      /\ aliases' = c_add_alias(c.alias) /\ mimes' = c_add_mime_types(c.mime)
  BY <1>1 DEF read_config_files, c_set
<1>3. /\ c_add_alias(c.alias) \in Seq(Elems(c.alias))
      /\ c_add_mime_types(c.mime) \in Seq(Elems(c.mime))
      /\ c.options \subseteq Option
  BY TablesTyped, ConfigLines
<1>4. homes' = <<>> /\ homes' \in Seq([key : Users, value : Homes])
  BY DEF Empty
<1>5. options \subseteq Option /\ options' \subseteq Option
  BY <1>2, <1>3 DEF TransInv, TransTypeOK
<1>6. TransTypeOK'
  <2>1. /\ config' \in Configs /\ options' \subseteq Option /\ running' \in BOOLEAN
        /\ aliases' \in Seq(Elems(config'.alias)) /\ mimes' \in Seq(Elems(config'.mime))
    BY <1>2, <1>3, <1>5
  <2>2. /\ pathname' \in [1 .. MaxPath + 1 -> Char]
        /\ passwd' \in [Users -> Homes \cup {NoHome}]
        /\ ans'.out \in Outcome \cup {"none"}
    BY DEF TransInv, TransTypeOK
  <2>3. QED BY <1>4, <2>1, <2>2 DEF TransTypeOK
<1>7. HomesHeld'
  BY <1>4 DEF HomesHeld
<1>8. FoundNow'
  BY DEF FoundNow
<1>9. QED BY <1>2, <1>6, <1>7, <1>8 DEF TransInv

(* What get_home_dir adds is the home that the database has now.           *)
LEMMA HomeAdded ==
    ASSUME TransInv, NEW v, get_home_dir(v)
    PROVE  /\ homes' \in Seq([key : Users, value : Homes])
           /\ \A i \in DOMAIN homes' : <<homes'[i].key, homes'[i].value>> \in held
<1> DEFINE E == [key : Users, value : Homes]
           e == [key |-> v, value |-> Home(v)]
<1>1. /\ homes \in Seq(E) /\ passwd \in [Users -> Homes \cup {NoHome}]
      /\ \A i \in DOMAIN homes : <<homes[i].key, homes[i].value>> \in held
      /\ \A u \in Users : <<u, passwd[u]>> \in held
  BY DEF TransInv, TransTypeOK, HomesHeld
<1>2. CASE homes' = homes
  BY <1>1, <1>2
<1>3. CASE homes' # homes
  <2>1. /\ Home(v) # NoHome /\ homes' = hash_insert(homes, e)
        /\ hash_find(homes, v) = <<>> /\ homes' = Append(homes, e)
    BY <1>3 DEF get_home_dir, hash_insert
  <2>2. v \in Users /\ Home(v) = passwd[v]
    BY <2>1 DEF Home
  <2>3. e \in E /\ <<e.key, e.value>> \in held
    BY <1>1, <2>1, <2>2
  <2> HIDE DEF e, E
  <2>4. homes' \in Seq(E)
    BY <1>1, <2>1, <2>3
  <2>5. ASSUME NEW i \in DOMAIN homes'
        PROVE  <<homes'[i].key, homes'[i].value>> \in held
    <3>1. homes'[i] = e \/ (i \in DOMAIN homes /\ homes'[i] = homes[i])
      BY <1>1, <2>1, <2>3
    <3>2. QED BY <1>1, <2>3, <3>1
  <2>6. QED BY <2>4, <2>5 DEF E
<1>4. QED BY <1>2, <1>3

(* A request adds at most a home, and its answer goes back to the tables.  *)
LEMMA ProcessInv == ASSUME TransInv, NEW q \in Asked, process_header_end(q) PROVE TransInv'
<1> DEFINE u == unescape_uri(q.raw)
           uri == Stripped(clean_pathname(u.uri))
           found == find_alias(uri)
           a == translate_uri(uri, q.method, q.http09)
           users == LooksUp(uri, a)
           good == u.ok /\ At(uri, 1) = "/" /\ (Has("vhost_root") => check_host(q.host))
           buf == IF /\ found # <<>> /\ found[1].type = "SCRIPTALIAS"
                     /\ Fits(ScriptPath(found[1], uri))
                  THEN Split(found[1], uri).buf ELSE pathname
<1>1. uri \in Seq(Text)
  <2>1. q.raw \in Seq(Char)
    BY TranslateAssumption
  <2>2. QED BY <2>1, UnescapedText, CleanText, StrippedText
<1>2. /\ \/ /\ ~good /\ ans' = Answered(Refused("bad"), q, uri, <<>>)
            /\ UNCHANGED <<homes, pathname>>
         \/ /\ good /\ ans' = Answered(a, q, uri, found)
            /\ IF users = {} THEN UNCHANGED homes ELSE \E v \in users : get_home_dir(v)
            /\ pathname' = buf
      /\ UNCHANGED <<config, options, running, aliases, mimes, passwd, held>>
  BY DEF process_header_end
<1> HIDE DEF u, uri, found, a, users, good, buf
<1>3. /\ config \in Configs /\ aliases \in Seq(Elems(config.alias))
      /\ Elems(config.alias) \subseteq AliasLine
      /\ pathname \in [1 .. MaxPath + 1 -> Char]
      /\ homes \in Seq([key : Users, value : Homes])
      /\ \A i \in DOMAIN homes : <<homes[i].key, homes[i].value>> \in held
  BY ConfigLines DEF TransInv, TransTypeOK, HomesHeld
<1>4. a.out \in Outcome
  BY <1>3, TranslateOutcome DEF a
<1>5. buf \in [1 .. MaxPath + 1 -> Char]
  <2>1. CASE /\ found # <<>> /\ found[1].type = "SCRIPTALIAS"
             /\ Fits(ScriptPath(found[1], uri))
    <3>1. found[1] \in AliasLine
      BY <1>3, <2>1, FindAliasEntry DEF found
    <3>2. uri \in Seq(Char)
      BY <1>1 DEF Text
    <3>3. Split(found[1], uri).buf \in [1 .. MaxPath + 1 -> Char]
      BY <1>3, <2>1, <3>1, <3>2, SplitTyped
    <3>4. QED BY <2>1, <3>3 DEF buf
  <2>2. CASE ~(/\ found # <<>> /\ found[1].type = "SCRIPTALIAS"
               /\ Fits(ScriptPath(found[1], uri)))
    BY <1>3, <2>2 DEF buf
  <2>3. QED BY <2>1, <2>2
<1>6. \A x, y, z : /\ Answered(x, q, y, z).out = x.out /\ Answered(x, q, y, z).uri = y
                   /\ Answered(x, q, y, z).found = z
  BY DEF Answered
<1>7. Refused("bad").out = "bad" /\ "bad" \in Outcome
  BY DEF Refused, Answer, Outcome
<1>8. /\ homes' \in Seq([key : Users, value : Homes])
      /\ \A i \in DOMAIN homes' : <<homes'[i].key, homes'[i].value>> \in held
  BY <1>2, <1>3, HomeAdded
<1>9. pathname' \in [1 .. MaxPath + 1 -> Char]
  BY <1>2, <1>3, <1>5
<1>10. ans'.out \in Outcome
  BY <1>2, <1>4, <1>6, <1>7
<1>11. TransTypeOK'
  <2>1. /\ config' \in Configs /\ options' \subseteq Option /\ running' \in BOOLEAN
        /\ aliases' \in Seq(Elems(config'.alias)) /\ mimes' \in Seq(Elems(config'.mime))
        /\ passwd' \in [Users -> Homes \cup {NoHome}]
    BY <1>2 DEF TransInv, TransTypeOK
  <2>2. QED BY <1>8, <1>9, <1>10, <2>1 DEF TransTypeOK
<1>12. HomesHeld'
  BY <1>2, <1>8 DEF TransInv, HomesHeld
<1>13. FoundNow'
  <2>1. CASE ~good
    BY <1>2, <1>6, <1>7, <2>1 DEF FoundNow
  <2>2. CASE good
    <3>1. ans'.uri = uri /\ ans'.found = found
      BY <1>2, <1>6, <2>2
    <3>2. aliases \in Seq(AliasLine)
      BY <1>3
    <3>3. found = FirstIn(aliases, Len(aliases), Hits(uri))
      BY <3>2, FindAliasFirst DEF found
    <3>4. QED BY <1>1, <1>2, <3>1, <3>3 DEF FoundNow
  <2>3. QED BY <2>1, <2>2
<1>14. QED BY <1>2, <1>11, <1>12, <1>13 DEF TransInv

(* The next request finds the same tables.                                 *)
LEMMA DispatchedInv == ASSUME TransInv, Dispatched PROVE TransInv'
<1> USE DEF Dispatched, tables
<1>1. ans'.out = "none"
  BY DEF NoRequest
<1>2. TransTypeOK'
  BY <1>1 DEF TransInv, TransTypeOK
<1>3. HomesHeld'
  BY DEF TransInv, HomesHeld
<1>4. FoundNow'
  BY DEF FoundNow
<1>5. QED BY <1>2, <1>3, <1>4 DEF TransInv

(* A home that changes is recorded as held.                                *)
LEMMA PasswdInv == ASSUME TransInv, PasswdChanges PROVE TransInv'
<1> USE DEF PasswdChanges, tables
<1>1. PICK u \in Users, h \in Homes \cup {NoHome} :
         passwd' = [passwd EXCEPT ![u] = h] /\ held' = held \cup {<<u, h>>}
  OBVIOUS
<1>2. passwd \in [Users -> Homes \cup {NoHome}] /\ passwd' \in [Users -> Homes \cup {NoHome}]
  BY <1>1 DEF TransInv, TransTypeOK
<1>3. TransTypeOK'
  BY <1>2 DEF TransInv, TransTypeOK
<1>4. HomesHeld'
  BY <1>1, <1>2 DEF TransInv, HomesHeld
<1>5. FoundNow'
  BY DEF FoundNow
<1>6. QED BY <1>3, <1>4, <1>5 DEF TransInv

(* Every step keeps the invariant.                                         *)
LEMMA TransInductive == TransInv /\ [TransNext]_transVars => TransInv'
<1> SUFFICES ASSUME TransInv, [TransNext]_transVars PROVE TransInv'
  OBVIOUS
<1>1. CASE sighup_run
  BY <1>1, SighupInv
<1>2. ASSUME NEW q \in Asked, process_header_end(q) PROVE TransInv'
  BY <1>2, ProcessInv
<1>3. CASE Dispatched
  BY <1>3, DispatchedInv
<1>4. CASE PasswdChanges
  BY <1>4, PasswdInv
<1>5. CASE UNCHANGED transVars
  BY <1>5 DEF TransInv, TransTypeOK, HomesHeld, FoundNow, transVars, tables
<1>6. QED BY <1>1, <1>2, <1>3, <1>4, <1>5 DEF TransNext

(* The invariant gives the first line of the configuration that matches.   *)
LEMMA InvFirstMatch == TransInv => FirstMatch
<1> SUFFICES ASSUME TransInv, ans # NoRequest, ans.out # "bad" PROVE FirstMatch
  BY DEF FirstMatch
<1> DEFINE uri == ans.uri
           lines == config.alias
           M == Hits(uri)
           I == {i \in DOMAIN lines :
                   /\ Matches(lines[i], uri)
                   /\ lines[i].fake = <<"/">> =>
                        get_alias_hash_value(uri) = get_alias_hash_value(<<"/">>)}
           J == {i \in 1 .. Len(lines) : lines[i] \in M}
<1>1. /\ config \in Configs /\ lines \in Seq(AliasLine) /\ aliases = c_add_alias(lines)
      /\ uri \in Seq(Text) /\ ans.found = FirstIn(aliases, Len(aliases), M)
  BY ConfigLines DEF TransInv, TransTypeOK, FoundNow
<1>2. \A d, e \in AliasLine : d.fake = e.fake /\ d \in M => e \in M
  BY DEF Hits, Matches, BeginsWith
<1> HIDE DEF M, uri, lines
<1>3. ans.found = FirstIn(lines, Len(lines), M)
  BY <1>1, <1>2, AliasTable
<1>4. DOMAIN lines = 1 .. Len(lines) /\ \A i \in 1 .. Len(lines) : lines[i] \in AliasLine
  BY <1>1
<1>5. ASSUME NEW i \in 1 .. Len(lines) PROVE i \in I <=> i \in J
  <2> DEFINE d == lines[i]
  <2>1. d \in AliasLine /\ d.fake \in Seq(Text) \ {<<>>}
    BY <1>4 DEF AliasLine
  <2>2. i \in J <=> /\ get_alias_hash_value(d.fake) = get_alias_hash_value(uri)
                    /\ Matches(d, uri)
    BY <2>1 DEF M, Hits
  <2>3. i \in I <=> /\ Matches(d, uri)
                    /\ d.fake = <<"/">> =>
                          get_alias_hash_value(uri) = get_alias_hash_value(<<"/">>)
    BY <1>4
  <2> HIDE DEF d, I, J
  <2>4. Matches(d, uri) /\ d.fake # <<"/">> =>
           get_alias_hash_value(d.fake) = get_alias_hash_value(uri)
    BY <1>1, <2>1, MatchFirstPart DEF get_alias_hash_value
  <2>5. QED BY <2>2, <2>3, <2>4
<1>6. I = J
  <2>1. I \subseteq 1 .. Len(lines) /\ J \subseteq 1 .. Len(lines)
    BY <1>4
  <2> HIDE DEF I, J
  <2>2. QED BY <1>5, <2>1
<1>7. ans.found = IF FirstOf(I) = 0 THEN <<>> ELSE <<lines[FirstOf(I)]>>
  BY <1>3, <1>6 DEF FirstIn
<1> DEFINE all == {i \in DOMAIN lines : Matches(lines[i], uri)}
           rest == {i \in {i \in DOMAIN lines : lines[i].fake # <<"/">>} : Matches(lines[i], uri)}
<1>8. I = all \/ I = rest
  <2>1. CASE get_alias_hash_value(uri) = get_alias_hash_value(<<"/">>)
    <3>1. I = all
      BY <2>1
    <3>2. QED BY <3>1
  <2>2. CASE get_alias_hash_value(uri) # get_alias_hash_value(<<"/">>)
    <3>1. I = rest
      BY <2>2
    <3>2. QED BY <3>1
  <2>3. QED BY <2>1, <2>2
<1> DEFINE Of(K) == IF FirstOf(K) = 0 THEN <<>> ELSE <<lines[FirstOf(K)]>>
<1>9. /\ MatchOf(DOMAIN lines) = Of(all)
      /\ MatchOf({i \in DOMAIN lines : lines[i].fake # <<"/">>}) = Of(rest)
  BY DEF MatchOf, lines, uri
<1>10. ans.found = Of(I)
  BY <1>7
<1> HIDE DEF I, all, rest
<1>11. ans.found \in {MatchOf(DOMAIN lines),
                      MatchOf({i \in DOMAIN lines : lines[i].fake # <<"/">>})}
  <2>1. Of(I) = Of(all) \/ Of(I) = Of(rest)
    BY <1>8
  <2> HIDE DEF Of
  <2>2. QED BY <1>9, <1>10, <2>1
<1>12. QED BY <1>11 DEF FirstMatch, lines

(* And the first AddType line of a key, and homes that their users had.    *)
LEMMA InvTablesCurrent == TransInv => TablesCurrent
<1> SUFFICES ASSUME TransInv PROVE TablesCurrent
  OBVIOUS
<1>1. /\ TransTypeOK /\ config \in Configs /\ mimes = c_add_mime_types(config.mime)
      /\ config.mime \in Seq(MimeLine)
  BY ConfigLines DEF TransInv, TransTypeOK
<1>2. ASSUME NEW key
      PROVE  LET n == FirstOf({i \in DOMAIN config.mime : config.mime[i].key = key})
             IN  hash_find(mimes, key) = IF n = 0 THEN <<>> ELSE <<config.mime[n]>>
  <2> DEFINE lines == config.mime
             M == {m \in MimeLine : m.key = key}
             I == {i \in DOMAIN lines : lines[i].key = key}
             J == {i \in 1 .. Len(lines) : lines[i] \in M}
  <2>1. \A d, e \in MimeLine : d.key = e.key /\ d \in M => e \in M
    OBVIOUS
  <2>2. mimes \in Seq(MimeLine) /\ FirstIn(mimes, Len(mimes), M) = FirstIn(lines, Len(lines), M)
    <3> HIDE DEF M
    <3>1. QED BY <1>1, <2>1, MimeTable
  <2>3. hash_find(mimes, key) = FirstIn(lines, Len(lines), M)
    BY <2>2, HashFindFirst
  <2>4. I = J
    BY <1>1
  <2>5. QED BY <2>3, <2>4 DEF FirstIn
<1>3. ASSUME NEW u \in Users, hash_find(homes, u) # <<>>
      PROVE  <<u, hash_find(homes, u)[1].value>> \in held
  <2>1. /\ homes \in Seq([key : Users, value : Homes])
        /\ \A i \in DOMAIN homes : <<homes[i].key, homes[i].value>> \in held
    BY DEF TransInv, TransTypeOK, HomesHeld
  <2>2. PICK j \in DOMAIN homes : homes[j].key = u /\ hash_find(homes, u) = <<homes[j]>>
    BY <1>3, <2>1, HashFindKey
  <2>3. QED BY <2>1, <2>2
<1>4. QED BY <1>1, <1>2, <1>3 DEF TablesCurrent

(* hash_insert and hash_find (hash.c) give the type of the first AddType   *)
(* line for an extension and a home that the user had since the last       *)
(* reading, with any hash function, table size and configurations, after   *)
(* any number of SIGHUPs; and no path outgrows the static buffer of        *)
(* init_script_alias.                                                      *)
THEOREM TablesCorrect == TransSpec => []TablesCurrent
BY TransInitInv, TransInductive, InvTablesCurrent, PTL DEF TransSpec

(* find_alias (alias.c) finds the first alias line of the configuration    *)
(* read last that matches the beginning of a URI, whatever the hash        *)
(* function and the size of the table, although add_alias spreads the      *)
(* lines over chains and drops some that are given twice: a line that is   *)
(* dropped has an equal before it, and a name that matches has the first   *)
(* part of the URI, so it is in the chain of the URI unless it is the name *)
(* /, and of that one nothing is claimed.                                  *)
THEOREM AliasCorrect == TransSpec => []FirstMatch
BY TransInitInv, TransInductive, InvFirstMatch, PTL DEF TransSpec

(* A buffer is read up to its first terminator.                            *)
LEMMA CStringUpTo ==
    ASSUME NEW s \in Seq(Char), NEW n \in 1 .. Len(s), s[n] = "NUL",
           \A i \in 1 .. n - 1 : s[i] # "NUL"
    PROVE  CString(s) = SubSeq(s, 1, n - 1)
<1> DEFINE I == {i \in 1 .. Len(s) : s[i] = "NUL"}
<1>1. I \in SUBSET (Nat \ {0}) /\ n \in I /\ \A i \in I : n <= i
  OBVIOUS
<1>2. FirstOf(I) = n /\ n # 0
  BY <1>1, FirstOfEq
<1>3. QED BY <1>2 DEF CString

(* A text has no terminator to end it.                                     *)
LEMMA CStringWhole == ASSUME NEW s \in Seq(Text) PROVE CString(s) = s
<1>1. {i \in 1 .. Len(s) : s[i] = "NUL"} = {}
  BY DEF Text
<1>2. QED BY <1>1 DEF CString, FirstOf

(* The path of a script in the buffer, and the terminator behind it.       *)
LEMMA FilledPlaces ==
    ASSUME NEW path \in Seq(Text), Fits(path), pathname \in [1 .. MaxPath + 1 -> Char]
    PROVE  /\ Filled(path) \in Seq(Char) /\ Len(Filled(path)) = MaxPath + 1
           /\ Len(path) + 1 \in 1 .. MaxPath + 1
           /\ \A i \in 1 .. Len(path) : Filled(path)[i] = path[i]
           /\ Filled(path)[Len(path) + 1] = "NUL"
<1> DEFINE k == Len(path)
           rest == SubSeq(pathname, k + 2, MaxPath + 1)
           front == path \o <<"NUL">>
           whole == front \o rest
<1>1. k \in Nat /\ MaxPath \in Nat /\ k <= MaxPath /\ "NUL" \in Char /\ path \in Seq(Char)
  BY UriAssumption, TranslateAssumption, TextIsChar DEF Fits
<1>2. pathname \in Seq(Char) /\ Len(pathname) = MaxPath + 1
  <2>1. pathname \in Seq(Char)
    BY <1>1
  <2>2. QED BY <1>1, <2>1, LenOfDomain
<1>3. rest \in Seq(Char) /\ Len(rest) = MaxPath - k
  BY <1>1, <1>2
<1>4. /\ front \in Seq(Char) /\ Len(front) = k + 1 /\ front[k + 1] = "NUL"
      /\ \A i \in 1 .. k : front[i] = path[i]
  BY <1>1
<1>5. Filled(path) = whole
  BY DEF Filled
<1> HIDE DEF rest, front
<1>6. /\ whole \in Seq(Char) /\ Len(whole) = MaxPath + 1
      /\ \A i \in 1 .. k + 1 : whole[i] = front[i]
  <2>1. front \in Seq(Char) /\ rest \in Seq(Char)
    BY <1>3, <1>4
  <2>2. whole \in Seq(Char) /\ Len(whole) = Len(front) + Len(rest)
    BY <2>1
  <2>3. \A i \in 1 .. Len(front) : whole[i] = front[i]
    BY <2>1
  <2>4. QED BY <1>1, <1>3, <1>4, <2>2, <2>3
<1> HIDE DEF whole
<1>7. QED BY <1>1, <1>4, <1>5, <1>6

(* The search of init_script_alias, when it begins within the path: it     *)
(* ends at the terminator or at the first slash before which there is no   *)
(* directory, and cuts the path there.                                     *)
LEMMA SplitIs ==
    ASSUME NEW d \in AliasLine, NEW uri, NEW path \in Seq(Text), path = ScriptPath(d, uri),
           Fits(path), pathname \in [1 .. MaxPath + 1 -> Char], Len(d.real) + 1 <= Len(path)
    PROVE  \E c \in Len(d.real) + 2 .. Len(path) + 1 :
              /\ Split(d, uri).file = SubSeq(path, 1, c - 1)
              /\ Split(d, uri).info = SubSeq(path, c, Len(path))
              /\ c <= Len(path) => path[c] = "/" /\ SubSeq(path, 1, c - 1) \notin Dirs
              /\ \A j \in Len(d.real) + 2 .. c - 1 :
                    path[j] = "/" => SubSeq(path, 1, j - 1) \in Dirs
<1> DEFINE k == Len(path)
           m == Len(d.real)
           buf == Filled(path)
           I == {j \in m + 2 .. Len(buf) :
                   \/ buf[j] = "NUL"
                   \/ buf[j] = "/" /\ stat(CString(SubSeq(buf, 1, j - 1))) # "dir"}
           c == Cut(d, uri)
<1>1. /\ buf \in Seq(Char) /\ Len(buf) = MaxPath + 1 /\ k + 1 \in 1 .. MaxPath + 1
      /\ \A i \in 1 .. k : buf[i] = path[i] /\ path[i] # "NUL"
      /\ buf[k + 1] = "NUL"
  BY FilledPlaces DEF Text
<1>2. m \in Nat /\ k \in Nat /\ m + 1 <= k /\ MaxPath \in Nat
  BY TranslateAssumption DEF AliasLine
<1>3. c = FirstOf(I)
  BY DEF Cut
<1>4. Split(d, uri) = IF c = 0 \/ buf[c] = "NUL"
                      THEN [file |-> CString(buf), info |-> <<>>, buf |-> buf]
                      ELSE [file |-> CString(SubSeq(buf, 1, c - 1)),
                            info |-> CString(SubSeq(buf, c, Len(buf))),
                            buf |-> [buf EXCEPT ![c] = "NUL"]]
  BY DEF Split
<1> HIDE DEF buf, c
<1>5. \A j \in 1 .. k + 1 : SubSeq(buf, 1, j - 1) = SubSeq(path, 1, j - 1)
  <2> TAKE j \in 1 .. k + 1
  <2>1. SubSeq(buf, 1, j - 1) = [i \in 1 .. j - 1 |-> buf[i]]
    BY <1>1, <1>2
  <2>2. SubSeq(path, 1, j - 1) = [i \in 1 .. j - 1 |-> path[i]]
    BY <1>2
  <2>3. \A i \in 1 .. j - 1 : buf[i] = path[i]
    BY <1>1, <1>2
  <2>4. QED BY <2>1, <2>2, <2>3
<1>6. \A j \in 1 .. k + 1 : /\ SubSeq(path, 1, j - 1) \in Seq(Text)
                            /\ CString(SubSeq(path, 1, j - 1)) = SubSeq(path, 1, j - 1)
  <2> TAKE j \in 1 .. k + 1
  <2>1. SubSeq(path, 1, j - 1) \in Seq(Text)
    BY <1>2
  <2>2. QED BY <2>1, CStringWhole
<1>7. \A x : stat(x) # "dir" <=> x \notin Dirs
  BY TranslateAssumption DEF stat
<1>8. I \in SUBSET (Nat \ {0}) /\ k + 1 \in I
  BY <1>1, <1>2
<1>9. c \in I /\ \A j \in I : c <= j
  <2> HIDE DEF I
  <2>1. QED BY <1>3, <1>8, FirstOfIs
<1>10. c \in m + 2 .. k + 1 /\ c # 0
  <2>1. c \in m + 2 .. Len(buf) /\ c <= k + 1
    BY <1>8, <1>9
  <2>2. QED BY <1>1, <1>2, <2>1
<1>11. \A j \in m + 2 .. c - 1 : path[j] = "/" => SubSeq(path, 1, j - 1) \in Dirs
  <2> SUFFICES ASSUME NEW j \in m + 2 .. c - 1, path[j] = "/", SubSeq(path, 1, j - 1) \notin Dirs
               PROVE  FALSE
    OBVIOUS
  <2>1. j \in 1 .. k /\ j \in m + 2 .. Len(buf) /\ j < c
    BY <1>1, <1>2, <1>10
  <2>2. buf[j] = "/"
    BY <1>1, <2>1
  <2>3. CString(SubSeq(buf, 1, j - 1)) = SubSeq(path, 1, j - 1)
    <3>1. j \in 1 .. k + 1
      BY <1>2, <2>1
    <3>2. SubSeq(buf, 1, j - 1) = SubSeq(path, 1, j - 1)
      BY <1>5, <3>1
    <3>3. CString(SubSeq(path, 1, j - 1)) = SubSeq(path, 1, j - 1)
      BY <1>6, <3>1
    <3>4. QED BY <3>2, <3>3
  <2>4. stat(CString(SubSeq(buf, 1, j - 1))) # "dir"
    BY <1>7, <2>3
  <2>5. j \in I
    BY <2>1, <2>2, <2>4
  <2>6. QED BY <1>2, <1>9, <1>10, <2>1, <2>5
<1>12. CASE c = k + 1
  <2>1. buf[c] = "NUL" /\ Split(d, uri).file = CString(buf) /\ Split(d, uri).info = <<>>
    BY <1>1, <1>4, <1>12
  <2>2. CString(buf) = SubSeq(buf, 1, k)
    <3>1. k + 1 \in 1 .. Len(buf) /\ \A i \in 1 .. (k + 1) - 1 : buf[i] # "NUL"
      BY <1>1, <1>2, SMTT(30)
    <3>2. CString(buf) = SubSeq(buf, 1, (k + 1) - 1)
      BY <1>1, <3>1, CStringUpTo
    <3>3. QED BY <1>2, <3>2
  <2>3. CString(buf) = SubSeq(path, 1, c - 1)
    <3>1. k + 1 \in 1 .. k + 1 /\ (k + 1) - 1 = k /\ c - 1 = k
      BY <1>2, <1>12
    <3>2. SubSeq(buf, 1, (k + 1) - 1) = SubSeq(path, 1, (k + 1) - 1)
      BY <1>5, <3>1
    <3>3. QED BY <2>2, <3>1, <3>2
  <2>4. SubSeq(path, c, k) = <<>>
    BY <1>2, <1>12
  <2>5. QED BY <1>2, <1>10, <1>11, <1>12, <2>1, <2>3, <2>4
<1>13. CASE c # k + 1
  <2>1. c \in 1 .. k
    BY <1>2, <1>10, <1>13
  <2>2. buf[c] = path[c] /\ buf[c] # "NUL"
    BY <1>1, <2>1
  <2>3. CString(SubSeq(buf, 1, c - 1)) = SubSeq(path, 1, c - 1)
    <3>1. c \in 1 .. k + 1
      BY <1>2, <2>1
    <3>2. SubSeq(buf, 1, c - 1) = SubSeq(path, 1, c - 1)
      BY <1>5, <3>1
    <3>3. CString(SubSeq(path, 1, c - 1)) = SubSeq(path, 1, c - 1)
      BY <1>6, <3>1
    <3>4. QED BY <3>2, <3>3
  <2>4. path[c] = "/" /\ SubSeq(path, 1, c - 1) \notin Dirs
    BY <1>7, <1>9, <2>2, <2>3
  <2>5. /\ Split(d, uri).file = SubSeq(path, 1, c - 1)
        /\ Split(d, uri).info = CString(SubSeq(buf, c, Len(buf)))
    BY <1>4, <1>10, <2>2, <2>3
  <2>6. CString(SubSeq(buf, c, Len(buf))) = SubSeq(path, c, k)
    <3> DEFINE tail == SubSeq(buf, c, Len(buf))
               e == (k + 2) - c
    <3>1. /\ tail \in Seq(Char) /\ Len(tail) = (Len(buf) - c) + 1
          /\ \A i \in 1 .. (Len(buf) - c) + 1 : tail[i] = buf[c + i - 1]
      BY <1>1, <1>2, <2>1
    <3> HIDE DEF tail
    <3>2. e \in 1 .. Len(tail) /\ tail[e] = "NUL" /\ e - 1 = (k + 1) - c /\ e - 1 \in Nat
      <4>1. e \in 1 .. (Len(buf) - c) + 1 /\ c + e - 1 = k + 1
        BY <1>1, <1>2, <2>1
      <4>2. QED BY <1>1, <1>2, <2>1, <3>1, <4>1
    <3>3. \A i \in 1 .. e - 1 : tail[i] = path[c + i - 1] /\ tail[i] # "NUL"
      <4> TAKE i \in 1 .. e - 1
      <4>1. i \in 1 .. (Len(buf) - c) + 1 /\ c + i - 1 \in 1 .. k
        BY <1>1, <1>2, <2>1
      <4>2. QED BY <1>1, <3>1, <4>1
    <3>4. CString(tail) = SubSeq(tail, 1, e - 1)
      BY <3>1, <3>2, <3>3, CStringUpTo
    <3>5. SubSeq(tail, 1, e - 1) = [i \in 1 .. e - 1 |-> tail[i]]
      <4> HIDE DEF e
      <4>1. QED BY <3>1, <3>2
    <3>6. SubSeq(path, c, k) = [i \in 1 .. e - 1 |-> path[c + i - 1]]
      BY <1>2, <2>1
    <3> HIDE DEF e
    <3>7. [i \in 1 .. e - 1 |-> tail[i]] = [i \in 1 .. e - 1 |-> path[c + i - 1]]
      BY <3>3
    <3>8. QED BY <3>4, <3>5, <3>6, <3>7 DEF tail
  <2>7. QED BY <1>10, <1>11, <2>4, <2>5, <2>6
<1>14. QED BY <1>12, <1>13

(* When the URI is the alias the search begins behind the terminator; the  *)
(* name that it leaves is the path, wherever it ends.                      *)
LEMMA SplitBehind ==
    ASSUME NEW d \in AliasLine, NEW uri, NEW path \in Seq(Text), path = ScriptPath(d, uri),
           Fits(path), pathname \in [1 .. MaxPath + 1 -> Char], Len(d.real) = Len(path)
    PROVE  Split(d, uri).file = path
<1> DEFINE k == Len(path)
           buf == Filled(path)
           I == {j \in Len(d.real) + 2 .. Len(buf) :
                   \/ buf[j] = "NUL"
                   \/ buf[j] = "/" /\ stat(CString(SubSeq(buf, 1, j - 1))) # "dir"}
           c == Cut(d, uri)
<1>1. /\ buf \in Seq(Char) /\ Len(buf) = MaxPath + 1 /\ k + 1 \in 1 .. MaxPath + 1
      /\ \A i \in 1 .. k : buf[i] = path[i] /\ path[i] # "NUL"
      /\ buf[k + 1] = "NUL"
  BY FilledPlaces DEF Text
<1>2. k \in Nat /\ MaxPath \in Nat
  BY TranslateAssumption
<1>3. c = FirstOf(I)
  BY DEF Cut
<1>4. Split(d, uri) = IF c = 0 \/ buf[c] = "NUL"
                      THEN [file |-> CString(buf), info |-> <<>>, buf |-> buf]
                      ELSE [file |-> CString(SubSeq(buf, 1, c - 1)),
                            info |-> CString(SubSeq(buf, c, Len(buf))),
                            buf |-> [buf EXCEPT ![c] = "NUL"]]
  BY DEF Split
<1>5. c = 0 \/ c \in k + 2 .. Len(buf)
  <2>1. I \in SUBSET (Nat \ {0})
    BY <1>1, <1>2
  <2>2. c = 0 \/ c \in I
    <3> HIDE DEF I, c
    <3>1. CASE I = {}
      BY <1>3, <3>1 DEF FirstOf
    <3>2. CASE I # {}
      BY <1>3, <2>1, <3>2, FirstOfIs
    <3>3. QED BY <3>1, <3>2
  <2>3. QED BY <2>2
<1> HIDE DEF buf, c
<1>6. ASSUME NEW n \in k + 1 .. Len(buf) PROVE CString(SubSeq(buf, 1, n)) = path
  <2> DEFINE t == SubSeq(buf, 1, n)
  <2>1. t \in Seq(Char) /\ Len(t) = n /\ \A i \in 1 .. n : t[i] = buf[i]
    BY <1>1, <1>2
  <2> HIDE DEF t
  <2>2. k + 1 \in 1 .. Len(t) /\ t[k + 1] = "NUL" /\ (k + 1) - 1 = k
    BY <1>1, <1>2, <2>1
  <2>3. \A i \in 1 .. (k + 1) - 1 : t[i] = path[i] /\ t[i] # "NUL"
    BY <1>1, <1>2, <2>1
  <2>4. CString(t) = SubSeq(t, 1, (k + 1) - 1)
    BY <2>1, <2>2, <2>3, CStringUpTo
  <2>5. SubSeq(t, 1, k) = [i \in 1 .. k |-> t[i]]
    BY <1>2, <2>1, <2>2
  <2>6. path = [i \in 1 .. k |-> path[i]]
    OBVIOUS
  <2>7. QED BY <2>2, <2>3, <2>4, <2>5, <2>6 DEF t
<1>7. CString(buf) = path
  <2>1. SubSeq(buf, 1, Len(buf)) = buf /\ Len(buf) \in k + 1 .. Len(buf)
    BY <1>1, <1>2
  <2>2. QED BY <1>6, <2>1
<1>8. CASE c = 0 \/ buf[c] = "NUL"
  BY <1>4, <1>7, <1>8
<1>9. CASE ~(c = 0 \/ buf[c] = "NUL")
  <2>1. c - 1 \in k + 1 .. Len(buf)
    BY <1>1, <1>2, <1>5, <1>9
  <2>2. CString(SubSeq(buf, 1, c - 1)) = path
    BY <1>6, <2>1
  <2>3. QED BY <1>4, <1>9, <2>2
<1>10. QED BY <1>8, <1>9

(* The end of a string and what is before it make up the string.           *)
LEMMA SuffixGlue ==
    ASSUME NEW S, NEW s \in Seq(S), NEW t \in Seq(S), Len(t) <= Len(s),
           \A i \in 1 .. Len(t) : t[i] = s[(Len(s) - Len(t)) + i]
    PROVE  SubSeq(s, 1, Len(s) - Len(t)) \o t = s
<1> DEFINE n == Len(s) - Len(t)
           f == SubSeq(s, 1, n)
           w == f \o t
<1>1. n \in Nat /\ n <= Len(s) /\ Len(s) \in Nat /\ Len(t) \in Nat /\ n + Len(t) = Len(s)
  OBVIOUS
<1>2. f \in Seq(S) /\ Len(f) = n /\ \A i \in 1 .. n : f[i] = s[i]
  <2> HIDE DEF n
  <2>1. f \in Seq(S) /\ Len(f) = n
    BY <1>1
  <2>2. \A i \in 1 .. n : f[i] = s[i]
    BY <1>1
  <2>3. QED BY <2>1, <2>2
<1>3. ASSUME NEW i \in 1 .. Len(t) PROVE t[i] = s[n + i]
  OBVIOUS
<1> HIDE DEF f, n
<1>4. f \in Seq(S) /\ t \in Seq(S)
  BY <1>2
<1>5. w \in Seq(S) /\ Len(w) = Len(f) + Len(t)
  BY <1>4
<1>6. \A i \in 1 .. Len(f) + Len(t) : w[i] = IF i <= Len(f) THEN f[i] ELSE t[i - Len(f)]
  BY <1>4
<1> HIDE DEF w
<1>7. ASSUME NEW i \in 1 .. Len(s) PROVE w[i] = s[i]
  <2>1. CASE i <= n
    BY <1>1, <1>2, <1>6, <2>1
  <2>2. CASE ~(i <= n)
    <3>1. i - n \in 1 .. Len(t) /\ n + (i - n) = i
      BY <1>1, <2>2
    <3>2. w[i] = t[i - n]
      BY <1>1, <1>2, <1>6, <2>2
    <3>3. QED BY <1>3, <3>1, <3>2
  <2>3. QED BY <2>1, <2>2
<1>8. Len(w) = Len(s)
  BY <1>1, <1>2, <1>5
<1>9. w = s
  BY <1>5, <1>7, <1>8
<1>10. QED BY <1>9 DEF w, f, n

(* The places of the end of a list.                                        *)
LEMMA TailPlaces ==
    ASSUME NEW S, NEW s \in Seq(S), NEW c \in 1 .. Len(s) + 1
    PROVE  /\ SubSeq(s, c, Len(s)) \in Seq(S) /\ Len(SubSeq(s, c, Len(s))) = (Len(s) + 1) - c
           /\ \A i \in 1 .. (Len(s) + 1) - c : SubSeq(s, c, Len(s))[i] = s[c + i - 1]
OBVIOUS

(* Two parts of a list that meet make up the list.                         *)
LEMMA CutGlue ==
    ASSUME NEW S, NEW s \in Seq(S), NEW c \in 1 .. Len(s) + 1
    PROVE  SubSeq(s, 1, c - 1) \o SubSeq(s, c, Len(s)) = s
<1> DEFINE t == SubSeq(s, c, Len(s))
<1>1. t \in Seq(S) /\ Len(t) = (Len(s) + 1) - c /\ Len(s) \in Nat
  BY TailPlaces
<1>2. \A i \in 1 .. (Len(s) + 1) - c : t[i] = s[c + i - 1]
  BY TailPlaces
<1> HIDE DEF t
<1>3. Len(t) <= Len(s) /\ Len(s) - Len(t) = c - 1
  BY <1>1
<1>4. ASSUME NEW i \in 1 .. Len(t) PROVE t[i] = s[(Len(s) - Len(t)) + i]
  <2>1. c + i - 1 = (Len(s) - Len(t)) + i
    BY <1>1
  <2>2. QED BY <1>1, <1>2, <2>1
<1>5. SubSeq(s, 1, Len(s) - Len(t)) \o t = s
  BY <1>1, <1>3, <1>4, SuffixGlue
<1>6. QED BY <1>3, <1>5 DEF t

(* What find_alias returns matches the URI.                                *)
LEMMA FoundMatches ==
    ASSUME NEW S, aliases \in Seq(S), NEW uri, find_alias(uri) # <<>>
    PROVE  Matches(find_alias(uri)[1], uri)
<1> DEFINE I == {i \in ChainOf(uri) : Matches(aliases[i], uri)}
<1>1. I \in SUBSET (Nat \ {0}) /\ \A i \in I : Matches(aliases[i], uri)
  BY DEF ChainOf
<1>2. find_alias(uri) = IF FirstOf(I) = 0 THEN <<>> ELSE <<aliases[FirstOf(I)]>>
  BY DEF find_alias
<1> HIDE DEF I
<1>3. FirstOf(I) \in I /\ find_alias(uri)[1] = aliases[FirstOf(I)]
  BY <1>1, <1>2, FirstOfIs
<1>4. QED BY <1>1, <1>3

(* The path that an alias leads to: behind the real name comes what is     *)
(* behind the fake name in the URI.                                        *)
LEMMA PathPlaces ==
    ASSUME NEW d \in AliasLine, NEW uri \in Seq(Text), Matches(d, uri)
    PROVE  LET path == ScriptPath(d, uri)
               v == IF Has("vhost_root") THEN 1 ELSE 0
           IN  /\ path \in Seq(Text)
               /\ Len(path) = (v + Len(d.real) + Len(uri)) - Len(d.fake)
               /\ Len(d.fake) \in 1 .. Len(uri)
               /\ \A j \in v + Len(d.real) + 1 .. Len(path) :
                     path[j] = uri[j + (Len(uri) - Len(path))]
<1> DEFINE path == ScriptPath(d, uri)
           v == IF Has("vhost_root") THEN 1 ELSE 0
           pre == IF Has("vhost_root") THEN <<"vhost/">> ELSE <<>>
           rest == SubSeq(uri, Len(d.fake) + 1, Len(uri))
           repl == d.real \o rest
<1>1. /\ d.real \in Seq(Text) /\ Len(d.real) \in Nat /\ Len(uri) \in Nat
      /\ Len(d.fake) \in 1 .. Len(uri)
  BY DEF AliasLine, Matches, BeginsWith
<1>2. pre \in Seq(Text) /\ Len(pre) = v /\ v \in {0, 1}
  <2>1. "vhost/" \in Text
    BY TranslateAssumption DEF Text
  <2>2. <<"vhost/">> \in Seq(Text) /\ Len(<<"vhost/">>) = 1
    BY <2>1
  <2>3. QED BY <2>2
<1>3. rest \in Seq(Text) /\ Len(rest) = Len(uri) - Len(d.fake)
  <2> DEFINE f == Len(d.fake)
  <2>1. f \in 1 .. Len(uri) /\ Len(uri) \in Nat
    BY <1>1
  <2> HIDE DEF f
  <2>2. /\ SubSeq(uri, f + 1, Len(uri)) \in Seq(Text)
        /\ Len(SubSeq(uri, f + 1, Len(uri))) = Len(uri) - f
    BY <2>1
  <2>3. QED BY <2>2 DEF f
<1>4. \A i \in 1 .. Len(uri) - Len(d.fake) : rest[i] = uri[Len(d.fake) + i]
  BY <1>1
<1>5. path = pre \o repl
  BY DEF ScriptPath, Replaced
<1> HIDE DEF rest, pre, v, path
<1>6. d.real \in Seq(Text) /\ rest \in Seq(Text)
  BY <1>1, <1>3
<1>7. /\ repl \in Seq(Text) /\ Len(repl) = Len(d.real) + Len(rest)
      /\ \A i \in 1 .. Len(rest) : repl[Len(d.real) + i] = rest[i]
  BY <1>6
<1> HIDE DEF repl
<1>8. pre \in Seq(Text) /\ repl \in Seq(Text)
  BY <1>2, <1>7
<1>9. /\ path \in Seq(Text) /\ Len(path) = Len(pre) + Len(repl)
      /\ \A i \in 1 .. Len(repl) : path[Len(pre) + i] = repl[i]
  BY <1>5, <1>8
<1>10. Len(path) = (v + Len(d.real) + Len(uri)) - Len(d.fake)
  BY <1>1, <1>2, <1>3, <1>7, <1>9
<1>11. ASSUME NEW j \in v + Len(d.real) + 1 .. Len(path)
       PROVE  path[j] = uri[j + (Len(uri) - Len(path))]
  <2> DEFINE i == j - (v + Len(d.real))
  <2>1. /\ i \in 1 .. Len(uri) - Len(d.fake) /\ Len(d.real) + i \in 1 .. Len(repl)
        /\ v + (Len(d.real) + i) = j
        /\ Len(d.fake) + i = j + (Len(uri) - Len(path))
    <3> DEFINE m == Len(d.real)
               f == Len(d.fake)
               u == Len(uri)
               k == Len(path)
    <3>1. /\ m \in Nat /\ u \in Nat /\ f \in 1 .. u /\ v \in {0, 1} /\ k = (v + m + u) - f
          /\ Len(repl) = m + (u - f) /\ j \in v + m + 1 .. k
      BY <1>1, <1>2, <1>3, <1>7, <1>10
    <3> HIDE DEF m, f, u, k
    <3>2. /\ j - (v + m) \in 1 .. u - f /\ m + (j - (v + m)) \in 1 .. Len(repl)
          /\ v + (m + (j - (v + m))) = j /\ f + (j - (v + m)) = j + (u - k)
      BY <3>1
    <3>3. QED BY <3>2 DEF m, f, u, k
  <2> HIDE DEF i
  <2>2. path[v + (Len(d.real) + i)] = repl[Len(d.real) + i]
    BY <1>2, <1>9, <2>1
  <2>3. repl[Len(d.real) + i] = rest[i]
    BY <1>3, <1>7, <2>1
  <2>4. rest[i] = uri[Len(d.fake) + i]
    BY <1>4, <2>1
  <2>5. QED BY <2>1, <2>2, <2>3, <2>4
<1>12. QED BY <1>1, <1>9, <1>10, <1>11 DEF path, v

(* What ScriptSplit says of an answer a to the URI, with the alias d that  *)
(* leads to path.                                                          *)
SplitRight(a, uri, d, path, vhost) ==
    /\ a.out \in {"cgi", "nph"} =>
          IF vhost \/ uri # d.fake
          THEN a.script \o a.info = uri /\ a.path \o a.info = path
          ELSE a.path = path
    /\ a.out \in {"not_found", "forbidden"} /\ d.type = "SCRIPTALIAS" =>
          \A n \in {n \in Len(d.real) + 1 .. Len(path) :
                      SubSeq(path, 1, n) \in Scripts /\ At(path, n + 1) \in {"/", "NUL"}} :
             At(path, n + 2) = "~"

(* PathTranslated keeps the split, and refuses only a missing user.        *)
LEMMA TranslatedKeeps ==
    ASSUME NEW a, {"out", "path", "script", "info", "xlat"} = DOMAIN a, a.out \in {"cgi", "nph"}
    PROVE  LET r == PathTranslated(a)
           IN  /\ r.out \in {"cgi", "nph"} =>
                     r.script = a.script /\ r.info = a.info /\ r.path = a.path
               /\ r.out \in {"not_found", "forbidden"} => At(a.info, 2) = "~"
<1> DEFINE r == PathTranslated(a)
<1>1. \/ \E x : r = [a EXCEPT !.xlat = x]
      \/ r = a
      \/ r = Refused("bad")
      \/ r = Refused("not_found") /\ At(a.info, 2) = "~"
  BY DEF PathTranslated
<1>2. Refused("bad").out = "bad" /\ Refused("not_found").out = "not_found"
  BY DEF Refused, Answer
<1>3. \A x : /\ [a EXCEPT !.xlat = x].out = a.out /\ [a EXCEPT !.xlat = x].info = a.info
             /\ [a EXCEPT !.xlat = x].script = a.script /\ [a EXCEPT !.xlat = x].path = a.path
  OBVIOUS
<1> HIDE DEF r
<1>4. /\ r.out \in {"cgi", "nph"} => r.script = a.script /\ r.info = a.info /\ r.path = a.path
      /\ r.out \in {"not_found", "forbidden"} => At(a.info, 2) = "~"
  BY <1>1, <1>2, <1>3
<1>5. QED BY <1>4 DEF r

(* The answer of init_script_alias is split that way.                      *)
LEMMA ScriptRight ==
    ASSUME NEW d \in AliasLine, NEW uri \in Seq(Text), Matches(d, uri), NEW http09,
           pathname \in [1 .. MaxPath + 1 -> Char]
    PROVE  SplitRight(init_script_alias(d, uri, http09), uri, d, ScriptPath(d, uri),
                      Has("vhost_root"))
<1> DEFINE path == ScriptPath(d, uri)
           k == Len(path)
           m == Len(d.real)
           u == Len(uri)
           f == Len(d.fake)
           v == IF Has("vhost_root") THEN 1 ELSE 0
           type == IF http09 \/ At(path, Len(d.real) + 1) = "n" THEN "nph" ELSE "cgi"
           split == Split(d, uri)
           name == split.file
           info == split.info
           script == IF Len(info) > Len(uri) THEN uri
                     ELSE SubSeq(uri, 1, Len(uri) - Len(info))
           a == [Answer(type, split.file) EXCEPT !.info = info, !.script = script]
           o == init_script_alias(d, uri, http09)
           scripts == {n \in m + 1 .. k :
                         SubSeq(path, 1, n) \in Scripts /\ At(path, n + 1) \in {"/", "NUL"}}
<1>1. /\ path \in Seq(Text) /\ k = (v + m + Len(uri)) - Len(d.fake)
      /\ Len(d.fake) \in 1 .. Len(uri)
      /\ \A j \in v + m + 1 .. k : path[j] = uri[j + (Len(uri) - k)]
  BY PathPlaces
<1>2. k \in Nat /\ m \in Nat /\ v \in {0, 1} /\ Len(uri) \in Nat
  BY <1>1 DEF AliasLine
<1>3. o = CASE ~Fits(path) -> Refused("bad")
            [] Fits(path) /\ stat(name) = "none" -> Refused("not_found")
            [] Fits(path) /\ stat(name) \in {"dir", "plain"} -> Refused("forbidden")
            [] OTHER -> IF info = <<>> THEN a ELSE PathTranslated(a)
  BY DEF init_script_alias
<1>4. \A x : Refused(x).out = x
  BY DEF Refused, Answer
<1>5. /\ a.out \in {"cgi", "nph"} /\ a.path = name /\ a.info = info /\ a.script = script
      /\ {"out", "path", "script", "info", "xlat"} = DOMAIN a
  BY DEF Answer
<1>6. /\ k = (v + m + u) - f /\ f \in 1 .. u
      /\ k \in Nat /\ m \in Nat /\ v \in {0, 1} /\ u \in Nat
  BY <1>1, <1>2
<1> HIDE DEF a, o, path, split, v, type
<1>7. \A i \in 1 .. k : path[i] \in Text
  BY <1>1
<1>8. CASE ~Fits(path)
  <2>1. o.out = "bad"
    BY <1>3, <1>4, <1>8
  <2>2. QED BY <2>1 DEF SplitRight, o, path
<1>9. CASE Fits(path)
  <2>1. ASSUME m + 1 <= k
        PROVE  \E c \in m + 2 .. k + 1 :
                 /\ name = SubSeq(path, 1, c - 1) /\ info = SubSeq(path, c, k)
                 /\ c <= k => path[c] = "/" /\ SubSeq(path, 1, c - 1) \notin Dirs
                 /\ \A j \in m + 2 .. c - 1 : path[j] = "/" => SubSeq(path, 1, j - 1) \in Dirs
    <3>1. path = ScriptPath(d, uri)
      BY DEF path
    <3>2. QED BY <1>1, <1>9, <2>1, <3>1, SplitIs DEF split
  <2>2. /\ o.out \in {"cgi", "nph"} => o.script = script /\ o.info = info /\ o.path = name
        /\ o.out \in {"not_found", "forbidden"} =>
              stat(name) \in {"none", "dir", "plain"} \/ At(info, 2) = "~"
    <3>1. \/ o = Refused("not_found") /\ stat(name) = "none"
          \/ o = Refused("forbidden") /\ stat(name) \in {"dir", "plain"}
          \/ o = a
          \/ o = PathTranslated(a)
      BY <1>3, <1>9
    <3>2. QED BY <1>4, <1>5, <3>1, TranslatedKeeps
  <2>3. ASSUME o.out \in {"cgi", "nph"}, Has("vhost_root") \/ uri # d.fake
        PROVE  o.script \o o.info = uri /\ o.path \o o.info = path
    <3>1. m + 1 <= k
      <4>1. CASE Has("vhost_root")
        <5>1. v = 1
          BY <4>1 DEF v
        <5> HIDE DEF k, m, u, f
        <5>2. QED BY <1>6, <5>1
      <4>2. CASE uri # d.fake
        <5>1. d.fake \in Seq(Text)
          BY DEF AliasLine
        <5>2. \A i \in 1 .. Len(d.fake) : uri[i] = d.fake[i]
          BY <5>1 DEF Matches, BeginsWith
        <5>3. Len(uri) # Len(d.fake)
          BY <4>2, <5>1, <5>2
        <5> HIDE DEF k, m
        <5>4. u # f
          BY <5>3
        <5> HIDE DEF u, f
        <5>5. QED BY <1>6, <5>4
      <4>3. QED BY <2>3, <4>1, <4>2
    <3>2. PICK c \in m + 2 .. k + 1 : name = SubSeq(path, 1, c - 1) /\ info = SubSeq(path, c, k)
      BY <2>1, <3>1
    <3>3. c \in 1 .. k + 1
      BY <1>2, <3>2
    <3>4. name \o info = path
      BY <1>1, <3>2, <3>3, CutGlue
    <3>5. info \in Seq(Text) /\ Len(info) = (k + 1) - c
      BY <1>1, <3>2, <3>3, TailPlaces
    <3>6. \A i \in 1 .. (k + 1) - c : info[i] = path[c + i - 1]
      BY <1>1, <3>2, <3>3, TailPlaces
    <3> HIDE DEF info, name
    <3>7. Len(info) <= Len(uri)
      <4>1. Len(info) <= u
        <5> HIDE DEF k, m, u, f
        <5>1. QED BY <1>6, <3>2, <3>5
      <4>2. QED BY <4>1
    <3>8. ASSUME NEW i \in 1 .. Len(info) PROVE info[i] = uri[(Len(uri) - Len(info)) + i]
      <4>1. /\ c + i - 1 \in v + m + 1 .. k
            /\ (c + i - 1) + (Len(uri) - k) = (Len(uri) - Len(info)) + i
        BY <1>2, <3>2, <3>5
      <4>2. QED BY <1>1, <3>5, <3>6, <4>1
    <3>9. SubSeq(uri, 1, Len(uri) - Len(info)) \o info = uri
      BY <3>5, <3>7, <3>8, SuffixGlue
    <3>10. script = SubSeq(uri, 1, Len(uri) - Len(info))
      BY <1>2, <3>5, <3>7
    <3> HIDE DEF script
    <3>11. QED BY <2>2, <2>3, <3>4, <3>9, <3>10
  <2>4. ASSUME o.out \in {"not_found", "forbidden"}, NEW n \in scripts
        PROVE  At(path, n + 2) = "~"
    <3>1. /\ n \in m + 1 .. k /\ SubSeq(path, 1, n) \in Scripts
          /\ At(path, n + 1) \in {"/", "NUL"} /\ m + 1 <= k /\ n \in Nat
      BY <1>2, <2>4
    <3>2. PICK c \in m + 2 .. k + 1 :
             /\ name = SubSeq(path, 1, c - 1) /\ info = SubSeq(path, c, k)
             /\ c <= k => path[c] = "/" /\ SubSeq(path, 1, c - 1) \notin Dirs
             /\ \A j \in m + 2 .. c - 1 : path[j] = "/" => SubSeq(path, 1, j - 1) \in Dirs
      BY <2>1, <3>1
    <3>3. SubSeq(path, 1, n) \notin Dirs
      BY <3>1, TranslateAssumption
    <3>4. c <= n + 1
      <4> SUFFICES ASSUME n + 1 < c PROVE FALSE
        BY <1>2, <3>1, <3>2
      <4>1. n + 1 \in m + 2 .. c - 1 /\ n + 1 <= k /\ (n + 1) - 1 = n
        BY <1>2, <3>1, <3>2
      <4>2. path[n + 1] = "/"
        <5>1. path[n + 1] \in Text
          <6>1. n + 1 \in 1 .. k
            BY <1>2, <3>1, <4>1
          <6>2. QED BY <1>7, <6>1
        <5>2. QED BY <3>1, <4>1, <5>1 DEF At, Text
      <4>3. SubSeq(path, 1, (n + 1) - 1) \in Dirs
        BY <3>2, <4>1, <4>2
      <4>4. QED BY <3>3, <4>1, <4>3
    <3>5. n + 1 <= c
      <4> SUFFICES ASSUME c < n + 1 PROVE FALSE
        BY <1>2, <3>1, <3>2
      <4> DEFINE p == SubSeq(path, 1, n)
                 e == c - 1
      <4>1. e \in 1 .. n - 1 /\ e + 1 = c /\ c <= k /\ c <= n
        BY <1>2, <3>1, <3>2
      <4>2. Len(p) = n /\ \A i \in 1 .. n : p[i] = path[i]
        BY <1>1, <1>2, <3>1
      <4>3. p[e + 1] = "/"
        BY <1>2, <3>2, <4>1, <4>2
      <4>4. SubSeq(p, 1, e) \in Dirs
        <5>1. p \in Scripts
          BY <3>1
        <5> HIDE DEF p, e
        <5>2. QED BY <4>1, <4>2, <4>3, <5>1, TranslateAssumption
      <4>5. SubSeq(p, 1, e) = SubSeq(path, 1, e)
        <5>1. SubSeq(path, 1, e) = [i \in 1 .. e |-> path[i]]
          BY <1>1, <1>2, <4>1
        <5>2. p \in Seq(Text)
          BY <1>1, <1>2, <3>1
        <5> HIDE DEF p, e
        <5>3. SubSeq(p, 1, e) = [i \in 1 .. e |-> p[i]]
          BY <4>1, <4>2, <5>2
        <5>4. \A i \in 1 .. e : p[i] = path[i]
          BY <3>1, <4>1, <4>2
        <5>5. QED BY <5>1, <5>3, <5>4
      <4>6. QED BY <3>2, <4>1, <4>4, <4>5
    <3>6. c = n + 1
      BY <1>2, <3>1, <3>2, <3>4, <3>5
    <3>7. name = SubSeq(path, 1, n) /\ stat(name) = "script"
      <4>1. c - 1 = n
        BY <3>1, <3>6
      <4>2. name = SubSeq(path, 1, n)
        BY <3>2, <4>1
      <4> HIDE DEF name
      <4>3. name \in Scripts
        BY <3>1, <4>2
      <4>4. QED BY <4>2, <4>3, TranslateAssumption DEF stat
    <3>8. At(info, 2) = "~"
      BY <2>2, <2>4, <3>7
    <3>9. info = SubSeq(path, n + 1, k) /\ n + 1 \in 1 .. k + 1
      BY <1>2, <3>1, <3>2, <3>6
    <3> HIDE DEF info
    <3>10. Len(info) = (k + 1) - (n + 1) /\ Len(info) = k - n
      <4>1. Len(info) = (k + 1) - (n + 1)
        BY <1>1, <3>9, TailPlaces
      <4>2. QED BY <1>2, <3>1, <4>1
    <3>11. 2 <= k - n /\ info[2] = "~"
      BY <1>2, <3>1, <3>8, <3>10 DEF At
    <3>12. info[2] = path[n + 2]
      <4>1. \A i \in 1 .. (k + 1) - (n + 1) : info[i] = path[(n + 1) + i - 1]
        BY <1>1, <3>9, TailPlaces
      <4>2. 2 \in 1 .. (k + 1) - (n + 1) /\ (n + 1) + 2 - 1 = n + 2
        BY <1>2, <3>1, <3>11
      <4>3. QED BY <4>1, <4>2
    <3>13. QED BY <1>2, <3>1, <3>11, <3>12 DEF At
  <2>5. ASSUME o.out \in {"cgi", "nph"}, ~Has("vhost_root"), uri = d.fake
        PROVE  o.path = path
    <3>1. m = k
      <4>1. v = 0 /\ u = f
        BY <2>5 DEF v
      <4> HIDE DEF k, m, u, f
      <4>2. QED BY <1>6, <4>1
    <3>2. name = path
      <4>1. path = ScriptPath(d, uri)
        BY DEF path
      <4>2. QED BY <1>1, <1>9, <3>1, <4>1, SplitBehind DEF split
    <3>3. QED BY <2>2, <2>5, <3>2
  <2>6. QED BY <2>3, <2>4, <2>5 DEF SplitRight, o, path
<1>10. QED BY <1>8, <1>9

(* The answer of translate_uri to a URI for which there is an alias.       *)
LEMMA TranslateRight ==
    ASSUME TransInv, NEW uri \in Seq(Text), NEW method, NEW http09, find_alias(uri) # <<>>
    PROVE  SplitRight(translate_uri(uri, method, http09), uri, find_alias(uri)[1],
                      ScriptPath(find_alias(uri)[1], uri), Has("vhost_root"))
<1> DEFINE d == find_alias(uri)[1]
           o == translate_uri(uri, method, http09)
<1>1. /\ aliases \in Seq(AliasLine) /\ pathname \in [1 .. MaxPath + 1 -> Char]
  BY ConfigLines DEF TransInv, TransTypeOK
<1>2. d \in AliasLine /\ Matches(d, uri) /\ d.type \in {"ALIAS", "REDIRECT", "SCRIPTALIAS"}
  <2>1. d \in AliasLine
    BY <1>1, FindAliasEntry
  <2>2. Matches(d, uri)
    BY <1>1, FoundMatches
  <2>3. QED BY <2>1, <2>2 DEF AliasLine
<1>3. CASE d.type = "SCRIPTALIAS"
  <2>1. o = init_script_alias(d, uri, http09)
    BY <1>3 DEF translate_uri
  <2>2. QED BY <1>1, <1>2, <2>1, ScriptRight
<1>4. CASE d.type # "SCRIPTALIAS"
  <2>1. o.out \in {"bad", "moved", "file"}
    BY <1>2, <1>4 DEF translate_uri, Refused, Answer
  <2>2. QED BY <1>4, <2>1 DEF SplitRight
<1>5. QED BY <1>3, <1>4

(* ScriptSplit of the state, and of the next one, by its variables.        *)
PathOf(d, uri, o) ==
    (IF "vhost_root" \in o THEN <<"vhost/">> ELSE <<>>) \o Replaced(d, uri)
(* ScriptSplit with the state it speaks of as parameters.                  *)
SplitNow ==
    ans # NoRequest /\ ans.found # <<>> =>
        SplitRight(ans, ans.uri, ans.found[1], PathOf(ans.found[1], ans.uri, options),
                   "vhost_root" \in options)

(* That is ScriptSplit.                                                    *)
LEMMA SplitNowIs == SplitNow => ScriptSplit
BY DEF SplitNow, ScriptSplit, SplitRight, PathOf, ScriptPath, Has

(* Every step keeps it.                                                    *)
LEMMA SplitInductive ==
    TransInv /\ SplitNow /\ [TransNext]_transVars => SplitNow'
<1> SUFFICES ASSUME TransInv, SplitNow, [TransNext]_transVars PROVE SplitNow'
  OBVIOUS
<1>1. CASE sighup_run \/ Dispatched \/ PasswdChanges
  <2>1. ans' = NoRequest
    BY <1>1 DEF sighup_run, Dispatched, PasswdChanges
  <2>2. QED BY <2>1 DEF SplitNow
<1>2. ASSUME NEW q \in Asked, process_header_end(q) PROVE SplitNow'
  <2> DEFINE u == unescape_uri(q.raw)
             uri == Stripped(clean_pathname(u.uri))
             found == find_alias(uri)
             a == translate_uri(uri, q.method, q.http09)
  <2>1. uri \in Seq(Text)
    <3>1. q.raw \in Seq(Char)
      BY TranslateAssumption
    <3>2. QED BY <3>1, UnescapedText, CleanText, StrippedText
  <2>2. /\ \/ ans' = Answered(Refused("bad"), q, uri, <<>>)
           \/ ans' = Answered(a, q, uri, found)
        /\ options' = options
    BY <1>2 DEF process_header_end
  <2> HIDE DEF uri
  <2>3. found # <<>> => SplitRight(a, uri, found[1], PathOf(found[1], uri, options),
                                   "vhost_root" \in options)
    BY <2>1, TranslateRight DEF PathOf, ScriptPath, Has
  <2> HIDE DEF a, found
  <2>4. CASE ans' = Answered(Refused("bad"), q, uri, <<>>)
    <3>1. ans'.found = <<>>
      BY <2>4 DEF Answered
    <3>2. QED BY <3>1 DEF SplitNow
  <2>5. CASE ans' = Answered(a, q, uri, found)
    <3>1. /\ ans'.out = a.out /\ ans'.path = a.path /\ ans'.script = a.script
          /\ ans'.info = a.info /\ ans'.uri = uri /\ ans'.found = found
      BY <2>5 DEF Answered
    <3>2. found # <<>> => SplitRight(ans', uri, found[1], PathOf(found[1], uri, options),
                                     "vhost_root" \in options)
      BY <2>3, <3>1 DEF SplitRight
    <3>3. QED BY <2>2, <3>1, <3>2 DEF SplitNow
  <2>6. QED BY <2>2, <2>4, <2>5
<1>3. CASE UNCHANGED transVars
  BY <1>3 DEF SplitNow, transVars, tables
<1>4. QED BY <1>1, <1>2, <1>3 DEF TransNext

(* init_script_alias (alias.c) splits a path into the name of a script and *)
(* the extra path behind it so that the two make up the path, for any      *)
(* aliases, files and URIs and whatever earlier requests left in the       *)
(* static buffer; for a URI that is the alias itself only the name is      *)
(* shown to be right, since the extra path may then come from what was     *)
(* left.  It misses no script below the directory of the alias.            *)
THEOREM ScriptCorrect == TransSpec => []ScriptSplit
<1>1. TransInit => SplitNow
  BY DEF TransInit, SplitNow
<1>2. QED BY <1>1, TransInitInv, TransInductive, SplitInductive, SplitNowIs, PTL DEF TransSpec

(* An empty, . or .. part between the slashes a and b.                     *)
BadPart(s, a, b) ==
    s[a] = "/" /\ s[b] = "/" /\ SubSeq(s, a + 1, b - 1) \in {<<>>, <<".">>, <<".", ".">>}

(* It is one of the parts that AfterSlash skips.                           *)
LEMMA BadPartIs ==
    ASSUME NEW S, NEW s \in Seq(S), NEW a \in 1 .. Len(s), NEW b \in 1 .. Len(s), a < b
    PROVE  BadPart(s, a, b) <=>
              /\ s[a] = "/"
              /\ \/ b = a + 1 /\ SlashAt(s, a + 1)
                 \/ b = a + 2 /\ DotAt(s, a + 1)
                 \/ b = a + 3 /\ DotsAt(s, a + 1)
<1> DEFINE t == SubSeq(s, a + 1, b - 1)
<1>1. /\ t \in Seq(S) /\ Len(t) = (b - 1) - a
      /\ \A i \in 1 .. (b - 1) - a : t[i] = s[a + i]
  OBVIOUS
<1>2. /\ b = a + 1 => At(s, a + 1) = s[b]
      /\ b = a + 2 => At(s, a + 1) = s[a + 1] /\ At(s, (a + 1) + 1) = s[b]
      /\ b = a + 3 => /\ At(s, a + 1) = s[a + 1] /\ At(s, (a + 1) + 1) = s[a + 2]
                      /\ At(s, (a + 1) + 2) = s[b]
  BY DEF At
<1> HIDE DEF t
<1>3. CASE b = a + 1
  <2>1. Len(t) = 0
    BY <1>1, <1>3
  <2>2. t = <<>>
    BY <1>1, <2>1
  <2>3. QED BY <1>2, <1>3, <2>2 DEF BadPart, SlashAt, t
<1>4. CASE b = a + 2
  <2>1. Len(t) = 1 /\ t[1] = s[a + 1]
    BY <1>1, <1>4
  <2>2. t = <<s[a + 1]>>
    BY <1>1, <2>1
  <2>3. t \in {<<>>, <<".">>, <<".", ".">>} <=> s[a + 1] = "."
    BY <2>2
  <2>4. QED BY <1>2, <1>4, <2>3 DEF BadPart, DotAt, t
<1>5. CASE b = a + 3
  <2>1. Len(t) = 2 /\ t[1] = s[a + 1] /\ t[2] = s[a + 2]
    BY <1>1, <1>5
  <2>2. t = <<s[a + 1], s[a + 2]>>
    BY <1>1, <2>1
  <2>3. t \in {<<>>, <<".">>, <<".", ".">>} <=> s[a + 1] = "." /\ s[a + 2] = "."
    BY <2>2
  <2>4. QED BY <1>2, <1>5, <2>3 DEF BadPart, DotsAt, t
<1>6. CASE b \notin {a + 1, a + 2, a + 3}
  <2>1. Len(t) \notin {0, 1, 2}
    BY <1>1, <1>6
  <2>2. t \notin {<<>>, <<".">>, <<".", ".">>}
    BY <2>1
  <2>3. QED BY <1>6, <2>2 DEF BadPart, t
<1>7. QED BY <1>3, <1>4, <1>5, <1>6

(* What AfterSlash skips behind a slash are such parts.                    *)
Covered(s, i, e) ==
    \A j \in i .. e - 1 : \E a, b \in i - 1 .. e - 1 : a < j /\ j <= b /\ BadPart(s, a, b)

(* Every character that is skipped belongs to one.                         *)
LEMMA SkippedCovered ==
    ASSUME NEW S, NEW s \in Seq(S)
    PROVE  \A i \in 2 .. Len(s) + 1 : s[i - 1] = "/" => Covered(s, i, AfterSlash(s, i))
<1> DEFINE n == Len(s) + 1
           e(j) == AfterSlash(s, j)
           T == {j \in 1 .. n : j >= 2 /\ s[j - 1] = "/" => Covered(s, j, e(j))}
<1>1. n \in Nat
  OBVIOUS
<1>2. ASSUME NEW i \in 1 .. n, \A k \in i + 1 .. n : k \in T PROVE i \in T
  <2> SUFFICES ASSUME i >= 2, s[i - 1] = "/" PROVE Covered(s, i, e(i))
    OBVIOUS
  <2>1. ASSUME NEW k \in i + 1 .. n, e(i) = e(k), BadPart(s, i - 1, k - 1)
        PROVE  Covered(s, i, e(i))
    <3>1. s[k - 1] = "/" /\ k >= 2
      BY <1>1, <2>1 DEF BadPart
    <3>2. Covered(s, k, e(k))
      BY <1>2, <3>1
    <3>3. e(k) \in k .. n
      <4>1. k \in 1 .. n
        BY <1>1
      <4>2. QED BY <4>1, AfterSlashWithin DEF Skipped
    <3> HIDE DEF e
    <3>4. ASSUME NEW j \in i .. e(i) - 1
          PROVE  \E a, b \in i - 1 .. e(i) - 1 : a < j /\ j <= b /\ BadPart(s, a, b)
      <4>1. CASE j < k
        <5>1. /\ i - 1 \in i - 1 .. e(i) - 1 /\ k - 1 \in i - 1 .. e(i) - 1
              /\ i - 1 < j /\ j <= k - 1
          BY <1>1, <2>1, <3>3, <4>1
        <5>2. QED BY <2>1, <5>1
      <4>2. CASE ~(j < k)
        <5>1. j \in k .. e(k) - 1
          BY <1>1, <2>1, <3>3, <4>2
        <5>2. PICK a \in k - 1 .. e(k) - 1, b \in k - 1 .. e(k) - 1 :
                 a < j /\ j <= b /\ BadPart(s, a, b)
          BY <3>2, <5>1 DEF Covered
        <5>3. a \in i - 1 .. e(i) - 1 /\ b \in i - 1 .. e(i) - 1
          BY <1>1, <2>1, <3>3, <5>2
        <5>4. QED BY <5>2, <5>3
      <4>3. QED BY <4>1, <4>2
    <3>5. QED BY <3>4 DEF Covered
  <2>2. i - 1 \in 1 .. Len(s) /\ (i - 1) + 1 = i
    BY <1>1
  <2>3. CASE SlashAt(s, i)
    <3>1. i + 1 \in i + 1 .. n /\ e(i) = e(i + 1)
      BY <2>3, PartsWithin, AfterSlashSteps
    <3>2. BadPart(s, i - 1, (i + 1) - 1)
      <4>1. (i + 1) - 1 \in 1 .. Len(s) /\ i - 1 < (i + 1) - 1 /\ (i + 1) - 1 = (i - 1) + 1
        BY <1>1, <2>2, <3>1
      <4>2. QED BY <2>2, <2>3, <4>1, BadPartIs
    <3>3. QED BY <2>1, <3>1, <3>2
  <2>4. CASE DotAt(s, i)
    <3>1. i + 2 \in i + 1 .. n /\ e(i) = e(i + 2)
      BY <2>4, PartsWithin, AfterSlashSteps
    <3>2. BadPart(s, i - 1, (i + 2) - 1)
      <4>1. (i + 2) - 1 \in 1 .. Len(s) /\ i - 1 < (i + 2) - 1 /\ (i + 2) - 1 = (i - 1) + 2
        BY <1>1, <2>2, <3>1
      <4>2. QED BY <2>2, <2>4, <4>1, BadPartIs
    <3>3. QED BY <2>1, <3>1, <3>2
  <2>5. CASE DotsAt(s, i)
    <3>1. i + 3 \in i + 1 .. n /\ e(i) = e(i + 3)
      BY <2>5, PartsWithin, AfterSlashSteps
    <3>2. BadPart(s, i - 1, (i + 3) - 1)
      <4>1. (i + 3) - 1 \in 1 .. Len(s) /\ i - 1 < (i + 3) - 1 /\ (i + 3) - 1 = (i - 1) + 3
        BY <1>1, <2>2, <3>1
      <4>2. QED BY <2>2, <2>5, <4>1, BadPartIs
    <3>3. QED BY <2>1, <3>1, <3>2
  <2>6. CASE ~SlashAt(s, i) /\ ~DotAt(s, i) /\ ~DotsAt(s, i)
    <3>1. e(i) = i
      BY <2>6, AfterSlashSteps
    <3>2. QED BY <1>1, <3>1 DEF Covered
  <2>7. QED BY <2>3, <2>4, <2>5, <2>6
<1>3. 1 .. n \subseteq T
  <2> HIDE DEF T
  <2>1. QED BY <1>1, <1>2, BackInduction
<1>4. ASSUME NEW i \in 2 .. n, s[i - 1] = "/" PROVE Covered(s, i, e(i))
  <2>1. i \in T
    BY <1>1, <1>3
  <2>2. QED BY <1>4, <2>1
<1>5. QED BY <1>4

(* The places that are kept of what begins at i.                           *)
CleanFrom(s, i) ==
    {j \in i .. Len(s) : ~\E a, b \in i .. Len(s) : a < j /\ j <= b /\ BadPart(s, a, b)}

(* A character that is not skipped is kept; what is kept behind it is what *)
(* is kept of the place at which clean_pathname goes on.                   *)
LEMMA CleanFromStep ==
    ASSUME NEW S, NEW s \in Seq(S), NEW i \in 1 .. Len(s)
    PROVE  LET e == NextPlace(s, i)
           IN  CleanFrom(s, i) = CleanFrom(s, e) \cup {i} /\ \A j \in CleanFrom(s, e) : i < j
<1> DEFINE n == Len(s)
           e == NextPlace(s, i)
           Bad(j, k) == \E a, b \in k .. n : a < j /\ j <= b /\ BadPart(s, a, b)
<1>1. n \in Nat /\ i \in 1 .. n /\ e \in i + 1 .. n + 1
  BY NextWithin
<1>2. /\ CleanFrom(s, i) = {j \in i .. n : ~Bad(j, i)}
      /\ CleanFrom(s, e) = {j \in e .. n : ~Bad(j, e)}
  BY DEF CleanFrom
<1> HIDE DEF n, e
<1>3. ~Bad(i, i)
  BY <1>1
<1>4. ASSUME NEW j \in e .. n, Bad(j, e) PROVE Bad(j, i)
  <2>1. PICK a \in e .. n, b \in e .. n : a < j /\ j <= b /\ BadPart(s, a, b)
    BY <1>4
  <2>2. a \in i .. n /\ b \in i .. n
    BY <1>1, <2>1
  <2>3. QED BY <2>1, <2>2
<1>5. CASE s[i] # "/"
  <2>1. e = i + 1
    BY <1>5 DEF e, NextPlace
  <2>2. ASSUME NEW j \in e .. n, Bad(j, i) PROVE Bad(j, e)
    <3>1. PICK a \in i .. n, b \in i .. n : a < j /\ j <= b /\ BadPart(s, a, b)
      BY <2>2
    <3>2. a # i
      BY <1>5, <3>1 DEF BadPart
    <3>3. a \in e .. n /\ b \in e .. n
      BY <1>1, <2>1, <3>1, <3>2
    <3>4. QED BY <3>1, <3>3
  <2>3. \A j \in i .. n : j = i \/ j \in e .. n
    BY <1>1, <2>1
  <2> HIDE DEF Bad
  <2>4. QED BY <1>1, <1>2, <1>3, <1>4, <2>2, <2>3 DEF e
<1>6. CASE s[i] = "/"
  <2>1. e = AfterSlash(s, i + 1) /\ i + 1 \in 2 .. Len(s) + 1 /\ (i + 1) - 1 = i
    BY <1>1, <1>6 DEF e, NextPlace, n
  <2>2. Covered(s, i + 1, e)
    BY <1>6, <2>1, SkippedCovered
  <2>3. Skipped(s, i + 1, e)
    <3>1. i + 1 \in 1 .. Len(s) + 1
      BY <2>1
    <3>2. QED BY <2>1, <3>1, AfterSlashWithin
  <2>4. s[e - 1] = "/" /\ ~SlashAt(s, e) /\ ~DotAt(s, e) /\ ~DotsAt(s, e)
    <3>1. CASE e = i + 1
      BY <1>1, <1>6, <2>3, <3>1 DEF Skipped
    <3>2. CASE e # i + 1
      BY <2>3, <3>2 DEF Skipped
    <3>3. QED BY <3>1, <3>2
  <2>5. ASSUME NEW j \in i + 1 .. e - 1 PROVE Bad(j, i)
    <3>1. PICK a \in (i + 1) - 1 .. e - 1, b \in (i + 1) - 1 .. e - 1 :
             a < j /\ j <= b /\ BadPart(s, a, b)
      BY <2>2 DEF Covered
    <3>2. a \in i .. n /\ b \in i .. n
      BY <1>1, <3>1
    <3>3. QED BY <3>1, <3>2
  <2>6. ASSUME NEW j \in e .. n, Bad(j, i) PROVE Bad(j, e)
    <3>1. PICK a \in i .. n, b \in i .. n : a < j /\ j <= b /\ BadPart(s, a, b)
      BY <2>6
    <3>2. /\ a \in 1 .. Len(s) /\ b \in 1 .. Len(s) /\ a < b /\ e <= b
      BY <1>1, <3>1 DEF n
    <3>3. \/ b = a + 1 /\ SlashAt(s, a + 1)
          \/ b = a + 2 /\ DotAt(s, a + 1)
          \/ b = a + 3 /\ DotsAt(s, a + 1)
      BY <3>1, <3>2, BadPartIs
    <3>4. a # e - 1
      <4> SUFFICES ASSUME a = e - 1 PROVE FALSE
        OBVIOUS
      <4>1. a + 1 = e
        BY <1>1
      <4>2. QED BY <2>4, <3>3, <4>1
    <3>5. ~(a < e - 1)
      <4> SUFFICES ASSUME a < e - 1 PROVE FALSE
        OBVIOUS
      <4>1. e - 1 \in a + 1 .. b - 1 /\ e - 1 \in 1 .. Len(s)
        BY <1>1, <3>2 DEF n
      <4>2. At(s, e - 1) = "/"
        BY <2>4, <4>1 DEF At
      <4>3. b = a + 2 \/ b = a + 3
        BY <3>2, <3>3, <4>1
      <4>4. CASE b = a + 2
        <5>1. e - 1 = a + 1 /\ DotAt(s, a + 1)
          BY <3>2, <3>3, <4>1, <4>4
        <5>2. QED BY <4>2, <5>1 DEF DotAt
      <4>5. CASE b = a + 3
        <5>1. e - 1 \in {a + 1, (a + 1) + 1} /\ DotsAt(s, a + 1)
          BY <3>2, <3>3, <4>1, <4>5
        <5>2. QED BY <4>2, <5>1 DEF DotsAt
      <4>6. QED BY <4>3, <4>4, <4>5
    <3>6. a \in e .. n /\ b \in e .. n
      BY <1>1, <3>1, <3>2, <3>4, <3>5
    <3>7. QED BY <3>1, <3>6
  <2>7. \A j \in i .. n : j = i \/ j \in i + 1 .. e - 1 \/ j \in e .. n
    BY <1>1
  <2>8. \A j \in e .. n : j \in i .. n /\ i < j
    BY <1>1
  <2>9. i \in i .. n
    BY <1>1
  <2> HIDE DEF Bad
  <2>10. CleanFrom(s, i) = CleanFrom(s, e) \cup {i} /\ \A j \in CleanFrom(s, e) : i < j
    BY <1>2, <1>3, <1>4, <2>5, <2>6, <2>7, <2>8, <2>9
  <2>11. QED BY <2>10 DEF e
<1>7. QED BY <1>5, <1>6

(* So clean_pathname keeps these places.                                   *)
LEMMA CleanPicks ==
    ASSUME NEW S, NEW s \in Seq(S)
    PROVE  \A i \in 1 .. Len(s) + 1 : Picks(Cleaning(s)[i], s, CleanFrom(s, i))
<1> DEFINE n == Len(s) + 1
           w == Cleaning(s)
           T == {i \in 1 .. n : Picks(w[i], s, CleanFrom(s, i))}
<1>1. n \in Nat /\ Len(s) \in Nat
  OBVIOUS
<1>2. /\ w[n] = <<>> /\ \A i \in 1 .. Len(s) : w[i] = <<s[i]>> \o w[NextPlace(s, i)]
      /\ \A i \in 1 .. n : w[i] \in Seq(S)
  BY CleanSteps
<1> HIDE DEF w
<1>3. ASSUME NEW i \in 1 .. n, \A k \in i + 1 .. n : k \in T PROVE i \in T
  <2>1. CASE i = n
    <3>1. CleanFrom(s, n) = {}
      BY <1>1 DEF CleanFrom
    <3>2. <<>> \in Seq(Nat) /\ Rising(<<>>) /\ Elems(<<>>) = {} /\ Len(<<>>) = 0
      BY DEF Rising, Elems
    <3>3. Picks(<<>>, s, {})
      <4>1. \A j \in 1 .. 0 : <<>>[j] = s[<<>>[j]]
        OBVIOUS
      <4>2. \E p \in Seq(Nat) : /\ Rising(p) /\ Elems(p) = {} /\ Len(<<>>) = Len(p)
                               /\ \A j \in 1 .. Len(p) : <<>>[j] = s[p[j]]
        <5> WITNESS <<>> \in Seq(Nat)
        <5>1. QED BY <3>2, <4>1, Zenon
      <4>3. QED BY <4>2 DEF Picks
    <3>4. QED BY <1>2, <2>1, <3>1, <3>3
  <2>2. CASE i # n
    <3> DEFINE e == NextPlace(s, i)
    <3>1. i \in 1 .. Len(s)
      BY <1>1, <2>2
    <3>2. e \in i + 1 .. n /\ e \in 1 .. n
      <4>1. e \in i + 1 .. n
        BY <3>1, NextWithin
      <4> HIDE DEF e
      <4>2. QED BY <1>1, <4>1
    <3>3. CleanFrom(s, i) = CleanFrom(s, e) \cup {i} /\ \A j \in CleanFrom(s, e) : i < j
      BY <3>1, CleanFromStep
    <3>4. w[i] = <<s[i]>> \o w[e]
      BY <1>2, <3>1
    <3> HIDE DEF e
    <3>5. Picks(w[e], s, CleanFrom(s, e)) /\ w[e] \in Seq(S)
      BY <1>2, <1>3, <3>2
    <3>6. Picks(<<s[i]>> \o w[e], s, CleanFrom(s, e) \cup {i})
      BY <3>1, <3>3, <3>5, PicksPush
    <3>7. Picks(w[i], s, CleanFrom(s, i))
      BY <3>3, <3>4, <3>6
    <3>8. QED BY <3>7
  <2>3. QED BY <2>1, <2>2
<1>4. 1 .. n \subseteq T
  <2> HIDE DEF T
  <2>1. QED BY <1>1, <1>3, BackInduction
<1>5. QED BY <1>4 DEF w

(* clean_pathname leaves out exactly the empty, . and .. parts.            *)
LEMMA CleanIsCleaned == ASSUME NEW S, NEW s \in Seq(S) PROVE clean_pathname(s) = Cleaned(s)
<1> DEFINE K == 1 .. Len(s) \ Unclean(s)
<1>1. K = CleanFrom(s, 1)
  BY DEF Unclean, CleanFrom, BadPart
<1>2. 1 \in 1 .. Len(s) + 1
  OBVIOUS
<1>3. clean_pathname(s) \in Seq(S) /\ Picks(clean_pathname(s), s, K)
  <2>1. clean_pathname(s) = Cleaning(s)[1]
    BY CleanSteps
  <2>2. Picks(Cleaning(s)[1], s, CleanFrom(s, 1))
    BY <1>2, CleanPicks
  <2> HIDE DEF K
  <2>3. QED BY <1>1, <2>1, <2>2, CleanText
<1>4. Kept(s, K) \in Seq(S) /\ Picks(Kept(s, K), s, K)
  BY KeptPicks
<1> HIDE DEF K
<1>5. clean_pathname(s) = Kept(s, K)
  BY <1>3, <1>4, PicksUnique
<1>6. QED BY <1>5 DEF Cleaned, K

(* A path without an empty, . or .. part.                                  *)
NoBad(t) == \A a, b \in 1 .. Len(t) : a < b => ~BadPart(t, a, b)

(* A character in front of a path moves the others by one.                 *)
LEMMA AtPush ==
    ASSUME NEW S, NEW x \in S, NEW t \in Seq(S)
    PROVE  /\ <<x>> \o t \in Seq(S) /\ Len(<<x>> \o t) = Len(t) + 1 /\ (<<x>> \o t)[1] = x
           /\ At(<<x>> \o t, 1) = x
           /\ \A k \in 1 .. Len(t) : (<<x>> \o t)[k + 1] = t[k]
           /\ \A k \in Nat \ {0} : At(<<x>> \o t, k + 1) = At(t, k)
<1> DEFINE u == <<x>> \o t
<1>1. <<x>> \in Seq(S)
  OBVIOUS
<1>2. u \in Seq(S) /\ Len(u) = Len(t) + 1 /\ u[1] = x /\ \A k \in 1 .. Len(t) : u[k + 1] = t[k]
  BY <1>1
<1>3. Len(t) \in Nat
  OBVIOUS
<1> HIDE DEF u
<1>4. At(u, 1) = x
  BY <1>2, <1>3 DEF At
<1>5. ASSUME NEW k \in Nat \ {0} PROVE At(u, k + 1) = At(t, k)
  <2>1. CASE k <= Len(t)
    BY <1>2, <1>3, <2>1 DEF At
  <2>2. CASE ~(k <= Len(t))
    BY <1>2, <1>3, <2>2 DEF At
  <2>3. QED BY <2>1, <2>2
<1>6. QED BY <1>2, <1>4, <1>5 DEF u

(* What begins at i begins with the same character when it is clean, and   *)
(* with the same ones up to a slash.                                       *)
LEMMA CleanBegins ==
    ASSUME NEW S, NEW s \in Seq(S), NEW i \in 1 .. Len(s) + 1
    PROVE  LET t == Cleaning(s)[i]
           IN  /\ SlashAt(t, 1) => SlashAt(s, i)
               /\ DotAt(t, 1) => DotAt(s, i)
               /\ DotsAt(t, 1) => DotsAt(s, i)
<1> DEFINE w == Cleaning(s)
           n == Len(s) + 1
<1>1. Len(s) \in Nat /\ n \in Nat
  OBVIOUS
<1>2. /\ w[n] = <<>> /\ \A j \in 1 .. Len(s) : w[j] = <<s[j]>> \o w[NextPlace(s, j)]
      /\ \A j \in 1 .. n : w[j] \in Seq(S)
  BY CleanSteps
<1> HIDE DEF w
<1>3. \A k \in Nat \ {0} : At(<<>>, k) = "NUL" /\ At(s, n) = "NUL"
  BY <1>1 DEF At
<1>4. ASSUME NEW j \in 1 .. Len(s)
      PROVE  /\ At(w[j], 1) = s[j] /\ At(s, j) = s[j]
             /\ s[j] # "/" => \A k \in Nat \ {0} : At(w[j], k + 1) = At(w[j + 1], k)
  <2> DEFINE e == NextPlace(s, j)
  <2>1. s[j] \in S /\ e \in j + 1 .. Len(s) + 1
    BY NextWithin
  <2>2. s[j] # "/" => e = j + 1
    BY DEF NextPlace
  <2> HIDE DEF e
  <2>3. w[j] = <<s[j]>> \o w[e] /\ w[e] \in Seq(S)
    <3>1. e \in 1 .. n
      BY <1>1, <2>1
    <3>2. QED BY <1>2, <3>1 DEF e
  <2>4. /\ At(<<s[j]>> \o w[e], 1) = s[j]
        /\ \A k \in Nat \ {0} : At(<<s[j]>> \o w[e], k + 1) = At(w[e], k)
    <3> DEFINE x == s[j]
               t == w[e]
    <3>1. x \in S /\ t \in Seq(S)
      BY <2>1, <2>3
    <3> HIDE DEF x, t
    <3>2. At(<<x>> \o t, 1) = x /\ \A k \in Nat \ {0} : At(<<x>> \o t, k + 1) = At(t, k)
      BY <3>1, AtPush
    <3>3. QED BY <3>2 DEF x, t
  <2>5. At(s, j) = s[j]
    BY <1>1 DEF At
  <2>6. QED BY <2>2, <2>3, <2>4, <2>5
<1>5. ASSUME NEW j \in 1 .. n PROVE At(w[j], 1) = At(s, j)
  <2>1. CASE j = n
    BY <1>2, <1>3, <2>1
  <2>2. CASE j # n
    <3>1. j \in 1 .. Len(s)
      BY <1>1, <2>2
    <3>2. QED BY <1>4, <3>1
  <2>3. QED BY <2>1, <2>2
<1>6. ASSUME NEW j \in 1 .. n, At(s, j) = "."
      PROVE  j + 1 \in 1 .. n /\ \A k \in Nat \ {0} : At(w[j], k + 1) = At(w[j + 1], k)
  <2>1. j # n
    BY <1>3, <1>6
  <2>2. j \in 1 .. Len(s)
    BY <1>1, <2>1
  <2>3. s[j] # "/"
    BY <1>4, <1>6, <2>2
  <2>4. j + 1 \in 1 .. n
    BY <1>1, <2>2
  <2>5. QED BY <1>4, <2>2, <2>3, <2>4
<1>7. ASSUME NEW j \in 1 .. n, At(s, j) = "." PROVE At(w[j], 2) = At(s, j + 1)
  <2>1. At(w[j], 1 + 1) = At(w[j + 1], 1) /\ j + 1 \in 1 .. n
    BY <1>6, <1>7
  <2>2. QED BY <1>5, <2>1
<1>8. ASSUME NEW j \in 1 .. n, At(s, j) = ".", At(s, j + 1) = "." PROVE At(w[j], 3) = At(s, j + 2)
  <2>1. At(w[j], 2 + 1) = At(w[j + 1], 2) /\ j + 1 \in 1 .. n
    BY <1>6, <1>8
  <2>2. At(w[j + 1], 2) = At(s, (j + 1) + 1)
    BY <1>7, <1>8, <2>1
  <2>3. (j + 1) + 1 = j + 2
    OBVIOUS
  <2>4. QED BY <2>1, <2>2, <2>3
<1> HIDE DEF n
<1>9. i \in 1 .. n
  BY DEF n
<1>10. SlashAt(w[i], 1) => SlashAt(s, i)
  BY <1>5, <1>9 DEF SlashAt
<1>11. DotAt(w[i], 1) => DotAt(s, i)
  BY <1>5, <1>7, <1>9 DEF DotAt
<1>12. DotsAt(w[i], 1) => DotsAt(s, i)
  BY <1>5, <1>7, <1>8, <1>9 DEF DotsAt
<1>13. QED BY <1>10, <1>11, <1>12 DEF w

(* A character in front makes no such part unless it is a slash that one   *)
(* follows.                                                                *)
LEMMA NoBadPush ==
    ASSUME NEW S, NEW x \in S, NEW t \in Seq(S), NoBad(t),
           x = "/" => ~SlashAt(t, 1) /\ ~DotAt(t, 1) /\ ~DotsAt(t, 1)
    PROVE  NoBad(<<x>> \o t)
<1> DEFINE u == <<x>> \o t
<1>1. /\ u \in Seq(S) /\ Len(u) = Len(t) + 1 /\ u[1] = x /\ Len(t) \in Nat
      /\ \A k \in 1 .. Len(t) : u[k + 1] = t[k]
      /\ \A k \in Nat \ {0} : At(u, k + 1) = At(t, k)
  BY AtPush
<1> HIDE DEF u
<1> SUFFICES ASSUME NEW a \in 1 .. Len(u), NEW b \in 1 .. Len(u), a < b, BadPart(u, a, b)
             PROVE  FALSE
  BY DEF NoBad, u
<1>2. /\ u[a] = "/"
      /\ \/ b = a + 1 /\ SlashAt(u, a + 1)
         \/ b = a + 2 /\ DotAt(u, a + 1)
         \/ b = a + 3 /\ DotsAt(u, a + 1)
  BY <1>1, BadPartIs
<1>3. ASSUME NEW k \in Nat \ {0}
      PROVE  /\ SlashAt(u, k + 1) <=> SlashAt(t, k)
             /\ DotAt(u, k + 1) <=> DotAt(t, k)
             /\ DotsAt(u, k + 1) <=> DotsAt(t, k)
  <2>1. At(u, k + 1) = At(t, k) /\ At(u, (k + 1) + 1) = At(t, k + 1)
        /\ At(u, (k + 2) + 1) = At(t, k + 2)
    <3>1. k + 1 \in Nat \ {0} /\ k + 2 \in Nat \ {0}
      OBVIOUS
    <3>2. QED BY <1>1, <3>1
  <2>2. (k + 2) + 1 = (k + 1) + 2
    OBVIOUS
  <2>3. QED BY <2>1, <2>2 DEF SlashAt, DotAt, DotsAt
<1>4. CASE a = 1
  <2>1. x = "/" /\ (SlashAt(t, 1) \/ DotAt(t, 1) \/ DotsAt(t, 1))
    BY <1>1, <1>2, <1>3, <1>4
  <2>2. QED BY <2>1
<1>5. CASE a # 1
  <2>1. a - 1 \in 1 .. Len(t) /\ b - 1 \in 1 .. Len(t) /\ a - 1 < b - 1 /\ (a - 1) + 1 = a
    BY <1>1, <1>5
  <2>2. t[a - 1] = "/"
    BY <1>1, <1>2, <2>1
  <2>3. \/ b = a + 1 /\ SlashAt(t, a)
        \/ b = a + 2 /\ DotAt(t, a)
        \/ b = a + 3 /\ DotsAt(t, a)
    <3>1. a \in Nat \ {0}
      BY <1>1
    <3>2. QED BY <1>2, <1>3, <3>1
  <2>4. \/ b - 1 = (a - 1) + 1 /\ SlashAt(t, (a - 1) + 1)
        \/ b - 1 = (a - 1) + 2 /\ DotAt(t, (a - 1) + 1)
        \/ b - 1 = (a - 1) + 3 /\ DotsAt(t, (a - 1) + 1)
    BY <1>1, <2>1, <2>3
  <2>5. BadPart(t, a - 1, b - 1)
    BY <2>1, <2>2, <2>4, BadPartIs
  <2>6. QED BY <2>1, <2>5 DEF NoBad
<1>6. QED BY <1>4, <1>5

(* clean_pathname leaves no such part: none comes up where one was left    *)
(* out.                                                                    *)
LEMMA CleanNoBad == ASSUME NEW S, NEW s \in Seq(S) PROVE NoBad(clean_pathname(s))
<1> DEFINE n == Len(s) + 1
           w == Cleaning(s)
           T == {i \in 1 .. n : NoBad(w[i])}
<1>1. n \in Nat /\ Len(s) \in Nat
  OBVIOUS
<1>2. /\ w[n] = <<>> /\ \A i \in 1 .. Len(s) : w[i] = <<s[i]>> \o w[NextPlace(s, i)]
      /\ \A i \in 1 .. n : w[i] \in Seq(S)
  BY CleanSteps
<1>3. clean_pathname(s) = w[1] /\ 1 \in 1 .. n
  BY <1>1, CleanSteps
<1>4. ASSUME NEW j \in 1 .. n
      PROVE  /\ SlashAt(w[j], 1) => SlashAt(s, j)
             /\ DotAt(w[j], 1) => DotAt(s, j)
             /\ DotsAt(w[j], 1) => DotsAt(s, j)
  BY CleanBegins
<1> HIDE DEF w
<1>5. ASSUME NEW i \in 1 .. n, \A k \in i + 1 .. n : k \in T PROVE i \in T
  <2>1. CASE i = n
    <3>1. NoBad(<<>>)
      BY DEF NoBad
    <3>2. QED BY <1>2, <2>1, <3>1
  <2>2. CASE i # n
    <3> DEFINE e == NextPlace(s, i)
    <3>1. i \in 1 .. Len(s)
      BY <1>1, <2>2
    <3>2. e \in i + 1 .. n /\ s[i] \in S
      BY <3>1, NextWithin
    <3>3. s[i] = "/" => ~SlashAt(s, e) /\ ~DotAt(s, e) /\ ~DotsAt(s, e)
      <4> SUFFICES ASSUME s[i] = "/" PROVE ~SlashAt(s, e) /\ ~DotAt(s, e) /\ ~DotsAt(s, e)
        OBVIOUS
      <4>1. e = AfterSlash(s, i + 1) /\ i + 1 \in 1 .. Len(s) + 1
        BY <3>1 DEF NextPlace
      <4>2. Skipped(s, i + 1, e)
        BY <4>1, AfterSlashWithin
      <4>3. QED BY <4>2 DEF Skipped
    <3>4. w[i] = <<s[i]>> \o w[e]
      BY <1>2, <3>1
    <3> HIDE DEF e
    <3>5. e \in 1 .. n
      BY <1>1, <3>2
    <3>6. NoBad(w[e]) /\ w[e] \in Seq(S)
      BY <1>2, <1>5, <3>2, <3>5
    <3>7. s[i] = "/" => ~SlashAt(w[e], 1) /\ ~DotAt(w[e], 1) /\ ~DotsAt(w[e], 1)
      BY <1>4, <3>3, <3>5
    <3>8. NoBad(<<s[i]>> \o w[e])
      BY <3>2, <3>6, <3>7, NoBadPush
    <3>9. QED BY <3>4, <3>8
  <2>3. QED BY <2>1, <2>2
<1>6. 1 .. n \subseteq T
  <2> HIDE DEF T
  <2>1. QED BY <1>1, <1>5, BackInduction
<1>7. QED BY <1>3, <1>6

(* That is to say that Unclean finds none.                                 *)
LEMMA NoBadUnclean == ASSUME NEW S, NEW t \in Seq(S), NoBad(t) PROVE Unclean(t) = {}
BY DEF NoBad, BadPart, Unclean

(* A path that is shortened at its front gets no such part.                *)
LEMMA NoBadTail ==
    ASSUME NEW S, NEW t \in Seq(S), Len(t) > 3, NoBad(t)
    PROVE  NoBad(SubSeq(t, 3, Len(t)))
<1> DEFINE u == SubSeq(t, 3, Len(t))
<1>1. /\ u \in Seq(S) /\ Len(u) = Len(t) - 2 /\ Len(t) \in Nat
      /\ \A i \in 1 .. Len(t) - 2 : u[i] = t[i + 2]
  OBVIOUS
<1> HIDE DEF u
<1> SUFFICES ASSUME NEW a \in 1 .. Len(u), NEW b \in 1 .. Len(u), a < b, BadPart(u, a, b)
             PROVE  FALSE
  BY DEF NoBad, u
<1>2. /\ u[a] = "/"
      /\ \/ b = a + 1 /\ SlashAt(u, a + 1)
         \/ b = a + 2 /\ DotAt(u, a + 1)
         \/ b = a + 3 /\ DotsAt(u, a + 1)
  BY <1>1, BadPartIs
<1>3. ASSUME NEW k \in Nat \ {0} PROVE At(u, k) = At(t, k + 2)
  <2>1. CASE k <= Len(u)
    BY <1>1, <2>1 DEF At
  <2>2. CASE ~(k <= Len(u))
    BY <1>1, <2>2 DEF At
  <2>3. QED BY <2>1, <2>2
<1>4. a \in Nat \ {0}
  BY <1>1
<1>5. /\ At(u, a + 1) = At(t, (a + 2) + 1) /\ At(u, (a + 1) + 1) = At(t, ((a + 2) + 1) + 1)
      /\ At(u, (a + 1) + 2) = At(t, ((a + 2) + 1) + 2)
  <2>1. /\ At(u, a + 1) = At(t, (a + 1) + 2) /\ At(u, (a + 1) + 1) = At(t, ((a + 1) + 1) + 2)
        /\ At(u, (a + 1) + 2) = At(t, ((a + 1) + 2) + 2)
    <3>1. a + 1 \in Nat \ {0} /\ (a + 1) + 1 \in Nat \ {0} /\ (a + 1) + 2 \in Nat \ {0}
      BY <1>4
    <3>2. QED BY <1>3, <3>1
  <2>2. /\ (a + 1) + 2 = (a + 2) + 1 /\ ((a + 1) + 1) + 2 = ((a + 2) + 1) + 1
        /\ ((a + 1) + 2) + 2 = ((a + 2) + 1) + 2
    BY <1>4
  <2>3. QED BY <2>1, <2>2
<1>6. \/ b + 2 = (a + 2) + 1 /\ SlashAt(t, (a + 2) + 1)
      \/ b + 2 = (a + 2) + 2 /\ DotAt(t, (a + 2) + 1)
      \/ b + 2 = (a + 2) + 3 /\ DotsAt(t, (a + 2) + 1)
  <2>1. CASE b = a + 1 /\ SlashAt(u, a + 1)
    BY <1>4, <1>5, <2>1 DEF SlashAt
  <2>2. CASE b = a + 2 /\ DotAt(u, a + 1)
    BY <1>4, <1>5, <2>2 DEF DotAt
  <2>3. CASE b = a + 3 /\ DotsAt(u, a + 1)
    BY <1>4, <1>5, <2>3 DEF DotsAt
  <2>4. QED BY <1>2, <2>1, <2>2, <2>3
<1>7. /\ a + 2 \in 1 .. Len(t) /\ b + 2 \in 1 .. Len(t) /\ a + 2 < b + 2 /\ t[a + 2] = "/"
  BY <1>1, <1>2
<1>8. BadPart(t, a + 2, b + 2)
  BY <1>6, <1>7, BadPartIs
<1>9. QED BY <1>7, <1>8 DEF NoBad

(* Every label of a host that check_host accepts has a character.          *)
LEMMA HostLabelled ==
    ASSUME NEW h \in Seq(Char), check_host(h) PROVE <<>> \notin HostLabels(h)
<1> DEFINE P == {0, Len(h) + 1} \cup {i \in 1 .. Len(h) : h[i] = "."}
<1>1. /\ Len(h) \in Nat \ {0} /\ h[1] # "." /\ h[Len(h)] # "."
      /\ \A i \in 2 .. Len(h) : h[i] = "." => h[i - 1] # "."
  <2>1. Len(h) \in Nat \ {0}
    BY DEF check_host
  <2>2. \A x \in Alnum \cup {"-"} : x # "."
    BY DEF Alnum
  <2>3. QED BY <2>1, <2>2 DEF check_host
<1>2. P \subseteq 0 .. Len(h) + 1
  BY <1>1
<1>3. ASSUME NEW p \in P, NEW q \in P, p < q PROVE q - 1 >= p + 1
  <2> SUFFICES ASSUME q = p + 1 PROVE FALSE
    BY <1>1, <1>2, <1>3
  <2>1. CASE p = 0
    BY <1>1, <1>2, <2>1
  <2>2. CASE p \in 1 .. Len(h) /\ h[p] = "."
    <3>1. CASE p = Len(h)
      BY <1>1, <2>2, <3>1
    <3>2. CASE p # Len(h)
      <4>1. q \in 2 .. Len(h) /\ q - 1 = p
        BY <1>1, <2>2, <3>2
      <4>2. h[q] = "."
        BY <1>1, <4>1
      <4>3. QED BY <1>1, <2>2, <4>1, <4>2
    <3>3. QED BY <3>1, <3>2
  <2>3. CASE p = Len(h) + 1
    BY <1>1, <1>2, <2>3
  <2>4. QED BY <2>1, <2>2, <2>3
<1>4. ASSUME NEW p \in P, NEW q \in P, p < q PROVE SubSeq(h, p + 1, q - 1) # <<>>
  <2>1. q - 1 >= p + 1
    BY <1>3, <1>4
  <2>2. p + 1 \in 1 .. Len(h) + 1 /\ q - 1 \in 1 .. Len(h)
    BY <1>1, <1>2, <1>4, <2>1
  <2> HIDE DEF P
  <2> DEFINE m == p + 1
             k == q - 1
  <2>3. m \in Nat \ {0} /\ k \in 1 .. Len(h) /\ m <= k
    BY <1>1, <2>1, <2>2
  <2> HIDE DEF m, k
  <2>4. Len(SubSeq(h, m, k)) = k - m + 1
    BY <1>1, <2>3
  <2>5. Len(SubSeq(h, m, k)) # 0
    BY <1>1, <2>3, <2>4
  <2>6. SubSeq(h, m, k) # <<>>
    <3> DEFINE u == SubSeq(h, m, k)
    <3>1. Len(u) # 0
      BY <2>5
    <3> HIDE DEF u
    <3>2. u # <<>>
      BY <3>1
    <3>3. QED BY <3>2 DEF u
  <2>7. QED BY <2>6 DEF m, k
<1>5. HostLabels(h) = {SubSeq(h, e[1] + 1, e[2] - 1) :
           e \in {e \in P \X P : e[1] < e[2] /\ \A j \in P : ~(e[1] < j /\ j < e[2])}}
  BY DEF HostLabels
<1> HIDE DEF P
<1> SUFFICES ASSUME <<>> \in HostLabels(h) PROVE FALSE
  OBVIOUS
<1>6. PICK e \in P \X P : e[1] < e[2] /\ <<>> = SubSeq(h, e[1] + 1, e[2] - 1)
  BY <1>5
<1>7. e[1] \in P /\ e[2] \in P
  BY <1>6
<1>8. QED BY <1>4, <1>6, <1>7

(* Stripped with the options as a parameter.                               *)
StripBy(o, uri) ==
    IF "use_caudium_hack" \in o /\ At(uri, 2) = "(ll)" /\ At(uri, 3) = "/" /\ Len(uri) > 3
    THEN SubSeq(uri, 3, Len(uri)) ELSE uri

(* CleanPath with the state it speaks of as parameters.                    *)
CleanNow ==
    ans.out \notin {"none", "bad"} =>
        /\ ans.uri = StripBy(options, Cleaned(unescape_uri(ans.q.raw).uri))
        /\ Unclean(ans.uri) = {}
        /\ "vhost_root" \in options => <<>> \notin HostLabels(ans.q.host)

(* That is CleanPath.                                                      *)
LEMMA CleanNowIs == CleanNow => CleanPath
BY DEF CleanNow, CleanPath, StripBy, Stripped, Has

(* Stripped makes no such part.                                            *)
LEMMA StripNoBad ==
    ASSUME NEW S, NEW t \in Seq(S), NoBad(t)
    PROVE  Stripped(t) = StripBy(options, t) /\ NoBad(Stripped(t))
<1>1. Stripped(t) = StripBy(options, t)
  BY DEF Stripped, StripBy, Has
<1>2. Stripped(t) = t \/ (Len(t) > 3 /\ Stripped(t) = SubSeq(t, 3, Len(t)))
  BY DEF Stripped
<1>3. Len(t) > 3 => NoBad(SubSeq(t, 3, Len(t)))
  BY NoBadTail
<1>4. QED BY <1>1, <1>2, <1>3

(* Every step keeps it.                                                    *)
LEMMA CleanInductive ==
    TransInv /\ CleanNow /\ [TransNext]_transVars => CleanNow'
<1> SUFFICES ASSUME TransInv, CleanNow, [TransNext]_transVars PROVE CleanNow'
  OBVIOUS
<1>1. CASE sighup_run \/ Dispatched \/ PasswdChanges
  <2>1. ans' = NoRequest
    BY <1>1 DEF sighup_run, Dispatched, PasswdChanges
  <2>2. ans'.out = "none"
    BY <2>1 DEF NoRequest
  <2>3. QED BY <2>2 DEF CleanNow
<1>2. ASSUME NEW q \in Asked, process_header_end(q) PROVE CleanNow'
  <2> DEFINE u == unescape_uri(q.raw)
             c == clean_pathname(u.uri)
             uri == Stripped(c)
             found == find_alias(uri)
             a == translate_uri(uri, q.method, q.http09)
             good == u.ok /\ At(uri, 1) = "/" /\ (Has("vhost_root") => check_host(q.host))
  <2>1. u.uri \in Seq(Text) /\ q.host \in Seq(Char)
    <3>1. q.raw \in Seq(Char) /\ q.host \in Seq(Char)
      BY TranslateAssumption
    <3>2. QED BY <3>1, UnescapedText
  <2>2. /\ \/ ans' = Answered(Refused("bad"), q, uri, <<>>)
           \/ good /\ ans' = Answered(a, q, uri, found)
        /\ options' = options
    BY <1>2 DEF process_header_end
  <2> HIDE DEF u, a, found
  <2>3. c \in Seq(Text) /\ NoBad(c) /\ c = Cleaned(u.uri)
    BY <2>1, CleanText, CleanNoBad, CleanIsCleaned
  <2> HIDE DEF c
  <2>4. uri = StripBy(options, c) /\ NoBad(uri) /\ uri \in Seq(Text)
    BY <2>3, StripNoBad, StrippedText
  <2>5. good => ("vhost_root" \in options => <<>> \notin HostLabels(q.host))
    <3>1. check_host(q.host) => <<>> \notin HostLabels(q.host)
      BY <2>1, HostLabelled
    <3>2. QED BY <3>1 DEF Has
  <2> HIDE DEF uri, good
  <2>6. Unclean(uri) = {}
    BY <2>4, NoBadUnclean
  <2>7. CASE ans' = Answered(Refused("bad"), q, uri, <<>>)
    <3>1. ans'.out = "bad"
      BY <2>7 DEF Answered, Refused, Answer
    <3>2. QED BY <3>1 DEF CleanNow
  <2>8. CASE good /\ ans' = Answered(a, q, uri, found)
    <3>1. ans'.uri = uri /\ ans'.q = q
      BY <2>8 DEF Answered
    <3>2. /\ ans'.uri = StripBy(options', Cleaned(unescape_uri(ans'.q.raw).uri))
          /\ Unclean(ans'.uri) = {}
          /\ "vhost_root" \in options' => <<>> \notin HostLabels(ans'.q.host)
      BY <2>2, <2>3, <2>4, <2>5, <2>6, <2>8, <3>1 DEF u
    <3>3. QED BY <3>2 DEF CleanNow
  <2>9. QED BY <2>2, <2>7, <2>8
<1>3. CASE UNCHANGED transVars
  BY <1>3 DEF CleanNow, transVars, tables
<1>4. QED BY <1>1, <1>2, <1>3 DEF TransNext

(* The URI that translate_uri gets is the decoded one without the empty, . *)
(* and .. parts in front of its last slash, and has none of them there,    *)
(* although leaving a part out brings others together; what is behind the  *)
(* last slash is left alone.  With vhost_root no label of the host is      *)
(* empty.  For URIs and hosts of any length (unescape_uri, clean_pathname  *)
(* and check_host of util.c, process_header_end of request.c).             *)
THEOREM PathClean == TransSpec => []CleanPath
<1>1. TransInit => CleanNow
  BY DEF TransInit, CleanNow, NoRequest
<1>2. QED BY <1>1, TransInitInv, TransInductive, CleanInductive, CleanNowIs, PTL DEF TransSpec
=============================================================================
