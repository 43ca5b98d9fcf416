----------------------------- MODULE ListsProofs ----------------------------
(***************************************************************************)
(* Facts about the list operators of Lists, for every list.                *)
(***************************************************************************)
EXTENDS Lists, WellFoundedInduction, TLAPS

(* enqueue puts r in front and shifts the rest of the list by one place.   *)
LEMMA PushPlaces ==
    ASSUME NEW S, NEW s \in Seq(S), NEW r \in S
    PROVE  /\ Push(s, r) \in Seq(S)
           /\ Len(Push(s, r)) = Len(s) + 1
           /\ DOMAIN Push(s, r) = 1 .. Len(s) + 1
           /\ Push(s, r) # <<>>
           /\ Push(s, r)[1] = r
           /\ \A i \in DOMAIN s : Push(s, r)[i + 1] = s[i]
           /\ \A i \in 2 .. Len(s) + 1 : Push(s, r)[i] = s[i - 1]
BY DEF Push

(* enqueue adds exactly r to the requests on the list, and keeps a list    *)
(* free of repetitions when r was not on it.                               *)
LEMMA PushElems ==
    ASSUME NEW S, NEW s \in Seq(S), NEW r \in S
    PROVE  /\ Elems(Push(s, r)) = Elems(s) \cup {r}
           /\ Distinct(s) /\ r \notin Elems(s) => Distinct(Push(s, r))
<1> DEFINE t == Push(s, r)
<1> HIDE DEF t
<1>1. /\ DOMAIN t = 1 .. Len(s) + 1
      /\ DOMAIN s = 1 .. Len(s)
      /\ Len(s) \in Nat
      /\ t[1] = r
      /\ \A i \in DOMAIN s : t[i + 1] = s[i]
      /\ \A i \in 2 .. Len(s) + 1 : t[i] = s[i - 1]
  BY DEF t, Push
<1>2. Elems(t) = Elems(s) \cup {r}
  <2>1. ASSUME NEW x \in Elems(t) PROVE x \in Elems(s) \cup {r}
    <3>1. PICK i \in 1 .. Len(s) + 1 : x = t[i]
      BY <1>1, <2>1 DEF Elems
    <3>2. CASE i = 1
      BY <1>1, <3>1, <3>2
    <3>3. CASE i # 1
      <4>1. i - 1 \in DOMAIN s /\ x = s[i - 1]
        BY <1>1, <3>1, <3>3
      <4>2. QED BY <4>1 DEF Elems
    <3>4. QED BY <3>2, <3>3
  <2>2. ASSUME NEW x \in Elems(s) PROVE x \in Elems(t)
    <3>1. PICK i \in DOMAIN s : x = s[i]
      BY <2>2 DEF Elems
    <3>2. i + 1 \in DOMAIN t /\ x = t[i + 1]
      BY <1>1, <3>1
    <3>3. QED BY <3>2 DEF Elems
  <2>3. r \in Elems(t)
    <3>1. 1 \in DOMAIN t /\ t[1] = r
      BY <1>1
    <3>2. QED BY <3>1 DEF Elems
  <2>4. QED BY <2>1, <2>2, <2>3
<1>3. ASSUME Distinct(s), r \notin Elems(s) PROVE Distinct(t)
  <2> SUFFICES ASSUME NEW i \in DOMAIN t, NEW j \in DOMAIN t, t[i] = t[j]
               PROVE  i = j
    BY DEF Distinct
  <2>1. \A k \in 2 .. Len(s) + 1 : t[k] \in Elems(s) /\ t[k] # r
    <3> TAKE k \in 2 .. Len(s) + 1
    <3>1. k - 1 \in DOMAIN s /\ t[k] = s[k - 1]
      BY <1>1
    <3>2. QED BY <3>1, <1>3 DEF Elems
  <2>2. CASE i = 1
    BY <1>1, <2>1, <2>2
  <2>3. CASE j = 1
    BY <1>1, <2>1, <2>3
  <2>4. CASE i # 1 /\ j # 1
    <3>1. /\ i - 1 \in DOMAIN s
          /\ j - 1 \in DOMAIN s
          /\ s[i - 1] = s[j - 1]
      BY <1>1, <2>4
    <3>2. i - 1 = j - 1
      BY <3>1, <1>3 DEF Distinct
    <3>3. QED BY <3>2, <1>1
  <2>5. QED BY <2>2, <2>3, <2>4
<1>4. QED BY <1>2, <1>3 DEF t

(* The place of a request that is on the list.                             *)
LEMMA IndexOfPlace ==
    ASSUME NEW S, NEW s \in Seq(S), NEW r \in Elems(s)
    PROVE  /\ IndexOf(s, r) \in 1 .. Len(s)
           /\ s[IndexOf(s, r)] = r
           /\ r \in S
           /\ Len(s) \in Nat \ {0}
<1>1. PICK i \in DOMAIN s : s[i] = r
  BY DEF Elems
<1>2. IndexOf(s, r) \in DOMAIN s /\ s[IndexOf(s, r)] = r
  BY <1>1 DEF IndexOf
<1>3. DOMAIN s = 1 .. Len(s) /\ Len(s) \in Nat
  OBVIOUS
<1>4. QED BY <1>2, <1>3

(* On a list without repetitions the place of a request is unique.         *)
LEMMA IndexOfUnique ==
    ASSUME NEW S, NEW s \in Seq(S), Distinct(s), NEW i \in DOMAIN s
    PROVE  IndexOf(s, s[i]) = i
BY DEF IndexOf, Distinct

(* A sequence is as long as its domain.                                    *)
LEMMA LenOfDomain ==
    ASSUME NEW S, NEW s \in Seq(S), NEW n \in Nat, DOMAIN s = 1 .. n
    PROVE  Len(s) = n
<1>1. Len(s) \in Nat /\ 1 .. Len(s) = 1 .. n
  OBVIOUS
<1>2. Len(s) <= n
  BY <1>1
<1>3. n <= Len(s)
  BY <1>1
<1>4. QED BY <1>1, <1>2, <1>3

(* dequeue keeps the places before the removed request and shifts the      *)
(* later ones down by one.                                                 *)
LEMMA DropAtPlaces ==
    ASSUME NEW S, NEW s \in Seq(S), NEW k \in 1 .. Len(s)
    PROVE  /\ DropAt(s, k) \in Seq(S)
           /\ Len(DropAt(s, k)) = Len(s) - 1
           /\ DOMAIN DropAt(s, k) = 1 .. Len(s) - 1
           /\ \A j \in 1 .. Len(s) - 1 :
                 DropAt(s, k)[j] = IF j < k THEN s[j] ELSE s[j + 1]
<1>1. Len(s) \in Nat /\ DOMAIN s = 1 .. Len(s) /\ Len(s) - 1 \in Nat
  OBVIOUS
<1>2. \A j \in 1 .. Len(s) - 1 : (IF j < k THEN s[j] ELSE s[j + 1]) \in S
  BY <1>1
<1>3. DropAt(s, k) \in [1 .. Len(s) - 1 -> S]
  BY <1>2 DEF DropAt
<1>4. DropAt(s, k) \in Seq(S)
  BY <1>1, <1>3
<1>5. DOMAIN DropAt(s, k) = 1 .. Len(s) - 1
  BY DEF DropAt
<1>6. Len(DropAt(s, k)) = Len(s) - 1
  BY <1>1, <1>4, <1>5, LenOfDomain
<1>7. QED BY <1>4, <1>5, <1>6 DEF DropAt

(* dequeue removes exactly r from a list without repetitions, and shortens *)
(* it by one.                                                              *)
LEMMA RemoveElems ==
    ASSUME NEW S, NEW s \in Seq(S), Distinct(s), NEW r \in Elems(s)
    PROVE  /\ Remove(s, r) \in Seq(S)
           /\ Len(Remove(s, r)) = Len(s) - 1
           /\ Distinct(Remove(s, r))
           /\ Elems(Remove(s, r)) = Elems(s) \ {r}
<1> DEFINE k == IndexOf(s, r)
           t == DropAt(s, k)
<1>1. k \in 1 .. Len(s) /\ s[k] = r /\ Len(s) \in Nat /\ DOMAIN s = 1 .. Len(s)
  BY IndexOfPlace
<1> HIDE DEF k
<1>2. /\ t \in Seq(S)
      /\ Len(t) = Len(s) - 1
      /\ DOMAIN t = 1 .. Len(s) - 1
      /\ \A j \in 1 .. Len(s) - 1 : t[j] = IF j < k THEN s[j] ELSE s[j + 1]
  BY <1>1, DropAtPlaces
<1> HIDE DEF t
<1>3. Distinct(t)
  <2> SUFFICES ASSUME NEW i \in DOMAIN t, NEW j \in DOMAIN t, t[i] = t[j]
               PROVE  i = j
    BY DEF Distinct
  <2> DEFINE u(n) == IF n < k THEN n ELSE n + 1
  <2>1. u(i) \in DOMAIN s /\ u(j) \in DOMAIN s /\ s[u(i)] = s[u(j)]
    BY <1>1, <1>2
  <2>2. u(i) = u(j)
    BY <2>1 DEF Distinct
  <2>3. QED BY <2>2, <1>1, <1>2
<1>4. ASSUME NEW x \in Elems(t) PROVE x \in Elems(s) \ {r}
  <2>1. PICK j \in DOMAIN t : x = t[j]
    BY <1>4 DEF Elems
  <2> DEFINE n == IF j < k THEN j ELSE j + 1
  <2>2. n \in DOMAIN s /\ x = s[n] /\ n # k
    BY <1>1, <1>2, <2>1
  <2>3. x # r
    BY <2>2, <1>1 DEF Distinct
  <2>4. QED BY <2>2, <2>3 DEF Elems
<1>5. ASSUME NEW x \in Elems(s), x # r PROVE x \in Elems(t)
  <2>1. PICK n \in DOMAIN s : x = s[n]
    BY <1>5 DEF Elems
  <2> DEFINE j == IF n < k THEN n ELSE n - 1
  <2>2. j \in DOMAIN t /\ t[j] = x
    BY <1>1, <1>2, <1>5, <2>1
  <2>3. QED BY <2>2 DEF Elems
<1>6. QED BY <1>2, <1>3, <1>4, <1>5 DEF Remove, t, k

(* new_request takes the head of the free list off it.                     *)
LEMMA TailElems ==
    ASSUME NEW S, NEW s \in Seq(S), s # <<>>, Distinct(s)
    PROVE  /\ Tail(s) \in Seq(S)
           /\ Distinct(Tail(s))
           /\ Elems(Tail(s)) = Elems(s) \ {s[1]}
           /\ s[1] \in Elems(s)
<1> DEFINE t == Tail(s)
<1>1. /\ t \in Seq(S) /\ Len(s) \in Nat \ {0}
      /\ DOMAIN s = 1 .. Len(s) /\ DOMAIN t = 1 .. Len(s) - 1
      /\ \A i \in 1 .. Len(s) - 1 : t[i] = s[i + 1]
  OBVIOUS
<1> HIDE DEF t
<1>2. Distinct(t)
  <2> SUFFICES ASSUME NEW i \in DOMAIN t, NEW j \in DOMAIN t, t[i] = t[j] PROVE i = j
    BY DEF Distinct
  <2>1. i + 1 \in DOMAIN s /\ j + 1 \in DOMAIN s /\ s[i + 1] = s[j + 1]
    BY <1>1
  <2>2. i + 1 = j + 1
    BY <2>1 DEF Distinct
  <2>3. QED BY <1>1, <2>2
<1>3. ASSUME NEW x \in Elems(t) PROVE x \in Elems(s) \ {s[1]}
  <2>1. PICK i \in DOMAIN t : x = t[i]
    BY <1>3 DEF Elems
  <2>2. i + 1 \in DOMAIN s /\ 1 \in DOMAIN s /\ i + 1 # 1 /\ x = s[i + 1]
    BY <1>1, <2>1
  <2>3. QED BY <2>2 DEF Elems, Distinct
<1>4. ASSUME NEW x \in Elems(s) \ {s[1]} PROVE x \in Elems(t)
  <2>1. PICK i \in DOMAIN s : x = s[i]
    BY <1>4 DEF Elems
  <2>2. i - 1 \in DOMAIN t /\ x = t[i - 1]
    <3>1. i # 1
      BY <1>4, <2>1
    <3>2. i - 1 \in 1 .. Len(s) - 1 /\ (i - 1) + 1 = i
      BY <1>1, <3>1
    <3>3. QED BY <1>1, <2>1, <3>2
  <2>3. QED BY <2>2 DEF Elems
<1>5. s[1] \in Elems(s)
  BY <1>1 DEF Elems
<1>6. QED BY <1>1, <1>2, <1>3, <1>4, <1>5 DEF t

(* Every set of numbers that is not empty has a least one: the form of     *)
(* induction that the proofs about Walk use.                               *)
LEMMA LeastNumber ==
    ASSUME NEW T \in SUBSET Nat, T # {}
    PROVE  \E m \in T : \A k \in T : m <= k
<1> DEFINE R == OpToRel(<, Nat)
<1>1. \A x, y \in Nat : x < y => <<x, y>> \in R
  BY DEF OpToRel
<1>2. \E x \in T : \A y \in T : ~(<<y, x>> \in R)
  BY NatLessThanWellFounded, WFMin
<1> HIDE DEF R
<1>3. PICK x \in T : \A y \in T : ~(<<y, x>> \in R)
  BY <1>2
<1>4. \A y \in T : ~(y < x)
  BY <1>1, <1>3
<1>5. QED BY <1>4

(* Induction over the places of a list: what holds before the first place  *)
(* and is carried over every place holds at all of them.                   *)
LEMMA PlaceInduction ==
    ASSUME NEW n \in Nat, NEW T, 0 \in T,
           \A i \in 1 .. n : i - 1 \in T => i \in T
    PROVE  0 .. n \subseteq T
<1> SUFFICES ASSUME NEW x \in 0 .. n, x \notin T PROVE FALSE
  OBVIOUS
<1> DEFINE U == {i \in 0 .. n : i \notin T}
<1>1. PICK m \in U : \A k \in U : m <= k
  <2>1. U \in SUBSET Nat /\ U # {}
    OBVIOUS
  <2>2. QED BY <2>1, LeastNumber
<1>2. m # 0 /\ m \in 1 .. n /\ m - 1 \in 0 .. n /\ m - 1 \notin U
  BY <1>1
<1>3. QED BY <1>1, <1>2

(* The walk is well defined: the recursive function exists.                *)
LEMMA WalkSteps ==
    ASSUME NEW S, NEW s \in Seq(S), NEW K
    PROVE  /\ Walk(s, K) \in [0 .. Len(s) -> Seq(S)]
           /\ Walk(s, K)[0] = <<>>
           /\ \A i \in 1 .. Len(s) :
                 Walk(s, K)[i] = IF i \in K THEN Append(Walk(s, K)[i - 1], s[i])
                                 ELSE Walk(s, K)[i - 1]
<1> DEFINE Step(t, i) == IF i \in K THEN Append(t, s[i]) ELSE t
           IsWalk(f, n) == /\ f \in [0 .. n -> Seq(S)]
                           /\ f[0] = <<>>
                           /\ \A i \in 1 .. n : f[i] = Step(f[i - 1], i)
           T == {n \in 0 .. Len(s) : \E f : IsWalk(f, n)}
<1>1. Len(s) \in Nat /\ \A i \in 1 .. Len(s) : s[i] \in S
  OBVIOUS
<1>2. \A t \in Seq(S), i \in 1 .. Len(s) : Step(t, i) \in Seq(S)
  BY <1>1
<1>3. 0 \in T
  <2> DEFINE f == [i \in 0 .. 0 |-> <<>>]
  <2>1. IsWalk(f, 0)
    OBVIOUS
  <2>2. \E h : IsWalk(h, 0)
    BY <2>1
  <2> HIDE DEF IsWalk
  <2>3. QED BY <1>1, <2>2
<1>4. ASSUME NEW n \in 1 .. Len(s), n - 1 \in T PROVE n \in T
  <2>1. PICK f : IsWalk(f, n - 1)
    BY <1>4
  <2> DEFINE g == [i \in 0 .. n |-> IF i = n THEN Step(f[n - 1], n) ELSE f[i]]
  <2> HIDE DEF Step
  <2>2. g \in [0 .. n -> Seq(S)] /\ g[0] = <<>>
    BY <1>1, <1>2, <2>1
  <2>3. ASSUME NEW i \in 1 .. n PROVE g[i] = Step(g[i - 1], i)
    BY <1>1, <2>1, <2>3
  <2>4. IsWalk(g, n)
    BY <2>2, <2>3
  <2> HIDE DEF IsWalk, g
  <2>5. QED BY <1>1, <2>4
<1>5. Len(s) \in T
  <2> HIDE DEF T
  <2>1. 0 .. Len(s) \subseteq T
    BY <1>1, <1>3, <1>4, PlaceInduction
  <2>2. QED BY <1>1, <2>1
<1>6. PICK f : IsWalk(f, Len(s))
  BY <1>5
<1> DEFINE Def(g) == [i \in 0 .. Len(s) |-> IF i = 0 THEN <<>> ELSE Step(g[i - 1], i)]
           w == Walk(s, K)
<1>7. w = CHOOSE g : g = Def(g)
  BY DEF Walk
<1> HIDE DEF Step, w
<1>8. f = Def(f)
  <2>1. \A i \in 0 .. Len(s) : f[i] = Def(f)[i]
    <3> TAKE i \in 0 .. Len(s)
    <3>1. CASE i = 0
      BY <1>1, <1>6, <3>1
    <3>2. CASE i # 0
      <4>1. i \in 1 .. Len(s)
        BY <1>1, <3>2
      <4>2. QED BY <1>6, <3>2, <4>1
    <3>3. QED BY <3>1, <3>2
  <2>2. QED BY <1>6, <2>1
<1>9. w = Def(w)
  BY <1>7, <1>8
<1>10. w[0] = <<>> /\ \A i \in 1 .. Len(s) : w[i] = Step(w[i - 1], i)
  <2>1. \A i \in 0 .. Len(s) : w[i] = IF i = 0 THEN <<>> ELSE Step(w[i - 1], i)
    BY <1>9
  <2>2. QED BY <1>1, <2>1
<1>11. w \in [0 .. Len(s) -> Seq(S)]
  <2> DEFINE V == {i \in 0 .. Len(s) : w[i] \in Seq(S)}
  <2>1. 0 \in V
    <3>1. <<>> \in Seq(S)
      OBVIOUS
    <3>2. w[0] \in Seq(S)
      BY <1>10, <3>1, Zenon
    <3>3. QED BY <1>1, <3>2
  <2>2. \A i \in 1 .. Len(s) : i - 1 \in V => i \in V
    BY <1>1, <1>2, <1>10
  <2>3. 0 .. Len(s) \subseteq V
    <3> HIDE DEF V
    <3>1. QED BY <1>1, <2>1, <2>2, PlaceInduction
  <2>4. QED BY <1>9, <2>3
<1>12. QED BY <1>10, <1>11 DEF w, Step

(* The places that a walk keeps of a list of length n.                     *)
Places(n, K) == Kept([i \in 1 .. n |-> i], K)

(* What a walk keeps are the elements at the places of K, all of them, in  *)
(* their order.                                                            *)
LEMMA KeptPlaces ==
    ASSUME NEW S, NEW s \in Seq(S), NEW K \in SUBSET (1 .. Len(s))
    PROVE  LET p == Places(Len(s), K)
           IN  /\ p \in Seq(1 .. Len(s))
               /\ Len(p) <= Len(s)
               /\ Elems(p) = K
               /\ \A j, k \in 1 .. Len(p) : j < k => p[j] < p[k]
               /\ Kept(s, K) \in Seq(S)
               /\ Len(Kept(s, K)) = Len(p)
               /\ \A j \in 1 .. Len(p) : Kept(s, K)[j] = s[p[j]]
<1> DEFINE n == Len(s)
           id == [i \in 1 .. n |-> i]
           w == Walk(s, K)
           p == Walk(id, K)
           Inv(i) == /\ Len(p[i]) <= i /\ Len(w[i]) = Len(p[i])
                     /\ \A j \in 1 .. Len(p[i]) : /\ p[i][j] \in K
                                                  /\ p[i][j] <= i
                                                  /\ w[i][j] = s[p[i][j]]
                     /\ \A j, k \in 1 .. Len(p[i]) : j < k => p[i][j] < p[i][k]
                     /\ \A x \in K : x <= i => \E j \in 1 .. Len(p[i]) : p[i][j] = x
           T == {i \in 0 .. n : Inv(i)}
<1>1. /\ n \in Nat /\ K \in SUBSET (1 .. n)
      /\ id \in Seq(1 .. n) /\ Len(id) = n /\ \A i \in 1 .. n : id[i] = i
  OBVIOUS
<1>2. /\ w \in [0 .. n -> Seq(S)] /\ w[0] = <<>>
      /\ \A i \in 1 .. n : w[i] = IF i \in K THEN Append(w[i - 1], s[i]) ELSE w[i - 1]
  BY WalkSteps
<1>3. /\ p \in [0 .. n -> Seq(1 .. n)] /\ p[0] = <<>>
      /\ \A i \in 1 .. n : p[i] = IF i \in K THEN Append(p[i - 1], i) ELSE p[i - 1]
  <2> HIDE DEF id
  <2>1. /\ p \in [0 .. Len(id) -> Seq(1 .. n)] /\ p[0] = <<>>
        /\ \A i \in 1 .. Len(id) : p[i] = IF i \in K THEN Append(p[i - 1], id[i]) ELSE p[i - 1]
    BY <1>1, WalkSteps
  <2> HIDE DEF p, n
  <2>2. QED BY <1>1, <2>1
<1> HIDE DEF w, p, id, n
<1>4. 0 \in T
  <2>1. 0 \in 0 .. n /\ (\A x \in K : ~(x <= 0)) /\ Len(p[0]) = 0 /\ Len(w[0]) = 0
    BY <1>1, <1>2, <1>3
  <2>2. Inv(0)
    BY <2>1
  <2> HIDE DEF Inv
  <2>3. QED BY <2>1, <2>2
<1>5. ASSUME NEW i \in 1 .. n, i - 1 \in T PROVE i \in T
  <2>1. Inv(i - 1)
    <3> HIDE DEF Inv
    <3>1. QED BY <1>5
  <2>2. i - 1 \in 0 .. n /\ i \in Nat /\ i \in 0 .. n /\ \A x \in K : x \in Nat
    BY <1>1
  <2>3. CASE i \notin K
    <3>1. w[i] = w[i - 1] /\ p[i] = p[i - 1]
      BY <1>2, <1>3, <2>3
    <3> DEFINE P == p[i - 1]
    <3>2. Len(P) \in Nat
      BY <1>3, <2>2
    <3>3. /\ Len(P) <= i - 1 /\ Len(w[i]) = Len(P)
          /\ \A j \in 1 .. Len(P) : P[j] \in K /\ P[j] <= i - 1 /\ w[i][j] = s[P[j]]
          /\ \A j, k \in 1 .. Len(P) : j < k => P[j] < P[k]
          /\ \A x \in K : x <= i - 1 => \E j \in 1 .. Len(P) : P[j] = x
      BY <2>1, <3>1
    <3> HIDE DEF P
    <3>4. /\ Len(P) <= i /\ \A j \in 1 .. Len(P) : P[j] <= i
          /\ \A x \in K : x <= i => x <= i - 1
      <4>1. \A x \in K : x \in Nat /\ x # i
        BY <2>2, <2>3
      <4>2. \A x \in K : x <= i => x <= i - 1
        BY <2>2, <4>1
      <4>3. \A j \in 1 .. Len(P) : P[j] \in Nat /\ P[j] <= i - 1
        BY <3>3, <4>1
      <4>4. Len(P) <= i
        BY <2>2, <3>2, <3>3
      <4>5. \A j \in 1 .. Len(P) : P[j] <= i
        BY <2>2, <4>3
      <4>6. QED BY <4>2, <4>4, <4>5
    <3>5. Inv(i)
      BY <3>1, <3>3, <3>4 DEF P
    <3> HIDE DEF Inv
    <3>6. QED BY <2>2, <3>5
  <2>4. CASE i \in K
    <3> DEFINE P == p[i - 1]
               W == w[i - 1]
               m == Len(P)
    <3>1. P \in Seq(1 .. n) /\ W \in Seq(S) /\ m \in Nat /\ Len(W) = m
      BY <1>2, <1>3, <2>1, <2>2
    <3>2. p[i] = Append(P, i) /\ w[i] = Append(W, s[i])
      BY <1>2, <1>3, <2>4
    <3>3. /\ Len(p[i]) = m + 1 /\ Len(w[i]) = m + 1
          /\ \A j \in 1 .. m : p[i][j] = P[j] /\ w[i][j] = W[j]
          /\ p[i][m + 1] = i /\ w[i][m + 1] = s[i]
      <4> HIDE DEF P, W
      <4>1. QED BY <3>1, <3>2
    <3>4. /\ m <= i - 1
          /\ \A j \in 1 .. m : P[j] \in K /\ P[j] <= i - 1 /\ W[j] = s[P[j]]
          /\ \A j, k \in 1 .. m : j < k => P[j] < P[k]
          /\ \A x \in K : x <= i - 1 => \E j \in 1 .. m : P[j] = x
      BY <2>1
    <3> HIDE DEF P, W, m
    <3>5a. \A j \in 1 .. m : P[j] \in Nat
      BY <2>2, <3>4
    <3>5b. \A j \in 1 .. m + 1 : j # m + 1 => j \in 1 .. m
      BY <3>1
    <3>5. \A j \in 1 .. m + 1 : p[i][j] \in K /\ p[i][j] <= i /\ w[i][j] = s[p[i][j]]
      <4> TAKE j \in 1 .. m + 1
      <4>1. CASE j = m + 1
        BY <2>2, <2>4, <3>1, <3>3, <4>1
      <4>2. CASE j # m + 1
        <5>1. j \in 1 .. m /\ P[j] \in Nat
          BY <3>5a, <3>5b, <4>2
        <5>2. QED BY <2>2, <3>3, <3>4, <5>1
      <4>3. QED BY <4>1, <4>2
    <3>6. \A j, k \in 1 .. m + 1 : j < k => p[i][j] < p[i][k]
      <4> TAKE j, k \in 1 .. m + 1
      <4> SUFFICES ASSUME j < k PROVE p[i][j] < p[i][k]
        OBVIOUS
      <4>0. j # m + 1
        BY <3>1
      <4>1. j \in 1 .. m /\ P[j] \in Nat /\ p[i][j] = P[j]
        BY <3>3, <3>5a, <3>5b, <4>0
      <4>2. CASE k = m + 1
        BY <2>2, <3>3, <3>4, <4>1, <4>2
      <4>3. CASE k # m + 1
        <5>1. k \in 1 .. m
          BY <3>5b, <4>3
        <5>2. QED BY <3>3, <3>4, <4>1, <5>1
      <4>4. QED BY <4>2, <4>3
    <3>7. ASSUME NEW x \in K, x <= i PROVE \E j \in 1 .. m + 1 : p[i][j] = x
      <4>1. CASE x = i
        BY <3>1, <3>3, <4>1
      <4>2. CASE x # i
        <5>1. x \in Nat /\ x <= i - 1
          BY <2>2, <3>7, <4>2
        <5>2. PICK j \in 1 .. m : P[j] = x
          BY <3>4, <5>1
        <5>3. j \in 1 .. m + 1 /\ p[i][j] = x
          BY <3>1, <3>3, <5>2
        <5>4. QED BY <5>3
      <4>3. QED BY <4>1, <4>2
    <3>8. Inv(i)
      <4>1. m + 1 <= i
        BY <2>2, <3>1, <3>4
      <4>2. QED BY <3>3, <3>5, <3>6, <3>7, <4>1
    <3> HIDE DEF Inv
    <3>9. QED BY <2>2, <3>8
  <2>5. QED BY <2>3, <2>4
<1>6. Inv(n)
  <2>1. 0 .. n \subseteq T
    <3> HIDE DEF T
    <3>1. QED BY <1>1, <1>4, <1>5, PlaceInduction
  <2> HIDE DEF Inv
  <2>2. QED BY <1>1, <2>1
<1>7. p[n] = Places(Len(s), K) /\ w[n] = Kept(s, K)
  BY <1>1 DEF p, w, id, n, Places, Kept
<1>8. p[n] \in Seq(1 .. n) /\ w[n] \in Seq(S) /\ DOMAIN p[n] = 1 .. Len(p[n])
  BY <1>1, <1>2, <1>3
<1>9. Elems(p[n]) = K
  <2>1. \A x \in K : \E j \in DOMAIN p[n] : p[n][j] = x
    <3>1. \A x \in K : x <= n
      BY <1>1
    <3>2. QED BY <1>6, <1>8, <3>1
  <2>2. \A j \in DOMAIN p[n] : p[n][j] \in K
    BY <1>6, <1>8
  <2>3. QED BY <2>1, <2>2 DEF Elems
<1>10. QED BY <1>6, <1>7, <1>8, <1>9 DEF n

(* What a walk keeps of the elements, whether it makes the list shorter,   *)
(* and that it repeats nothing.                                            *)
LEMMA KeptElems ==
    ASSUME NEW S, NEW s \in Seq(S), NEW K \in SUBSET (1 .. Len(s))
    PROVE  /\ Kept(s, K) \in Seq(S)
           /\ Len(Kept(s, K)) <= Len(s)
           /\ Elems(Kept(s, K)) = {s[i] : i \in K}
           /\ Distinct(s) => Distinct(Kept(s, K))
<1> DEFINE p == Places(Len(s), K)
           t == Kept(s, K)
<1>1. /\ p \in Seq(1 .. Len(s)) /\ Len(p) <= Len(s) /\ Elems(p) = K
      /\ \A j, k \in 1 .. Len(p) : j < k => p[j] < p[k]
      /\ t \in Seq(S) /\ Len(t) = Len(p)
      /\ \A j \in 1 .. Len(p) : t[j] = s[p[j]]
  BY KeptPlaces
<1> HIDE DEF p, t
<1>2. DOMAIN p = 1 .. Len(p) /\ DOMAIN t = 1 .. Len(p) /\ Len(p) \in Nat
  BY <1>1
<1>3. Elems(t) = {s[i] : i \in K}
  BY <1>1, <1>2 DEF Elems
<1>4. ASSUME Distinct(s) PROVE Distinct(t)
  <2> SUFFICES ASSUME NEW j \in DOMAIN t, NEW k \in DOMAIN t, t[j] = t[k]
               PROVE  j = k
    BY DEF Distinct
  <2>1. p[j] \in DOMAIN s /\ p[k] \in DOMAIN s /\ s[p[j]] = s[p[k]]
    BY <1>1, <1>2
  <2>2. p[j] = p[k] /\ p[j] \in Nat
    BY <1>4, <2>1 DEF Distinct
  <2>3. QED BY <1>1, <1>2, <2>2
<1>5. QED BY <1>1, <1>3, <1>4 DEF t

(* A walk that unlinks what is in X keeps the rest, in its order.          *)
LEMMA KeptWithout ==
    ASSUME NEW S, NEW s \in Seq(S), NEW X, NEW K, K = {i \in DOMAIN s : s[i] \notin X}
    PROVE  /\ Kept(s, K) \in Seq(S)
           /\ Elems(Kept(s, K)) = Elems(s) \ X
           /\ Distinct(s) => Distinct(Kept(s, K))
<1>1. K \in SUBSET (1 .. Len(s))
  OBVIOUS
<1>2. {s[i] : i \in K} = Elems(s) \ X
  BY DEF Elems
<1> QED
  BY <1>1, <1>2, KeptElems

(* A function that is defined place by place, and what it is defined by.   *)
Stepper(F, V, n) == F \in [V \X (1 .. n) -> V]
Recursion(f, F, base, V, n) ==
    f \in [0 .. n -> V] /\ f[0] = base /\ \A i \in 1 .. n : f[i] = F[<<f[i - 1], i>>]

(* It exists.                                                              *)
LEMMA RecursionExists ==
    ASSUME NEW n \in Nat, NEW V, NEW base \in V, NEW F, Stepper(F, V, n)
    PROVE  \E f : Recursion(f, F, base, V, n)
<1> USE DEF Stepper, Recursion
<1> DEFINE Is(f, k) == /\ f \in [0 .. k -> V] /\ f[0] = base
                       /\ \A i \in 1 .. k : f[i] = F[<<f[i - 1], i>>]
           T == {k \in 0 .. n : \E f : Is(f, k)}
<1>1. 0 \in T
  <2>1. Is([i \in 0 .. 0 |-> base], 0)
    OBVIOUS
  <2>2. \E f : Is(f, 0)
    BY <2>1
  <2> HIDE DEF Is
  <2>3. QED BY <2>2
<1>2. ASSUME NEW k \in 1 .. n, k - 1 \in T PROVE k \in T
  <2>1. PICK f : Is(f, k - 1)
    BY <1>2
  <2> DEFINE g == [i \in 0 .. k |-> IF i = k THEN F[<<f[k - 1], k>>] ELSE f[i]]
  <2>2. k - 1 \in 0 .. k - 1 /\ f[k - 1] \in V
    BY <2>1
  <2>3. F[<<f[k - 1], k>>] \in V
    BY <2>2
  <2>4. g \in [0 .. k -> V] /\ g[0] = base
    BY <2>1, <2>3
  <2>5. ASSUME NEW i \in 1 .. k PROVE g[i] = F[<<g[i - 1], i>>]
    <3>1. i - 1 \in 0 .. k - 1 /\ g[i - 1] = f[i - 1]
      OBVIOUS
    <3>2. CASE i = k
      <4>1. g[k] = F[<<f[k - 1], k>>]
        OBVIOUS
      <4> HIDE DEF g
      <4>2. g[i - 1] = f[k - 1]
        BY <3>1, <3>2
      <4>3. QED BY <3>2, <4>1, <4>2
    <3>3. CASE i # k
      BY <2>1, <3>1, <3>3
    <3>4. QED BY <3>2, <3>3
  <2>6. Is(g, k)
    BY <2>4, <2>5
  <2> HIDE DEF Is, g
  <2>7. QED BY <2>6
<1>3. n \in T
  <2> HIDE DEF T
  <2>1. 0 .. n \subseteq T
    BY <1>1, <1>2, PlaceInduction
  <2>2. QED BY <2>1
<1>4. PICK f : Is(f, n)
  BY <1>3
<1>5. QED BY <1>4

(* Induction from the last place of a list to the first.                   *)
LEMMA BackInduction ==
    ASSUME NEW n \in Nat, NEW T,
           \A j \in 1 .. n : (\A k \in j + 1 .. n : k \in T) => j \in T
    PROVE  1 .. n \subseteq T
<1> DEFINE U == {i \in 0 .. n : \A k \in (n - i) + 1 .. n : k \in T}
<1>1. 0 \in U
  OBVIOUS
<1>2. ASSUME NEW i \in 1 .. n, i - 1 \in U PROVE i \in U
  <2>1. \A k \in (n - i) + 2 .. n : k \in T
    BY <1>2
  <2>2. (n - i) + 1 \in T
    BY <2>1
  <2>3. QED BY <2>1, <2>2
<1>3. n \in U
  <2> HIDE DEF U
  <2>1. 0 .. n \subseteq U
    BY <1>1, <1>2, PlaceInduction
  <2>2. QED BY <2>1
<1>4. QED BY <1>3

(* A function whose value at a place comes from that at a later one, or    *)
(* from none, exists.                                                      *)
BackStepper(F, next, base, Stop, V, n) ==
    /\ F \in [V \X (1 .. n) -> V] /\ base \in [1 .. n -> V] /\ next \in [1 .. n -> Nat]
    /\ \A j \in 1 .. n : j \notin Stop => next[j] \in j + 1 .. n
BackRecursion(f, F, next, base, Stop, V, n) ==
    /\ f \in [1 .. n -> V]
    /\ \A j \in 1 .. n : f[j] = IF j \in Stop THEN base[j] ELSE F[<<f[next[j]], j>>]

(* Such a function exists.                                                 *)
LEMMA BackRecursionExists ==
    ASSUME NEW n \in Nat, NEW V, NEW Stop, NEW base, NEW next, NEW F,
           BackStepper(F, next, base, Stop, V, n)
    PROVE  \E f : BackRecursion(f, F, next, base, Stop, V, n)
<1> USE DEF BackStepper, BackRecursion
<1> DEFINE Val(f, j) == IF j \in Stop THEN base[j] ELSE F[<<f[next[j]], j>>]
           Is(f, k) == /\ f \in [1 .. n -> V]
                       /\ \A j \in (n - k) + 1 .. n : f[j] = Val(f, j)
           T == {k \in 0 .. n : \E f : Is(f, k)}
<1>1. 0 \in T
  <2>1. Is(base, 0)
    OBVIOUS
  <2>2. \E f : Is(f, 0)
    BY <2>1
  <2> HIDE DEF Is
  <2>3. QED BY <2>2
<1>2. ASSUME NEW k \in 1 .. n, k - 1 \in T PROVE k \in T
  <2>1. PICK f : Is(f, k - 1)
    BY <1>2
  <2> DEFINE i == (n - k) + 1
             g == [j \in 1 .. n |-> IF j = i THEN Val(f, i) ELSE f[j]]
  <2>2. i \in 1 .. n
    OBVIOUS
  <2>3. Val(f, i) \in V
    <3>1. CASE i \in Stop
      BY <2>2, <3>1
    <3>2. CASE i \notin Stop
      <4>1. next[i] \in 1 .. n
        BY <2>2, <3>2
      <4>2. f[next[i]] \in V
        BY <2>1, <4>1
      <4>3. QED BY <2>2, <3>2, <4>2
    <3>3. QED BY <3>1, <3>2
  <2>4. g \in [1 .. n -> V]
    <3> HIDE DEF Val
    <3>1. QED BY <2>1, <2>3
  <2>5. ASSUME NEW j \in i .. n PROVE g[j] = Val(g, j)
    <3>1. j \in 1 .. n /\ (j # i => j \in (n - (k - 1)) + 1 .. n)
      BY <2>2
    <3>2. j \notin Stop => next[j] \in 1 .. n /\ next[j] # i
      BY <2>2, <3>1
    <3>3. Val(g, j) = Val(f, j)
      BY <3>2
    <3>4. g[j] = Val(f, j)
      <4> HIDE DEF Val
      <4>1. QED BY <2>1, <3>1
    <3>5. QED BY <3>3, <3>4
  <2>6. Is(g, k)
    BY <2>4, <2>5
  <2> HIDE DEF Is, g
  <2>7. QED BY <2>6
<1>3. n \in T
  <2> HIDE DEF T
  <2>1. 0 .. n \subseteq T
    BY <1>1, <1>2, PlaceInduction
  <2>2. QED BY <2>1
<1>4. PICK f : Is(f, n)
  BY <1>3
<1>5. \A j \in 1 .. n : j \in (n - n) + 1 .. n
  OBVIOUS
<1>6. QED BY <1>4, <1>5

(* Two lists of rising numbers with the same elements are the same.        *)
Rising(p) == \A j, k \in DOMAIN p : j < k => p[j] < p[k]

(* Of two such lists the one begins with the other.                        *)
LEMMA RisingAgree ==
    ASSUME NEW p \in Seq(Nat), NEW q \in Seq(Nat), Rising(p), Rising(q), Elems(p) = Elems(q)
    PROVE  \A j \in DOMAIN p : j \in DOMAIN q /\ p[j] = q[j]
<1> DEFINE U == {j \in DOMAIN p : ~(j \in DOMAIN q /\ p[j] = q[j])}
<1> SUFFICES ASSUME U # {} PROVE FALSE
  OBVIOUS
<1>1. /\ DOMAIN p = 1 .. Len(p) /\ DOMAIN q = 1 .. Len(q) /\ Len(p) \in Nat /\ Len(q) \in Nat
      /\ U \in SUBSET Nat
  OBVIOUS
<1>2. PICK m \in U : \A j \in U : m <= j
  <2> HIDE DEF U
  <2>1. QED BY <1>1, LeastNumber
<1>3. m \in DOMAIN p /\ m \in Nat \ {0}
  BY <1>1, <1>2
<1>4. \A j \in 1 .. m - 1 : j \in DOMAIN p /\ j \in DOMAIN q /\ p[j] = q[j]
  <2> TAKE j \in 1 .. m - 1
  <2>1. j \in DOMAIN p /\ ~(m <= j)
    BY <1>1, <1>3
  <2>2. QED BY <1>2, <2>1
<1>5. PICK k \in DOMAIN q : q[k] = p[m]
  <2>1. p[m] \in Elems(q)
    BY <1>3 DEF Elems
  <2>2. QED BY <2>1 DEF Elems
<1>6. k >= m
  <2> SUFFICES ASSUME k \in 1 .. m - 1 PROVE FALSE
    BY <1>1, <1>3, <1>5
  <2>1. k \in DOMAIN p /\ p[k] = p[m] /\ k < m
    BY <1>3, <1>4, <1>5
  <2>2. p[k] < p[m] /\ p[m] \in Nat
    BY <1>3, <2>1 DEF Rising
  <2>3. QED BY <2>1, <2>2
<1>7. m \in DOMAIN q
  BY <1>1, <1>3, <1>5, <1>6
<1>8. k # m
  BY <1>2, <1>5, <1>7
<1>9. q[m] < p[m] /\ q[m] \in Nat
  BY <1>1, <1>3, <1>5, <1>6, <1>7, <1>8 DEF Rising
<1>10. PICK l \in DOMAIN p : p[l] = q[m]
  <2>1. q[m] \in Elems(p)
    BY <1>7 DEF Elems
  <2>2. QED BY <2>1 DEF Elems
<1>11. l < m
  <2> SUFFICES ASSUME m <= l PROVE FALSE
    BY <1>1, <1>3, <1>10
  <2>1. p[m] <= p[l] /\ p[l] \in Nat /\ p[m] \in Nat
    <3>1. p[l] \in Nat /\ p[m] \in Nat
      BY <1>3, <1>10, SMTT(30)
    <3>2. CASE m = l
      BY <3>1, <3>2
    <3>3. CASE m < l
      BY <1>3, <1>10, <3>1, <3>3 DEF Rising
    <3>4. QED BY <1>1, <1>3, <1>10, <3>2, <3>3
  <2>2. QED BY <1>9, <1>10, <2>1
<1>12. l \in DOMAIN q /\ q[l] = q[m]
  BY <1>1, <1>3, <1>4, <1>10, <1>11, SMTT(30)
<1>13. q[l] < q[m]
  BY <1>7, <1>11, <1>12 DEF Rising
<1>14. QED BY <1>9, <1>12, <1>13

(* So they are equal.                                                      *)
LEMMA RisingUnique ==
    ASSUME NEW p \in Seq(Nat), NEW q \in Seq(Nat), Rising(p), Rising(q), Elems(p) = Elems(q)
    PROVE  Len(p) = Len(q) /\ \A j \in 1 .. Len(p) : p[j] = q[j]
<1>1. \A j \in DOMAIN p : j \in DOMAIN q /\ p[j] = q[j]
  BY RisingAgree
<1>2. \A j \in DOMAIN q : j \in DOMAIN p /\ q[j] = p[j]
  BY RisingAgree
<1>3. DOMAIN p = 1 .. Len(p) /\ DOMAIN q = DOMAIN p /\ Len(p) \in Nat
  BY <1>1, <1>2
<1>4. Len(q) = Len(p)
  BY <1>3, LenOfDomain
<1>5. QED BY <1>1, <1>3, <1>4

(* t is s without the places outside K.                                    *)
Picks(t, s, K) ==
    \E p \in Seq(Nat) : /\ Rising(p) /\ Elems(p) = K /\ Len(t) = Len(p)
                        /\ \A j \in 1 .. Len(p) : t[j] = s[p[j]]

(* The places that are kept determine what is left.                        *)
LEMMA PicksUnique ==
    ASSUME NEW S, NEW s \in Seq(S), NEW K, NEW t \in Seq(S), NEW u \in Seq(S),
           Picks(t, s, K), Picks(u, s, K)
    PROVE  t = u
<1>1. PICK p \in Seq(Nat) : /\ Rising(p) /\ Elems(p) = K /\ Len(t) = Len(p)
                            /\ \A j \in 1 .. Len(p) : t[j] = s[p[j]]
  BY DEF Picks
<1>2. PICK q \in Seq(Nat) : /\ Rising(q) /\ Elems(q) = K /\ Len(u) = Len(q)
                            /\ \A j \in 1 .. Len(q) : u[j] = s[q[j]]
  BY DEF Picks
<1>3. Len(p) = Len(q) /\ \A j \in 1 .. Len(p) : p[j] = q[j]
  BY <1>1, <1>2, RisingUnique, SMTT(30)
<1>4. Len(t) = Len(u) /\ \A j \in 1 .. Len(t) : t[j] = u[j]
  BY <1>1, <1>2, <1>3
<1>5. t = [j \in 1 .. Len(t) |-> t[j]] /\ u = [j \in 1 .. Len(u) |-> u[j]]
  OBVIOUS
<1>6. [j \in 1 .. Len(t) |-> t[j]] = [j \in 1 .. Len(u) |-> u[j]]
  BY <1>4
<1>7. QED BY <1>5, <1>6

(* Kept leaves what its places say.                                        *)
LEMMA KeptPicks ==
    ASSUME NEW S, NEW s \in Seq(S), NEW K \in SUBSET (1 .. Len(s))
    PROVE  Kept(s, K) \in Seq(S) /\ Picks(Kept(s, K), s, K)
<1> DEFINE p == Places(Len(s), K)
<1>1. /\ p \in Seq(1 .. Len(s)) /\ Elems(p) = K
      /\ \A j, k \in 1 .. Len(p) : j < k => p[j] < p[k]
      /\ Kept(s, K) \in Seq(S) /\ Len(Kept(s, K)) = Len(p)
      /\ \A j \in 1 .. Len(p) : Kept(s, K)[j] = s[p[j]]
  BY KeptPlaces
<1> HIDE DEF p
<1>2. p \in Seq(Nat) /\ Rising(p)
  BY <1>1 DEF Rising
<1>3. QED BY <1>1, <1>2 DEF Picks

(* Another place in front.                                                 *)
LEMMA PicksPush ==
    ASSUME NEW S, NEW s \in Seq(S), NEW K, NEW t \in Seq(S), Picks(t, s, K),
           NEW i \in 1 .. Len(s), \A j \in K : i < j
    PROVE  Picks(<<s[i]>> \o t, s, K \cup {i})
<1>1. PICK p \in Seq(Nat) : /\ Rising(p) /\ Elems(p) = K /\ Len(t) = Len(p)
                            /\ \A j \in 1 .. Len(p) : t[j] = s[p[j]]
  BY DEF Picks
<1> DEFINE q == Push(p, i)
           u == Push(t, s[i])
<1>2. i \in Nat /\ s[i] \in S
  OBVIOUS
<1>3. /\ q \in Seq(Nat) /\ Len(q) = Len(p) + 1 /\ DOMAIN q = 1 .. Len(p) + 1 /\ q[1] = i
      /\ \A j \in 2 .. Len(p) + 1 : q[j] = p[j - 1]
      /\ Elems(q) = K \cup {i}
  <2>1. /\ q \in Seq(Nat) /\ Len(q) = Len(p) + 1 /\ DOMAIN q = 1 .. Len(p) + 1 /\ q[1] = i
        /\ \A j \in 2 .. Len(p) + 1 : q[j] = p[j - 1]
    <3>1. q \in Seq(Nat) /\ Len(q) = Len(p) + 1 /\ DOMAIN q = 1 .. Len(p) + 1
      BY <1>2, PushPlaces
    <3>2. q[1] = i
      BY <1>2, PushPlaces
    <3>3. \A j \in 2 .. Len(p) + 1 : q[j] = p[j - 1]
      BY DEF Push
    <3>4. QED BY <3>1, <3>2, <3>3
  <2>2. Elems(q) = Elems(p) \cup {i}
    BY <1>2, PushElems
  <2>3. QED BY <1>1, <2>1, <2>2
<1>4. /\ Len(u) = Len(p) + 1 /\ u[1] = s[i]
      /\ \A j \in 2 .. Len(p) + 1 : u[j] = t[j - 1]
  <2>1. /\ Len(u) = Len(t) + 1 /\ u[1] = s[i]
        /\ \A j \in 2 .. Len(t) + 1 : u[j] = t[j - 1]
    <3>1. Len(u) = Len(t) + 1 /\ u[1] = s[i]
      BY <1>2 DEF Push
    <3>2. \A j \in 2 .. Len(t) + 1 : u[j] = t[j - 1]
      BY <1>2 DEF Push
    <3>3. QED BY <3>1, <3>2
  <2>2. QED BY <1>1, <2>1
<1>5. <<s[i]>> \o t = u
  BY DEF Push
<1> HIDE DEF q, u
<1>6. Rising(q)
  <2> SUFFICES ASSUME NEW j \in 1 .. Len(p) + 1, NEW k \in 1 .. Len(p) + 1, j < k
               PROVE  q[j] < q[k]
    BY <1>3 DEF Rising
  <2>1. k - 1 \in DOMAIN p /\ q[k] = p[k - 1] /\ Len(p) \in Nat
    BY <1>1, <1>3
  <2>2. CASE j = 1
    <3>1. p[k - 1] \in K
      BY <1>1, <2>1 DEF Elems
    <3>2. QED BY <1>3, <2>1, <2>2, <3>1
  <2>3. CASE j # 1
    <3>1. j - 1 \in DOMAIN p /\ q[j] = p[j - 1] /\ j - 1 < k - 1
      BY <1>1, <1>3, <2>3
    <3>2. QED BY <1>1, <2>1, <3>1 DEF Rising
  <2>4. QED BY <2>2, <2>3
<1>7. ASSUME NEW j \in 1 .. Len(p) + 1 PROVE u[j] = s[q[j]]
  <2>1. CASE j = 1
    BY <1>3, <1>4, <2>1
  <2>2. CASE j # 1
    <3>1. j \in 2 .. Len(p) + 1 /\ j - 1 \in 1 .. Len(p)
      BY <1>1, <2>2
    <3>2. u[j] = t[j - 1] /\ q[j] = p[j - 1]
      BY <1>3, <1>4, <3>1
    <3>3. QED BY <1>1, <3>1, <3>2
  <2>3. QED BY <2>1, <2>2
<1>8. QED BY <1>3, <1>4, <1>5, <1>6, <1>7 DEF Picks
=============================================================================
