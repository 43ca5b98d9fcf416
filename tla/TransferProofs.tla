--------------------------- MODULE TransferProofs ---------------------------
(***************************************************************************)
(* Proofs about the bytes of a response, for every size of buffer, header, *)
(* socket and output and for any ranges.                                   *)
(*                                                                         *)
(* None of the four invariants is inductive: that bytes are sent in order  *)
(* depends on what lies in the buffer, that the last one is sent on how    *)
(* much of the file or of the output is left.  The invariant TInv numbers  *)
(* all of them: what was sent, what the buffer holds behind it and what    *)
(* the pipe left between header_line and header_end are one run of numbers *)
(* that ends at next, and next and what is left add up to the response.    *)
(* Where a handler that writes past the buffer finds bytes in it, the run  *)
(* is broken; of a single range then Whole is left: every number up to     *)
(* next was sent or lies in the buffer.                                    *)
(* Each lemma ...Keeps shows this of one function of the code; the ones    *)
(* named ...TInv put them together to the steps of a request.              *)
(***************************************************************************)
EXTENDS Transfer, ListsProofs, SequenceTheorems

(* The sums of the first places of s; Total(s) is the last of them.        *)
Sums(s) == LET sum[i \in 0 .. Len(s)] == IF i = 0 THEN 0 ELSE sum[i - 1] + s[i]
           IN  sum

(* f is the function that adds up s. *)
AddsUp(f, s) == /\ f \in [0 .. Len(s) -> Nat] /\ f[0] = 0
                /\ \A i \in 1 .. Len(s) : f[i] = f[i - 1] + s[i]

(* There is such a function. *)
LEMMA SumsExist ==
    ASSUME NEW s \in Seq(Nat)
    PROVE  \E f : AddsUp(f, s)
<1> DEFINE Adds(f, n) == /\ f \in [0 .. n -> Nat] /\ f[0] = 0
                         /\ \A i \in 1 .. n : f[i] = f[i - 1] + s[i]
           T == {n \in 0 .. Len(s) : \E f : Adds(f, n)}
<1>1. Len(s) \in Nat /\ \A i \in 1 .. Len(s) : s[i] \in Nat
  OBVIOUS
<1>2. 0 \in T
  <2> DEFINE f == [i \in 0 .. 0 |-> 0]
  <2>1. Adds(f, 0)
    OBVIOUS
  <2>2. \E h : Adds(h, 0)
    BY <2>1
  <2> HIDE DEF Adds
  <2>3. QED BY <1>1, <2>2
<1>3. ASSUME NEW n \in 1 .. Len(s), n - 1 \in T PROVE n \in T
  <2>1. PICK f : Adds(f, n - 1)
    BY <1>3
  <2> DEFINE g == [i \in 0 .. n |-> IF i = n THEN f[n - 1] + s[n] ELSE f[i]]
  <2>2. g \in [0 .. n -> Nat] /\ g[0] = 0
    BY <1>1, <2>1
  <2>3. ASSUME NEW i \in 1 .. n PROVE g[i] = g[i - 1] + s[i]
    BY <1>1, <2>1, <2>3
  <2>4. Adds(g, n)
    BY <2>2, <2>3
  <2> HIDE DEF Adds, g
  <2>5. QED BY <1>1, <2>4
<1>4. Len(s) \in T
  <2> HIDE DEF T
  <2>1. 0 .. Len(s) \subseteq T
    BY <1>1, <1>2, <1>3, PlaceInduction
  <2>2. QED BY <1>1, <2>1
<1>5. QED BY <1>4 DEF AddsUp

(* Sums is that function. *)
LEMMA SumsAddUp ==
    ASSUME NEW s \in Seq(Nat)
    PROVE  AddsUp(Sums(s), s)
<1> DEFINE Def(g) == [i \in 0 .. Len(s) |-> IF i = 0 THEN 0 ELSE g[i - 1] + s[i]]
           w == Sums(s)
<1>1. Len(s) \in Nat /\ \A i \in 1 .. Len(s) : s[i] \in Nat
  OBVIOUS
<1>2. PICK f : AddsUp(f, s)
  BY SumsExist
<1>3. w = CHOOSE g : g = Def(g)
  BY DEF Sums
<1> HIDE DEF w
<1>4. f = Def(f)
  <2>1. \A i \in 0 .. Len(s) : f[i] = Def(f)[i]
    <3> TAKE i \in 0 .. Len(s)
    <3>1. CASE i = 0
      BY <1>1, <1>2, <3>1 DEF AddsUp
    <3>2. CASE i # 0
      <4>1. i \in 1 .. Len(s)
        BY <1>1, <3>2
      <4>2. QED BY <1>2, <3>2, <4>1 DEF AddsUp
    <3>3. QED BY <3>1, <3>2
  <2>2. QED BY <1>2, <2>1 DEF AddsUp
<1>5. w = Def(w)
  BY <1>3, <1>4
<1>6. w[0] = 0 /\ \A i \in 1 .. Len(s) : w[i] = w[i - 1] + s[i]
  <2>1. \A i \in 0 .. Len(s) : w[i] = IF i = 0 THEN 0 ELSE w[i - 1] + s[i]
    BY <1>5
  <2>2. QED BY <1>1, <2>1
<1>7. w \in [0 .. Len(s) -> Nat]
  <2> DEFINE V == {i \in 0 .. Len(s) : w[i] \in Nat}
  <2>1. 0 \in V
    BY <1>1, <1>6
  <2>2. \A i \in 1 .. Len(s) : i - 1 \in V => i \in V
    BY <1>1, <1>6, SMTT(30)
  <2>3. 0 .. Len(s) \subseteq V
    <3> HIDE DEF V
    <3>1. QED BY <1>1, <2>1, <2>2, PlaceInduction
  <2>4. QED BY <1>5, <2>3
<1>8. QED BY <1>6, <1>7 DEF w, AddsUp

(* The total is what any function that adds up s gives for its last place. *)
LEMMA TotalIs ==
    ASSUME NEW s \in Seq(Nat), NEW f, AddsUp(f, s)
    PROVE  Total(s) = f[Len(s)] /\ Total(s) \in Nat
<1> DEFINE w == Sums(s)
           V == {i \in 0 .. Len(s) : w[i] = f[i]}
<1>1. AddsUp(w, s) /\ Len(s) \in Nat
  BY SumsAddUp
<1>2. Total(s) = w[Len(s)]
  BY DEF Total, Sums
<1> HIDE DEF w
<1>3. 0 \in V
  BY <1>1 DEF AddsUp
<1>4. \A i \in 1 .. Len(s) : i - 1 \in V => i \in V
  BY <1>1 DEF AddsUp
<1>5. 0 .. Len(s) \subseteq V
  <2> HIDE DEF V
  <2>1. QED BY <1>1, <1>3, <1>4, PlaceInduction
<1>6. QED BY <1>1, <1>2, <1>5 DEF AddsUp

(* The total of what is left: of nothing, without the first range, and     *)
(* when the first range gets shorter.                                      *)
LEMMA Totals ==
    ASSUME NEW s \in Seq(Nat)
    PROVE  /\ Total(s) \in Nat
           /\ s = <<>> => Total(s) = 0
           /\ s # <<>> => /\ Tail(s) \in Seq(Nat) /\ Len(Tail(s)) = Len(s) - 1
                          /\ Total(s) = s[1] + Total(Tail(s))
<1>1. AddsUp(Sums(s), s)
  BY SumsAddUp
<1>2. Total(s) = Sums(s)[Len(s)] /\ Total(s) \in Nat
  BY <1>1, TotalIs
<1>3. s = <<>> => Total(s) = 0
  BY <1>1, <1>2 DEF AddsUp
<1>4. ASSUME s # <<>>
      PROVE  /\ Tail(s) \in Seq(Nat) /\ Len(Tail(s)) = Len(s) - 1
             /\ Total(s) = s[1] + Total(Tail(s))
  <2>1. /\ Tail(s) \in Seq(Nat) /\ Len(Tail(s)) = Len(s) - 1 /\ Len(s) \in Nat /\ Len(s) > 0
        /\ \A i \in 1 .. Len(s) - 1 : Tail(s)[i] = s[i + 1]
        /\ \A i \in 1 .. Len(s) : s[i] \in Nat
    BY <1>4
  <2> DEFINE t == Tail(s)
             n == Len(s) - 1
             w == Sums(s)
             f == [i \in 0 .. n |-> w[i + 1] - s[1]]
  <2>2. w[0] = 0 /\ w \in [0 .. n + 1 -> Nat] /\ \A i \in 1 .. n + 1 : w[i] = w[i - 1] + s[i]
    BY <1>1, <2>1 DEF AddsUp
  <2>3. n \in Nat /\ t \in Seq(Nat) /\ Len(t) = n /\ s[1] \in Nat
        /\ \A i \in 1 .. n : t[i] = s[i + 1] /\ s[i + 1] \in Nat
    BY <2>1
  <2>4. w[1] = s[1]
    BY <2>2, <2>3
  <2> HIDE DEF w, n, t
  <2>5. \A i \in 0 .. n : w[i + 1] - s[1] \in Nat
    <3> DEFINE V == {i \in 0 .. n : w[i + 1] - s[1] \in Nat}
    <3>1. 0 \in V
      BY <2>3, <2>4
    <3>2. \A i \in 1 .. n : i - 1 \in V => i \in V
      <4> SUFFICES ASSUME NEW i \in 1 .. n, i - 1 \in V PROVE i \in V
        OBVIOUS
      <4>1. w[i + 1] = w[i] + s[i + 1] /\ w[i] \in Nat /\ i \in 0 .. n
        BY <2>2, <2>3
      <4>2. w[i] - s[1] \in Nat /\ s[i + 1] \in Nat /\ s[1] \in Nat
        BY <2>3
      <4>3. w[i + 1] - s[1] \in Nat
        BY ONLY <4>1, <4>2
      <4>4. QED BY <4>1, <4>3
    <3>3. 0 .. n \subseteq V
      <4> HIDE DEF V
      <4>1. QED BY <2>3, <3>1, <3>2, PlaceInduction
    <3>4. QED BY <3>3
  <2>6. f \in [0 .. n -> Nat] /\ f[0] = 0
    BY <2>3, <2>4, <2>5
  <2>7. ASSUME NEW i \in 1 .. n PROVE f[i] = f[i - 1] + t[i]
    <3>1. w[i + 1] = w[i] + s[i + 1] /\ w[i] \in Nat /\ i \in 0 .. n /\ i - 1 \in 0 .. n
      BY <2>2, <2>3
    <3>2. f[i] = w[i + 1] - s[1] /\ f[i - 1] = w[i] - s[1]
      BY <2>3, <3>1
    <3>3. t[i] = s[i + 1] /\ s[i + 1] \in Nat /\ s[1] \in Nat
      BY <2>3
    <3>4. QED BY ONLY <3>1, <3>2, <3>3
  <2>8. AddsUp(f, t)
    BY <2>3, <2>6, <2>7 DEF AddsUp
  <2>9. f[n] = w[n + 1] - s[1] /\ w[n + 1] \in Nat
    BY <2>2, <2>3
  <2> HIDE DEF f
  <2>10. Total(t) = w[n + 1] - s[1]
    BY <2>3, <2>8, <2>9, TotalIs
  <2>11. Total(s) = w[n + 1]
    BY <1>2, <2>1 DEF w, n
  <2>12. QED BY <2>1, <2>3, <2>9, <2>10, <2>11 DEF t
<1>5. QED BY <1>2, <1>3, <1>4

(* The total when the first range gets shorter.                            *)
LEMMA TotalExcept ==
    ASSUME NEW s \in Seq(Nat), s # <<>>, NEW v \in Nat
    PROVE  LET r == [s EXCEPT ![1] = v]
           IN  /\ r \in Seq(Nat) /\ r # <<>> /\ Len(r) = Len(s) /\ r[1] = v
               /\ Total(r) = Total(s) - s[1] + v
               /\ Total(s) \in Nat /\ s[1] \in Nat
<1> DEFINE r == [s EXCEPT ![1] = v]
<1>1. /\ Len(s) \in Nat \ {0} /\ s[1] \in Nat
      /\ r \in Seq(Nat) /\ r # <<>> /\ Len(r) = Len(s) /\ r[1] = v
      /\ \A i \in 2 .. Len(s) : r[i] = s[i]
  OBVIOUS
<1> HIDE DEF r
<1>2. Tail(r) = Tail(s)
  <2>1. /\ Tail(r) \in Seq(Nat) /\ Tail(s) \in Seq(Nat) /\ Len(Tail(r)) = Len(Tail(s))
        /\ Len(Tail(s)) = Len(s) - 1
        /\ \A i \in 1 .. Len(s) - 1 : Tail(r)[i] = r[i + 1] /\ Tail(s)[i] = s[i + 1]
    BY <1>1
  <2>2. \A i \in 1 .. Len(s) - 1 : Tail(r)[i] = Tail(s)[i]
    BY <1>1, <2>1
  <2>3. QED BY <2>1, <2>2, SeqEqual
<1>3. /\ Total(s) = s[1] + Total(Tail(s)) /\ Total(r) = v + Total(Tail(s))
      /\ Total(s) \in Nat /\ Total(Tail(s)) \in Nat
  <2>1. Tail(s) \in Seq(Nat)
    OBVIOUS
  <2>2. QED BY <1>1, <1>2, <2>1, Totals
<1>4. Total(r) = Total(s) - s[1] + v
  BY ONLY <1>1, <1>3
<1>5. QED BY <1>1, <1>3, <1>4 DEF r
-----------------------------------------------------------------------------
(* The numbers after v, in order. *)
Numbers(s, v) == \A i \in 1 .. Len(s) : s[i] = v + i
Run(buf, lo, hi, v) == \A i \in lo .. hi - 1 : buf[i] = v + (i - lo) + 1

(* What the buffer and the CGI's part of it hold, and its middle.          *)
Unsent(x) == x.end - x.start
Held(x) == x.hend - x.line
Middle == BufferSize \div 2

(* The sizes as the leaves use them. *)
LEMMA Sizes ==
    /\ BufferSize \in Nat \ {0} /\ HeaderLen \in Nat \ {0} /\ Reserve \in Nat \ {0}
    /\ PartLen \in Nat \ {0} /\ Room \in Nat \ {0} /\ OutputLen \in Nat \ {0}
    /\ PartLen <= Reserve /\ HeaderLen + Reserve < BufferSize
    /\ Middle \in Nat /\ HeaderLen < Middle /\ Middle + Middle <= BufferSize
    /\ Half \in Nat /\ Half = BufferSize + 1 - Middle
    /\ \A h \in CgiHeaders : h \in Nat /\ 1 <= h /\ h <= OutputLen
<1>1. /\ BufferSize \in Nat \ {0} /\ HeaderLen \in Nat \ {0} /\ Reserve \in Nat \ {0}
      /\ PartLen \in Nat \ {0} /\ Room \in Nat \ {0} /\ OutputLen \in Nat \ {0}
  BY TransferAssumption
<1>2. Middle \in Nat /\ Middle + Middle <= BufferSize
  BY <1>1 DEF Middle
<1>3. Half \in Nat /\ Half = BufferSize + 1 - Middle
  BY <1>1, <1>2 DEF Half, Middle
<1>4. QED BY <1>1, <1>2, <1>3, TransferAssumption DEF Middle

(* What write(2) takes of s: the numbers of x.sent go on. *)
Took(x, y, s, k) ==
    /\ y.sent \in Seq(Nat) /\ Len(y.sent) = Len(x.sent) + k
    /\ \A i \in 1 .. Len(x.sent) : y.sent[i] = x.sent[i]
    /\ \A i \in 1 .. k : y.sent[Len(x.sent) + i] = s[i]

(* What a write leaves alone. *)
SameStore(x, y) ==
    /\ y.status = x.status /\ y.buf = x.buf
    /\ y.line = x.line /\ y.hend = x.hend /\ y.cgi = x.cgi /\ y.head = x.head
    /\ y.ranges = x.ranges /\ y.file = x.file /\ y.open = x.open
    /\ y.next = x.next /\ y.pipe = x.pipe /\ y.output = x.output

(* write(2) of s: as much as there is room for is sent. *)
LEMMA SendTakes ==
    ASSUME NEW x \in Request, NEW s \in Seq(Nat)
    PROVE  LET k == Taken(x, s)
               y == Send(x, s)
           IN  /\ k \in Nat /\ k <= Len(s) /\ k <= x.room /\ (k = Len(s) \/ k = x.room)
               /\ y \in Request /\ y.room = x.room - k
               /\ Took(x, y, s, k) /\ SameStore(x, y) /\ y.start = x.start /\ y.end = x.end
<1> DEFINE k == Taken(x, s)
           t == SubSeq(s, 1, k)
           y == Send(x, s)
<1>1. x.room \in 0 .. Room /\ x.sent \in Seq(Nat) /\ Room \in Nat /\ Len(s) \in Nat /\ Len(x.sent) \in Nat
  BY Sizes DEF Request
<1>2. k \in Nat /\ k <= Len(s) /\ k <= x.room /\ (k = Len(s) \/ k = x.room)
  BY <1>1 DEF Taken, Least
<1>3. y = [x EXCEPT !.room = @ - k, !.sent = @ \o t]
  BY DEF Send
<1> HIDE DEF k, y
<1>4. t \in Seq(Nat) /\ Len(t) = k /\ \A i \in 1 .. k : t[i] = s[i]
  <2>1. \A i \in 1 .. k : s[i] \in Nat
    BY <1>1, <1>2
  <2>2. QED BY <1>2, <2>1, SubSeqProperties
<1> HIDE DEF t
<1>5. /\ x.sent \o t \in Seq(Nat) /\ Len(x.sent \o t) = Len(x.sent) + k
      /\ \A i \in 1 .. Len(x.sent) : (x.sent \o t)[i] = x.sent[i]
      /\ \A i \in 1 .. k : (x.sent \o t)[Len(x.sent) + i] = s[i]
  <2>1. /\ x.sent \o t \in Seq(Nat) /\ Len(x.sent \o t) = Len(x.sent) + k
        /\ \A i \in 1 .. Len(x.sent) + k : (x.sent \o t)[i] =
              IF i <= Len(x.sent) THEN x.sent[i] ELSE t[i - Len(x.sent)]
    BY <1>1, <1>4, ConcatProperties, ZenonT(60)
  <2>2. ASSUME NEW i \in 1 .. k PROVE (x.sent \o t)[Len(x.sent) + i] = s[i]
    <3>1. Len(x.sent) + i \in 1 .. Len(x.sent) + k /\ Len(x.sent) + i - Len(x.sent) = i
          /\ ~(Len(x.sent) + i <= Len(x.sent))
      BY <1>1, <1>2
    <3>2. QED BY <1>4, <2>1, <3>1
  <2>3. QED BY <1>1, <1>2, <2>1, <2>2
<1>6. /\ y.sent = x.sent \o t /\ y.room = x.room - k
      /\ SameStore(x, y) /\ y.start = x.start /\ y.end = x.end
  BY <1>3 DEF Request, SameStore
<1>7. x.room - k \in 0 .. Room
  BY <1>1, <1>2
<1>8. y \in Request
  BY <1>3, <1>5, <1>7 DEF Request
<1>9. QED BY <1>2, <1>5, <1>6, <1>8 DEF k, y, Took

(* The bytes of the store between two places. *)
LEMMA CutIs ==
    ASSUME NEW buf \in [Slots -> Nat], NEW lo \in Nat, NEW hi \in Nat, lo <= hi, hi <= BufferSize + 1
    PROVE  /\ Cut(buf, lo, hi) \in Seq(Nat) /\ Len(Cut(buf, lo, hi)) = hi - lo
           /\ Cut(buf, lo, hi) = <<>> <=> lo = hi
           /\ \A i \in 1 .. hi - lo : Cut(buf, lo, hi)[i] = buf[lo + i - 1]
<1> DEFINE s == Cut(buf, lo, hi)
<1>1. \A i \in 1 .. hi - lo : lo + i - 1 \in Slots /\ buf[lo + i - 1] \in Nat
  BY Sizes DEF Slots
<1>2. s = [i \in 1 .. hi - lo |-> buf[lo + i - 1]] /\ hi - lo \in Nat
  BY DEF Cut
<1> HIDE DEF s
<1>3. s \in Seq(Nat) /\ Len(s) = hi - lo /\ \A i \in 1 .. hi - lo : s[i] = buf[lo + i - 1]
  <2> DEFINE n == hi - lo
  <2>1. n \in Nat /\ s \in [1 .. n -> Nat] /\ \A i \in 1 .. n : s[i] = buf[lo + i - 1]
    BY <1>1, <1>2
  <2> HIDE DEF n
  <2>2. s \in Seq(Nat) /\ Len(s) = n
    BY <2>1
  <2>3. QED BY <2>1, <2>2 DEF n
<1>4. s = <<>> <=> lo = hi
  BY <1>3
<1>5. QED BY <1>3, <1>4 DEF s

(* The bytes of a run are the numbers after v. *)
LEMMA CutRun ==
    ASSUME NEW buf \in [Slots -> Nat], NEW lo \in Nat, NEW hi \in Nat, lo <= hi, hi <= BufferSize + 1,
           NEW v \in Nat, Run(buf, lo, hi, v)
    PROVE  Numbers(Cut(buf, lo, hi), v)
<1> DEFINE s == Cut(buf, lo, hi)
<1>1. Len(s) = hi - lo /\ \A i \in 1 .. hi - lo : s[i] = buf[lo + i - 1]
  BY CutIs, ZenonT(60)
<1> HIDE DEF s
<1>2. SUFFICES ASSUME NEW i \in 1 .. hi - lo PROVE s[i] = v + i
  BY <1>1 DEF Numbers, s
<1>3. lo + i - 1 \in lo .. hi - 1 /\ v + (lo + i - 1 - lo) + 1 = v + i
  OBVIOUS
<1>4. buf[lo + i - 1] = v + (lo + i - 1 - lo) + 1
  BY <1>3 DEF Run
<1>5. QED BY <1>1, <1>3, <1>4

(* A write of the numbers that follow keeps the order. *)
LEMMA Continues ==
    ASSUME NEW x, NEW y, NEW s, NEW k \in Nat, NEW b \in Nat, x.sent \in Seq(Nat),
           Numbers(x.sent, b), s \in Seq(Nat), k <= Len(s), Numbers(s, b + Len(x.sent)), Took(x, y, s, k)
    PROVE  Numbers(y.sent, b)
<1> DEFINE n == Len(x.sent)
<1>1. n \in Nat /\ Len(y.sent) = n + k /\ Len(s) \in Nat
  BY DEF Took
<1> SUFFICES ASSUME NEW i \in 1 .. n + k PROVE y.sent[i] = b + i
  BY <1>1 DEF Numbers
<1>2. CASE i <= n
  <2>1. i \in 1 .. n
    BY <1>1, <1>2
  <2>2. QED BY <2>1 DEF Took, Numbers
<1>3. CASE i > n
  <2> DEFINE j == i - n
  <2>1. j \in 1 .. k /\ j \in 1 .. Len(s) /\ n + j = i
    BY <1>1, <1>3, SMTT(30)
  <2> HIDE DEF j
  <2>2. y.sent[n + j] = s[j] /\ s[j] = b + n + j
    BY <2>1 DEF Took, Numbers
  <2>3. b + n + j = b + i
    BY ONLY <1>1, <2>1, b \in Nat
  <2>4. QED BY <2>1, <2>2, <2>3
<1>4. QED BY <1>1, <1>2, <1>3

(* A run without its first k places. *)
LEMMA RunFrom ==
    ASSUME NEW buf, NEW lo \in Nat, NEW hi \in Nat, NEW v \in Nat, NEW k \in Nat,
           NEW l \in Nat, l = lo + k, Run(buf, lo, hi, v)
    PROVE  Run(buf, l, hi, v + k)
<1> SUFFICES ASSUME NEW i \in l .. hi - 1 PROVE buf[i] = (v + k) + (i - l) + 1
  BY DEF Run
<1>1. i \in lo .. hi - 1 /\ v + (i - lo) + 1 = (v + k) + (i - l) + 1
  OBVIOUS
<1>2. buf[i] = v + (i - lo) + 1
  BY <1>1 DEF Run
<1>3. QED BY <1>1, <1>2

(* The places in the buffer are in their order. *)
Bounded(x) == /\ x.end <= BufferSize /\ (x.status # "DEAD" => x.start <= x.end)
              /\ x.line <= x.hend /\ x.hend <= BufferSize + 1

(* The fields of a request. *)
LEMMA FieldTypes ==
    ASSUME NEW x \in Request
    PROVE  /\ x.buf \in [Slots -> Nat] /\ x.start \in Nat /\ x.end \in Nat /\ x.line \in Nat
           /\ x.hend \in Nat /\ x.head \in Nat /\ x.ranges \in Seq(Nat) /\ x.file \in Nat
           /\ x.open \in BOOLEAN /\ x.next \in Nat /\ x.sent \in Seq(Nat) /\ Len(x.sent) \in Nat
           /\ x.room \in Nat /\ x.pipe \in Nat /\ x.output \in Nat
           /\ x.cgi \in {"PARSE", "BUFFER", "DONE"}
           /\ x.status \in {"WRITE", "IOSHUFFLE", "PIPE_READ", "PIPE_WRITE", "DONE", "DEAD"}
<1>1. x.room \in 0 .. Room /\ Room \in Nat
  BY Sizes DEF Request
<1>2. QED BY <1>1 DEF Request, Closing

(* The bytes in the buffer that wait for the socket. *)
LEMMA UnsentBytes ==
    ASSUME NEW x \in Request, x.status # "DEAD", Bounded(x)
    PROVE  /\ Cut(x.buf, x.start, x.end) \in Seq(Nat) /\ Unsent(x) \in Nat
           /\ Len(Cut(x.buf, x.start, x.end)) = Unsent(x)
           /\ Cut(x.buf, x.start, x.end) = <<>> <=> x.start = x.end
           /\ \A v \in Nat : Run(x.buf, x.start, x.end, v) => Numbers(Cut(x.buf, x.start, x.end), v)
<1>1. PICK buf, lo, hi : /\ buf = x.buf /\ lo = x.start /\ hi = x.end
                         /\ buf \in [Slots -> Nat] /\ lo \in Nat /\ hi \in Nat
                         /\ lo <= hi /\ hi <= BufferSize + 1
  BY FieldTypes, Sizes DEF Bounded
<1>2. buf \in [Slots -> Nat] /\ lo \in Nat /\ hi \in Nat /\ lo <= hi /\ hi <= BufferSize + 1
  BY <1>1
<1>3. Cut(buf, lo, hi) \in Seq(Nat) /\ Len(Cut(buf, lo, hi)) = hi - lo
  BY ONLY <1>2, CutIs
<1>4. Cut(buf, lo, hi) = <<>> <=> lo = hi
  BY ONLY <1>2, CutIs
<1>5. \A v \in Nat : Run(buf, lo, hi, v) => Numbers(Cut(buf, lo, hi), v)
  BY <1>2, CutRun
<1>6. QED BY <1>1, <1>3, <1>4, <1>5 DEF Unsent

(* The bytes of a pipe that are in the buffer. *)
LEMMA HeldBytes ==
    ASSUME NEW x \in Request, Bounded(x)
    PROVE  /\ Cut(x.buf, x.line, x.hend) \in Seq(Nat) /\ Held(x) \in Nat
           /\ Len(Cut(x.buf, x.line, x.hend)) = Held(x)
           /\ Cut(x.buf, x.line, x.hend) = <<>> <=> x.line = x.hend
           /\ \A v \in Nat : Run(x.buf, x.line, x.hend, v) => Numbers(Cut(x.buf, x.line, x.hend), v)
<1>1. PICK buf, lo, hi : /\ buf = x.buf /\ lo = x.line /\ hi = x.hend
                         /\ buf \in [Slots -> Nat] /\ lo \in Nat /\ hi \in Nat
                         /\ lo <= hi /\ hi <= BufferSize + 1
  BY FieldTypes, Sizes DEF Bounded
<1>2. buf \in [Slots -> Nat] /\ lo \in Nat /\ hi \in Nat /\ lo <= hi /\ hi <= BufferSize + 1
  BY <1>1
<1>3. Cut(buf, lo, hi) \in Seq(Nat) /\ Len(Cut(buf, lo, hi)) = hi - lo
  BY ONLY <1>2, CutIs
<1>4. Cut(buf, lo, hi) = <<>> <=> lo = hi
  BY ONLY <1>2, CutIs
<1>5. \A v \in Nat : Run(buf, lo, hi, v) => Numbers(Cut(buf, lo, hi), v)
  BY <1>2, CutRun
<1>6. QED BY <1>1, <1>3, <1>4, <1>5 DEF Held

(* What a flush of the buffer does: k bytes of it are sent. *)
Flushed(x, y, k) ==
    /\ y \in Request /\ SameStore(x, y)
    /\ k \in Nat /\ k <= Unsent(x)
    /\ Took(x, y, Cut(x.buf, x.start, x.end), k)
    /\ \/ y.start = 0 /\ y.end = 0 /\ k = Unsent(x)
       \/ y.start = x.start + k /\ y.end = x.end

(* req_flush: everything is sent, a part, or nothing. *)
LEMMA FlushIs ==
    ASSUME NEW x \in Request, x.status # "DEAD", Bounded(x)
    PROVE  LET o == req_flush(x)
           IN  /\ \E k : Flushed(x, o.q, k)
               /\ \/ o.ret = -1 /\ o.q = x /\ x.start < x.end
                  \/ o.ret = 0 /\ o.q.start = 0 /\ o.q.end = 0
                  \/ o.ret = x.end /\ x.end > 0 /\ o.q.start < o.q.end /\ o.q.end = x.end
<1> DEFINE s == Cut(x.buf, x.start, x.end)
           k == Taken(x, s)
           y == Send(x, s)
           o == req_flush(x)
<1>1. /\ x.buf \in [Slots -> Nat] /\ x.start \in Nat /\ x.end \in Nat /\ x.sent \in Seq(Nat)
      /\ x.start <= x.end /\ x.end <= BufferSize + 1 /\ x.room \in Nat /\ Len(x.sent) \in Nat
  BY FieldTypes, Sizes, SMTT(30) DEF Bounded
<1>2. s \in Seq(Nat) /\ Len(s) = Unsent(x) /\ (s = <<>> <=> x.start = x.end) /\ Unsent(x) \in Nat
  BY UnsentBytes
<1>3. /\ k \in Nat /\ k <= Len(s) /\ k <= x.room /\ (k = Len(s) \/ k = x.room)
      /\ y \in Request /\ Took(x, y, s, k) /\ SameStore(x, y) /\ y.start = x.start /\ y.end = x.end
  BY <1>2, SendTakes
<1>4. o = IF s # <<>> /\ x.room = 0 THEN Out(-1, x)
          ELSE IF k = Len(s) THEN Out(0, [y EXCEPT !.start = 0, !.end = 0])
          ELSE Out(x.end, [y EXCEPT !.start = @ + k])
  BY DEF req_flush, Closing
<1> HIDE DEF s, k, y, o
<1>5. CASE s # <<>> /\ x.room = 0
  <2>1. o.ret = -1 /\ o.q = x /\ x.start < x.end
    BY <1>1, <1>2, <1>4, <1>5 DEF Out
  <2>2. Flushed(x, x, 0)
    BY <1>1, <1>2 DEF Flushed, Took, SameStore
  <2>3. QED BY <2>1, <2>2 DEF o
<1>6. CASE ~(s # <<>> /\ x.room = 0) /\ k = Len(s)
  <2> DEFINE z == [y EXCEPT !.start = 0, !.end = 0]
  <2>1. o.ret = 0 /\ o.q = z
    BY <1>4, <1>6 DEF Out
  <2>2. /\ z \in Request /\ z.start = 0 /\ z.end = 0 /\ z.sent = y.sent /\ SameStore(y, z)
    BY <1>3 DEF Request, SameStore
  <2> HIDE DEF z
  <2>3. Flushed(x, z, k)
    BY <1>2, <1>3, <1>6, <2>2 DEF Flushed, Took, SameStore, s
  <2>4. QED BY <2>1, <2>2, <2>3 DEF o
<1>7. CASE ~(s # <<>> /\ x.room = 0) /\ k # Len(s)
  <2> DEFINE z == [y EXCEPT !.start = @ + k]
  <2>1. o.ret = x.end /\ o.q = z
    BY <1>4, <1>7 DEF Out
  <2>2. x.start + k \in Nat
    BY <1>1, <1>3
  <2>3. /\ z \in Request /\ z.start = x.start + k /\ z.end = x.end /\ z.sent = y.sent /\ SameStore(y, z)
    BY <1>3, <2>2 DEF Request, SameStore
  <2> HIDE DEF z
  <2>4. Flushed(x, z, k)
    BY <1>2, <1>3, <1>7, <2>3 DEF Flushed, Took, SameStore, s
  <2>5. x.end > 0 /\ x.start + k < x.end
    BY <1>1, <1>2, <1>3, <1>7 DEF Unsent
  <2>6. QED BY <2>1, <2>3, <2>4, <2>5 DEF o
<1>8. QED BY <1>5, <1>6, <1>7
(* What is sent or in the buffer. *)
Passed(x) == Len(x.sent) + Unsent(x)

(* The bytes that were sent are in order and the buffer goes on.           *)
Ordered(x, b) == Numbers(x.sent, b) /\ Run(x.buf, x.start, x.end, b + Len(x.sent))

(* A flush passes bytes on and keeps their order. *)
LEMMA FlushedOrder ==
    ASSUME NEW x \in Request, NEW y, NEW k, Bounded(x), x.status # "DEAD", Flushed(x, y, k)
    PROVE  /\ Bounded(y) /\ Passed(y) = Passed(x) /\ y.status = x.status
           /\ y \in Request /\ SameStore(x, y)
           /\ x.start = 0 /\ x.end = 0 => y.start = 0 /\ y.end = 0
           /\ \A b \in Nat : Ordered(x, b) => Ordered(y, b)
<1>1. /\ x \in Request /\ y \in Request /\ Bounded(x) /\ SameStore(x, y)
      /\ x.start \in Nat /\ x.end \in Nat /\ x.start <= x.end
      /\ x.buf \in [Slots -> Nat] /\ x.end <= BufferSize + 1 /\ x.end <= BufferSize
      /\ Len(x.sent) \in Nat /\ x.sent \in Seq(Nat) /\ k \in Nat /\ k <= x.end - x.start
      /\ Len(y.sent) = Len(x.sent) + k /\ BufferSize \in Nat
  BY FieldTypes, Sizes DEF Bounded, Flushed, Unsent, Took
<1>2. \/ y.start = 0 /\ y.end = 0 /\ k = x.end - x.start
      \/ y.start = x.start + k /\ y.end = x.end
  BY DEF Flushed, Unsent
<1>3. y.start \in Nat /\ y.end \in Nat /\ y.start <= y.end /\ y.end <= BufferSize
  <2>1. PICK a \in Nat, e \in Nat : a = x.start /\ e = x.end /\ k <= e - a /\ e <= BufferSize
    BY <1>1
  <2>2. a + k \in Nat /\ a + k <= e /\ 0 <= BufferSize
    BY <1>1, <2>1
  <2>3. (y.start = 0 /\ y.end = 0) \/ (y.start = a + k /\ y.end = e)
    BY <1>2, <2>1
  <2>4. QED BY <2>1, <2>2, <2>3
<1>4. Passed(y) = Passed(x)
  BY ONLY <1>1, <1>2 DEF Passed, Unsent
<1>5. x.start = 0 /\ x.end = 0 => y.start = 0 /\ y.end = 0
  BY ONLY <1>1, <1>2
<1>6. Bounded(y) /\ y.status = x.status
  BY <1>1, <1>3 DEF Bounded, SameStore
<1>7. ASSUME NEW b \in Nat, Ordered(x, b) PROVE Ordered(y, b)
  <2>1. Numbers(x.sent, b) /\ Run(x.buf, x.start, x.end, b + Len(x.sent)) /\ b + Len(x.sent) \in Nat
    BY <1>1, <1>7 DEF Ordered
  <2>2. Numbers(y.sent, b)
    <3> DEFINE s == Cut(x.buf, x.start, x.end)
    <3>1. s \in Seq(Nat) /\ Len(s) = x.end - x.start /\ Numbers(s, b + Len(x.sent))
      BY <1>1, <2>1, UnsentBytes DEF Unsent
    <3>2. Took(x, y, s, k) /\ k <= Len(s)
      BY <1>1, <3>1 DEF Flushed
    <3> HIDE DEF s
    <3>3. QED BY <1>1, <2>1, <3>1, <3>2, Continues
  <2>3. Run(y.buf, y.start, y.end, b + Len(y.sent))
    <3>1. CASE y.start = 0 /\ y.end = 0
      BY <3>1 DEF Run
    <3>2. CASE y.start = x.start + k /\ y.end = x.end
      <4>1. b + Len(y.sent) = b + Len(x.sent) + k
        BY <1>1, <2>1
      <4>2. Run(x.buf, y.start, x.end, b + Len(x.sent) + k)
        BY <1>1, <1>3, <2>1, <3>2, RunFrom
      <4>3. y.buf = x.buf
        BY <1>1 DEF SameStore
      <4>4. QED BY <3>2, <4>1, <4>2, <4>3
    <3>3. QED BY <1>2, <3>1, <3>2
  <2>4. QED BY <2>2, <2>3 DEF Ordered
<1>8. QED BY <1>1, <1>4, <1>5, <1>6, <1>7

-----------------------------------------------------------------------------
PipeStates == {"PIPE_READ", "PIPE_WRITE"}
FileStates == {"WRITE", "IOSHUFFLE"}

(* The states that a response of this kind can be in. *)
Statuses == CASE kind = "mmap" -> {"WRITE", "DONE", "DEAD"}
              [] kind = "sendfile" -> {"IOSHUFFLE", "DONE", "DEAD"}
              [] kind = "shuffle" -> {"IOSHUFFLE", "DONE"}
              [] kind = "gunzip" -> {"DONE"}
              [] OTHER -> PipeStates \cup {"DONE"}

(* What holds after the start of every response, raced or not: a file is   *)
(* closed only at its end, and has a range to send; until a CGI's header   *)
(* is parsed it is all that is in the buffer, from the middle on; the      *)
(* child's output is produced, in the pipe or to come.                     *)
FileKept(x) == (~x.open => kind = "shuffle" /\ x.file = 0) /\ HeaderLen <= x.next

Sane(x) ==
    /\ x \in Request /\ x.status \in Statuses /\ Bounded(x)
    /\ x.status \in FileStates => x.ranges # <<>> /\ Len(x.ranges) <= Len(parts)
    /\ x.status \in PipeStates /\ x.cgi = "PARSE" =>
          /\ kind \in CgiKinds /\ x.status = "PIPE_READ"
          /\ x.start = 0 /\ x.end = 0 /\ x.line = Middle /\ x.next = HeaderLen + Held(x)
    /\ kind \in FileKinds => FileKept(x)
    /\ kind \notin FileKinds => x.next + x.pipe + x.output = HeaderLen + OutputLen
    /\ kind \in CgiKinds => x.head \in CgiHeaders

(* The number before the first one that is sent. *)
Bases(x) == CASE kind = "status" -> {HeaderLen - 1, 0}
              [] kind = "http09" -> {HeaderLen + x.head - 1, 0}
              [] OTHER -> {0}

(* Where the header of the second part does not fit. *)
AtTheEdge == /\ kind = "mmap" /\ Len(parts) > 1
             /\ parts[1] \in BufferSize - HeaderLen - PartLen + 1 .. BufferSize - HeaderLen

(* What is to come of a file, and all of it. *)
Boundaries(n) == IF Len(parts) = 1 THEN 0 ELSE n * PartLen
Left(x) == Total(x.ranges) + Boundaries(Len(x.ranges))
FileLen == HeaderLen + (Total(parts) + Boundaries(Len(parts)))

(* An error page instead of the output of a CGI. *)
IsError(x, b) == kind \in CgiKinds /\ x.head > Half /\ b = 0 /\ Passed(x) = HeaderLen

(* Everything that will be sent was produced. *)
Finished(x, b) ==
    /\ kind \in FileKinds => Passed(x) = x.next /\ (x.open => Passed(x) = FileLen)
    /\ kind = "redirect" => Passed(x) = HeaderLen
    /\ kind = "gunzip" => x.start = 0 /\ x.end = 0 /\ x.pipe = 0 /\ Passed(x) = x.next
    /\ kind = "head" => IsError(x, b) \/ Passed(x) = HeaderLen + x.head - 1
    /\ kind \in {"plain", "status", "http09", "listing"} =>
          \/ IsError(x, b)
          \/ x.pipe = 0 /\ x.output = 0 /\ b + Passed(x) = HeaderLen + OutputLen

(* What a pipe delivered and the socket did not take lies in the buffer    *)
(* between header_line and header_end; an answer to HEAD gets no further   *)
(* than its header.                                                        *)
Piped(x, b) ==
    /\ kind \notin {"head", "redirect"}
    /\ Run(x.buf, x.line, x.hend, b + Passed(x))
    /\ x.next = b + Passed(x) + Held(x)
    /\ x.status = "PIPE_WRITE" => x.line < x.hend \/ (x.pipe = 0 /\ x.output = 0)
    /\ x.hend = BufferSize + 1 => x.line < x.hend

(* What a state of the request says of the numbers. *)
Phase(x, b) ==
    /\ x.status \in FileStates => x.next = Passed(x) /\ x.next + Left(x) = FileLen
    /\ x.status \in PipeStates /\ x.cgi = "PARSE" =>
          b = 0 /\ Passed(x) = 0 /\ Run(x.buf, x.line, x.hend, HeaderLen)
    /\ x.status \in PipeStates /\ x.cgi # "PARSE" => Piped(x, b)
    /\ x.status = "DONE" => Finished(x, b)
    /\ x.status = "DEAD" => AtTheEdge

(* The numbers after b were sent, and the buffer goes on from there. *)
Stream(x, b) ==
    /\ b \in Bases(x)
    /\ Numbers(x.sent, b)
    /\ x.status # "DEAD" => Run(x.buf, x.start, x.end, b + Len(x.sent))
    /\ Phase(x, b)

(* The number before the first one is a number. *)
LEMMA BaseNat ==
    ASSUME NEW x \in Request, NEW b \in Bases(x)
    PROVE  b \in Nat
<1>1. HeaderLen \in Nat \ {0} /\ x.head \in Nat
  BY Sizes, FieldTypes
<1>2. b \in {HeaderLen - 1, 0} \cup {HeaderLen + x.head - 1, 0}
  BY DEF Bases
<1>3. QED BY <1>1, <1>2

(* A flush keeps what is known of a request. *)
LEMMA FlushedKeeps ==
    ASSUME NEW x, NEW y, NEW k, Sane(x), x.status # "DEAD", Flushed(x, y, k)
    PROVE  /\ Sane(y) /\ Passed(y) = Passed(x)
           /\ \A b : Stream(x, b) => Stream(y, b)
<1>1. /\ x \in Request /\ y \in Request /\ Bounded(x) /\ Bounded(y) /\ SameStore(x, y)
      /\ Passed(y) = Passed(x) /\ y.status = x.status
      /\ x.start = 0 /\ x.end = 0 => y.start = 0 /\ y.end = 0
  BY FlushedOrder DEF Sane
<1>2. Sane(y)
  BY <1>1 DEF Sane, SameStore, Held, FileKept
<1>3. ASSUME NEW b, Stream(x, b) PROVE Stream(y, b)
  <2>1. b \in Bases(x) /\ b \in Nat /\ Ordered(x, b) /\ Phase(x, b)
    BY <1>1, <1>3, BaseNat DEF Stream, Ordered
  <2>2. b \in Bases(y)
    BY <1>1, <2>1 DEF Bases, SameStore
  <2>3. Ordered(y, b)
    BY <1>1, <2>1, FlushedOrder
  <2>4. Phase(y, b)
    BY <1>1, <2>1 DEF Phase, SameStore, Left, Piped, Held, Finished, IsError
  <2>5. QED BY <2>2, <2>3, <2>4 DEF Stream, Ordered
<1>4. QED BY <1>1, <1>2, <1>3
-----------------------------------------------------------------------------
(* What is written behind lo .. at - 1. *)
LEMMA PutIs ==
    ASSUME NEW buf \in [Slots -> Nat], NEW at \in Nat, NEW s \in Seq(Nat)
    PROVE  /\ Put(buf, at, s) \in [Slots -> Nat]
           /\ \A i \in Slots : i >= at /\ i < at + Len(s) => Put(buf, at, s)[i] = s[i - at + 1]
           /\ \A i \in Slots : i < at \/ i >= at + Len(s) => Put(buf, at, s)[i] = buf[i]
<1>1. Len(s) \in Nat /\ BufferSize \in Nat /\ \A i \in Slots : i \in Nat
  BY Sizes DEF Slots
<1>2. ASSUME NEW i \in Slots, i \in at .. at + Len(s) - 1 PROVE s[i - at + 1] \in Nat
  <2>1. i - at + 1 \in 1 .. Len(s)
    BY <1>1, <1>2
  <2>2. QED BY <2>1
<1>3. Put(buf, at, s) \in [Slots -> Nat]
  BY <1>2 DEF Put
<1>4. \A i \in Slots : i >= at /\ i < at + Len(s) => Put(buf, at, s)[i] = s[i - at + 1]
  BY <1>1 DEF Put
<1>5. \A i \in Slots : i < at \/ i >= at + Len(s) => Put(buf, at, s)[i] = buf[i]
  BY <1>1 DEF Put
<1>6. QED BY <1>3, <1>4, <1>5

(* A run goes on with what is written behind it.                           *)
LEMMA PutRun ==
    ASSUME NEW buf \in [Slots -> Nat], NEW at \in Nat, NEW s \in Seq(Nat), NEW lo \in Nat, NEW v \in Nat,
           lo <= at, at + Len(s) <= BufferSize + 2, Run(buf, lo, at, v), Numbers(s, v + (at - lo))
    PROVE  Run(Put(buf, at, s), lo, at + Len(s), v)
<1>1. Len(s) \in Nat /\ BufferSize \in Nat
  BY Sizes
<1> SUFFICES ASSUME NEW i \in lo .. at + Len(s) - 1
             PROVE  Put(buf, at, s)[i] = v + (i - lo) + 1
  BY DEF Run
<1>2. i \in Slots /\ i \in Nat
  BY <1>1 DEF Slots
<1>3. CASE i < at
  <2>1. i \in lo .. at - 1
    BY <1>1, <1>3
  <2>2. QED BY <1>2, <1>3, <2>1, PutIs DEF Run
<1>4. CASE i >= at
  <2>1. i - at + 1 \in 1 .. Len(s) /\ i < at + Len(s)
    BY <1>1, <1>4
  <2>2. s[i - at + 1] = v + (at - lo) + (i - at + 1)
    BY <2>1 DEF Numbers
  <2>3. Put(buf, at, s)[i] = s[i - at + 1]
    BY <1>2, <1>4, <2>1, PutIs
  <2>4. QED BY <1>2, <2>2, <2>3
<1>5. QED BY <1>2, <1>3, <1>4

(* A run is not touched by what is written elsewhere.                      *)
LEMMA PutElsewhere ==
    ASSUME NEW buf \in [Slots -> Nat], NEW at \in Nat, NEW s \in Seq(Nat),
           NEW lo \in Nat, NEW hi \in Nat, NEW v \in Nat,
           hi <= BufferSize + 2, hi <= at \/ at + Len(s) <= lo, Run(buf, lo, hi, v)
    PROVE  Run(Put(buf, at, s), lo, hi, v)
<1>1. Len(s) \in Nat /\ BufferSize \in Nat
  BY Sizes
<1> SUFFICES ASSUME NEW i \in lo .. hi - 1
             PROVE  Put(buf, at, s)[i] = v + (i - lo) + 1
  BY DEF Run
<1>2. i \in Slots /\ i \in Nat /\ (i < at \/ i >= at + Len(s))
  BY <1>1 DEF Slots
<1>3. QED BY <1>2, PutIs DEF Run

(* The bytes that are written are the numbers that follow.                 *)
LEMMA BytesAre ==
    ASSUME NEW v \in Nat, NEW n \in Nat
    PROVE  /\ Bytes(v, n) \in Seq(Nat) /\ Len(Bytes(v, n)) = n
           /\ Numbers(Bytes(v, n), v)
<1>1. Bytes(v, n) \in [1 .. n -> Nat] /\ \A i \in 1 .. n : Bytes(v, n)[i] = v + i
  BY DEF Bytes
<1>2. Bytes(v, n) \in Seq(Nat) /\ Len(Bytes(v, n)) = n
  BY <1>1
<1>3. QED BY <1>1, <1>2 DEF Numbers

(* What only the pipe and the file change. *)
SameSource(x, y) ==
    /\ y.line = x.line /\ y.hend = x.hend /\ y.cgi = x.cgi /\ y.head = x.head
    /\ y.file = x.file /\ y.open = x.open /\ y.pipe = x.pipe /\ y.output = x.output
    /\ y.sent = x.sent /\ y.room = x.room /\ y.start = x.start

(* Numbers written to the buffer behind what it holds: the buffer holds    *)
(* them, or there is no room.                                              *)
LEMMA WrittenIs ==
    ASSUME NEW x \in Request, x.status # "DEAD", Bounded(x), NEW n \in Nat
    PROVE  /\ Written(x, n) \in Request /\ SameSource(x, Written(x, n))
           /\ Written(x, n).ranges = x.ranges /\ Written(x, n).next = x.next + n
           /\ x.end + n <= BufferSize =>
                 /\ Written(x, n).status = x.status /\ Written(x, n).end = x.end + n
                 /\ \A b \in Nat : Ordered(x, b) /\ x.next = b + Passed(x) =>
                       /\ Ordered(Written(x, n), b)
                       /\ Written(x, n).next = b + Passed(Written(x, n))
           /\ x.end + n > BufferSize =>
                 Written(x, n).status = "DEAD" /\ Written(x, n).end = x.end
<1> DEFINE s == Bytes(x.next, n)
           y == Written(x, n)
           w == Put(x.buf, x.end, s)
<1>1. /\ x.buf \in [Slots -> Nat] /\ x.start \in Nat /\ x.end \in Nat /\ x.sent \in Seq(Nat)
      /\ x.start <= x.end /\ x.end <= BufferSize /\ Len(x.sent) \in Nat /\ x.next \in Nat
      /\ BufferSize \in Nat
  BY FieldTypes, Sizes DEF Bounded
<1>2. s \in Seq(Nat) /\ Len(s) = n /\ Numbers(s, x.next)
  BY <1>1, BytesAre
<1>3. y = IF x.end + n > BufferSize THEN [x EXCEPT !.status = "DEAD", !.next = @ + n]
          ELSE [x EXCEPT !.buf = w, !.end = @ + n, !.next = @ + n]
  BY <1>2 DEF Written, req_write, Closing, Request
<1> HIDE DEF s, y
<1>4. w \in [Slots -> Nat]
  BY <1>1, <1>2, PutIs, Zenon
<1> HIDE DEF w
<1>5. y \in Request /\ SameSource(x, y) /\ y.ranges = x.ranges /\ y.next = x.next + n
  <2>1. x.next + n \in Nat /\ x.end + n \in Nat
    BY <1>1
  <2>2. QED BY <1>3, <1>4, <2>1 DEF Request, SameSource, Closing
<1>6. x.end + n > BufferSize => y.status = "DEAD" /\ y.end = x.end
  BY <1>3 DEF Request
<1>7. ASSUME x.end + n <= BufferSize
      PROVE  y.status = x.status /\ y.end = x.end + n /\ y.buf = w
  BY <1>1, <1>3, <1>7 DEF Request
<1>8. ASSUME x.end + n <= BufferSize, NEW b \in Nat, Ordered(x, b), x.next = b + Passed(x)
      PROVE  Ordered(y, b) /\ y.next = b + Passed(y)
  <2>1. y.sent = x.sent /\ y.start = x.start
    BY <1>5 DEF SameSource
  <2>2. y.next = b + Passed(y)
    BY <1>1, <1>5, <1>7, <1>8, <2>1, SMTT(30) DEF Passed, Unsent
  <2>3. x.next = (b + Len(x.sent)) + (x.end - x.start) /\ b + Len(x.sent) \in Nat
    BY <1>1, <1>8 DEF Passed, Unsent
  <2>4. Run(x.buf, x.start, x.end, b + Len(x.sent)) /\ Numbers(x.sent, b)
    BY <1>8 DEF Ordered
  <2>5. x.end + Len(s) <= BufferSize + 2
    BY <1>1, <1>2, <1>8
  <2>6. Run(w, x.start, x.end + Len(s), b + Len(x.sent))
    BY <1>1, <1>2, <2>3, <2>4, <2>5, PutRun DEF w
  <2>7. QED BY <1>2, <1>7, <1>8, <2>1, <2>2, <2>4, <2>6 DEF Ordered
<1>9. QED BY <1>5, <1>6, <1>7, <1>8 DEF y
-----------------------------------------------------------------------------
(* What becomes of a handler's request before it is disposed of: the one   *)
(* that is freed is DONE unless it is DEAD.                                *)
Settle(o) == IF o.ret = 0 /\ o.q.status # "DEAD" THEN [o.q EXCEPT !.status = "DONE"] ELSE o.q

(* A file's request, whose numbers go on with what is left of its ranges.  *)
FileRequest(x) ==
    /\ x \in Request /\ Bounded(x) /\ x.status \in FileStates /\ x.status \in Statuses
    /\ x.ranges # <<>> /\ Len(x.ranges) <= Len(parts) /\ FileKept(x)
FileOrder(x) == /\ Ordered(x, 0) /\ x.next = Passed(x) /\ x.next + Left(x) = FileLen

(* The kinds, by the states they can be in. *)
LEMMA KindOf ==
    /\ \A st \in Statuses : st \in FileStates => kind \in FileKinds /\ kind \notin CgiKinds
    /\ \A st \in Statuses : st \in PipeStates => kind \notin FileKinds
    /\ \A st \in Statuses : st \in FileStates \/ st \in PipeStates \/ st = "DONE" \/ st = "DEAD"
    /\ kind \in FileKinds => /\ "DONE" \in Statuses
                             /\ kind # "shuffle" => "DEAD" \in Statuses
    /\ kind \in CgiKinds \cup {"listing"} => Statuses = PipeStates \cup {"DONE"}
    /\ kind = "gunzip" => Statuses = {"DONE"}
BY DEF Statuses, FileStates, PipeStates, FileKinds, CgiKinds

(* Zero is a base of everything that is not a CGI.                         *)
LEMMA FileBase ==
    ASSUME NEW x, kind \in FileKinds
    PROVE  0 \in Bases(x) /\ \A b \in Bases(x) : b = 0
BY DEF Bases, FileKinds

(* A file's request and its order are what Sane and Stream say of it.      *)
LEMMA FileSane ==
    ASSUME NEW x
    PROVE  /\ FileRequest(x) => Sane(x)
           /\ Sane(x) /\ x.status \in FileStates => FileRequest(x)
           /\ FileRequest(x) /\ FileOrder(x) => Stream(x, 0)
           /\ \A b : Sane(x) /\ x.status \in FileStates /\ Stream(x, b) => FileOrder(x) /\ b = 0
<1>1. FileRequest(x) => kind \in FileKinds /\ kind \notin CgiKinds /\ x.status \notin PipeStates
                        /\ x.status # "DONE" /\ x.status # "DEAD"
  BY KindOf DEF FileRequest, FileStates, PipeStates
<1>2. FileRequest(x) => Sane(x)
  BY <1>1 DEF FileRequest, Sane
<1>3. Sane(x) /\ x.status \in FileStates => FileRequest(x)
  BY KindOf DEF FileRequest, Sane
<1>4. ASSUME FileRequest(x), FileOrder(x) PROVE Stream(x, 0)
  <2>1. 0 \in Bases(x)
    BY <1>1, <1>4, FileBase
  <2>2. 0 + Len(x.sent) = Len(x.sent)
    BY <1>4, FieldTypes DEF FileRequest
  <2>3. Phase(x, 0)
    BY <1>1, <1>4 DEF FileOrder, Phase
  <2>4. QED BY <1>4, <2>1, <2>2, <2>3 DEF FileOrder, Ordered, Stream
<1>5. ASSUME NEW b, Sane(x), x.status \in FileStates, Stream(x, b) PROVE FileOrder(x) /\ b = 0
  <2>1. b = 0 /\ x.status # "DEAD"
    BY <1>1, <1>3, <1>5, FileBase DEF Stream
  <2>2. QED BY <1>5, <2>1 DEF Stream, Phase, FileOrder, Ordered
<1>6. QED BY <1>2, <1>3, <1>4, <1>5

(* A file's response that is DONE. *)
LEMMA FileDone ==
    ASSUME NEW x \in Request, kind \in FileKinds, x.status = "DONE", Bounded(x), FileKept(x)
    PROVE  /\ Sane(x)
           /\ Ordered(x, 0) /\ Passed(x) = x.next /\ (x.open => x.next = FileLen) => Stream(x, 0)
<1>1. kind \notin CgiKinds /\ kind \notin {"gunzip", "head", "plain", "status", "http09", "listing"}
  BY DEF FileKinds, CgiKinds
<1>2. Sane(x)
  BY <1>1, KindOf DEF Sane, FileStates, PipeStates
<1>3. ASSUME Ordered(x, 0), Passed(x) = x.next, x.open => x.next = FileLen PROVE Stream(x, 0)
  <2>1. Phase(x, 0)
    <3>1. Finished(x, 0)
      BY <1>1, <1>3 DEF Finished, FileKinds
    <3>2. QED BY <3>1 DEF Phase, FileStates, PipeStates
  <2>2. QED BY <1>3, <2>1, FileBase DEF Stream, Ordered
<1>4. QED BY <1>2, <1>3

(* What is left after the first range, when all of it was produced.        *)
LEMMA NextRange ==
    ASSUME NEW x, FileRequest(x), x.ranges[1] = 0
    PROVE  /\ Tail(x.ranges) \in Seq(Nat) /\ Len(Tail(x.ranges)) = Len(x.ranges) - 1
           /\ Total(Tail(x.ranges)) = Total(x.ranges) /\ Total(x.ranges) \in Nat
           /\ Len(x.ranges) \in Nat \ {0}
           /\ Tail(x.ranges) = <<>> <=> Len(x.ranges) = 1
           /\ Tail(x.ranges) = <<>> => Total(x.ranges) = 0
<1>1. x.ranges \in Seq(Nat) /\ x.ranges # <<>>
  BY FieldTypes DEF FileRequest
<1>2. PICK s \in Seq(Nat) : s = x.ranges /\ s # <<>> /\ s[1] = 0
  BY <1>1
<1>3. Len(s) \in Nat \ {0} /\ Tail(s) \in Seq(Nat) /\ Len(Tail(s)) = Len(s) - 1
  BY <1>2
<1>4. Total(s) = s[1] + Total(Tail(s)) /\ Total(s) \in Nat /\ Total(Tail(s)) \in Nat
  BY <1>2, <1>3, Totals
<1>5. Total(Tail(s)) = Total(s)
  BY <1>2, <1>4
<1>6. Tail(s) = <<>> <=> Len(s) = 1
  <2>1. Tail(s) = <<>> <=> Len(Tail(s)) = 0
    BY <1>3, EmptySeq
  <2>2. QED BY <1>3, <2>1, SMTT(30)
<1>7. Tail(s) = <<>> => Total(Tail(s)) = 0
  BY <1>3, Totals
<1>8. QED BY <1>2, <1>3, <1>4, <1>5, <1>6, <1>7

(* complete_response keeps what is known; the header of the next part and  *)
(* the closing boundary are part of the response.  A boundary that does    *)
(* not fit is the only reason to give the response up.                     *)
LEMMA CompleteKeeps ==
    ASSUME parts \in Seq(Nat), NEW x, FileRequest(x), x.ranges[1] = 0,
           kind = "shuffle" => x.end + PartLen <= BufferSize
    PROVE  /\ complete_response(x).ret \in {0, 1}
           /\ Sane(Settle(complete_response(x)))
           /\ /\ FileOrder(x)
              /\ \/ x.end + PartLen <= BufferSize
                 \/ Len(parts) = 1
                 \/ AtTheEdge /\ Len(x.ranges) > 1
              => Stream(Settle(complete_response(x)), 0)
<1> DEFINE p == [x EXCEPT !.ranges = Tail(@)]
           w == Written(p, PartLen)
           o == complete_response(x)
           fits == x.end + PartLen <= BufferSize
           good == FileOrder(x) /\ (fits \/ Len(parts) = 1 \/ (AtTheEdge /\ Len(x.ranges) > 1))
<1>1. /\ Tail(x.ranges) \in Seq(Nat) /\ Len(Tail(x.ranges)) = Len(x.ranges) - 1
      /\ Total(Tail(x.ranges)) = Total(x.ranges) /\ Total(x.ranges) \in Nat
      /\ Len(x.ranges) \in Nat \ {0}
      /\ Tail(x.ranges) = <<>> <=> Len(x.ranges) = 1
      /\ Tail(x.ranges) = <<>> => Total(x.ranges) = 0
  BY NextRange
<1>2. /\ x \in Request /\ Bounded(x) /\ x.status \in FileStates /\ x.status \in Statuses
      /\ Len(x.ranges) <= Len(parts) /\ x.status # "DEAD" /\ kind \in FileKinds
      /\ x.start \in Nat /\ x.end \in Nat /\ Len(x.sent) \in Nat /\ x.next \in Nat
      /\ x.start <= x.end /\ x.end <= BufferSize /\ FileKept(x)
  BY FieldTypes, KindOf DEF FileRequest, Bounded, FileStates
<1>3. PartLen \in Nat \ {0} /\ BufferSize \in Nat /\ HeaderLen \in Nat
  BY Sizes
<1>4. /\ p \in Request /\ p.ranges = Tail(x.ranges) /\ p.status = x.status /\ p.buf = x.buf
      /\ p.end = x.end /\ p.next = x.next /\ SameSource(x, p)
  BY <1>1, <1>2 DEF Request, SameSource
<1>5. o = IF Len(parts) = 1 THEN Out(0, [p EXCEPT !.status = "DONE"])
          ELSE IF p.ranges # <<>> THEN Out(1, w)
          ELSE Out(1, req_flush([w EXCEPT !.status = "DONE"]).q)
  BY DEF complete_response
<1> HIDE DEF p, o
<1>6. Bounded(p) /\ p.status # "DEAD" /\ FileKept(p)
  BY <1>2, <1>4 DEF Bounded, SameSource, FileKept
<1>7. good => Ordered(p, 0) /\ p.next = Passed(p) /\ p.next = 0 + Passed(p)
  <2>1. Passed(p) = Passed(x)
    BY <1>4 DEF Passed, Unsent, SameSource
  <2>2. Ordered(x, 0) => Ordered(p, 0)
    BY <1>4 DEF Ordered, SameSource
  <2>3. QED BY <1>2, <1>4, <2>1, <2>2 DEF FileOrder
<1>8. CASE Len(parts) = 1
  <2> DEFINE y == [p EXCEPT !.status = "DONE"]
  <2>1. o.ret = 0 /\ o.q = y
    BY <1>5, <1>8 DEF Out
  <2>2. /\ y \in Request /\ y.status = "DONE" /\ SameSource(p, y) /\ y.buf = p.buf /\ y.end = p.end
        /\ [y EXCEPT !.status = "DONE"] = y /\ y.next = p.next
    BY <1>4 DEF Request, SameSource
  <2>3. Settle(o) = y
    BY <2>1, <2>2 DEF Settle
  <2> HIDE DEF y
  <2>4. Bounded(y) /\ FileKept(y)
    BY <1>6, <2>2 DEF Bounded, SameSource, FileKept
  <2>5. good => Ordered(y, 0) /\ Passed(y) = Passed(p)
    BY <1>7, <2>2 DEF Ordered, Passed, Unsent, SameSource
  <2>6. good => Passed(y) = y.next /\ y.next = FileLen
    <3>1. Len(x.ranges) = 1 /\ Total(x.ranges) = 0
      BY <1>1, <1>2, <1>8
    <3>2. Left(x) = 0
      BY <1>8, <3>1 DEF Left, Boundaries
    <3>3. good => x.next = FileLen
      BY <1>2, <3>2 DEF FileOrder
    <3>4. QED BY <1>4, <1>7, <2>2, <2>5, <3>3
  <2>7. QED BY <1>2, <2>1, <2>2, <2>3, <2>4, <2>5, <2>6, FileDone DEF o
<1>9. /\ w \in Request /\ SameSource(p, w) /\ w.ranges = p.ranges /\ w.next = p.next + PartLen
      /\ fits => w.status = x.status /\ w.end = x.end + PartLen
      /\ fits /\ good => Ordered(w, 0) /\ w.next = Passed(w)
      /\ ~fits => w.status = "DEAD" /\ w.end = x.end
  <2>1. /\ w \in Request /\ SameSource(p, w) /\ w.ranges = p.ranges /\ w.next = p.next + PartLen
        /\ p.end + PartLen <= BufferSize => w.status = p.status /\ w.end = p.end + PartLen
        /\ p.end + PartLen > BufferSize => w.status = "DEAD" /\ w.end = p.end
    BY <1>3, <1>4, <1>6, WrittenIs
  <2>2. ASSUME fits, good PROVE Ordered(w, 0) /\ w.next = 0 + Passed(w)
    BY <1>3, <1>4, <1>6, <1>7, <2>2, WrittenIs
  <2>3. w.next \in Nat
    BY <2>1, FieldTypes
  <2>4. fits /\ good => w.next = Passed(w)
    <3>1. Passed(w) \in Int
      BY <2>1, FieldTypes DEF Passed, Unsent
    <3>2. QED BY <2>2, <3>1
  <2>5. QED BY <1>2, <1>3, <1>4, <2>1, <2>2, <2>4
<1> HIDE DEF w
<1>10. w.start = x.start /\ w.line = x.line /\ w.hend = x.hend /\ FileKept(w)
  <2>1. w.start = x.start /\ w.line = x.line /\ w.hend = x.hend /\ w.open = x.open /\ w.file = x.file
    BY <1>4, <1>9 DEF SameSource
  <2>2. /\ HeaderLen <= x.next /\ w.next = x.next + PartLen
        /\ ~x.open => kind = "shuffle" /\ x.file = 0
    BY <1>2, <1>4, <1>9 DEF FileKept
  <2>3. HeaderLen <= w.next
    BY <1>2, <1>3, <2>2
  <2>4. QED BY <2>1, <2>2, <2>3 DEF FileKept
<1>11. CASE Len(parts) # 1 /\ p.ranges # <<>>
  <2>1. o.ret = 1 /\ o.q = w /\ Settle(o) = w
    BY <1>5, <1>11 DEF Out, Settle
  <2>2. Bounded(w)
    BY <1>2, <1>3, <1>9, <1>10 DEF Bounded
  <2>3. CASE fits
    <3>1. FileRequest(w)
      <4>1. Len(parts) \in Nat /\ w.ranges # <<>> /\ Len(w.ranges) = Len(x.ranges) - 1
        BY <1>1, <1>4, <1>9, <1>11
      <4>2. Len(w.ranges) <= Len(parts)
        BY <1>1, <1>2, <4>1
      <4>3. QED BY <1>2, <1>9, <1>10, <2>2, <2>3, <4>1, <4>2 DEF FileRequest
    <3>2. good => FileOrder(w)
      <4>1. w.next = x.next + PartLen
        BY <1>4, <1>9
      <4>2. Left(x) = Left(w) + PartLen /\ Left(w) \in Int
        <5>1. Len(w.ranges) = Len(x.ranges) - 1 /\ Total(w.ranges) = Total(x.ranges)
          BY <1>1, <1>4, <1>9
        <5>2. Len(x.ranges) * PartLen = (Len(x.ranges) - 1) * PartLen + PartLen
              /\ (Len(x.ranges) - 1) * PartLen \in Int
          BY <1>1, <1>3
        <5>3. QED BY <1>1, <1>3, <1>11, <5>1, <5>2 DEF Left, Boundaries
      <4>3. good => w.next + Left(w) = FileLen
        BY <1>2, <1>3, <4>1, <4>2 DEF FileOrder
      <4>4. QED BY <1>9, <2>3, <4>3 DEF FileOrder
    <3>3. QED BY <2>1, <3>1, <3>2, FileSane DEF o
  <2>4. CASE ~fits
    <3>1. w.status = "DEAD" /\ "DEAD" \in Statuses
      BY <1>2, <1>9, <2>4, KindOf
    <3>2. Sane(w)
      BY <1>2, <1>9, <1>10, <2>2, <3>1 DEF Sane, FileStates, PipeStates, FileKinds, CgiKinds
    <3>3. good => Stream(w, 0)
      <4>1. 0 \in Bases(w)
        BY <1>2, FileBase
      <4>2. good => Numbers(w.sent, 0)
        BY <1>7, <1>9 DEF Ordered, SameSource
      <4>3. good => Phase(w, 0)
        BY <1>11, <2>4, <3>1 DEF Phase, FileStates, PipeStates
      <4>4. QED BY <3>1, <4>1, <4>2, <4>3 DEF Stream
    <3>4. QED BY <2>1, <3>2, <3>3 DEF o
  <2>5. QED BY <2>3, <2>4
<1>12. CASE Len(parts) # 1 /\ p.ranges = <<>>
  <2> DEFINE z == [w EXCEPT !.status = "DONE"]
             y == req_flush(z).q
  <2>1. o.ret = 1 /\ o.q = y /\ Settle(o) = y
    BY <1>5, <1>12 DEF Out, Settle
  <2>2. /\ z \in Request /\ z.status = "DONE" /\ SameSource(w, z) /\ z.buf = w.buf /\ z.end = w.end
        /\ z.next = w.next
    BY <1>9 DEF Request, SameSource
  <2> HIDE DEF z
  <2>3. Bounded(z) /\ FileKept(z)
    BY <1>2, <1>3, <1>9, <1>10, <2>2 DEF Bounded, SameSource, FileKept
  <2>4. good => Stream(z, 0)
    <3>1. Len(x.ranges) = 1 /\ Total(x.ranges) = 0
      BY <1>1, <1>4, <1>12
    <3>2. good => fits
      BY <1>12, <3>1
    <3>3. good => Ordered(z, 0) /\ Passed(z) = w.next
      BY <1>9, <2>2, <3>2 DEF Ordered, Passed, Unsent, SameSource
    <3>4. Left(x) = PartLen
      BY <1>3, <1>12, <3>1 DEF Left, Boundaries
    <3>5. good => w.next = FileLen
      BY <1>4, <1>9, <3>4 DEF FileOrder
    <3>6. QED BY <1>2, <2>2, <2>3, <3>3, <3>5, FileDone
  <2>5. Sane(z)
    BY <1>2, <2>2, <2>3, FileDone
  <2>6. PICK k : Flushed(z, y, k)
    BY <2>2, <2>3, FlushIs
  <2> HIDE DEF y
  <2>7. Sane(y) /\ (good => Stream(y, 0))
    BY <2>2, <2>4, <2>5, <2>6, FlushedKeeps
  <2>8. QED BY <2>1, <2>7 DEF o
<1>13. QED BY <1>8, <1>11, <1>12

(* n bytes of the first range are produced. *)
LEMMA Shorter ==
    ASSUME NEW x, NEW y \in Request, NEW n \in Nat, FileRequest(x), n <= x.ranges[1], Bounded(y),
           y.status = x.status, y.ranges = [x.ranges EXCEPT ![1] = x.ranges[1] - n], FileKept(y)
    PROVE  /\ FileRequest(y) /\ y.ranges[1] = x.ranges[1] - n /\ x.ranges[1] \in Nat
           /\ Len(y.ranges) = Len(x.ranges)
           /\ Left(y) = Left(x) - n /\ Left(x) \in Nat
<1>1. PICK s \in Seq(Nat) : s = x.ranges /\ s # <<>> /\ Len(s) <= Len(parts)
  BY FieldTypes DEF FileRequest
<1>2. s[1] \in Nat /\ s[1] - n \in Nat
  BY <1>1
<1>3. PICK v \in Nat : v = s[1] - n
  BY <1>2
<1> DEFINE t == [s EXCEPT ![1] = v]
<1>4. /\ t \in Seq(Nat) /\ t # <<>> /\ Len(t) = Len(s) /\ t[1] = v
      /\ Total(t) = Total(s) - s[1] + v /\ Total(s) \in Nat
  BY <1>1, TotalExcept
<1>5. y.ranges = t
  BY <1>1, <1>3
<1> HIDE DEF t
<1>6. FileRequest(y) /\ y.ranges[1] = x.ranges[1] - n /\ Len(y.ranges) = Len(x.ranges)
  BY <1>1, <1>3, <1>4, <1>5 DEF FileRequest
<1>7. Boundaries(Len(s)) \in Nat
  <2>1. Len(s) \in Nat /\ PartLen \in Nat /\ Len(s) * PartLen \in Nat
    BY Sizes
  <2>2. QED BY <2>1 DEF Boundaries
<1>8. Left(x) = Total(s) + Boundaries(Len(s)) /\ Left(y) = Total(t) + Boundaries(Len(s))
  BY <1>1, <1>4, <1>5 DEF Left
<1>9. Left(y) = Left(x) - n /\ Left(x) \in Nat
  <2>1. Total(s) \in Nat /\ s[1] \in Nat /\ v \in Nat /\ v = s[1] - n /\ Total(t) = Total(s) - s[1] + v
    BY <1>2, <1>3, <1>4
  <2>2. Total(t) = Total(s) - n
    BY ONLY <2>1, n \in Nat
  <2>3. PICK a \in Nat, d \in Nat : a = Total(s) /\ d = Boundaries(Len(s))
    BY <1>7, <2>1
  <2>4. Left(x) = a + d /\ Left(y) = (a - n) + d
    BY <1>8, <2>2, <2>3
  <2>5. a + d \in Nat /\ (a - n) + d = (a + d) - n
    OBVIOUS
  <2>6. QED BY <2>4, <2>5
<1>10. QED BY <1>1, <1>2, <1>6, <1>9

(* What process_get and io_shuffle_sendfile send of the first range: k of  *)
(* the bytes t, after which p is the request.                              *)
GetSends(x, p, t, k) ==
    /\ k \in Nat /\ t \in Seq(Nat) /\ k <= Len(t) /\ Numbers(t, x.next) /\ Took(x, p, t, k)
    /\ FileRequest(p) /\ p.next = x.next + k /\ p.start = x.start /\ p.end = x.end /\ p.buf = x.buf
    /\ p.status = x.status /\ Left(p) = Left(x) - k /\ Left(x) \in Nat
    /\ process_get(x) = IF p.ranges[1] = 0 THEN complete_response(p) ELSE Out(1, p)

(* process_get sends nothing, or a part of the first range.                *)
LEMMA ProcessGetIs ==
    ASSUME NEW x, FileRequest(x), kind # "shuffle"
    PROVE  process_get(x) = Out(-1, x) \/ \E p, t, k : GetSends(x, p, t, k)
<1> DEFINE n == IF kind = "sendfile" THEN Least(x.ranges[1], x.file) ELSE x.ranges[1]
           s == Bytes(x.next, n)
           k == Taken(x, s)
           y == Send(x, s)
           p == [y EXCEPT !.next = @ + k, !.ranges[1] = @ - k,
                          !.file = IF kind = "sendfile" THEN @ - k ELSE @]
           o == process_get(x)
<1>1. /\ x \in Request /\ Bounded(x) /\ x.status # "DEAD" /\ x.ranges \in Seq(Nat) /\ x.ranges # <<>>
      /\ x.next \in Nat /\ x.sent \in Seq(Nat) /\ Len(x.sent) \in Nat /\ x.start \in Nat
      /\ x.end \in Nat /\ x.start <= x.end /\ x.file \in Nat /\ FileKept(x) /\ HeaderLen \in Nat
  BY FieldTypes, Sizes DEF FileRequest, FileStates, Bounded
<1>2. x.ranges[1] \in Nat /\ n \in Nat /\ n <= x.ranges[1] /\ (kind = "sendfile" => n <= x.file)
  <2>1. PICK a \in Nat, f \in Nat : a = x.ranges[1] /\ f = x.file
    BY <1>1
  <2>2. QED BY <2>1 DEF Least
<1> HIDE DEF n
<1>3. s \in Seq(Nat) /\ Len(s) = n /\ Numbers(s, x.next)
  BY <1>1, <1>2, BytesAre
<1>4. o = IF k = 0 THEN Out(-1, x)
          ELSE IF p.ranges[1] = 0 THEN complete_response(p) ELSE Out(1, p)
  BY DEF process_get, n
<1> HIDE DEF s, o
<1>5. /\ k \in Nat /\ k <= Len(s) /\ y \in Request /\ Took(x, y, s, k) /\ SameStore(x, y)
      /\ y.start = x.start /\ y.end = x.end
  BY <1>1, <1>3, SendTakes
<1> HIDE DEF k, y
<1>6. CASE k = 0
  BY <1>4, <1>6 DEF o
<1>7. CASE k # 0
  <2>1. y.next = x.next /\ y.ranges = x.ranges /\ y.file = x.file
    BY <1>5 DEF SameStore
  <2> DEFINE fl == IF kind = "sendfile" THEN x.file - k ELSE x.file
  <2>2. fl \in Nat /\ fl <= x.file
    BY <1>1, <1>2, <1>3, <1>5
  <2>3. [x.ranges EXCEPT ![1] = @ - k] = [x.ranges EXCEPT ![1] = x.ranges[1] - k]
        /\ [x.ranges EXCEPT ![1] = x.ranges[1] - k] \in Seq(Nat) /\ x.next + k \in Nat
    <3>1. x.ranges[1] - k \in Nat
      BY <1>2, <1>3, <1>5
    <3>2. QED BY <1>1, <1>5, <3>1
  <2>4. /\ p \in Request /\ p.next = x.next + k /\ p.sent = y.sent /\ p.start = x.start /\ p.end = x.end
        /\ p.ranges = [x.ranges EXCEPT ![1] = x.ranges[1] - k]
        /\ p.status = x.status /\ p.buf = x.buf /\ p.line = x.line /\ p.hend = x.hend
        /\ p.open = x.open /\ p.file = fl
    <3>1. p = [y EXCEPT !.next = x.next + k, !.ranges = [x.ranges EXCEPT ![1] = x.ranges[1] - k],
                        !.file = fl]
      BY <1>5, <2>1, <2>3 DEF Request
    <3> HIDE DEF p, fl
    <3>2. QED BY <1>5, <2>1, <2>2, <2>3, <3>1 DEF Request, SameStore
  <2>5. o = IF p.ranges[1] = 0 THEN complete_response(p) ELSE Out(1, p)
    BY <1>4, <1>7
  <2> HIDE DEF p, fl
  <2>6. Bounded(p) /\ FileKept(p)
    BY <1>1, <1>5, <2>2, <2>4 DEF Bounded, FileKept
  <2>7. FileRequest(p) /\ Left(p) = Left(x) - k /\ Left(x) \in Nat
    <3>1. k \in Nat /\ k <= x.ranges[1]
      BY <1>2, <1>3, <1>5
    <3>2. QED BY <2>4, <2>6, <3>1, Shorter
  <2>8. Took(x, p, s, k)
    BY <1>5, <2>4 DEF Took
  <2>9. GetSends(x, p, s, k)
    BY <1>3, <1>5, <2>4, <2>5, <2>7, <2>8 DEF GetSends, o
  <2>10. QED BY <2>9
<1>8. QED BY <1>6, <1>7

(* process_get and io_shuffle_sendfile keep what is known of a request,    *)
(* and the order when the buffer is empty.                                 *)
LEMMA ProcessGetKeeps ==
    ASSUME parts \in Seq(Nat), NEW x, FileRequest(x), kind # "shuffle"
    PROVE  /\ process_get(x).ret \in {-1, 0, 1}
           /\ Sane(Settle(process_get(x)))
           /\ FileOrder(x) /\ x.end = 0 => Stream(Settle(process_get(x)), 0)
<1> DEFINE o == process_get(x)
           good == FileOrder(x) /\ x.end = 0
<1>1. /\ x \in Request /\ x.next \in Nat /\ x.sent \in Seq(Nat) /\ Len(x.sent) \in Nat
      /\ x.start \in Nat /\ x.end \in Nat /\ x.start <= x.end
  BY FieldTypes DEF FileRequest, FileStates, Bounded
<1>2. CASE o = Out(-1, x)
  <2>1. o.ret = -1 /\ o.q = x /\ Settle(o) = x
    BY <1>2 DEF Out, Settle
  <2>2. QED BY <2>1, FileSane
<1>3. CASE \E p, t, k : GetSends(x, p, t, k)
  <2>1. PICK p, s, k : GetSends(x, p, s, k)
    BY <1>3
  <2>2. /\ k \in Nat /\ s \in Seq(Nat) /\ k <= Len(s) /\ Numbers(s, x.next) /\ Took(x, p, s, k)
        /\ FileRequest(p) /\ p.next = x.next + k /\ p.start = x.start /\ p.end = x.end /\ p.buf = x.buf
        /\ Left(p) = Left(x) - k /\ Left(x) \in Nat
        /\ o = IF p.ranges[1] = 0 THEN complete_response(p) ELSE Out(1, p)
    BY <2>1 DEF GetSends
  <2> HIDE DEF o
  <2>3. good => FileOrder(p)
    <3> SUFFICES ASSUME good PROVE FileOrder(p)
      OBVIOUS
    <3>1. x.start = 0 /\ x.end = 0 /\ x.next = Len(x.sent) /\ Len(p.sent) = Len(x.sent) + k
      BY <1>1, <2>2 DEF FileOrder, Passed, Unsent, Took
    <3>2. p.next = Passed(p)
      BY <1>1, <2>2, <3>1 DEF Passed, Unsent
    <3>3. p.next + Left(p) = FileLen
      BY <1>1, <2>2 DEF FileOrder
    <3>4. Numbers(p.sent, 0)
      <4>1. Numbers(x.sent, 0) /\ 0 + Len(x.sent) = x.next
        BY <1>1, <3>1 DEF FileOrder, Ordered
      <4>2. QED BY <1>1, <2>2, <4>1, Continues
    <3>5. Run(p.buf, p.start, p.end, 0 + Len(p.sent))
      BY <2>2, <3>1 DEF Run
    <3>6. QED BY <3>2, <3>3, <3>4, <3>5 DEF FileOrder, Ordered
  <2>4. CASE p.ranges[1] = 0
    <3>1. o = complete_response(p)
      BY <2>2, <2>4
    <3>2. good => p.end + PartLen <= BufferSize
      BY <2>2, Sizes
    <3>3. QED BY <2>2, <2>3, <2>4, <3>1, <3>2, CompleteKeeps DEF o
  <2>5. CASE p.ranges[1] # 0
    <3>1. o.ret = 1 /\ o.q = p /\ Settle(o) = p
      BY <2>2, <2>5 DEF Out, Settle
    <3>2. QED BY <2>2, <2>3, <3>1, FileSane DEF o
  <2>6. QED BY <2>4, <2>5
<1>4. QED BY <1>2, <1>3, ProcessGetIs

(* The second half of io_shuffle sends from the buffer; the response ends  *)
(* early only when the file did.                                           *)
LEMMA ShuffleOutKeeps ==
    ASSUME NEW x, FileRequest(x)
    PROVE  /\ ShuffleOut(x).ret \in {-1, 0, 1}
           /\ Sane(Settle(ShuffleOut(x)))
           /\ FileOrder(x) => Stream(Settle(ShuffleOut(x)), 0)
<1> DEFINE s == Cut(x.buf, x.start, x.end)
           o == ShuffleOut(x)
<1>1. /\ x \in Request /\ Bounded(x) /\ x.status # "DEAD" /\ kind \in FileKinds /\ Sane(x)
      /\ (FileOrder(x) => Stream(x, 0)) /\ x.sent \in Seq(Nat) /\ Len(x.sent) \in Nat /\ FileKept(x)
  BY FieldTypes, FileSane, KindOf DEF FileRequest, FileStates
<1>2. s = <<>> <=> x.start = x.end
  BY <1>1, UnsentBytes
<1>3. ASSUME NEW y, NEW k, Flushed(x, y, k), Settle(o) = y
      PROVE  Sane(Settle(o)) /\ (FileOrder(x) => Stream(Settle(o), 0))
  BY <1>1, <1>3, FlushedKeeps
<1>4. o = IF s = <<>> /\ ~x.open THEN Out(0, x)
          ELSE IF s = <<>> THEN Out(1, [x EXCEPT !.start = 0, !.end = 0])
          ELSE IF x.room = 0 THEN Out(-1, x)
          ELSE IF Taken(x, s) = Len(s) THEN Out(1, [Send(x, s) EXCEPT !.start = 0, !.end = 0])
          ELSE Out(1, [Send(x, s) EXCEPT !.start = @ + Taken(x, s)])
  BY DEF ShuffleOut
<1>5. CASE s = <<>> /\ ~x.open
  <2> DEFINE y == [x EXCEPT !.status = "DONE"]
  <2>1. o.ret = 0 /\ Settle(o) = y
    BY <1>1, <1>4, <1>5 DEF Out, Settle
  <2>2. /\ y \in Request /\ y.status = "DONE" /\ SameSource(x, y) /\ y.buf = x.buf /\ y.end = x.end
        /\ y.next = x.next
    BY <1>1 DEF Request, SameSource
  <2> HIDE DEF y
  <2>3. /\ Bounded(y) /\ (Ordered(x, 0) => Ordered(y, 0)) /\ ~y.open /\ FileKept(y)
        /\ Passed(y) = Passed(x)
    BY <1>1, <1>5, <2>2 DEF Bounded, SameSource, Ordered, FileKept, Passed, Unsent
  <2>4. QED BY <1>1, <2>1, <2>2, <2>3, FileDone DEF FileOrder
<1>6. CASE s = <<>> /\ x.open
  <2> DEFINE y == [x EXCEPT !.start = 0, !.end = 0]
  <2>1. o.ret = 1 /\ Settle(o) = y
    BY <1>4, <1>6 DEF Out, Settle
  <2>2. y \in Request /\ SameStore(x, y) /\ y.sent = x.sent /\ y.start = 0 /\ y.end = 0
    BY <1>1 DEF Request, SameStore
  <2> HIDE DEF y
  <2>3. Unsent(x) = 0
    BY <1>1, <1>2, <1>6, FieldTypes DEF Unsent
  <2>4. Flushed(x, y, 0)
    BY <1>1, <2>2, <2>3 DEF Flushed, Took
  <2>5. QED BY <1>3, <2>1, <2>4 DEF o
<1>7. CASE s # <<>>
  <2>1. req_flush(x).q = o.q
    BY <1>1, <1>4, <1>7 DEF req_flush, Out, Closing
  <2>2. o.ret \in {-1, 1} /\ Settle(o) = o.q
    BY <1>4, <1>7 DEF Out, Settle
  <2>3. PICK k : Flushed(x, req_flush(x).q, k)
    BY <1>1, FlushIs
  <2>4. QED BY <1>3, <2>1, <2>2, <2>3
<1>8. QED BY <1>1, <1>5, <1>6, <1>7, FieldTypes

(* io_shuffle reads behind what the buffer holds and keeps the reserve, so *)
(* that a boundary always fits.                                            *)
LEMMA ShuffleKeeps ==
    ASSUME parts \in Seq(Nat), NEW x, FileRequest(x), kind = "shuffle"
    PROVE  /\ io_shuffle(x).ret \in {-1, 0, 1}
           /\ Sane(Settle(io_shuffle(x)))
           /\ FileOrder(x) => Stream(Settle(io_shuffle(x)), 0)
<1> DEFINE n == Least(BufferSize - x.end - Reserve, x.ranges[1])
           m == Least(n, x.file)
           p == [x EXCEPT !.buf = Put(@, x.end, Bytes(x.next, m)), !.end = @ + m,
                          !.next = @ + m, !.file = @ - m, !.ranges[1] = @ - m]
           c == [x EXCEPT !.open = FALSE]
           o == io_shuffle(x)
<1>1. /\ x \in Request /\ Bounded(x) /\ x.status # "DEAD" /\ x.ranges \in Seq(Nat) /\ x.ranges # <<>>
      /\ x.next \in Nat /\ x.sent \in Seq(Nat) /\ Len(x.sent) \in Nat /\ x.start \in Nat
      /\ x.end \in Nat /\ x.start <= x.end /\ x.end <= BufferSize /\ x.file \in Nat
      /\ x.buf \in [Slots -> Nat] /\ FileKept(x) /\ HeaderLen \in Nat
  BY FieldTypes, Sizes DEF FileRequest, FileStates, Bounded
<1>2. x.ranges[1] \in Nat
  BY <1>1
<1>3. o = IF n <= 0 \/ ~x.open THEN ShuffleOut(x)
          ELSE IF m = 0 THEN ShuffleOut(c)
          ELSE IF p.ranges[1] = 0 THEN complete_response(p) ELSE ShuffleOut(p)
  BY DEF io_shuffle
<1> HIDE DEF o
<1>4. CASE n <= 0 \/ ~x.open
  BY <1>3, <1>4, ShuffleOutKeeps DEF o
<1>5. CASE ~(n <= 0 \/ ~x.open) /\ m = 0
  <2>1. o = ShuffleOut(c)
    BY <1>3, <1>5
  <2>2. /\ c \in Request /\ c.status = x.status /\ c.ranges = x.ranges /\ c.buf = x.buf
        /\ c.start = x.start /\ c.end = x.end /\ c.next = x.next /\ c.sent = x.sent
        /\ c.line = x.line /\ c.hend = x.hend /\ c.file = x.file
    BY <1>1 DEF Request
  <2>5. x.file = 0
    <3>1. PICK e \in Nat, fl \in Nat, g \in Nat : e = x.end /\ fl = x.file /\ g = x.ranges[1]
      BY <1>1, <1>2
    <3>2. BufferSize \in Nat /\ Reserve \in Nat
      BY Sizes
    <3>3. n \in Int /\ n > 0
      BY <1>5, <3>1, <3>2, SMTT(30) DEF Least
    <3> HIDE DEF n
    <3>4. QED BY <1>5, <3>1, <3>3 DEF Least
  <2>6. FileKept(c)
    BY <1>1, <2>2, <2>5 DEF FileKept
  <2> HIDE DEF c
  <2>3. FileRequest(c) /\ (FileOrder(x) => FileOrder(c))
    BY <1>1, <2>2, <2>6 DEF FileRequest, FileOrder, Bounded, Ordered, Passed, Unsent, Left
  <2>4. QED BY <2>1, <2>3, ShuffleOutKeeps DEF o
<1>6. CASE ~(n <= 0 \/ ~x.open) /\ m # 0
  <2>1. /\ m \in Nat /\ m <= x.file /\ m <= x.ranges[1] /\ x.end + m + Reserve <= BufferSize
    <3>1. PICK e \in Nat, fl \in Nat, g \in Nat : e = x.end /\ fl = x.file /\ g = x.ranges[1]
      BY <1>1, <1>2
    <3>2. BufferSize \in Nat /\ Reserve \in Nat
      BY Sizes
    <3>3. n \in Int /\ n <= BufferSize - e - Reserve /\ n <= g /\ n > 0
      BY <1>6, <3>1, <3>2, SMTT(30) DEF Least
    <3> HIDE DEF n
    <3>4. m \in Nat /\ m <= fl /\ m <= n
      BY <3>1, <3>3 DEF Least
    <3> HIDE DEF m
    <3>5. m \in Nat /\ m <= fl /\ m <= g /\ e + m + Reserve <= BufferSize
      BY ONLY <3>2, <3>3, <3>4, e \in Nat, g \in Nat
    <3>6. QED BY <3>1, <3>5
  <2>2. PartLen <= Reserve /\ BufferSize \in Nat /\ Reserve \in Nat /\ PartLen \in Nat
    BY Sizes
  <2>3. o = IF p.ranges[1] = 0 THEN complete_response(p) ELSE ShuffleOut(p)
    BY <1>3, <1>6
  <2> HIDE DEF n, m
  <2> DEFINE w == Put(x.buf, x.end, Bytes(x.next, m))
             rs == [x.ranges EXCEPT ![1] = x.ranges[1] - m]
  <2>4. w \in [Slots -> Nat] /\ rs \in Seq(Nat)
    <3>1. Bytes(x.next, m) \in Seq(Nat)
      BY <1>1, <2>1, BytesAre
    <3>2. w \in [Slots -> Nat]
      BY <1>1, <3>1, PutIs, Zenon
    <3>3. x.ranges[1] - m \in Nat
      BY <1>2, <2>1
    <3>4. QED BY <1>1, <3>2, <3>3
  <2>5. x.end + m \in Nat /\ x.next + m \in Nat /\ x.file - m \in Nat
    BY ONLY <1>1, <2>1, SMTT(30)
  <2>6. p = [x EXCEPT !.buf = w, !.end = x.end + m, !.next = x.next + m, !.file = x.file - m,
                      !.ranges = rs]
    BY <1>1 DEF Request
  <2> HIDE DEF w, rs, p
  <2>7. /\ p \in Request /\ p.buf = w /\ p.end = x.end + m /\ p.next = x.next + m /\ p.ranges = rs
        /\ p.status = x.status /\ p.start = x.start /\ p.sent = x.sent
        /\ p.line = x.line /\ p.hend = x.hend /\ p.open = x.open
    BY <1>1, <2>4, <2>5, <2>6 DEF Request
  <2>14. FileKept(p)
    BY <1>1, <1>6, <2>1, <2>7 DEF FileKept
  <2>8. Bounded(p) /\ p.end + PartLen <= BufferSize
    <3>1. p.end \in Nat /\ p.end = x.end + m /\ p.end + Reserve <= BufferSize /\ x.start <= p.end
      BY ONLY <1>1, <2>1, <2>2, <2>7, SMTT(30)
    <3>2. p.end + PartLen <= BufferSize /\ p.end <= BufferSize
      BY ONLY <2>2, <3>1
    <3>3. QED BY <1>1, <2>7, <3>1, <3>2 DEF Bounded
  <2>9. FileRequest(p) /\ Left(p) = Left(x) - m /\ Left(x) \in Nat
    BY <2>1, <2>7, <2>8, <2>14, Shorter DEF rs
  <2>10. FileOrder(x) => FileOrder(p)
    <3> SUFFICES ASSUME FileOrder(x) PROVE FileOrder(p)
      OBVIOUS
    <3>1. p.next = Passed(p)
      BY <1>1, <2>1, <2>7 DEF FileOrder, Passed, Unsent
    <3>2. p.next + Left(p) = FileLen
      BY <1>1, <2>1, <2>7, <2>9 DEF FileOrder
    <3>3. PICK v \in Nat : v = 0 + Len(x.sent)
      BY <1>1
    <3>4. x.next = v + (x.end - x.start) /\ Run(x.buf, x.start, x.end, v) /\ Numbers(x.sent, 0)
      BY <1>1, <3>3 DEF FileOrder, Passed, Unsent, Ordered
    <3> DEFINE s == Bytes(x.next, m)
    <3>5. s \in Seq(Nat) /\ Len(s) = m /\ Numbers(s, v + (x.end - x.start))
      BY <1>1, <2>1, <3>4, BytesAre
    <3>6. w = Put(x.buf, x.end, s)
      BY DEF w
    <3> HIDE DEF s
    <3>7. x.end + Len(s) <= BufferSize + 2
      BY <1>1, <2>1, <2>2, <3>5
    <3>8. Run(w, x.start, x.end + Len(s), v)
      BY <1>1, <3>4, <3>5, <3>6, <3>7, PutRun
    <3>9. QED BY <2>7, <3>1, <3>2, <3>3, <3>4, <3>5, <3>8 DEF FileOrder, Ordered
  <2>11. CASE p.ranges[1] = 0
    BY <2>3, <2>8, <2>9, <2>10, <2>11, CompleteKeeps DEF o
  <2>12. CASE p.ranges[1] # 0
    BY <2>3, <2>9, <2>10, <2>12, ShuffleOutKeeps DEF o
  <2>13. QED BY <2>11, <2>12
<1>7. QED BY <1>4, <1>5, <1>6
-----------------------------------------------------------------------------
(* A response that has not begun. *)
Fresh(x) ==
    /\ x \in Request /\ x.status = "WRITE" /\ x.start = 0 /\ x.end = 0 /\ x.line = 0 /\ x.hend = 0
    /\ x.cgi = "PARSE" /\ x.ranges = parts /\ x.open /\ x.next = 0 /\ x.sent = <<>> /\ x.pipe = 0
    /\ kind \notin FileKinds => x.output = OutputLen
    /\ kind \in CgiKinds => x.head \in CgiHeaders

(* A header at the beginning of the buffer. *)
LEMMA HeaderIs ==
    ASSUME NEW x \in Request, x.status # "DEAD", x.start = 0, x.end = 0
    PROVE  /\ Header(x) \in Request /\ SameSource(x, Header(x))
           /\ Header(x).status = x.status /\ Header(x).next = x.next /\ Header(x).ranges = x.ranges
           /\ Header(x).end = HeaderLen /\ Run(Header(x).buf, 0, HeaderLen, 0)
           /\ Header(x).buf = Put(x.buf, 0, Bytes(0, HeaderLen))
<1> DEFINE s == Bytes(0, HeaderLen)
           w == Put(x.buf, 0, s)
           y == Header(x)
<1>1. x.buf \in [Slots -> Nat] /\ HeaderLen \in Nat /\ BufferSize \in Nat /\ HeaderLen <= BufferSize
      /\ Reserve \in Nat
  BY FieldTypes, Sizes
<1>2. s \in Seq(Nat) /\ Len(s) = HeaderLen /\ Numbers(s, 0)
  BY <1>1, BytesAre
<1>3. y = [x EXCEPT !.buf = w, !.end = HeaderLen]
  <2>1. x.end + Len(s) = HeaderLen /\ ~(x.end + Len(s) > BufferSize)
    BY <1>1, <1>2
  <2>2. y = [x EXCEPT !.buf = Put(x.buf, x.end, s), !.end = x.end + Len(s)]
    BY <2>1 DEF Header, req_write, Closing, Request
  <2>3. QED BY <2>1, <2>2
<1> HIDE DEF s, y
<1>4. w \in [Slots -> Nat]
  BY <1>1, <1>2, PutIs, Zenon
<1>5. Run(w, 0, HeaderLen, 0)
  <2>1. Run(x.buf, 0, 0, 0) /\ 0 + (0 - 0) = 0 /\ 0 + Len(s) = HeaderLen
    BY <1>1, <1>2 DEF Run
  <2>2. 0 + Len(s) <= BufferSize + 2
    BY <1>1, <2>1
  <2>3. Run(w, 0, 0 + Len(s), 0)
    BY <1>1, <1>2, <2>1, <2>2, PutRun
  <2>4. QED BY <2>1, <2>3
<1> HIDE DEF w
<1>6. y \in Request /\ SameSource(x, y)
  BY <1>1, <1>3, <1>4 DEF Request, SameSource
<1>7. /\ y.status = x.status /\ y.next = x.next /\ y.ranges = x.ranges
      /\ y.end = HeaderLen /\ y.buf = w
  BY <1>3 DEF Request
<1>8. QED BY <1>5, <1>6, <1>7 DEF y, w, s

(* init_get: the header and the first bytes of a mapping. *)
LEMMA InitGetKeeps ==
    ASSUME parts \in Seq(Nat), parts # <<>>, kind \in FileKinds, NEW x, Fresh(x)
    PROVE  /\ init_get(x).ret \in {0, 1}
           /\ Sane(Settle(init_get(x))) /\ Stream(Settle(init_get(x)), 0)
<1> DEFINE st == IF kind = "mmap" THEN "WRITE" ELSE "IOSHUFFLE"
           h == [Header(x) EXCEPT !.next = HeaderLen, !.status = st]
           want == h.ranges[1]
           n == Least(BufferSize - h.end, want)
           w == Written(h, n)
           p == [w EXCEPT !.ranges[1] = @ - n]
           o == init_get(x)
<1>1. /\ HeaderLen \in Nat /\ BufferSize \in Nat /\ Reserve \in Nat /\ PartLen \in Nat
      /\ HeaderLen + Reserve < BufferSize /\ x \in Request
  BY Sizes DEF Fresh
<1>2. o = IF kind # "mmap" \/ BufferSize - h.end <= Reserve THEN Out(1, h)
          ELSE IF n = want THEN complete_response(p) ELSE Out(1, p)
  BY DEF init_get
<1> HIDE DEF o
<1>3. /\ Header(x) \in Request /\ SameSource(x, Header(x)) /\ Header(x).ranges = parts
      /\ Header(x).end = HeaderLen /\ Run(Header(x).buf, 0, HeaderLen, 0)
  BY HeaderIs DEF Fresh
<1>4. /\ h \in Request /\ h.status = st /\ h.next = HeaderLen /\ h.ranges = parts /\ h.end = HeaderLen
      /\ h.start = 0 /\ h.line = 0 /\ h.hend = 0 /\ h.sent = <<>> /\ Run(h.buf, 0, HeaderLen, 0)
      /\ h.open
  BY <1>1, <1>3 DEF Request, SameSource, Fresh
<1> HIDE DEF h
<1>5. st \in FileStates /\ st \in Statuses /\ st # "DEAD"
  BY DEF FileStates, Statuses, FileKinds
<1> HIDE DEF st
<1>6. Bounded(h)
  BY <1>1, <1>4 DEF Bounded
<1>7. FileRequest(h)
  <2>1. Len(parts) \in Nat
    OBVIOUS
  <2>2. FileKept(h)
    BY <1>1, <1>4 DEF FileKept
  <2>3. QED BY <1>4, <1>5, <1>6, <2>1, <2>2 DEF FileRequest
<1>8. FileOrder(h)
  <2>1. Len(h.sent) = 0 /\ Passed(h) = HeaderLen
    BY <1>1, <1>4 DEF Passed, Unsent
  <2>2. Ordered(h, 0)
    BY <1>4, <2>1 DEF Ordered, Numbers
  <2>3. h.next + Left(h) = FileLen
    BY <1>4 DEF Left, FileLen
  <2>4. QED BY <1>4, <2>1, <2>2, <2>3 DEF FileOrder
<1>9. CASE kind # "mmap" \/ BufferSize - h.end <= Reserve
  <2>1. o.ret = 1 /\ Settle(o) = h
    BY <1>2, <1>9, SMTT(30) DEF Out, Settle
  <2>2. QED BY <1>7, <1>8, <2>1, FileSane DEF o
<1>10. CASE kind = "mmap" /\ ~(BufferSize - h.end <= Reserve)
  <2>1. want = parts[1] /\ parts[1] \in Nat
    BY <1>4
  <2>2. n \in Nat /\ n <= want /\ HeaderLen + n <= BufferSize
    BY <1>1, <1>4, <2>1 DEF Least
  <2>3. o = IF n = want THEN complete_response(p) ELSE Out(1, p)
    BY <1>2, <1>10
  <2> HIDE DEF n
  <2>4. /\ w \in Request /\ SameSource(h, w) /\ w.ranges = h.ranges /\ w.next = h.next + n
        /\ w.status = h.status /\ w.end = h.end + n
        /\ Ordered(w, 0) /\ w.next = 0 + Passed(w)
    <3>1. h.end + n <= BufferSize /\ h.status # "DEAD" /\ Ordered(h, 0) /\ h.next = 0 + Passed(h)
      BY <1>1, <1>4, <1>5, <1>8, <2>2 DEF FileOrder
    <3>2. QED BY <1>4, <1>6, <2>2, <3>1, WrittenIs
  <2> HIDE DEF w
  <2> DEFINE rs == [h.ranges EXCEPT ![1] = h.ranges[1] - n]
  <2>5. rs \in Seq(Nat)
    <3>1. h.ranges[1] - n \in Nat
      BY <2>1, <2>2
    <3>2. QED BY <1>4, <3>1
  <2>6. p = [w EXCEPT !.ranges = rs]
    BY <2>4 DEF Request
  <2> HIDE DEF p, rs
  <2>7. /\ p \in Request /\ p.ranges = rs /\ p.next = w.next /\ p.status = w.status /\ p.end = w.end
        /\ p.buf = w.buf /\ SameSource(w, p)
    BY <2>4, <2>5, <2>6 DEF Request, SameSource
  <2>8. p.start = 0 /\ p.end = HeaderLen + n /\ p.line = 0 /\ p.hend = 0 /\ p.status = st
    BY <1>4, <2>4, <2>7 DEF SameSource
  <2>9. Bounded(p) /\ FileKept(p)
    <3>1. p.open /\ p.next = HeaderLen + n
      BY <1>4, <2>4, <2>7 DEF SameSource
    <3>2. QED BY <1>1, <2>2, <2>8, <3>1 DEF Bounded, FileKept
  <2>10. /\ FileRequest(p) /\ p.ranges[1] = want - n /\ Len(p.ranges) = Len(parts)
         /\ Left(p) = Left(h) - n /\ Left(h) \in Nat
    BY <1>4, <1>7, <2>2, <2>7, <2>8, <2>9, Shorter DEF rs
  <2>11. FileOrder(p)
    <3>1. Ordered(p, 0) /\ Passed(p) = Passed(w)
      BY <2>4, <2>7 DEF Ordered, Passed, Unsent, SameSource
    <3>2. Passed(w) \in Int /\ p.next = HeaderLen + n
      BY <1>4, <2>4, <2>7, FieldTypes, SMTT(30) DEF Passed, Unsent
    <3>3. HeaderLen + Left(h) = FileLen
      BY <1>4, <1>8 DEF FileOrder
    <3>4. p.next + Left(p) = FileLen
      BY <1>1, <2>2, <2>10, <3>2, <3>3
    <3>5. QED BY <2>4, <2>7, <3>1, <3>2, <3>4 DEF FileOrder
  <2>12. CASE n = want
    <3>1. o = complete_response(p) /\ p.ranges[1] = 0
      BY <2>1, <2>3, <2>10, <2>12
    <3>2. \/ p.end + PartLen <= BufferSize
          \/ Len(parts) = 1
          \/ AtTheEdge /\ Len(p.ranges) > 1
      <4> SUFFICES ASSUME p.end + PartLen > BufferSize, Len(parts) # 1
                   PROVE  AtTheEdge /\ Len(p.ranges) > 1
        BY <1>1, <2>2, <2>8
      <4>1. Len(parts) \in Nat /\ Len(parts) > 1
        <5>1. PICK ps \in Seq(Nat) : ps = parts /\ ps # <<>>
          OBVIOUS
        <5>2. Len(ps) \in Nat \ {0}
          BY <5>1, EmptySeq
        <5>3. Len(ps) # 1 /\ Len(ps) = Len(parts)
          BY <5>1
        <5>4. QED BY <5>2, <5>3
      <4>2. parts[1] \in BufferSize - HeaderLen - PartLen + 1 .. BufferSize - HeaderLen
        BY <1>1, <2>1, <2>2, <2>8, <2>12
      <4>3. QED BY <1>10, <2>10, <4>1, <4>2 DEF AtTheEdge
    <3>3. QED BY <1>10, <2>10, <2>11, <3>1, <3>2, CompleteKeeps DEF o
  <2>13. CASE n # want
    <3>1. o.ret = 1 /\ Settle(o) = p
      BY <2>3, <2>13 DEF Out, Settle
    <3>2. QED BY <2>10, <2>11, <3>1, FileSane DEF o
  <2>14. QED BY <2>12, <2>13
<1>11. QED BY <1>9, <1>10
-----------------------------------------------------------------------------
(* A CGI's or a listing's request in a pipe state, after its header.       *)
LEMMA PipeKinds ==
    ASSUME NEW x, Sane(x), x.status \in PipeStates
    PROVE  /\ kind \notin FileKinds /\ kind # "gunzip"
           /\ PipeStates \subseteq Statuses /\ "DONE" \in Statuses /\ "DEAD" \notin Statuses
           /\ kind \in Kinds => kind \in CgiKinds \cup {"listing"}
<1>1. x.status \in Statuses /\ kind \notin FileKinds /\ kind # "gunzip"
  BY KindOf DEF Sane, PipeStates
<1>2. Statuses = PipeStates \cup {"DONE"}
  BY <1>1 DEF Statuses, FileKinds
<1>3. QED BY <1>1, <1>2 DEF PipeStates, Kinds

(* init_cgi: the pipe of a CGI or of a listing. *)
LEMMA InitCgiKeeps ==
    ASSUME NEW x, x \in Request, Bounded(x), kind \in CgiKinds \cup {"listing"}, x.next = HeaderLen,
           x.status # "DEAD", x.pipe = 0, x.output = OutputLen,
           kind \in CgiKinds => x.start = 0 /\ x.end = 0 /\ x.sent = <<>> /\ x.head \in CgiHeaders,
           kind = "listing" => Ordered(x, 0) /\ Passed(x) = HeaderLen
    PROVE  /\ init_cgi(x).ret = 1
           /\ Sane(Settle(init_cgi(x))) /\ Stream(Settle(init_cgi(x)), 0)
<1> DEFINE at == IF kind = "listing" THEN 0 ELSE Middle
           st == IF kind = "listing" THEN "BUFFER" ELSE "PARSE"
           y == [x EXCEPT !.status = "PIPE_READ", !.line = at, !.hend = at, !.cgi = st]
           o == init_cgi(x)
<1>1. o.ret = 1 /\ o.q = y /\ Settle(o) = y
  BY DEF init_cgi, Out, Middle, Settle
<1>2. /\ Middle \in Nat /\ Middle <= BufferSize /\ BufferSize \in Nat /\ HeaderLen \in Nat \ {0}
      /\ OutputLen \in Nat /\ Middle # 0
  BY Sizes
<1>3. at \in Nat /\ at <= BufferSize
  BY <1>2
<1>4. /\ y \in Request /\ y.status = "PIPE_READ" /\ y.line = at /\ y.hend = at /\ y.cgi = st
      /\ y.start = x.start /\ y.end = x.end /\ y.next = HeaderLen /\ y.pipe = 0 /\ y.output = OutputLen
      /\ y.buf = x.buf /\ y.sent = x.sent /\ y.head = x.head
  BY <1>3, ZenonT(60) DEF Request
<1> HIDE DEF y, o
<1>5. Bounded(y)
  BY <1>2, <1>3, <1>4 DEF Bounded
<1>6. kind \notin FileKinds /\ kind # "gunzip" /\ "PIPE_READ" \in Statuses
      /\ (kind \notin CgiKinds <=> kind = "listing")
  BY KindOf DEF FileKinds, CgiKinds, PipeStates
<1>7. Held(y) = 0
  BY <1>3, <1>4 DEF Held
<1>8. Sane(y)
  <2>1. y.status \in PipeStates /\ y.cgi = "PARSE" =>
          /\ kind \in CgiKinds /\ y.status = "PIPE_READ"
          /\ y.start = 0 /\ y.end = 0 /\ y.line = Middle /\ y.next = HeaderLen + Held(y)
    BY <1>2, <1>4, <1>6, <1>7
  <2>2. y.next + y.pipe + y.output = HeaderLen + OutputLen
    BY <1>2, <1>4
  <2>3. QED BY <1>4, <1>5, <1>6, <2>1, <2>2 DEF Sane, FileStates
<1>9. Stream(y, 0)
  <2>1. 0 \in Bases(y)
    BY DEF Bases
  <2>2. Numbers(y.sent, 0) /\ Run(y.buf, y.start, y.end, 0 + Len(y.sent))
    <3>1. CASE kind = "listing"
      BY <1>4, <3>1 DEF Ordered
    <3>2. CASE kind # "listing"
      BY <1>4, <1>6, <3>2 DEF Numbers, Run
    <3>3. QED BY <3>1, <3>2
  <2>3. Passed(y) = Passed(x)
    BY <1>4 DEF Passed, Unsent
  <2>4. ASSUME kind # "listing"
        PROVE  Passed(y) = 0 /\ Run(y.buf, y.line, y.hend, HeaderLen)
    BY <1>3, <1>4, <1>6, <2>4 DEF Passed, Unsent, Run
  <2>5. ASSUME kind = "listing" PROVE Piped(y, 0)
    <3>1. Run(y.buf, y.line, y.hend, 0 + Passed(y))
      BY <1>4, <2>5 DEF Run
    <3>2. y.next = 0 + Passed(y) + Held(y)
      BY <1>2, <1>4, <1>7, <2>3, <2>5
    <3>3. y.hend # BufferSize + 1
      BY <1>2, <1>3, <1>4
    <3>4. QED BY <1>4, <2>5, <3>1, <3>2, <3>3 DEF Piped
  <2>6. Phase(y, 0)
    BY <1>4, <2>4, <2>5 DEF Phase, FileStates, PipeStates
  <2>7. QED BY <2>1, <2>2, <2>6 DEF Stream
<1>10. QED BY <1>1, <1>8, <1>9 DEF o

(* get_dir: the header is flushed, then a listing comes through a pipe; a  *)
(* file that is unpacked has only its header here.                         *)
LEMMA GetDirKeeps ==
    ASSUME kind \in {"listing", "gunzip"}, NEW x, Fresh(x)
    PROVE  /\ get_dir(x).ret \in {0, 1}
           /\ Sane(Settle(get_dir(x)))
           /\ ~(kind = "gunzip" /\ get_dir(x).q.end # 0) => Stream(Settle(get_dir(x)), 0)
<1> DEFINE g == [Header(x) EXCEPT !.next = HeaderLen]
           h == req_flush(g).q
           o == get_dir(x)
<1>1. /\ HeaderLen \in Nat \ {0} /\ BufferSize \in Nat /\ HeaderLen <= BufferSize /\ x \in Request
      /\ OutputLen \in Nat /\ kind \notin FileKinds /\ kind \notin CgiKinds /\ Reserve \in Nat
  BY Sizes DEF Fresh, FileKinds, CgiKinds
<1>2. o = IF kind = "listing" THEN init_cgi(h) ELSE Out(0, h)
  BY DEF get_dir
<1>3. /\ Header(x) \in Request /\ SameSource(x, Header(x)) /\ Header(x).status = "WRITE"
      /\ Header(x).end = HeaderLen /\ Run(Header(x).buf, 0, HeaderLen, 0)
  BY HeaderIs DEF Fresh
<1>4. /\ g \in Request /\ g.status = "WRITE" /\ g.next = HeaderLen /\ g.end = HeaderLen
      /\ g.start = 0 /\ g.line = 0 /\ g.hend = 0 /\ g.sent = <<>> /\ Run(g.buf, 0, HeaderLen, 0)
      /\ g.pipe = 0 /\ g.output = OutputLen
  BY <1>1, <1>3, ZenonT(60) DEF Request, SameSource, Fresh
<1> HIDE DEF g, o
<1>5. Bounded(g)
  BY <1>1, <1>4 DEF Bounded
<1>6. PICK k : Flushed(g, h, k)
  BY <1>4, <1>5, FlushIs
<1>7. h.start < h.end \/ (h.start = 0 /\ h.end = 0)
  BY <1>4, <1>5, FlushIs
<1> HIDE DEF h
<1>8. /\ h \in Request /\ h.status = "WRITE" /\ h.next = HeaderLen /\ h.pipe = 0 /\ h.output = OutputLen
      /\ h.line = 0 /\ h.hend = 0 /\ h.buf = g.buf /\ k \in Nat /\ k <= HeaderLen
      /\ Len(h.sent) = k /\ h.sent \in Seq(Nat)
      /\ Took(g, h, Cut(g.buf, g.start, g.end), k)
      /\ \/ h.start = 0 /\ h.end = 0 /\ k = HeaderLen
         \/ h.start = k /\ h.end = HeaderLen
  BY <1>1, <1>4, <1>6 DEF Flushed, SameStore, Took, Unsent
<1>9. Bounded(h) /\ Passed(h) = HeaderLen
  BY <1>1, <1>8 DEF Bounded, Passed, Unsent
<1>10. Ordered(h, 0)
  <2>1. /\ Cut(g.buf, g.start, g.end) \in Seq(Nat) /\ Len(Cut(g.buf, g.start, g.end)) = HeaderLen
        /\ Numbers(Cut(g.buf, g.start, g.end), 0)
    BY <1>1, <1>4, <1>5, UnsentBytes DEF Unsent
  <2>2. Numbers(g.sent, 0) /\ 0 + Len(g.sent) = 0 /\ g.sent \in Seq(Nat)
    BY <1>4 DEF Numbers
  <2>3. Numbers(h.sent, 0)
    BY <1>1, <1>8, <2>1, <2>2, Continues
  <2>4. Run(h.buf, h.start, h.end, 0 + Len(h.sent))
    <3>1. CASE h.start = 0 /\ h.end = 0
      BY <3>1 DEF Run
    <3>2. CASE h.start = k /\ h.end = HeaderLen
      <4>1. k = 0 + k
        BY <1>8
      <4>2. Run(g.buf, k, HeaderLen, 0 + k)
        BY <1>1, <1>4, <1>8, <4>1, RunFrom
      <4>3. QED BY <1>8, <3>2, <4>2
    <3>3. QED BY <1>8, <3>1, <3>2
  <2>5. QED BY <2>3, <2>4 DEF Ordered
<1>11. CASE kind = "listing"
  BY <1>1, <1>2, <1>8, <1>9, <1>10, <1>11, InitCgiKeeps DEF o
<1>12. CASE kind = "gunzip"
  <2> DEFINE y == [h EXCEPT !.status = "DONE"]
  <2>1. o.ret = 0 /\ o.q = h /\ Settle(o) = y
    BY <1>2, <1>8, <1>12 DEF Out, Settle
  <2>2. /\ y \in Request /\ y.status = "DONE" /\ y.next = HeaderLen /\ y.pipe = 0 /\ y.output = OutputLen
        /\ y.line = 0 /\ y.hend = 0 /\ y.buf = h.buf /\ y.start = h.start /\ y.end = h.end
        /\ y.sent = h.sent
    BY <1>8 DEF Request
  <2> HIDE DEF y
  <2>3. Bounded(y)
    BY <1>8, <1>9, <2>2 DEF Bounded
  <2>4. "DONE" \in Statuses
    BY <1>12, KindOf
  <2>5. Sane(y)
    BY <1>1, <2>2, <2>3, <2>4 DEF Sane, FileStates, PipeStates
  <2>6. ASSUME h.end = 0 PROVE Stream(y, 0)
    <3>1. y.start = 0 /\ y.end = 0 /\ Passed(y) = HeaderLen
      BY <1>1, <1>8, <1>9, <2>2, <2>6 DEF Passed, Unsent
    <3>2. 0 \in Bases(y)
      BY DEF Bases
    <3>3. Finished(y, 0)
      BY <1>1, <1>12, <2>2, <3>1 DEF Finished
    <3>4. Phase(y, 0)
      BY <2>2, <3>3 DEF Phase, FileStates, PipeStates
    <3>5. QED BY <1>10, <2>2, <3>2, <3>4 DEF Stream, Ordered
  <2>7. QED BY <1>12, <2>1, <2>5, <2>6 DEF o
<1>13. QED BY <1>11, <1>12
-----------------------------------------------------------------------------
(* The header of a CGI has been read into the second half of the buffer:   *)
(* all of it, or as much as fits there.                                    *)
AtHeader(x) ==
    /\ x \in Request /\ kind \in CgiKinds /\ x.head \in CgiHeaders
    /\ x.status \in PipeStates /\ x.cgi # "PARSE"
    /\ x.start = 0 /\ x.end = 0 /\ x.line = Middle /\ x.line <= x.hend /\ x.hend <= BufferSize + 1
    /\ x.next = HeaderLen + Held(x) /\ x.next + x.pipe + x.output = HeaderLen + OutputLen
    /\ x.status = "PIPE_WRITE" => x.pipe = 0 /\ x.output = 0
    /\ Held(x) >= x.head \/ x.head > Half
HeaderOrder(x) == x.sent = <<>> /\ Run(x.buf, x.line, x.hend, HeaderLen)

(* What process_cgi_header leaves of a request. *)
SamePipe(x, y) == /\ y.head = x.head /\ y.pipe = x.pipe /\ y.output = x.output /\ y.next = x.next

(* A CGI's request is DONE. *)
LEMMA CgiDone ==
    ASSUME NEW x \in Request, NEW y \in Request, Bounded(y), AtHeader(x), SamePipe(x, y), y.status = "DONE"
    PROVE  /\ Sane(y)
           /\ Ordered(y, 0) /\ Finished(y, 0) => Stream(y, 0)
<1>1. kind \in CgiKinds /\ kind \notin FileKinds /\ "DONE" \in Statuses
  BY KindOf DEF AtHeader, CgiKinds, FileKinds
<1>2. Sane(y)
  BY <1>1 DEF Sane, AtHeader, SamePipe, FileStates, PipeStates
<1>3. ASSUME Ordered(y, 0), Finished(y, 0) PROVE Stream(y, 0)
  <2>1. 0 \in Bases(y)
    BY DEF Bases
  <2>2. Phase(y, 0)
    BY <1>3 DEF Phase, FileStates, PipeStates
  <2>3. QED BY <1>3, <2>1, <2>2 DEF Stream, Ordered
<1>4. QED BY <1>2, <1>3

(* A CGI's request goes on with its pipe. *)
LEMMA CgiPiped ==
    ASSUME NEW x, NEW y \in Request, Bounded(y), AtHeader(x), SamePipe(x, y),
           y.status = x.status, y.cgi # "PARSE"
    PROVE  /\ Sane(y)
           /\ \A b \in Bases(y) : Ordered(y, b) /\ Piped(y, b) => Stream(y, b)
<1>1. /\ kind \in CgiKinds /\ kind \notin FileKinds /\ x.status \in Statuses /\ x.status \in PipeStates
      /\ x.status # "DONE" /\ x.status # "DEAD" /\ x.status \notin FileStates
  BY KindOf DEF AtHeader, CgiKinds, FileKinds, PipeStates, FileStates
<1>2. Sane(y)
  BY <1>1 DEF Sane, AtHeader, SamePipe
<1>3. ASSUME NEW b \in Bases(y), Ordered(y, b), Piped(y, b) PROVE Stream(y, b)
  <2>1. Phase(y, b)
    BY <1>1, <1>3 DEF Phase
  <2>2. QED BY <1>3, <2>1 DEF Stream, Ordered
<1>4. QED BY <1>2, <1>3

(* An error page in the place of what the CGI sent. *)
LEMMA ErrorPageIs ==
    ASSUME NEW x \in Request, x.status # "DEAD", x.start = 0, x.end = 0, x.line <= x.hend,
           x.hend <= BufferSize + 1
    PROVE  /\ ErrorPage(x) \in Request /\ Bounded(ErrorPage(x)) /\ SamePipe(x, ErrorPage(x))
           /\ ErrorPage(x).status = x.status /\ ErrorPage(x).cgi = x.cgi
           /\ x.sent = <<>> => Ordered(ErrorPage(x), 0) /\ Passed(ErrorPage(x)) = HeaderLen
<1> DEFINE p == [x EXCEPT !.start = 0, !.end = 0]
           h == Header(p)
           y == req_flush(h).q
<1>1. ErrorPage(x) = y
  BY DEF ErrorPage
<1>2. p = x
  BY DEF Request
<1>3. /\ h \in Request /\ SameSource(x, h) /\ h.status = x.status /\ h.next = x.next
      /\ h.end = HeaderLen /\ Run(h.buf, 0, HeaderLen, 0) /\ h.start = 0
  BY <1>2, HeaderIs DEF SameSource
<1> HIDE DEF h
<1>4. HeaderLen \in Nat /\ BufferSize \in Nat /\ HeaderLen <= BufferSize /\ Reserve \in Nat
  BY Sizes
<1>5. Bounded(h)
  BY <1>3, <1>4 DEF Bounded, SameSource
<1>6. PICK k : Flushed(h, y, k)
  BY <1>3, <1>5, FlushIs
<1> HIDE DEF y
<1>7. /\ y \in Request /\ Bounded(y) /\ Passed(y) = Passed(h) /\ y.status = h.status /\ SameStore(h, y)
      /\ Ordered(h, 0) => Ordered(y, 0)
  BY <1>3, <1>5, <1>6, FlushedOrder
<1>8. SamePipe(x, y) /\ y.status = x.status /\ y.cgi = x.cgi
  BY <1>3, <1>7 DEF SamePipe, SameStore, SameSource
<1>9. ASSUME x.sent = <<>> PROVE Ordered(h, 0) /\ Passed(h) = HeaderLen
  <2>1. h.sent = <<>> /\ Len(h.sent) = 0
    BY <1>3, <1>9 DEF SameSource
  <2>2. QED BY <1>3, <1>4, <2>1 DEF Ordered, Numbers, Passed, Unsent
<1>10. QED BY <1>1, <1>7, <1>8, <1>9

(* The header of a response and the CGI's data moved behind it.            *)
Moved(x) ==
    LET h == Header(x)
        data == Cut(x.buf, x.line, x.hend)
    IN  [h EXCEPT !.buf = Put(@, h.end, data), !.end = @ + Len(data),
                  !.line = h.end + Len(data), !.hend = h.end + Len(data)]

(* y is the request x with HeaderLen + Held(x) bytes behind its buffer.    *)
IsMoved(x, y) ==
    /\ y \in Request /\ Bounded(y) /\ SamePipe(x, y) /\ y.status = x.status /\ y.cgi = x.cgi
    /\ y.line = y.hend /\ y.hend <= BufferSize
    /\ HeaderOrder(x) => Ordered(y, 0) /\ Passed(y) = HeaderLen + Held(x)

(* What is moved fits.                                                     *)
LEMMA MovedIs ==
    ASSUME NEW x \in Request, x.status # "DEAD", x.start = 0, x.end = 0,
           x.line = Middle, x.line <= x.hend, x.hend <= BufferSize + 1
    PROVE  ~(Header(x).end + Len(Cut(x.buf, x.line, x.hend)) > BufferSize) /\ IsMoved(x, Moved(x))
<1> DEFINE h == Header(x)
           data == Cut(x.buf, x.line, x.hend)
           y == Moved(x)
<1>0. y = [h EXCEPT !.buf = Put(@, h.end, data), !.end = @ + Len(data),
                    !.line = h.end + Len(data), !.hend = h.end + Len(data)]
  BY DEF Moved
<1> HIDE DEF y
<1>1. /\ BufferSize \in Nat /\ HeaderLen \in Nat /\ HeaderLen < Middle /\ Middle \in Nat
      /\ x.hend \in Nat
  BY Sizes, FieldTypes
<1>2. Bounded(x)
  BY <1>1 DEF Bounded
<1>3. PICK n \in Nat : n = Held(x) /\ n = x.hend - Middle
  BY <1>2, HeldBytes DEF Held
<1>4. data \in Seq(Nat) /\ Len(data) = n /\ (Run(x.buf, x.line, x.hend, HeaderLen) => Numbers(data, HeaderLen))
  BY <1>1, <1>2, <1>3, HeldBytes
<1>5. /\ h \in Request /\ SameSource(x, h) /\ h.status = x.status /\ h.next = x.next
      /\ h.end = HeaderLen /\ Run(h.buf, 0, HeaderLen, 0) /\ h.buf \in [Slots -> Nat]
      /\ h.start = 0 /\ h.cgi = x.cgi
  BY HeaderIs, FieldTypes DEF SameSource
<1>6. PICK e \in Nat : e = HeaderLen + n /\ e = h.end + Len(data) /\ e <= BufferSize
  <2>1. HeaderLen + n \in Nat /\ HeaderLen + n <= BufferSize
    BY <1>1, <1>3
  <2>2. QED BY <1>4, <1>5, <2>1
<1> DEFINE w == Put(h.buf, HeaderLen, data)
<1>7. w \in [Slots -> Nat]
  BY <1>1, <1>4, <1>5, PutIs, Zenon
<1>8. y = [h EXCEPT !.buf = w, !.end = e, !.line = e, !.hend = e]
  <2>1. y = [h EXCEPT !.buf = Put(h.buf, h.end, data), !.end = h.end + Len(data),
                      !.line = h.end + Len(data), !.hend = h.end + Len(data)]
    BY <1>0, <1>5 DEF Request
  <2> HIDE DEF h, data
  <2>2. QED BY <1>5, <1>6, <2>1
<1> HIDE DEF h, data
<1>9. /\ y \in Request /\ y.buf = w /\ y.end = e /\ y.line = e /\ y.hend = e
      /\ y.start = 0 /\ y.sent = x.sent /\ SamePipe(x, y) /\ y.status = x.status /\ y.cgi = x.cgi
  <2> HIDE DEF w
  <2>1. y \in Request
    BY <1>5, <1>7, <1>8 DEF Request
  <2>2. /\ y.buf = w /\ y.end = e /\ y.line = e /\ y.hend = e /\ y.start = h.start /\ y.sent = h.sent
        /\ SamePipe(h, y) /\ y.status = h.status /\ y.cgi = h.cgi
    BY <1>5, <1>8 DEF Request, SamePipe
  <2>3. QED BY <1>5, <2>1, <2>2 DEF SamePipe, SameSource
<1>10. Bounded(y) /\ y.hend <= BufferSize
  BY <1>1, <1>6, <1>9 DEF Bounded
<1>11. ASSUME HeaderOrder(x) PROVE Ordered(y, 0) /\ Passed(y) = HeaderLen + Held(x)
  <2>1. y.sent = <<>> /\ Len(y.sent) = 0 /\ Numbers(data, HeaderLen)
    BY <1>4, <1>9, <1>11 DEF HeaderOrder
  <2>2. 0 + (HeaderLen - 0) = HeaderLen /\ HeaderLen + Len(data) <= BufferSize + 2
        /\ HeaderLen + Len(data) = e
    BY <1>1, <1>4, <1>6
  <2>3. Run(w, 0, HeaderLen + Len(data), 0)
    <3>1. PICK buf \in [Slots -> Nat], z \in Nat :
             buf = h.buf /\ z = 0 /\ z <= HeaderLen /\ z + (HeaderLen - z) = HeaderLen
      BY <1>1, <1>5
    <3>2. Run(buf, z, HeaderLen, z) /\ Numbers(data, z + (HeaderLen - z))
      BY <1>5, <2>1, <3>1
    <3>3. Run(Put(buf, HeaderLen, data), z, HeaderLen + Len(data), z)
      BY <1>1, <1>4, <2>2, <3>1, <3>2, PutRun
    <3>4. QED BY <3>1, <3>3
  <2>4. Run(w, 0, e, 0)
    BY <2>2, <2>3
  <2>5. Ordered(y, 0)
    BY <1>9, <2>1, <2>4 DEF Ordered, Numbers
  <2>6. Passed(y) = e
    BY <1>6, <1>9, <2>1 DEF Passed, Unsent
  <2>7. QED BY <1>3, <1>6, <2>5, <2>6
<1>12. IsMoved(x, y)
  BY <1>9, <1>10, <1>11 DEF IsMoved
<1>13. ~(h.end + Len(data) > BufferSize)
  BY <1>1, <1>6
<1>14. QED BY <1>12, <1>13 DEF h, data, y

(* A CGI whose output is sent as it is: from the last byte of its header   *)
(* on (HTTP/0.9), or with one byte before it, which completes its own      *)
(* status line.                                                            *)
LEMMA RestKeeps ==
    ASSUME NEW x, AtHeader(x), Held(x) >= x.head
    PROVE  /\ kind = "http09" =>
                 LET y == [x EXCEPT !.line = x.line + x.head - 1]
                 IN  Sane(y) /\ (HeaderOrder(x) => Stream(y, HeaderLen + x.head - 1))
           /\ kind = "status" =>
                 LET y == [x EXCEPT !.line = @ - 1, !.buf = Put(@, x.line - 1, <<HeaderLen>>)]
                 IN  Sane(y) /\ (HeaderOrder(x) => Stream(y, HeaderLen - 1))
<1>1. /\ x \in Request /\ x.start = 0 /\ x.end = 0 /\ x.line = Middle /\ x.hend <= BufferSize + 1
      /\ x.status \in PipeStates /\ x.status # "DEAD" /\ x.cgi # "PARSE"
      /\ x.next = HeaderLen + Held(x)
  BY DEF AtHeader, PipeStates
<1>2. PICK m \in Nat, hd \in Nat, e \in Nat, n \in Nat :
         /\ m = Middle /\ hd = x.head /\ e = x.hend /\ n = HeaderLen
         /\ m >= 1 /\ n >= 1 /\ hd >= 1 /\ m + hd <= e /\ x.next = n + (e - m) /\ BufferSize \in Nat
  <2>1. x.head \in Nat /\ x.head >= 1 /\ Middle \in Nat /\ HeaderLen \in Nat \ {0} /\ x.hend \in Nat
        /\ HeaderLen < Middle /\ BufferSize \in Nat
    BY <1>1, Sizes, FieldTypes DEF AtHeader
  <2>2. Held(x) = x.hend - Middle /\ Held(x) >= x.head
    BY <1>1 DEF Held
  <2>3. PICK m \in Nat, hd \in Nat, e \in Nat, n \in Nat :
           m = Middle /\ hd = x.head /\ e = x.hend /\ n = HeaderLen
    BY <2>1
  <2>4. n < m /\ hd >= 1 /\ n >= 1 /\ e - m >= hd /\ x.next = n + (e - m) /\ BufferSize \in Nat
    BY <1>1, <2>1, <2>2, <2>3
  <2>5. m >= 1 /\ m + hd <= e
    BY ONLY <2>3, <2>4
  <2>6. QED BY <2>3, <2>4, <2>5
<1>3. x.buf \in [Slots -> Nat]
  BY <1>1, FieldTypes
<1>4. ASSUME kind = "http09", NEW y, y = [x EXCEPT !.line = x.line + x.head - 1]
      PROVE  Sane(y) /\ (HeaderOrder(x) => Stream(y, HeaderLen + x.head - 1))
  <2> DEFINE l == m + hd - 1
             b == n + hd - 1
  <2>1. l \in Nat /\ b \in Nat /\ l < e /\ l = m + (hd - 1) /\ b = n + (hd - 1) /\ hd - 1 \in Nat
    BY ONLY <1>2
  <2>2. y = [x EXCEPT !.line = l]
    BY <1>1, <1>2, <1>4
  <2> HIDE DEF l
  <2>3. /\ y \in Request /\ y.line = l /\ y.hend = e /\ y.start = 0 /\ y.end = 0 /\ y.buf = x.buf
        /\ y.sent = x.sent /\ y.status = x.status /\ y.cgi = x.cgi /\ SamePipe(x, y)
    BY <1>1, <1>2, <2>1, <2>2 DEF Request, SamePipe
  <2>4. Bounded(y)
    BY <1>1, <1>2, <2>1, <2>3 DEF Bounded
  <2>5. Sane(y)
    BY <1>1, <2>3, <2>4, CgiPiped
  <2>6. ASSUME HeaderOrder(x) PROVE Stream(y, b)
    <3>1. y.sent = <<>> /\ Len(y.sent) = 0 /\ Passed(y) = 0 /\ Run(x.buf, m, e, n)
      BY <1>1, <1>2, <2>3, <2>6 DEF HeaderOrder, Passed, Unsent
    <3>2. b \in Bases(y)
      BY <1>2, <1>4, <2>3 DEF Bases, SamePipe
    <3> HIDE DEF b
    <3>3. Ordered(y, b)
      BY <2>3, <3>1 DEF Ordered, Numbers, Run
    <3>4. Run(x.buf, l, e, b)
      <4>1. Run(x.buf, l, e, n + (hd - 1))
        BY <2>1, <3>1, RunFrom
      <4>2. QED BY <2>1, <4>1 DEF b
    <3>5. b + Passed(y) = b /\ y.next = b + Passed(y) + Held(y)
      <4>1. y.next = n + (e - m) /\ Held(y) = e - l /\ Passed(y) = 0 /\ b = n + (hd - 1)
        BY <1>2, <2>1, <2>3, <3>1 DEF Held, SamePipe
      <4>2. b \in Nat /\ n + (e - m) = b + 0 + (e - l)
        BY ONLY <1>2, <2>1, <4>1
      <4>3. QED BY <4>1, <4>2
    <3>6. Piped(y, b)
      BY <1>4, <2>1, <2>3, <3>4, <3>5 DEF Piped
    <3>7. QED BY <1>1, <2>3, <2>4, <3>2, <3>3, <3>6, CgiPiped
  <2>7. QED BY <1>2, <2>5, <2>6
<1>5. ASSUME kind = "status", NEW y,
             y = [x EXCEPT !.line = @ - 1, !.buf = Put(@, x.line - 1, <<HeaderLen>>)]
      PROVE  Sane(y) /\ (HeaderOrder(x) => Stream(y, HeaderLen - 1))
  <2> DEFINE l == m - 1
             b == n - 1
             w == Put(x.buf, l, <<n>>)
  <2>1. l \in Nat /\ b \in Nat /\ l < e /\ l + 1 = m
    BY ONLY <1>2
  <2>2. y = [x EXCEPT !.line = l, !.buf = w]
    BY <1>1, <1>2, <1>5 DEF Request
  <2>3. <<n>> \in Seq(Nat) /\ Len(<<n>>) = 1 /\ <<n>>[1] = n
    BY <1>2
  <2>4. w \in [Slots -> Nat]
    BY <1>3, <2>1, <2>3, PutIs
  <2> HIDE DEF l, w
  <2>5. /\ y \in Request /\ y.line = l /\ y.hend = e /\ y.start = 0 /\ y.end = 0 /\ y.buf = w
        /\ y.sent = x.sent /\ y.status = x.status /\ y.cgi = x.cgi /\ SamePipe(x, y)
    BY <1>1, <1>2, <2>1, <2>2, <2>4 DEF Request, SamePipe
  <2>6. Bounded(y)
    BY <1>1, <1>2, <2>1, <2>5 DEF Bounded
  <2>7. Sane(y)
    BY <1>1, <2>5, <2>6, CgiPiped
  <2>8. ASSUME HeaderOrder(x) PROVE Stream(y, b)
    <3>1. y.sent = <<>> /\ Len(y.sent) = 0 /\ Passed(y) = 0 /\ Run(x.buf, m, e, n)
      BY <1>1, <1>2, <2>5, <2>8 DEF HeaderOrder, Passed, Unsent
    <3>2. b \in Bases(y)
      BY <1>2, <1>5 DEF Bases
    <3> HIDE DEF b
    <3>3. Ordered(y, b)
      BY <2>5, <3>1 DEF Ordered, Numbers, Run
    <3>4. Run(w, l, e, b)
      <4>1. e <= BufferSize + 2 /\ l + Len(<<n>>) <= m
        BY <1>1, <1>2, <2>1, <2>3
      <4>2. Run(w, m, e, n)
        BY <1>2, <1>3, <2>1, <2>3, <3>1, <4>1, PutElsewhere DEF w
      <4>3. l \in Slots /\ w[l] = n
        <5>1. l \in Slots /\ l >= l /\ l < l + Len(<<n>>) /\ l - l + 1 = 1
          BY <1>1, <1>2, <2>1, <2>3 DEF Slots
        <5>2. w[l] = <<n>>[l - l + 1]
          BY <1>3, <2>1, <2>3, <5>1, PutIs, ZenonT(60) DEF w
        <5>3. QED BY <2>3, <5>1, <5>2
      <4> SUFFICES ASSUME NEW i \in l .. e - 1 PROVE w[i] = b + (i - l) + 1
        BY DEF Run
      <4>4. CASE i = l
        BY <1>2, <2>1, <4>3, <4>4 DEF b
      <4>5. CASE i # l
        <5>1. i \in m .. e - 1 /\ n + (i - m) + 1 = b + (i - l) + 1
          BY <1>2, <2>1, <4>5 DEF b
        <5>2. w[i] = n + (i - m) + 1
          BY <4>2, <5>1 DEF Run
        <5>3. QED BY <5>1, <5>2
      <4>6. QED BY <4>4, <4>5
    <3>5. b + Passed(y) = b /\ y.next = b + Passed(y) + Held(y)
      BY <1>2, <2>1, <2>5, <3>1, SMTT(30) DEF Held, SamePipe, b
    <3>6. Piped(y, b)
      BY <1>5, <2>1, <2>5, <3>4, <3>5 DEF Piped
    <3>7. QED BY <1>1, <2>5, <2>6, <3>2, <3>3, <3>6, CgiPiped
  <2>9. QED BY <1>2, <2>7, <2>8
<1>6. QED BY <1>4, <1>5

(* An error page, or the answer to a redirect, ends a CGI's response.      *)
LEMMA ErrorDone ==
    ASSUME NEW x, AtHeader(x), NEW y, y = [ErrorPage(x) EXCEPT !.status = "DONE"]
    PROVE  /\ Sane(y)
           /\ HeaderOrder(x) /\ (x.head > Half \/ kind = "redirect") => Stream(y, 0)
<1> DEFINE z == ErrorPage(x)
<1>1. /\ x \in Request /\ x.start = 0 /\ x.end = 0 /\ x.line <= x.hend /\ x.hend <= BufferSize + 1
      /\ x.status # "DEAD" /\ kind \in CgiKinds
  BY DEF AtHeader, PipeStates
<1>2. /\ z \in Request /\ Bounded(z) /\ SamePipe(x, z) /\ z.status = x.status
      /\ x.sent = <<>> => Ordered(z, 0) /\ Passed(z) = HeaderLen
  BY <1>1, ErrorPageIs
<1> HIDE DEF z
<1>3. /\ y \in Request /\ y.status = "DONE" /\ y.start = z.start /\ y.end = z.end /\ y.line = z.line
      /\ y.hend = z.hend /\ y.buf = z.buf /\ y.sent = z.sent /\ SamePipe(x, y) /\ y.head = x.head
  BY <1>2 DEF Request, SamePipe, z
<1>4. Bounded(y)
  BY <1>1, <1>2, <1>3 DEF Bounded
<1>5. Sane(y) /\ (Ordered(y, 0) /\ Finished(y, 0) => Stream(y, 0))
  BY <1>1, <1>3, <1>4, CgiDone
<1>6. ASSUME HeaderOrder(x), x.head > Half \/ kind = "redirect" PROVE Ordered(y, 0) /\ Finished(y, 0)
  <2>1. Ordered(y, 0)
    BY <1>2, <1>3, <1>6 DEF HeaderOrder, Ordered
  <2>2. Passed(y) = HeaderLen
    BY <1>2, <1>3, <1>6 DEF HeaderOrder, Passed, Unsent
  <2>3. kind # "redirect" => IsError(y, 0)
    BY <1>1, <1>3, <1>6, <2>2 DEF IsError
  <2>4. Finished(y, 0)
    BY <1>1, <2>2, <2>3 DEF Finished, CgiKinds, FileKinds
  <2>5. QED BY <2>1, <2>4
<1>7. QED BY <1>5, <1>6

(* The header and what was moved behind it are flushed.                    *)
LEMMA MovedFlushed ==
    ASSUME NEW x \in Request, x.status # "DEAD", x.start = 0, x.end = 0,
           x.line = Middle, x.line <= x.hend, x.hend <= BufferSize + 1
    PROVE  /\ ~(Header(x).end + Len(Cut(x.buf, x.line, x.hend)) > BufferSize)
           /\ IsMoved(x, req_flush(Moved(x)).q)
<1> DEFINE m == Moved(x)
           y == req_flush(m).q
<1>1. ~(Header(x).end + Len(Cut(x.buf, x.line, x.hend)) > BufferSize) /\ IsMoved(x, m)
  BY MovedIs
<1> HIDE DEF m
<1>2. PICK k : Flushed(m, y, k)
  BY <1>1, FlushIs DEF IsMoved
<1> HIDE DEF y
<1>3. /\ y \in Request /\ Bounded(y) /\ Passed(y) = Passed(m) /\ y.status = m.status /\ SameStore(m, y)
      /\ Ordered(m, 0) => Ordered(y, 0)
  BY <1>1, <1>2, FlushedOrder DEF IsMoved
<1>4. /\ SamePipe(x, y) /\ y.cgi = x.cgi /\ y.line = y.hend /\ y.hend <= BufferSize
  BY <1>1, <1>3 DEF SamePipe, SameStore, IsMoved
<1>5. IsMoved(x, y)
  BY <1>1, <1>3, <1>4 DEF IsMoved
<1>6. QED BY <1>1, <1>5 DEF y, m

(* process_cgi_header: whatever the header says, the request is DONE or    *)
(* goes on with its pipe.                                                  *)
LEMMA ProcessHeaderKeeps ==
    ASSUME NEW x, AtHeader(x)
    PROVE  /\ process_cgi_header(x).ret \in {0, 1}
           /\ Sane(Settle(process_cgi_header(x)))
           /\ HeaderOrder(x) => \E b : Stream(Settle(process_cgi_header(x)), b)
<1> DEFINE o == process_cgi_header(x)
           last == x.line + x.head - 1
           p == [x EXCEPT !.hend = last, !.cgi = "DONE"]
<1>1. /\ x \in Request /\ x.start = 0 /\ x.end = 0 /\ x.line = Middle /\ x.line <= x.hend
      /\ x.hend <= BufferSize + 1 /\ x.status \in PipeStates /\ x.status # "DEAD" /\ x.cgi # "PARSE"
      /\ x.next = HeaderLen + Held(x) /\ kind \in CgiKinds /\ x.cgi \in {"BUFFER", "DONE"}
  BY FieldTypes DEF AtHeader, PipeStates
<1>2. [x EXCEPT !.cgi = IF x.cgi = "DONE" THEN x.cgi ELSE "BUFFER"] = x
  BY <1>1 DEF Request
<1>3. /\ HeaderLen \in Nat /\ Held(x) \in Int /\ x.next - HeaderLen = Held(x) /\ x.head \in Nat
      /\ x.head >= 1 /\ Middle \in Nat /\ x.hend \in Nat /\ BufferSize \in Nat
  <2>1. HeaderLen \in Nat /\ x.head \in Nat /\ x.head >= 1 /\ Middle \in Nat /\ x.hend \in Nat
        /\ BufferSize \in Nat
    BY <1>1, Sizes, FieldTypes DEF AtHeader
  <2>2. Held(x) = x.hend - Middle /\ x.hend - Middle \in Int
    BY <1>1, <2>1 DEF Held
  <2>3. QED BY <1>1, <2>1, <2>2
<1>4. /\ Held(x) < x.head => o = Out(0, ErrorPage(x))
      /\ Held(x) >= x.head /\ kind = "http09" => o = Out(1, [x EXCEPT !.line = last])
      /\ Held(x) >= x.head /\ kind = "status" =>
            o = Out(1, [x EXCEPT !.line = @ - 1, !.buf = Put(@, x.line - 1, <<HeaderLen>>)])
      /\ Held(x) >= x.head /\ kind = "redirect" => o = Out(1, [ErrorPage(x) EXCEPT !.status = "DONE"])
      /\ Held(x) >= x.head /\ kind = "plain" =>
            o = IF Header(x).end + Len(Cut(x.buf, x.line, x.hend)) > BufferSize THEN Out(0, ErrorPage(x))
                ELSE Out(1, req_flush(Moved(x)).q)
      /\ Held(x) >= x.head /\ kind = "head" =>
            o = IF Header(p).end + Len(Cut(p.buf, p.line, p.hend)) > BufferSize THEN Out(0, ErrorPage(p))
                ELSE Out(0, req_flush(Moved(p)).q)
  <2>1. x.next - HeaderLen >= x.head <=> Held(x) >= x.head
    BY <1>3
  <2>2. ~(x.next - HeaderLen >= x.head) <=> Held(x) < x.head
    BY <1>3
  <2> HIDE DEF p, last
  <2>3. CASE Held(x) < x.head
    BY <1>2, <1>3, <2>1, <2>2, <2>3 DEF process_cgi_header
  <2>4. CASE Held(x) >= x.head /\ kind = "http09"
    BY <1>2, <1>3, <2>1, <2>2, <2>4 DEF process_cgi_header, last
  <2>5. CASE Held(x) >= x.head /\ kind = "status"
    BY <1>2, <1>3, <2>1, <2>2, <2>5 DEF process_cgi_header
  <2>6. CASE Held(x) >= x.head /\ kind = "redirect"
    BY <1>2, <1>3, <2>1, <2>2, <2>6 DEF process_cgi_header
  <2>7. CASE Held(x) >= x.head /\ kind = "plain"
    <3> DEFINE w == [x EXCEPT !.cgi = IF x.cgi = "DONE" THEN x.cgi ELSE "BUFFER"]
    <3>1. o = IF Header(w).end + Len(Cut(w.buf, w.line, w.hend)) > BufferSize THEN Out(0, ErrorPage(w))
              ELSE Out(1, req_flush(Moved(w)).q)
      BY <1>3, <2>1, <2>2, <2>7 DEF process_cgi_header, Moved
    <3>2. w = x
      BY <1>2
    <3> HIDE DEF w, o
    <3>3. o = IF Header(x).end + Len(Cut(x.buf, x.line, x.hend)) > BufferSize THEN Out(0, ErrorPage(x))
              ELSE Out(1, req_flush(Moved(x)).q)
      BY <3>1, <3>2
    <3>4. QED BY <1>3, <2>7, <3>3
  <2>8. CASE Held(x) >= x.head /\ kind = "head"
    BY <1>2, <1>3, <2>1, <2>2, <2>8 DEF process_cgi_header, Moved, p, last
  <2>9. QED BY <1>1, <1>3, <2>3, <2>4, <2>5, <2>6, <2>7, <2>8 DEF CgiKinds
<1> HIDE DEF o
<1>5. CASE Held(x) < x.head
  <2> DEFINE y == [ErrorPage(x) EXCEPT !.status = "DONE"]
  <2>1. o.ret = 0 /\ o.q = ErrorPage(x) /\ x.head > Half /\ o.q.status = x.status
    BY <1>1, <1>3, <1>4, <1>5, ErrorPageIs DEF Out, AtHeader
  <2>2. Settle(o) = y
    BY <1>1, <2>1 DEF Settle
  <2>3. Sane(y) /\ (HeaderOrder(x) => Stream(y, 0))
    BY <2>1, ErrorDone
  <2>4. QED BY <2>1, <2>2, <2>3 DEF o
<1>6. CASE Held(x) >= x.head /\ kind = "http09"
  <2> DEFINE y == [x EXCEPT !.line = last]
  <2>1. o.ret = 1 /\ o.q = y /\ Settle(o) = y
    BY <1>4, <1>6 DEF Out, Settle
  <2>2. Sane(y) /\ (HeaderOrder(x) => Stream(y, HeaderLen + x.head - 1))
    BY <1>6, RestKeeps
  <2>3. QED BY <2>1, <2>2 DEF o
<1>7. CASE Held(x) >= x.head /\ kind = "status"
  <2> DEFINE y == [x EXCEPT !.line = @ - 1, !.buf = Put(@, x.line - 1, <<HeaderLen>>)]
  <2>1. o.ret = 1 /\ o.q = y /\ Settle(o) = y
    BY <1>4, <1>7 DEF Out, Settle
  <2>2. Sane(y) /\ (HeaderOrder(x) => Stream(y, HeaderLen - 1))
    BY <1>7, RestKeeps
  <2>3. QED BY <2>1, <2>2 DEF o
<1>8. CASE Held(x) >= x.head /\ kind = "redirect"
  <2> DEFINE y == [ErrorPage(x) EXCEPT !.status = "DONE"]
  <2>1. o.ret = 1 /\ o.q = y /\ Settle(o) = y
    BY <1>4, <1>8 DEF Out, Settle
  <2>2. Sane(y) /\ (HeaderOrder(x) => Stream(y, 0))
    BY <1>8, ErrorDone
  <2>3. QED BY <2>1, <2>2 DEF o
<1>9. CASE Held(x) >= x.head /\ kind = "plain"
  <2> DEFINE y == req_flush(Moved(x)).q
  <2>1. ~(Header(x).end + Len(Cut(x.buf, x.line, x.hend)) > BufferSize) /\ IsMoved(x, y)
    BY <1>1, MovedFlushed
  <2>2. /\ y \in Request /\ Bounded(y) /\ SamePipe(x, y) /\ y.status = x.status /\ y.cgi = x.cgi
        /\ y.line = y.hend /\ y.hend <= BufferSize
        /\ HeaderOrder(x) => Ordered(y, 0) /\ Passed(y) = HeaderLen + Held(x)
    BY <2>1 DEF IsMoved
  <2>3. o = Out(1, y)
    BY <1>4, <1>9, <2>1
  <2> HIDE DEF y
  <2>4. o.ret = 1 /\ Settle(o) = y
    BY <2>3 DEF Out, Settle
  <2>5. Sane(y) /\ (\A b \in Bases(y) : Ordered(y, b) /\ Piped(y, b) => Stream(y, b))
    BY <1>1, <2>2, CgiPiped
  <2>6. ASSUME HeaderOrder(x) PROVE Stream(y, 0)
    <3>1. 0 \in Bases(y)
      BY DEF Bases
    <3>2. Held(y) = 0 /\ y.next = x.next /\ Passed(y) = HeaderLen + Held(x) /\ Ordered(y, 0)
          /\ y.hend \in Nat
      BY <2>2, <2>6, FieldTypes DEF Held, SamePipe
    <3>3. y.next = 0 + Passed(y) + Held(y)
      BY <1>1, <1>3, <3>2
    <3>4. Run(y.buf, y.line, y.hend, 0 + Passed(y))
      BY <2>2, <3>2 DEF Run
    <3>5. y.status = "PIPE_WRITE" => y.pipe = 0 /\ y.output = 0
      BY <2>2 DEF AtHeader, SamePipe
    <3>6. Piped(y, 0)
      BY <1>3, <1>9, <2>2, <3>2, <3>3, <3>4, <3>5 DEF Piped
    <3>7. QED BY <2>5, <3>1, <3>2, <3>6
  <2>7. QED BY <2>4, <2>5, <2>6 DEF o
<1>10. CASE Held(x) >= x.head /\ kind = "head"
  <2> DEFINE z == req_flush(Moved(p)).q
             y == [z EXCEPT !.status = "DONE"]
  <2>1. /\ p \in Request /\ p.start = 0 /\ p.end = 0 /\ p.line = Middle /\ p.hend = last
        /\ p.buf = x.buf /\ p.sent = x.sent /\ p.status = x.status /\ SamePipe(x, p) /\ last \in Nat
        /\ Middle <= last /\ last <= x.hend /\ Held(p) = x.head - 1
    <3>1. last \in Nat /\ Middle <= last /\ last <= x.hend /\ last - Middle = x.head - 1
      BY <1>1, <1>3, <1>10 DEF Held
    <3> HIDE DEF last
    <3>2. QED BY <1>1, <3>1 DEF Request, SamePipe, Held
  <2> HIDE DEF p
  <2>2. last <= BufferSize + 1
    BY <1>1, <1>3, <2>1
  <2>3. ~(Header(p).end + Len(Cut(p.buf, p.line, p.hend)) > BufferSize) /\ IsMoved(p, z)
    BY <1>1, <2>1, <2>2, MovedFlushed
  <2>4. /\ z \in Request /\ Bounded(z) /\ SamePipe(p, z) /\ z.status = p.status
        /\ HeaderOrder(p) => Ordered(z, 0) /\ Passed(z) = HeaderLen + Held(p)
    BY <2>3 DEF IsMoved
  <2>5. o = Out(0, z)
    BY <1>4, <1>10, <2>3
  <2> HIDE DEF z
  <2>6. o.ret = 0 /\ Settle(o) = y
    BY <1>1, <2>1, <2>4, <2>5 DEF Out, Settle
  <2>7. /\ y \in Request /\ y.status = "DONE" /\ y.start = z.start /\ y.end = z.end /\ y.line = z.line
        /\ y.hend = z.hend /\ y.buf = z.buf /\ y.sent = z.sent /\ SamePipe(x, y) /\ y.head = x.head
    BY <2>1, <2>4 DEF Request, SamePipe
  <2>8. Bounded(y)
    BY <1>1, <2>1, <2>4, <2>7 DEF Bounded
  <2>9. Sane(y) /\ (Ordered(y, 0) /\ Finished(y, 0) => Stream(y, 0))
    BY <1>1, <2>7, <2>8, CgiDone
  <2>10. ASSUME HeaderOrder(x) PROVE Ordered(y, 0) /\ Finished(y, 0)
    <3>1. HeaderOrder(p)
      <4>1. \A i \in p.line .. p.hend - 1 : i \in x.line .. x.hend - 1
        BY <1>1, <1>3, <2>1
      <4>2. QED BY <1>1, <2>1, <2>10, <4>1 DEF HeaderOrder, Run
    <3>2. Ordered(y, 0)
      BY <2>4, <2>7, <3>1 DEF Ordered
    <3>3. Passed(y) = HeaderLen + (x.head - 1)
      BY <2>1, <2>4, <2>7, <3>1 DEF Passed, Unsent
    <3>4. Passed(y) = HeaderLen + y.head - 1
      BY <1>3, <2>7, <3>3
    <3>5. Finished(y, 0)
      BY <1>10, <3>4 DEF Finished, FileKinds
    <3>6. QED BY <3>2, <3>5
  <2>11. QED BY <2>6, <2>9, <2>10 DEF o
<1>11. QED BY <1>1, <1>3, <1>5, <1>6, <1>7, <1>8, <1>9, <1>10 DEF CgiKinds
-----------------------------------------------------------------------------
(* A request that stays with its pipe after the CGI's header.              *)
LEMMA PipeGoesOn ==
    ASSUME NEW x, Sane(x), x.status \in PipeStates, NEW y \in Request, Bounded(y),
           y.status \in PipeStates, y.cgi # "PARSE", y.head = x.head,
           y.next + y.pipe + y.output = x.next + x.pipe + x.output
    PROVE  /\ Sane(y)
           /\ \A b : b \in Bases(x) /\ Ordered(y, b) /\ Piped(y, b) => Stream(y, b)
<1>1. /\ kind \notin FileKinds /\ PipeStates \subseteq Statuses
      /\ y.status \notin FileStates /\ y.status # "DONE" /\ y.status # "DEAD"
  BY PipeKinds DEF PipeStates, FileStates
<1>2. Sane(y)
  BY <1>1 DEF Sane
<1>3. ASSUME NEW b, b \in Bases(x), Ordered(y, b), Piped(y, b) PROVE Stream(y, b)
  <2>1. b \in Bases(y)
    BY <1>3 DEF Bases
  <2>2. Phase(y, b)
    BY <1>1, <1>3 DEF Phase
  <2>3. QED BY <1>3, <2>1, <2>2 DEF Stream, Ordered
<1>4. QED BY <1>2, <1>3

(* What Stream says of such a request. *)
LEMMA PipeStream ==
    ASSUME NEW x, Sane(x), x.status \in PipeStates, x.cgi # "PARSE", NEW b, Stream(x, b)
    PROVE  b \in Bases(x) /\ b \in Nat /\ Ordered(x, b) /\ Piped(x, b)
<1>1. x \in Request /\ x.status # "DEAD"
  BY DEF Sane, PipeStates
<1>2. b \in Bases(x) /\ Ordered(x, b) /\ Piped(x, b)
  BY <1>1 DEF Stream, Phase, Ordered
<1>3. QED BY <1>1, <1>2, BaseNat

(* Everything that the child wrote has been passed on.                     *)
LEMMA PipeDone ==
    ASSUME NEW x, Sane(x), x.status \in PipeStates, NEW y, y = [x EXCEPT !.status = "DONE"]
    PROVE  /\ Sane(y)
           /\ \A b : Stream(x, b) /\ x.cgi # "PARSE" /\ x.line = x.hend /\ x.pipe = 0 /\ x.output = 0
                       => Stream(y, b)
<1>1. /\ x \in Request /\ Bounded(x) /\ "DONE" \in Statuses /\ kind \notin FileKinds /\ kind # "gunzip"
      /\ x.status # "DEAD" /\ x.next + x.pipe + x.output = HeaderLen + OutputLen
  BY PipeKinds DEF Sane, PipeStates
<1>2. /\ y \in Request /\ y.status = "DONE" /\ y.start = x.start /\ y.end = x.end /\ y.line = x.line
      /\ y.hend = x.hend /\ y.buf = x.buf /\ y.sent = x.sent /\ SamePipe(x, y) /\ y.head = x.head
  BY <1>1 DEF Request, SamePipe
<1>3. Bounded(y)
  BY <1>1, <1>2 DEF Bounded
<1>4. Sane(y)
  BY <1>1, <1>2, <1>3 DEF Sane, SamePipe, FileStates, PipeStates
<1>5. ASSUME NEW b, Stream(x, b), x.cgi # "PARSE", x.line = x.hend, x.pipe = 0, x.output = 0
      PROVE  Stream(y, b)
  <2>1. b \in Bases(x) /\ b \in Nat /\ Ordered(x, b) /\ Piped(x, b)
    BY <1>5, PipeStream
  <2>2. b \in Bases(y)
    BY <1>2, <2>1 DEF Bases
  <2>3. Passed(y) = Passed(x) /\ Ordered(y, b)
    BY <1>2, <2>1 DEF Passed, Unsent, Ordered
  <2>4. Held(x) = 0 /\ x.next \in Nat /\ Passed(x) \in Int /\ x.next = b + Passed(x) + Held(x)
    BY <1>1, <1>5, <2>1, FieldTypes DEF Held, Piped, Passed, Unsent
  <2>5. b + Passed(y) = HeaderLen + OutputLen /\ y.pipe = 0 /\ y.output = 0
    BY <1>1, <1>2, <1>5, <2>1, <2>3, <2>4 DEF SamePipe
  <2>6. Finished(y, b)
    BY <1>1, <2>1, <2>5 DEF Finished, Piped
  <2>7. Phase(y, b)
    BY <1>2, <2>6 DEF Phase, FileStates, PipeStates
  <2>8. QED BY <2>2, <2>3, <2>7 DEF Stream, Ordered
<1>6. QED BY <1>4, <1>5

(* write_from_pipe sends what is between header_line and header_end and    *)
(* starts over at the front; it ends the response when the child's output  *)
(* is at its end and all of it was sent.                                   *)
LEMMA WritePipeKeeps ==
    ASSUME NEW x, Sane(x), x.status \in PipeStates, x.cgi # "PARSE"
    PROVE  /\ write_from_pipe(x).ret \in {-1, 0, 1}
           /\ Sane(Settle(write_from_pipe(x)))
           /\ \A b : Stream(x, b) /\ x.end = 0 /\ (x.status = "PIPE_WRITE" \/ x.line < x.hend)
                        => Stream(Settle(write_from_pipe(x)), b)
<1> DEFINE o == write_from_pipe(x)
           s == Cut(x.buf, x.line, x.hend)
           k == Taken(x, s)
           z == Send(x, s)
           p == [z EXCEPT !.line = @ + k]
           front(y) == [y EXCEPT !.status = "PIPE_READ", !.line = 0, !.hend = 0]
<1>1. /\ x \in Request /\ Bounded(x) /\ x.status # "DEAD" /\ x.start <= x.end /\ x.line <= x.hend
      /\ x.hend <= BufferSize + 1 /\ x.end <= BufferSize
  BY DEF Sane, PipeStates, Bounded
<1>2. /\ s \in Seq(Nat) /\ Held(x) \in Nat /\ Len(s) = Held(x) /\ (s = <<>> <=> x.line = x.hend)
      /\ \A v \in Nat : Run(x.buf, x.line, x.hend, v) => Numbers(s, v)
  BY <1>1, HeldBytes
<1>3. /\ k \in Nat /\ k <= Len(s) /\ k <= x.room /\ (k = Len(s) \/ k = x.room)
      /\ z \in Request /\ z.room = x.room - k
      /\ Took(x, z, s, k) /\ SameStore(x, z) /\ z.start = x.start /\ z.end = x.end
  BY <1>1, <1>2, SendTakes
<1>4. o = IF s = <<>> THEN (IF x.cgi = "DONE" THEN Out(0, x) ELSE Out(1, front(x)))
          ELSE IF x.room = 0 THEN Out(-1, x)
          ELSE IF k = Len(s) THEN Out(1, front(p)) ELSE Out(1, p)
  BY DEF write_from_pipe
<1>5. PICK l \in Nat, e \in Nat, N \in Nat :
         l = x.line /\ e = x.hend /\ N = BufferSize /\ l <= e /\ e <= N + 1 /\ Held(x) = e - l
  BY <1>1, Sizes, FieldTypes DEF Held
<1> HIDE DEF s, k, z, o
<1>6. PICK r \in Nat : r = l + k /\ r <= e
  <2>1. k <= e - l
    BY <1>2, <1>3, <1>5
  <2>2. l + k \in Nat /\ l + k <= e
    BY ONLY <2>1, <1>3, <1>5
  <2>3. QED BY <2>2
<1>7. p = [z EXCEPT !.line = r]
  BY <1>3, <1>5, <1>6 DEF SameStore, Request
<1>8. /\ p \in Request /\ p.line = r /\ p.hend = e /\ p.buf = x.buf /\ p.sent = z.sent /\ p.start = x.start
      /\ p.end = x.end /\ p.status = x.status /\ p.cgi = x.cgi /\ SamePipe(x, p)
  BY <1>3, <1>5, <1>6, <1>7 DEF Request, SameStore, SamePipe
<1> HIDE DEF p
<1>9. Bounded(p)
  BY <1>1, <1>5, <1>6, <1>8 DEF Bounded
<1>10. p.next + p.pipe + p.output = x.next + x.pipe + x.output
  BY <1>8 DEF SamePipe
<1>11. ASSUME NEW b, Stream(x, b), x.end = 0
       PROVE  /\ b \in Bases(x) /\ b \in Nat /\ Ordered(p, b) /\ Run(p.buf, p.line, p.hend, b + Passed(p))
              /\ p.next = b + Passed(p) + Held(p) /\ kind \notin {"head", "redirect"} /\ p.start = 0 /\ p.end = 0
  <2>1. b \in Bases(x) /\ b \in Nat /\ Ordered(x, b) /\ Piped(x, b)
    BY <1>11, PipeStream
  <2>2. x.start = 0 /\ x.sent \in Seq(Nat) /\ Len(x.sent) \in Nat /\ x.next \in Nat /\ Unsent(x) = 0
    BY <1>1, <1>11, FieldTypes DEF Unsent
  <2>3. PICK n \in Nat, w \in Nat : n = Len(x.sent) /\ w = b + n /\ Passed(x) = n /\ b + Passed(x) = w
    BY <2>1, <2>2 DEF Passed
  <2>4. Run(x.buf, l, e, w) /\ Numbers(s, w) /\ x.next = w + (e - l)
    BY <1>2, <1>5, <2>1, <2>3 DEF Piped
  <2>5. Numbers(p.sent, b)
    <3>1. Numbers(x.sent, b)
      BY <2>1 DEF Ordered
    <3>2. Numbers(z.sent, b)
      BY <1>2, <1>3, <2>1, <2>2, <2>3, <2>4, <3>1, Continues
    <3>3. QED BY <1>8, <3>2
  <2>6. Passed(p) = n + k /\ b + Passed(p) = w + k
    <3>1. Len(p.sent) = n + k /\ Unsent(p) = 0
      BY <1>3, <1>8, <1>11, <2>2, <2>3 DEF Took, Unsent
    <3>2. n + k + 0 = n + k /\ b + (n + k) = (b + n) + k
      BY ONLY <1>3, <2>1, <2>3
    <3>3. QED BY <2>3, <3>1, <3>2 DEF Passed
  <2>7. Run(x.buf, r, e, w + k)
    BY <1>3, <1>5, <1>6, <2>3, <2>4, RunFrom
  <2>8. p.next = (w + k) + (e - r)
    <3>1. p.next = w + (e - l)
      BY <1>8, <2>4 DEF SamePipe
    <3>2. w + (e - l) = (w + k) + (e - r)
      BY ONLY <1>3, <1>5, <1>6, <2>3, SMTT(30)
    <3>3. QED BY <3>1, <3>2
  <2>9. Held(p) = e - r
    BY <1>8 DEF Held
  <2>10. Ordered(p, b)
    BY <1>8, <1>11, <2>2, <2>5 DEF Ordered, Run
  <2>11. QED BY <1>8, <1>11, <2>1, <2>2, <2>6, <2>7, <2>8, <2>9, <2>10 DEF Piped
<1>12. ASSUME NEW y, y \in Request, Bounded(y), y.status = x.status, y.cgi = x.cgi, SamePipe(x, y),
              NEW f, f = front(y)
       PROVE  /\ Sane(f)
              /\ \A b : /\ b \in Bases(x) /\ b \in Nat /\ Ordered(y, b) /\ kind \notin {"head", "redirect"}
                        /\ y.next = b + Passed(y)
                        => Stream(f, b)
  <2>1. /\ f \in Request /\ f.status = "PIPE_READ" /\ f.line = 0 /\ f.hend = 0 /\ f.start = y.start
        /\ f.end = y.end /\ f.buf = y.buf /\ f.sent = y.sent /\ f.cgi = x.cgi /\ SamePipe(x, f)
    BY <1>12 DEF Request, SamePipe
  <2>2. Bounded(f)
    BY <1>1, <1>5, <1>12, <2>1 DEF Bounded
  <2>3. f.next + f.pipe + f.output = x.next + x.pipe + x.output /\ f.head = x.head
    BY <2>1 DEF SamePipe
  <2>4. /\ Sane(f)
        /\ \A b : b \in Bases(x) /\ Ordered(f, b) /\ Piped(f, b) => Stream(f, b)
    BY <2>1, <2>2, <2>3, PipeGoesOn DEF PipeStates
  <2>5. ASSUME NEW b, b \in Bases(x), b \in Nat, Ordered(y, b), kind \notin {"head", "redirect"}, y.next = b + Passed(y)
        PROVE  Stream(f, b)
    <3>1. Ordered(f, b) /\ Passed(f) = Passed(y) /\ Held(f) = 0
      BY <2>1, <2>5 DEF Ordered, Passed, Unsent, Held
    <3>2. f.next = y.next /\ f.next \in Nat /\ f.next = b + Passed(f)
      BY <1>12, <2>1, <2>5, <3>1, FieldTypes DEF SamePipe
    <3>3. f.next = b + Passed(f) + Held(f)
      BY <3>1, <3>2
    <3>4. Run(f.buf, f.line, f.hend, b + Passed(f))
      BY <2>1 DEF Run
    <3>5. Piped(f, b)
      BY <1>5, <2>1, <2>5, <3>3, <3>4 DEF Piped
    <3>6. QED BY <2>4, <2>5, <3>1, <3>5
  <2>6. QED BY <2>4, <2>5
<1>13. CASE s = <<>> /\ x.cgi = "DONE"
  <2>1. o.ret = 0 /\ Settle(o) = [x EXCEPT !.status = "DONE"]
    BY <1>1, <1>4, <1>13 DEF Out, Settle
  <2>2. ASSUME NEW b, Stream(x, b), x.status = "PIPE_WRITE" \/ x.line < x.hend
        PROVE  x.pipe = 0 /\ x.output = 0 /\ x.line = x.hend
    <3>1. Piped(x, b) /\ x.line = x.hend /\ ~(x.line < x.hend)
      BY <1>2, <1>5, <1>13, <2>2, PipeStream
    <3>2. QED BY <2>2, <3>1 DEF Piped
  <2>3. QED BY <2>1, <2>2, PipeDone DEF o
<1>14. CASE s = <<>> /\ x.cgi # "DONE"
  <2>1. o.ret = 1 /\ Settle(o) = front(x)
    BY <1>4, <1>14 DEF Out, Settle
  <2>2. ASSUME NEW b, Stream(x, b)
        PROVE  b \in Bases(x) /\ b \in Nat /\ Ordered(x, b) /\ kind \notin {"head", "redirect"} /\ x.next = b + Passed(x)
    <3>1. b \in Bases(x) /\ b \in Nat /\ Ordered(x, b) /\ Piped(x, b)
      BY <2>2, PipeStream
    <3>2. Held(x) = 0 /\ x.next = b + Passed(x) + Held(x) /\ Passed(x) \in Int
      BY <1>1, <1>2, <1>14, <3>1, FieldTypes DEF Piped, Passed, Unsent
    <3>3. QED BY <3>1, <3>2 DEF Piped
  <2>3. SamePipe(x, x)
    BY DEF SamePipe
  <2>4. QED BY <1>1, <1>12, <2>1, <2>2, <2>3 DEF o
<1>15. CASE s # <<>> /\ x.room = 0
  <2>1. o.ret = -1 /\ Settle(o) = x
    BY <1>4, <1>15 DEF Out, Settle
  <2>2. QED BY <2>1 DEF o
<1>16. CASE s # <<>> /\ x.room # 0 /\ k = Len(s)
  <2>1. o.ret = 1 /\ Settle(o) = front(p)
    BY <1>4, <1>16 DEF Out, Settle
  <2>2. ASSUME NEW b, Stream(x, b), x.end = 0
        PROVE  b \in Bases(x) /\ b \in Nat /\ Ordered(p, b) /\ kind \notin {"head", "redirect"} /\ p.next = b + Passed(p)
    <3>1. /\ b \in Bases(x) /\ b \in Nat /\ Ordered(p, b) /\ kind \notin {"head", "redirect"}
          /\ p.next = b + Passed(p) + Held(p)
      BY <1>11, <2>2
    <3>2. Held(p) = 0
      BY <1>2, <1>5, <1>6, <1>8, <1>16, SMTT(30) DEF Held
    <3>3. Passed(p) \in Int
      BY <1>8, FieldTypes DEF Passed, Unsent
    <3>4. QED BY <3>1, <3>2, <3>3
  <2>3. QED BY <1>8, <1>9, <1>12, <2>1, <2>2 DEF o
<1>17. CASE s # <<>> /\ x.room # 0 /\ k # Len(s)
  <2>1. o.ret = 1 /\ Settle(o) = p
    BY <1>4, <1>17 DEF Out, Settle
  <2>2. p.line < p.hend
    BY <1>2, <1>3, <1>5, <1>6, <1>8, <1>17
  <2>3. /\ Sane(p)
        /\ \A b : b \in Bases(x) /\ Ordered(p, b) /\ Piped(p, b) => Stream(p, b)
    BY <1>8, <1>9, <1>10, PipeGoesOn DEF SamePipe
  <2>4. ASSUME NEW b, Stream(x, b), x.end = 0 PROVE Stream(p, b)
    <3>1. /\ b \in Bases(x) /\ Ordered(p, b) /\ kind \notin {"head", "redirect"}
          /\ Run(p.buf, p.line, p.hend, b + Passed(p)) /\ p.next = b + Passed(p) + Held(p)
      BY <1>11, <2>4
    <3>2. Piped(p, b)
      BY <2>2, <3>1 DEF Piped
    <3>3. QED BY <2>3, <3>1, <3>2
  <2>5. QED BY <2>1, <2>3, <2>4 DEF o
<1>18. QED BY <1>13, <1>14, <1>15, <1>16, <1>17

(* What a read from the pipe leaves alone.                                 *)
SameEnd(x, y) ==
    /\ y.status = x.status /\ y.cgi = x.cgi /\ y.line = x.line /\ y.head = x.head
    /\ y.output = x.output /\ y.start = x.start /\ y.end = x.end /\ y.sent = x.sent

(* The terminator is written behind the pipe's data.                       *)
LEMMA EndedIs ==
    ASSUME NEW x, x \in Request, x.line <= x.hend, x.hend <= BufferSize + 1, NEW y, y = Ended(x)
    PROVE  /\ y \in Request /\ SameEnd(x, y) /\ y.hend = x.hend /\ y.next = x.next /\ y.pipe = x.pipe
           /\ \A v \in Nat : Run(x.buf, x.line, x.hend, v) => Run(y.buf, y.line, y.hend, v)
<1> DEFINE w == Put(x.buf, x.hend, <<0>>)
<1>1. /\ x.buf \in [Slots -> Nat] /\ x.line \in Nat /\ x.hend \in Nat /\ BufferSize \in Nat
      /\ <<0>> \in Seq(Nat)
  BY FieldTypes, Sizes
<1>2. w \in [Slots -> Nat]
  BY <1>1, PutIs, Zenon
<1>3. y = [x EXCEPT !.buf = w]
  BY DEF Ended, Request
<1>4. \A v \in Nat : Run(x.buf, x.line, x.hend, v) => Run(w, x.line, x.hend, v)
  <2> SUFFICES ASSUME NEW v \in Nat, Run(x.buf, x.line, x.hend, v) PROVE Run(w, x.line, x.hend, v)
    OBVIOUS
  <2>1. x.hend <= BufferSize + 2 /\ x.hend <= x.hend
    BY <1>1
  <2>2. QED BY <1>1, <2>1, PutElsewhere
<1> HIDE DEF w
<1>5. /\ y \in Request /\ SameEnd(x, y) /\ y.hend = x.hend /\ y.next = x.next /\ y.pipe = x.pipe
      /\ y.buf = w
  BY <1>2, <1>3 DEF Request, SameEnd
<1>6. QED BY <1>4, <1>5 DEF SameEnd

(* n bytes are read from the pipe. *)
Fed(x, n) == Ended([x EXCEPT !.buf = Put(@, x.hend, Bytes(x.next, n)), !.next = @ + n,
                             !.hend = @ + n, !.pipe = @ - n])

(* They follow the ones that are there.                                    *)
LEMMA FedIs ==
    ASSUME NEW x, x \in Request, x.line <= x.hend, x.hend <= BufferSize + 1, NEW n \in Nat,
           x.hend + n <= BufferSize + 1, n <= x.pipe
    PROVE  /\ Fed(x, n) \in Request /\ SameEnd(x, Fed(x, n)) /\ Fed(x, n).hend = x.hend + n
           /\ Fed(x, n).next = x.next + n /\ Fed(x, n).pipe = x.pipe - n
           /\ \A v \in Nat : Run(x.buf, x.line, x.hend, v) /\ x.next = v + Held(x) =>
                 Run(Fed(x, n).buf, Fed(x, n).line, Fed(x, n).hend, v)
<1> DEFINE s == Bytes(x.next, n)
           w == Put(x.buf, x.hend, s)
           z == [x EXCEPT !.buf = Put(@, x.hend, s), !.next = @ + n, !.hend = @ + n, !.pipe = @ - n]
           y == Fed(x, n)
<1>1. /\ x.buf \in [Slots -> Nat] /\ x.line \in Nat /\ x.hend \in Nat /\ BufferSize \in Nat
      /\ x.next \in Nat /\ x.pipe \in Nat
  BY FieldTypes, Sizes
<1>2. s \in Seq(Nat) /\ Len(s) = n /\ Numbers(s, x.next)
  BY <1>1, BytesAre
<1>3. y = Ended(z)
  BY DEF Fed
<1> HIDE DEF s, y
<1>4. w \in [Slots -> Nat]
  BY <1>1, <1>2, PutIs, Zenon
<1>5. PICK e \in Nat, m \in Nat, r \in Nat : e = x.hend + n /\ m = x.next + n /\ r = x.pipe - n
  BY <1>1
<1>6. z = [x EXCEPT !.buf = w, !.next = m, !.hend = e, !.pipe = r]
  BY <1>5 DEF Request
<1>7. \A v \in Nat : Run(x.buf, x.line, x.hend, v) /\ x.next = v + Held(x) => Run(w, x.line, e, v)
  <2> SUFFICES ASSUME NEW v \in Nat, Run(x.buf, x.line, x.hend, v), x.next = v + Held(x)
               PROVE  Run(w, x.line, e, v)
    OBVIOUS
  <2>1. x.hend + Len(s) = e /\ e <= BufferSize + 2 /\ v + (x.hend - x.line) = x.next
    BY <1>1, <1>2, <1>5 DEF Held
  <2>2. Run(Put(x.buf, x.hend, s), x.line, x.hend + Len(s), v)
    BY <1>1, <1>2, <2>1, PutRun
  <2>3. QED BY <2>1, <2>2
<1> HIDE DEF w
<1>8. /\ z \in Request /\ SameEnd(x, z) /\ z.hend = e /\ z.next = m /\ z.pipe = r /\ z.buf = w
  BY <1>4, <1>6, ZenonT(60) DEF Request, SameEnd
<1> HIDE DEF z
<1>9. z.line <= z.hend /\ z.hend <= BufferSize + 1
  BY <1>1, <1>5, <1>8 DEF SameEnd
<1>10. /\ y \in Request /\ SameEnd(z, y) /\ y.hend = z.hend /\ y.next = z.next /\ y.pipe = z.pipe
       /\ \A v \in Nat : Run(z.buf, z.line, z.hend, v) => Run(y.buf, y.line, y.hend, v)
  BY <1>3, <1>8, <1>9, EndedIs
<1>11. \A v \in Nat : Run(x.buf, x.line, x.hend, v) /\ x.next = v + Held(x) => Run(y.buf, y.line, y.hend, v)
  BY <1>7, <1>8, <1>10 DEF SameEnd
<1>12. SameEnd(x, y)
  BY <1>8, <1>10 DEF SameEnd
<1>13. QED BY <1>5, <1>8, <1>10, <1>11, <1>12 DEF y

(* What is known of a request that reads the header of its CGI.            *)
LEMMA Parsing ==
    ASSUME NEW x, Sane(x), x.status = "PIPE_READ", x.cgi = "PARSE"
    PROVE  /\ x \in Request /\ kind \in CgiKinds /\ x.head \in CgiHeaders /\ kind \notin FileKinds
           /\ x.start = 0 /\ x.end = 0 /\ x.line = Middle /\ x.line <= x.hend /\ x.hend <= BufferSize + 1
           /\ x.next = HeaderLen + Held(x) /\ x.next + x.pipe + x.output = HeaderLen + OutputLen
           /\ \A b : Stream(x, b) => b = 0 /\ HeaderOrder(x)
<1>1. /\ x \in Request /\ kind \in CgiKinds /\ x.head \in CgiHeaders /\ kind \notin FileKinds
      /\ x.start = 0 /\ x.end = 0 /\ x.line = Middle /\ x.line <= x.hend /\ x.hend <= BufferSize + 1
      /\ x.next = HeaderLen + Held(x) /\ x.next + x.pipe + x.output = HeaderLen + OutputLen
  BY DEF Sane, PipeStates, Bounded, CgiKinds, FileKinds
<1>2. ASSUME NEW b, Stream(x, b) PROVE b = 0 /\ HeaderOrder(x)
  <2>1. b = 0 /\ Passed(x) = 0 /\ Run(x.buf, x.line, x.hend, HeaderLen)
    BY <1>2 DEF Stream, Phase, PipeStates
  <2>2. x.sent \in Seq(Nat) /\ Len(x.sent) = 0
    BY <1>1, <2>1, FieldTypes DEF Passed, Unsent
  <2>3. x.sent = <<>>
    BY <2>2, EmptySeq
  <2>4. QED BY <2>1, <2>3 DEF HeaderOrder
<1>3. QED BY <1>1, <1>2

(* How much is read: what there is, up to the end of the array.            *)
LEMMA ReadsHowMuch ==
    ASSUME NEW x, x \in Request, x.hend <= BufferSize + 1, NEW n, n = Least(Space(x), x.pipe)
    PROVE  /\ n \in Nat /\ n <= x.pipe /\ x.hend + n <= BufferSize + 1
           /\ Space(x) = 0 <=> x.hend = BufferSize + 1
           /\ Space(x) # 0 /\ n = 0 => x.pipe = 0
<1>1. PICK N \in Nat, e \in Nat, p \in Nat : N = BufferSize /\ e = x.hend /\ p = x.pipe /\ e <= N + 1
  BY Sizes, FieldTypes
<1>2. Space(x) = N - (e - 1)
  BY <1>1 DEF Space
<1>3. n = IF N - (e - 1) < p THEN N - (e - 1) ELSE p
  BY <1>1, <1>2 DEF Least
<1>4. /\ n \in Nat /\ n <= p /\ e + n <= N + 1
      /\ N - (e - 1) = 0 <=> e = N + 1
      /\ N - (e - 1) # 0 /\ n = 0 => p = 0
  BY ONLY <1>1, <1>3
<1>5. QED BY <1>1, <1>2, <1>4

(* read_from_pipe while the header of a CGI is read: it is parsed when it  *)
(* is complete, at the end of the output and when half the buffer is full. *)
LEMMA ReadHeaderKeeps ==
    ASSUME NEW x, Sane(x), x.status = "PIPE_READ", x.cgi = "PARSE"
    PROVE  /\ read_from_pipe(x).ret \in {-1, 0, 1}
           /\ Sane(Settle(read_from_pipe(x)))
           /\ \A b : Stream(x, b) => \E c : Stream(Settle(read_from_pipe(x)), c)
<1> DEFINE o == read_from_pipe(x)
           n == Least(Space(x), x.pipe)
           p == Fed(x, n)
           t == Ended(x)
           eof == [t EXCEPT !.status = "PIPE_WRITE", !.cgi = "DONE"]
           full == [t EXCEPT !.cgi = "BUFFER"]
           got == [p EXCEPT !.cgi = "DONE"]
<1>1. /\ x \in Request /\ kind \in CgiKinds /\ x.head \in CgiHeaders /\ kind \notin FileKinds
      /\ x.start = 0 /\ x.end = 0 /\ x.line = Middle /\ x.line <= x.hend /\ x.hend <= BufferSize + 1
      /\ x.next = HeaderLen + Held(x) /\ x.next + x.pipe + x.output = HeaderLen + OutputLen
      /\ \A b : Stream(x, b) => b = 0 /\ HeaderOrder(x)
  BY Parsing
<1>2. /\ n \in Nat /\ n <= x.pipe /\ x.hend + n <= BufferSize + 1
      /\ Space(x) = 0 <=> x.hend = BufferSize + 1
      /\ Space(x) # 0 /\ n = 0 => x.pipe = 0
  BY <1>1, ReadsHowMuch
<1>3. o = IF Space(x) = 0 THEN process_cgi_header(full)
          ELSE IF n = 0 /\ x.output > 0 THEN Out(-1, x)
          ELSE IF n = 0 THEN process_cgi_header(eof)
          ELSE IF p.next - HeaderLen >= p.head THEN process_cgi_header(got)
          ELSE Out(1, p)
  <2> HIDE DEF n
  <2>1. p = Ended([x EXCEPT !.buf = Put(@, x.hend, Bytes(x.next, n)), !.next = @ + n,
                            !.hend = @ + n, !.pipe = @ - n])
    BY DEF Fed
  <2>2. p.cgi = "PARSE"
    BY <1>1, <1>2, FedIs DEF SameEnd
  <2>3. QED BY <2>1, <2>2 DEF read_from_pipe, n
<1>4. /\ t \in Request /\ SameEnd(x, t) /\ t.hend = x.hend /\ t.next = x.next /\ t.pipe = x.pipe
      /\ Run(x.buf, x.line, x.hend, HeaderLen) => Run(t.buf, t.line, t.hend, HeaderLen)
  BY <1>1, EndedIs, Sizes
<1>5. /\ p \in Request /\ SameEnd(x, p) /\ p.hend = x.hend + n /\ p.next = x.next + n /\ p.pipe = x.pipe - n
      /\ Run(x.buf, x.line, x.hend, HeaderLen) => Run(p.buf, p.line, p.hend, HeaderLen)
  <2> HIDE DEF n
  <2>1. \A v \in Nat : Run(x.buf, x.line, x.hend, v) /\ x.next = v + Held(x) => Run(p.buf, p.line, p.hend, v)
    BY <1>1, <1>2, FedIs
  <2>2. QED BY <1>1, <1>2, <2>1, FedIs, Sizes
<1> HIDE DEF o, n, p, t
<1>6. PICK e \in Nat, m \in Nat, N \in Nat, hd \in Nat, h \in Nat, u \in Nat, w \in Nat :
         /\ e = x.hend /\ m = Middle /\ N = BufferSize /\ hd = x.head /\ h = HeaderLen
         /\ u = x.pipe /\ w = x.output
  BY <1>1, FieldTypes, Sizes
<1>7. /\ OutputLen \in Nat /\ hd <= OutputLen /\ Half = N + 1 - m /\ m <= e /\ e + n <= N + 1 /\ n <= u
      /\ x.next = h + (e - m) /\ h + (e - m) + u + w = h + OutputLen
  BY <1>1, <1>2, <1>6, Sizes DEF Held
<1>8. ASSUME NEW y, AtHeader(y), HeaderOrder(x) => HeaderOrder(y), o = process_cgi_header(y)
      PROVE  /\ o.ret \in {-1, 0, 1} /\ Sane(Settle(o))
             /\ \A b : Stream(x, b) => \E c : Stream(Settle(o), c)
  <2>1. /\ o.ret \in {0, 1} /\ Sane(Settle(o))
        /\ HeaderOrder(y) => \E c : Stream(Settle(o), c)
    BY <1>8, ProcessHeaderKeeps
  <2>2. QED BY <1>1, <1>8, <2>1
<1>9. CASE Space(x) = 0
  <2>1. /\ full \in Request /\ full.status = "PIPE_READ" /\ full.cgi = "BUFFER" /\ full.line = Middle
        /\ full.hend = e /\ full.next = x.next /\ full.pipe = x.pipe /\ full.output = x.output
        /\ full.start = 0 /\ full.end = 0 /\ full.sent = x.sent /\ full.head = x.head /\ full.buf = t.buf
    BY <1>1, <1>4, <1>6 DEF Request, SameEnd
  <2> HIDE DEF full
  <2>2. e - m >= hd \/ hd > Half
    BY ONLY <1>2, <1>6, <1>7, <1>9
  <2>3. Held(full) = e - m
    BY <1>6, <2>1 DEF Held
  <2>4. AtHeader(full)
    <3>1. full.next = HeaderLen + Held(full) /\ full.line <= full.hend
      BY <1>6, <1>7, <2>1, <2>3
    <3>2. Held(full) >= full.head \/ full.head > Half
      BY <1>6, <2>1, <2>2, <2>3
    <3>3. QED BY <1>1, <1>6, <2>1, <3>1, <3>2 DEF AtHeader, PipeStates
  <2>5. HeaderOrder(x) => HeaderOrder(full)
    BY <1>1, <1>4, <1>6, <2>1 DEF HeaderOrder, SameEnd
  <2>6. QED BY <1>3, <1>8, <1>9, <2>4, <2>5 DEF o
<1>10. CASE Space(x) # 0 /\ n = 0 /\ x.output > 0
  <2>1. o.ret = -1 /\ Settle(o) = x
    BY <1>3, <1>10 DEF Out, Settle
  <2>2. QED BY <2>1 DEF o
<1>11. CASE Space(x) # 0 /\ n = 0 /\ ~(x.output > 0)
  <2>1. /\ eof \in Request /\ eof.status = "PIPE_WRITE" /\ eof.cgi = "DONE" /\ eof.line = Middle
        /\ eof.hend = e /\ eof.next = x.next /\ eof.pipe = x.pipe /\ eof.output = x.output
        /\ eof.start = 0 /\ eof.end = 0 /\ eof.sent = x.sent /\ eof.head = x.head /\ eof.buf = t.buf
    BY <1>1, <1>4, <1>6 DEF Request, SameEnd
  <2> HIDE DEF eof
  <2>2. u = 0 /\ w = 0
    BY <1>2, <1>6, <1>11
  <2>3. e - m >= hd
    BY ONLY <1>6, <1>7, <2>2
  <2>4. Held(eof) = e - m
    BY <1>6, <2>1 DEF Held
  <2>5. AtHeader(eof)
    <3>1. eof.next = HeaderLen + Held(eof) /\ eof.line <= eof.hend /\ Held(eof) >= eof.head
      BY <1>6, <1>7, <2>1, <2>3, <2>4
    <3>2. QED BY <1>1, <1>6, <2>1, <2>2, <3>1 DEF AtHeader, PipeStates
  <2>6. HeaderOrder(x) => HeaderOrder(eof)
    BY <1>1, <1>4, <1>6, <2>1 DEF HeaderOrder, SameEnd
  <2>7. o = process_cgi_header(eof)
    BY <1>3, <1>11
  <2>8. QED BY <1>8, <2>5, <2>6, <2>7 DEF o
<1>12. ASSUME Space(x) # 0, n # 0
       PROVE  /\ Held(p) = (e + n) - m /\ p.next = HeaderLen + Held(p) /\ p.line <= p.hend
              /\ p.hend <= BufferSize + 1 /\ p.next + p.pipe + p.output = HeaderLen + OutputLen
              /\ p.next - HeaderLen >= p.head <=> Held(p) >= p.head
  <2>1. p.line = m /\ p.hend = e + n /\ p.next = (h + (e - m)) + n /\ p.pipe = u - n /\ p.output = w
        /\ p.head = hd
    BY <1>1, <1>5, <1>6, <1>7 DEF SameEnd
  <2>2. /\ (h + (e - m)) + n = h + ((e + n) - m) /\ m <= e + n
        /\ (h + (e - m)) + n + (u - n) + w = h + OutputLen
        /\ (h + (e - m)) + n - h = (e + n) - m
    BY ONLY <1>2, <1>6, <1>7
  <2>3. QED BY <1>2, <1>6, <1>7, <2>1, <2>2 DEF Held
<1>13. HeaderOrder(x) => p.sent = <<>> /\ Run(p.buf, p.line, p.hend, HeaderLen)
  BY <1>5 DEF HeaderOrder, SameEnd
<1>14. CASE Space(x) # 0 /\ n # 0 /\ p.next - HeaderLen >= p.head
  <2>1. /\ got \in Request /\ got.status = "PIPE_READ" /\ got.cgi = "DONE" /\ got.line = p.line
        /\ got.hend = p.hend /\ got.next = p.next /\ got.pipe = p.pipe /\ got.output = p.output
        /\ got.start = 0 /\ got.end = 0 /\ got.sent = p.sent /\ got.head = p.head /\ got.buf = p.buf
    BY <1>1, <1>5 DEF Request, SameEnd
  <2> HIDE DEF got
  <2>2. Held(got) = Held(p)
    BY <2>1 DEF Held
  <2>3. AtHeader(got)
    <3>1. got.head \in CgiHeaders /\ got.line = Middle
      BY <1>1, <1>5, <2>1 DEF SameEnd
    <3>2. QED BY <1>1, <1>12, <1>14, <2>1, <2>2, <3>1 DEF AtHeader, PipeStates
  <2>4. HeaderOrder(x) => HeaderOrder(got)
    BY <1>13, <2>1 DEF HeaderOrder
  <2>5. o = process_cgi_header(got)
    BY <1>3, <1>14
  <2>6. QED BY <1>8, <2>3, <2>4, <2>5 DEF o
<1>15. CASE Space(x) # 0 /\ n # 0 /\ ~(p.next - HeaderLen >= p.head)
  <2>1. o.ret = 1 /\ Settle(o) = p
    BY <1>3, <1>15 DEF Out, Settle
  <2>2. /\ p \in Request /\ p.status = "PIPE_READ" /\ p.cgi = "PARSE" /\ p.start = 0 /\ p.end = 0
        /\ p.line = Middle /\ p.head = x.head /\ p.sent = x.sent
    BY <1>1, <1>5 DEF SameEnd
  <2>3. Bounded(p)
    BY <1>6, <1>12, <1>15, <2>2 DEF Bounded
  <2>4. "PIPE_READ" \in Statuses
    BY <1>1, KindOf DEF PipeStates
  <2>5. Sane(p)
    BY <1>1, <1>12, <1>15, <2>2, <2>3, <2>4 DEF Sane, FileStates
  <2>6. ASSUME HeaderOrder(x) PROVE Stream(p, 0)
    <3>1. p.sent = <<>> /\ Len(p.sent) = 0 /\ Run(p.buf, p.line, p.hend, HeaderLen)
      BY <1>13, <2>6
    <3>2. Passed(p) = 0 /\ Numbers(p.sent, 0) /\ Run(p.buf, p.start, p.end, 0 + Len(p.sent))
      BY <2>2, <3>1 DEF Passed, Unsent, Numbers, Run
    <3>3. 0 \in Bases(p)
      BY DEF Bases
    <3>4. Phase(p, 0)
      BY <2>2, <3>1, <3>2 DEF Phase, FileStates
    <3>5. QED BY <3>2, <3>3, <3>4 DEF Stream
  <2>7. QED BY <1>1, <2>1, <2>5, <2>6 DEF o
<1>16. QED BY <1>9, <1>10, <1>11, <1>14, <1>15

(* read_from_pipe after that: what is read is passed on; a full buffer and *)
(* the end of the output are left to write_from_pipe.                      *)
LEMMA ReadBodyKeeps ==
    ASSUME NEW x, Sane(x), x.status = "PIPE_READ", x.cgi # "PARSE"
    PROVE  /\ read_from_pipe(x).ret \in {-1, 0, 1}
           /\ Sane(Settle(read_from_pipe(x)))
           /\ \A b : Stream(x, b) /\ x.end = 0 => Stream(Settle(read_from_pipe(x)), b)
<1> DEFINE o == read_from_pipe(x)
           n == Least(Space(x), x.pipe)
           p == Fed(x, n)
           t == Ended(x)
           eof == [t EXCEPT !.status = "PIPE_WRITE", !.cgi = "DONE"]
           full == [x EXCEPT !.status = "PIPE_WRITE"]
<1>1. /\ x \in Request /\ x.line <= x.hend /\ x.hend <= BufferSize + 1 /\ Bounded(x)
      /\ x.status \in PipeStates /\ x.start <= x.end /\ x.end <= BufferSize
  BY DEF Sane, Bounded, PipeStates
<1>2. /\ n \in Nat /\ n <= x.pipe /\ x.hend + n <= BufferSize + 1
      /\ Space(x) = 0 <=> x.hend = BufferSize + 1
      /\ Space(x) # 0 /\ n = 0 => x.pipe = 0
  BY <1>1, ReadsHowMuch
<1>3. o = IF Space(x) = 0 THEN Out(1, full)
          ELSE IF n = 0 /\ x.output > 0 THEN Out(-1, x)
          ELSE IF n = 0 THEN Out(1, eof)
          ELSE write_from_pipe(p)
  <2> HIDE DEF n
  <2>1. p = Ended([x EXCEPT !.buf = Put(@, x.hend, Bytes(x.next, n)), !.next = @ + n,
                            !.hend = @ + n, !.pipe = @ - n])
    BY DEF Fed
  <2>2. QED BY <2>1 DEF read_from_pipe, n
<1>4. /\ t \in Request /\ SameEnd(x, t) /\ t.hend = x.hend /\ t.next = x.next /\ t.pipe = x.pipe
      /\ \A v \in Nat : Run(x.buf, x.line, x.hend, v) => Run(t.buf, t.line, t.hend, v)
  BY <1>1, EndedIs
<1>5. /\ p \in Request /\ SameEnd(x, p) /\ p.hend = x.hend + n /\ p.next = x.next + n /\ p.pipe = x.pipe - n
      /\ \A v \in Nat : Run(x.buf, x.line, x.hend, v) /\ x.next = v + Held(x) =>
            Run(p.buf, p.line, p.hend, v)
  <2> HIDE DEF n
  <2>1. QED BY <1>1, <1>2, FedIs
<1> HIDE DEF o, n, p, t
<1>6. PICK e \in Nat, l \in Nat, N \in Nat, u \in Nat, w \in Nat, a \in Nat :
         /\ e = x.hend /\ l = x.line /\ N = BufferSize /\ u = x.pipe /\ w = x.output /\ a = x.next
         /\ l <= e /\ e + n <= N + 1 /\ n <= u
  BY <1>1, <1>2, FieldTypes, Sizes
<1>7. ASSUME NEW b, Stream(x, b), x.end = 0
      PROVE  /\ b \in Bases(x) /\ b \in Nat /\ Ordered(x, b) /\ Piped(x, b) /\ x.start = 0
             /\ Passed(x) \in Nat /\ Unsent(x) = 0
  <2>1. b \in Bases(x) /\ b \in Nat /\ Ordered(x, b) /\ Piped(x, b)
    BY <1>1, <1>7, PipeStream
  <2>2. x.start = 0 /\ Unsent(x) = 0 /\ Len(x.sent) \in Nat
    BY <1>1, <1>7, FieldTypes DEF Unsent
  <2>3. QED BY <2>1, <2>2 DEF Passed
<1>8. CASE Space(x) = 0
  <2>1. o.ret = 1 /\ Settle(o) = full
    BY <1>3, <1>8 DEF Out, Settle
  <2>2. /\ full \in Request /\ full.status = "PIPE_WRITE" /\ full.cgi = x.cgi /\ full.line = x.line
        /\ full.hend = x.hend /\ full.next = x.next /\ full.pipe = x.pipe /\ full.output = x.output
        /\ full.start = x.start /\ full.end = x.end /\ full.sent = x.sent /\ full.head = x.head
        /\ full.buf = x.buf
    BY <1>1 DEF Request
  <2> HIDE DEF full
  <2>3. Bounded(full)
    BY <1>1, <2>2 DEF Bounded
  <2>4. /\ Sane(full)
        /\ \A b : b \in Bases(x) /\ Ordered(full, b) /\ Piped(full, b) => Stream(full, b)
    BY <1>1, <2>2, <2>3, PipeGoesOn DEF PipeStates
  <2>5. ASSUME NEW b, Stream(x, b), x.end = 0 PROVE Stream(full, b)
    <3>1. b \in Bases(x) /\ Ordered(x, b) /\ Piped(x, b)
      BY <1>7, <2>5
    <3>2. x.line < x.hend
      BY <1>2, <1>8, <3>1 DEF Piped
    <3>3. Ordered(full, b) /\ Passed(full) = Passed(x) /\ Held(full) = Held(x)
      BY <2>2, <3>1 DEF Ordered, Passed, Unsent, Held
    <3>4. Piped(full, b)
      BY <2>2, <3>1, <3>2, <3>3 DEF Piped
    <3>5. QED BY <2>4, <3>1, <3>3, <3>4
  <2>6. QED BY <2>1, <2>4, <2>5 DEF o
<1>9. CASE Space(x) # 0 /\ n = 0 /\ x.output > 0
  <2>1. o.ret = -1 /\ Settle(o) = x
    BY <1>3, <1>9 DEF Out, Settle
  <2>2. QED BY <2>1 DEF o
<1>10. CASE Space(x) # 0 /\ n = 0 /\ ~(x.output > 0)
  <2>1. o.ret = 1 /\ Settle(o) = eof
    BY <1>3, <1>10 DEF Out, Settle
  <2>2. /\ eof \in Request /\ eof.status = "PIPE_WRITE" /\ eof.cgi = "DONE" /\ eof.line = x.line
        /\ eof.hend = x.hend /\ eof.next = x.next /\ eof.pipe = x.pipe /\ eof.output = x.output
        /\ eof.start = x.start /\ eof.end = x.end /\ eof.sent = x.sent /\ eof.head = x.head
        /\ eof.buf = t.buf
    BY <1>1, <1>4 DEF Request, SameEnd
  <2> HIDE DEF eof
  <2>3. Bounded(eof)
    BY <1>1, <2>2 DEF Bounded
  <2>4. /\ Sane(eof)
        /\ \A b : b \in Bases(x) /\ Ordered(eof, b) /\ Piped(eof, b) => Stream(eof, b)
    BY <1>1, <2>2, <2>3, PipeGoesOn DEF PipeStates
  <2>5. ASSUME NEW b, Stream(x, b), x.end = 0 PROVE Stream(eof, b)
    <3>1. b \in Bases(x) /\ b \in Nat /\ Ordered(x, b) /\ Piped(x, b) /\ x.start = 0 /\ Passed(x) \in Nat
      BY <1>7, <2>5
    <3>2. Ordered(eof, b) /\ Passed(eof) = Passed(x) /\ Held(eof) = Held(x)
      BY <2>2, <2>5, <3>1 DEF Ordered, Passed, Unsent, Held, Run
    <3>3. x.pipe = 0 /\ x.output = 0
      BY <1>2, <1>6, <1>10
    <3>4. b + Passed(x) \in Nat
      BY <3>1
    <3>5. Run(eof.buf, eof.line, eof.hend, b + Passed(eof))
      BY <1>4, <2>2, <3>1, <3>2, <3>4 DEF Piped, SameEnd
    <3>6. Piped(eof, b)
      BY <2>2, <3>1, <3>2, <3>3, <3>5 DEF Piped
    <3>7. QED BY <2>4, <3>1, <3>2, <3>6
  <2>6. QED BY <2>1, <2>4, <2>5 DEF o
<1>11. CASE Space(x) # 0 /\ n # 0
  <2>1. p.line = l /\ p.hend = e + n /\ p.next = a + n /\ p.pipe = u - n /\ p.output = w
    BY <1>5, <1>6 DEF SameEnd
  <2>2. l < e + n /\ e + n <= N + 1 /\ a + n + (u - n) + w = a + u + w
    BY ONLY <1>2, <1>6, <1>11
  <2>3. /\ p.status = "PIPE_READ" /\ p.cgi = x.cgi /\ p.start = x.start /\ p.end = x.end
        /\ p.head = x.head /\ p.sent = x.sent
    BY <1>5 DEF SameEnd
  <2>4. p.line < p.hend /\ Bounded(p)
    BY <1>1, <1>2, <1>6, <2>1, <2>2, <2>3 DEF Bounded
  <2>5. p.next + p.pipe + p.output = x.next + x.pipe + x.output
    BY <1>6, <2>1, <2>2
  <2>6. /\ Sane(p)
        /\ \A b : b \in Bases(x) /\ Ordered(p, b) /\ Piped(p, b) => Stream(p, b)
    BY <1>1, <1>5, <2>3, <2>4, <2>5, PipeGoesOn
  <2>7. ASSUME NEW b, Stream(x, b), x.end = 0 PROVE Stream(p, b)
    <3>1. b \in Bases(x) /\ b \in Nat /\ Ordered(x, b) /\ Piped(x, b) /\ x.start = 0 /\ Passed(x) \in Nat
      BY <1>7, <2>7
    <3>2. Ordered(p, b) /\ Passed(p) = Passed(x)
      BY <2>3, <2>7, <3>1 DEF Ordered, Passed, Unsent, Run
    <3>3. PICK v \in Nat : v = b + Passed(x)
      BY <3>1
    <3>4. x.next = v + Held(x) /\ Run(x.buf, x.line, x.hend, v) /\ a = v + (e - l)
      BY <1>6, <3>1, <3>3 DEF Piped, Held
    <3>5. Run(p.buf, p.line, p.hend, v)
      BY <1>5, <3>4
    <3>6. p.next = b + Passed(p) + Held(p)
      <4>1. b + Passed(p) = v
        BY <3>2, <3>3
      <4>2. Held(p) = (e + n) - l
        BY <2>1 DEF Held
      <4>3. a + n = v + ((e + n) - l)
        BY ONLY <1>2, <1>6, <3>3, <3>4
      <4>4. QED BY <2>1, <4>1, <4>2, <4>3
    <3>7. Piped(p, b)
      BY <2>3, <2>4, <3>1, <3>2, <3>3, <3>5, <3>6 DEF Piped
    <3>8. QED BY <2>6, <3>1, <3>2, <3>7
  <2>8. o = write_from_pipe(p)
    BY <1>3, <1>11
  <2>9. /\ o.ret \in {-1, 0, 1} /\ Sane(Settle(o))
        /\ \A b : Stream(p, b) /\ p.end = 0 => Stream(Settle(o), b)
    BY <1>1, <2>3, <2>4, <2>6, <2>8, WritePipeKeeps
  <2>10. QED BY <2>3, <2>7, <2>9 DEF o
<1>12. QED BY <1>8, <1>9, <1>10, <1>11
-----------------------------------------------------------------------------
(* The values that a handler returns. *)
Returns(o) == o.ret = -1 \/ o.ret \in Nat

(* A DONE request is flushed. *)
LEMMA DoneKeeps ==
    ASSUME NEW x, Sane(x), x.status = "DONE"
    PROVE  /\ Returns(req_flush(x)) /\ Sane(Settle(req_flush(x)))
           /\ \A b : Stream(x, b) => Stream(Settle(req_flush(x)), b)
<1> DEFINE o == req_flush(x)
<1>1. x \in Request /\ Bounded(x) /\ x.status # "DEAD"
  BY DEF Sane
<1>2. PICK k : Flushed(x, o.q, k)
  BY <1>1, FlushIs
<1>3. Returns(o)
  <2>1. \/ o.ret = -1 \/ o.ret = 0 \/ o.ret = x.end
    BY <1>1, FlushIs
  <2>2. QED BY <1>1, <2>1, FieldTypes DEF Returns
<1>4. Sane(o.q) /\ \A b : Stream(x, b) => Stream(o.q, b)
  BY <1>1, <1>2, FlushedKeeps
<1>5. Settle(o) = o.q
  BY <1>2 DEF Settle, Flushed, SameStore, Request
<1>6. QED BY <1>3, <1>4, <1>5

(* The buffer of a DEAD request is dropped. *)
LEMMA DeadKeeps ==
    ASSUME NEW x, Sane(x), x.status = "DEAD", NEW o, o = Out(0, [x EXCEPT !.end = 0])
    PROVE  /\ Returns(o) /\ Sane(Settle(o))
           /\ \A b : Stream(x, b) => Stream(Settle(o), b)
<1> DEFINE y == [x EXCEPT !.end = 0]
<1>1. x \in Request /\ Bounded(x)
  BY DEF Sane
<1>2. /\ y \in Request /\ y.status = "DEAD" /\ y.start = x.start /\ y.end = 0 /\ y.line = x.line
      /\ y.hend = x.hend /\ SamePipe(x, y) /\ y.head = x.head /\ y.sent = x.sent
      /\ y.open = x.open /\ y.file = x.file
  BY <1>1 DEF Request, SamePipe
<1>3. o.ret = 0 /\ o.q = y /\ Settle(o) = y
  BY <1>2 DEF Out, Settle
<1> HIDE DEF y
<1>4. Bounded(y)
  BY <1>1, <1>2, Sizes DEF Bounded
<1>5. Sane(y)
  BY <1>2, <1>4 DEF Sane, SamePipe, FileStates, PipeStates, FileKept
<1>6. ASSUME NEW b, Stream(x, b) PROVE Stream(y, b)
  <2>1. b \in Bases(y)
    BY <1>2, <1>6 DEF Stream, Bases
  <2>2. Phase(y, b)
    BY <1>2, <1>6 DEF Stream, Phase, FileStates, PipeStates
  <2>3. QED BY <1>2, <1>6, <2>1, <2>2 DEF Stream
<1>7. QED BY <1>3, <1>5, <1>6 DEF Returns

(* Every handler keeps what is known of a request, and the order when a    *)
(* handler that writes past the buffer finds it empty.                     *)
LEMMA HandledKeeps ==
    ASSUME parts \in Seq(Nat), NEW x, Sane(x), NEW o, o = Handled(x)
    PROVE  /\ Returns(o) /\ Sane(Settle(o))
           /\ \A b : Stream(x, b) /\ (Direct(x) => x.end = 0) => \E c : Stream(Settle(o), c)
<1>1. /\ x.status \in Statuses /\ x \in Request
      /\ x.status \in {"WRITE", "IOSHUFFLE", "PIPE_READ", "PIPE_WRITE", "DONE", "DEAD"}
  BY FieldTypes DEF Sane
<1>2. CASE x.status = "WRITE" \/ (x.status = "IOSHUFFLE" /\ kind = "sendfile")
  <2>1. o = process_get(x)
    BY <1>2 DEF Handled, Closing
  <2>2. FileRequest(x) /\ kind # "shuffle" /\ Direct(x)
    BY <1>1, <1>2, FileSane DEF FileStates, Statuses, Direct
  <2>3. /\ o.ret \in {-1, 0, 1} /\ Sane(Settle(o))
        /\ FileOrder(x) /\ x.end = 0 => Stream(Settle(o), 0)
    BY <2>1, <2>2, ProcessGetKeeps
  <2>4. \A b : Stream(x, b) => FileOrder(x)
    BY <1>2, FileSane DEF FileStates
  <2>5. QED BY <2>2, <2>3, <2>4 DEF Returns
<1>3. CASE x.status = "IOSHUFFLE" /\ kind # "sendfile"
  <2>1. o = io_shuffle(x)
    BY <1>3 DEF Handled, Closing
  <2>2. FileRequest(x) /\ kind = "shuffle"
    BY <1>1, <1>3, FileSane DEF FileStates, Statuses, PipeStates
  <2>3. /\ o.ret \in {-1, 0, 1} /\ Sane(Settle(o))
        /\ FileOrder(x) => Stream(Settle(o), 0)
    BY <2>1, <2>2, ShuffleKeeps
  <2>4. \A b : Stream(x, b) => FileOrder(x)
    BY <1>3, FileSane DEF FileStates
  <2>5. QED BY <2>3, <2>4 DEF Returns
<1>4. CASE x.status = "PIPE_READ"
  <2>1. o = read_from_pipe(x) /\ Direct(x)
    BY <1>4 DEF Handled, Direct, Closing
  <2>2. CASE x.cgi = "PARSE"
    <3>1. /\ o.ret \in {-1, 0, 1} /\ Sane(Settle(o))
          /\ \A b : Stream(x, b) => \E c : Stream(Settle(o), c)
      BY <1>4, <2>1, <2>2, ReadHeaderKeeps
    <3>2. QED BY <3>1 DEF Returns
  <2>3. CASE x.cgi # "PARSE"
    <3>1. /\ o.ret \in {-1, 0, 1} /\ Sane(Settle(o))
          /\ \A b : Stream(x, b) /\ x.end = 0 => Stream(Settle(o), b)
      BY <1>4, <2>1, <2>3, ReadBodyKeeps
    <3>2. QED BY <2>1, <3>1 DEF Returns
  <2>4. QED BY <2>2, <2>3
<1>5. CASE x.status = "PIPE_WRITE"
  <2>1. o = write_from_pipe(x) /\ Direct(x)
    BY <1>5 DEF Handled, Direct, Closing
  <2>2. x.status \in PipeStates /\ x.cgi # "PARSE"
    BY <1>5 DEF PipeStates, Sane
  <2>3. /\ o.ret \in {-1, 0, 1} /\ Sane(Settle(o))
        /\ \A b : Stream(x, b) /\ x.end = 0 => Stream(Settle(o), b)
    BY <1>5, <2>1, <2>2, WritePipeKeeps
  <2>4. QED BY <2>1, <2>3 DEF Returns
<1>6. CASE x.status = "DONE"
  <2>1. o = req_flush(x)
    BY <1>6 DEF Handled, Closing
  <2>2. QED BY <1>6, <2>1, DoneKeeps
<1>7. CASE x.status = "DEAD"
  <2>1. o = Out(0, [x EXCEPT !.end = 0])
    BY <1>7 DEF Handled, Closing
  <2>2. QED BY <1>7, <2>1, DeadKeeps
<1>8. QED BY <1>1, <1>2, <1>3, <1>4, <1>5, <1>6, <1>7

-----------------------------------------------------------------------------
(* What a race leaves: of a single range that is sent past the buffer      *)
(* every byte that was produced is sent or still in the buffer, once.      *)
Single == kind \in {"mmap", "sendfile"} /\ Len(parts) = 1

Has(x, c) == \/ \E i \in 1 .. Len(x.sent) : x.sent[i] = c
             \/ \E i \in x.start .. x.end - 1 : x.buf[i] = c

Whole(x) ==
    /\ x.status # "DEAD"
    /\ \A c \in 1 .. Passed(x) : Has(x, c)
    /\ x.status \in FileStates => x.next = Passed(x) /\ x.next + Left(x) = FileLen
    /\ x.status = "DONE" => Passed(x) = FileLen

(* Where the order is kept nothing is missing. *)
LEMMA StreamWhole ==
    ASSUME Single, NEW x, Sane(x), NEW b, Stream(x, b)
    PROVE  Whole(x)
<1>1. kind \in FileKinds /\ kind # "shuffle" /\ ~AtTheEdge
  BY DEF Single, FileKinds, AtTheEdge
<1>2. b = 0 /\ x.status # "DEAD"
  BY <1>1, FileBase DEF Stream, Phase
<1>3. /\ x \in Request /\ x.start \in Nat /\ x.end \in Nat /\ x.start <= x.end /\ x.open
      /\ x.sent \in Seq(Nat) /\ Len(x.sent) \in Nat
  BY <1>1, <1>2, FieldTypes DEF Sane, Bounded, FileKept, Request
<1>4. Numbers(x.sent, 0) /\ Run(x.buf, x.start, x.end, Len(x.sent))
  BY <1>2, <1>3 DEF Stream
<1>5. ASSUME NEW c \in 1 .. Passed(x) PROVE Has(x, c)
  <2>1. PICK a \in Nat, e \in Nat, n \in Nat : a = x.start /\ e = x.end /\ n = Len(x.sent)
    BY <1>3
  <2>2. c \in 1 .. n + (e - a) /\ a <= e
    BY <1>3, <2>1 DEF Passed, Unsent
  <2>3. CASE c <= n
    <3>1. c \in 1 .. Len(x.sent) /\ 0 + c = c
      BY <2>1, <2>2, <2>3
    <3>2. x.sent[c] = c
      BY <1>4, <3>1 DEF Numbers
    <3>3. QED BY <3>1, <3>2 DEF Has
  <2>4. CASE c > n
    <3>1. PICK i \in Nat : i = a + (c - n - 1)
      BY <2>2, <2>4
    <3>2. i \in a .. e - 1 /\ n + (i - a) + 1 = c
      BY <2>2, <2>4, <3>1
    <3>3. x.buf[i] = c
      BY <1>4, <2>1, <3>2 DEF Run
    <3>4. QED BY <2>1, <3>2, <3>3 DEF Has
  <2>5. QED BY <2>2, <2>3, <2>4
<1>6. x.status = "DONE" => Passed(x) = FileLen
  BY <1>1, <1>3 DEF Stream, Phase, Finished
<1>7. QED BY <1>2, <1>5, <1>6 DEF Stream, Phase, Whole

(* A flush moves bytes from the buffer to the client and loses none.       *)
LEMMA FlushedWhole ==
    ASSUME NEW x \in Request, NEW y, NEW k, Bounded(x), Flushed(x, y, k), Whole(x)
    PROVE  Whole(y)
<1>1. x.status # "DEAD"
  BY DEF Whole
<1>2. /\ Passed(y) = Passed(x) /\ y.status = x.status /\ SameStore(x, y) /\ y \in Request
  BY <1>1, FlushedOrder
<1> DEFINE s == Cut(x.buf, x.start, x.end)
<1>3. /\ x.start \in Nat /\ x.end \in Nat /\ x.start <= x.end /\ k \in Nat /\ Len(x.sent) \in Nat
      /\ k <= x.end - x.start /\ x.buf \in [Slots -> Nat] /\ x.end <= BufferSize + 1
  BY <1>1, FieldTypes, Sizes DEF Bounded, Flushed, Unsent
<1>4. /\ Took(x, y, s, k) /\ y.buf = x.buf
      /\ \/ y.start = 0 /\ y.end = 0 /\ k = x.end - x.start
         \/ y.start = x.start + k /\ y.end = x.end
  BY <1>2 DEF Flushed, Unsent, SameStore
<1>5. Len(s) = x.end - x.start /\ \A i \in 1 .. x.end - x.start : s[i] = x.buf[x.start + i - 1]
  <2>1. PICK buf, lo, hi : /\ buf = x.buf /\ lo = x.start /\ hi = x.end
                           /\ buf \in [Slots -> Nat] /\ lo \in Nat /\ hi \in Nat
                           /\ lo <= hi /\ hi <= BufferSize + 1
    BY <1>3
  <2>2. buf \in [Slots -> Nat] /\ lo \in Nat /\ hi \in Nat /\ lo <= hi /\ hi <= BufferSize + 1
    BY <2>1
  <2>3. Len(Cut(buf, lo, hi)) = hi - lo /\ \A i \in 1 .. hi - lo : Cut(buf, lo, hi)[i] = buf[lo + i - 1]
    BY ONLY <2>2, CutIs
  <2>4. QED BY <2>1, <2>3
<1> HIDE DEF s
<1>6. ASSUME NEW c, Has(x, c) PROVE Has(y, c)
  <2>1. PICK a \in Nat, e \in Nat, n \in Nat : a = x.start /\ e = x.end /\ n = Len(x.sent) /\ a <= e
    BY <1>3
  <2>2. Len(y.sent) = n + k /\ k <= e - a
    BY <1>3, <1>4, <2>1 DEF Took
  <2>3. CASE \E i \in 1 .. Len(x.sent) : x.sent[i] = c
    <3>1. PICK i \in 1 .. n : x.sent[i] = c
      BY <2>1, <2>3
    <3>2. y.sent[i] = c
      BY <1>4, <2>1, <3>1 DEF Took
    <3>3. i \in 1 .. Len(y.sent)
      BY <1>3, <2>1, <2>2, <3>1
    <3>4. QED BY <3>2, <3>3 DEF Has
  <2>4. CASE \E i \in x.start .. x.end - 1 : x.buf[i] = c
    <3>1. PICK i \in a .. e - 1 : x.buf[i] = c
      BY <2>1, <2>4
    <3>2. CASE i < a + k
      <4>1. PICK j \in Nat : j = i - a + 1
        BY <2>1, <3>1
      <4>2. j \in 1 .. k /\ j \in 1 .. e - a /\ a + j - 1 = i /\ n + j \in 1 .. n + k
        <5>1. k \in Nat /\ a \in Nat /\ e \in Nat /\ n \in Nat /\ i \in a .. e - 1
          BY <1>3, <2>1, <3>1
        <5>2. QED BY ONLY <2>2, <3>2, <4>1, <5>1
      <4>3. s[j] = c
        BY <1>5, <2>1, <3>1, <4>2
      <4>4. y.sent[n + j] = c
        BY <1>4, <2>1, <4>2, <4>3 DEF Took
      <4>5. QED BY <2>2, <4>2, <4>4 DEF Has
    <3>3. CASE i >= a + k
      <4>1. ~(k = e - a)
        BY <2>1, <3>1, <3>3
      <4>2. y.start = a + k /\ y.end = e
        BY <1>4, <2>1, <4>1
      <4>3. i \in y.start .. y.end - 1 /\ y.buf[i] = c
        BY <1>3, <1>4, <2>1, <3>1, <3>3, <4>2
      <4>4. QED BY <4>3 DEF Has
    <3>4. QED BY <1>3, <2>1, <3>1, <3>2, <3>3
  <2>5. QED BY <1>6, <2>3, <2>4 DEF Has
<1>7. \A c \in 1 .. Passed(y) : Has(y, c)
  BY <1>2, <1>6 DEF Whole
<1>8. Left(y) = Left(x) /\ y.next = x.next
  BY <1>2 DEF Left, SameStore
<1>9. QED BY <1>1, <1>2, <1>7, <1>8 DEF Whole

(* process_get takes the next bytes past the ones in the buffer.           *)
LEMMA ProcessGetWhole ==
    ASSUME parts \in Seq(Nat), Single, NEW x, FileRequest(x), Whole(x)
    PROVE  Whole(Settle(process_get(x)))
<1> DEFINE o == process_get(x)
<1>1. /\ x \in Request /\ x.next \in Nat /\ x.sent \in Seq(Nat) /\ Len(x.sent) \in Nat
      /\ x.start \in Nat /\ x.end \in Nat /\ x.start <= x.end /\ kind # "shuffle"
      /\ x.status \in FileStates /\ x.next = Passed(x) /\ x.next + Left(x) = FileLen
      /\ Len(parts) = 1
  BY FieldTypes DEF FileRequest, FileStates, Bounded, Single, Whole
<1>2. CASE o = Out(-1, x)
  <2>1. Settle(o) = x
    BY <1>2 DEF Out, Settle
  <2>2. QED BY <2>1
<1>3. CASE \E p, t, k : GetSends(x, p, t, k)
  <2>1. PICK p, s, k : GetSends(x, p, s, k)
    BY <1>3
  <2>2. /\ k \in Nat /\ s \in Seq(Nat) /\ k <= Len(s) /\ Numbers(s, x.next) /\ Took(x, p, s, k)
        /\ FileRequest(p) /\ p.next = x.next + k /\ p.start = x.start /\ p.end = x.end /\ p.buf = x.buf
        /\ p.status = x.status /\ Left(p) = Left(x) - k /\ Left(x) \in Nat
        /\ o = IF p.ranges[1] = 0 THEN complete_response(p) ELSE Out(1, p)
    BY <2>1 DEF GetSends
  <2> HIDE DEF o
  <2>3. p.next = Passed(p) /\ p.next + Left(p) = FileLen
    <3>1. PICK a \in Nat, e \in Nat, n \in Nat, m \in Nat, l \in Nat :
             a = x.start /\ e = x.end /\ n = Len(x.sent) /\ m = x.next /\ l = Left(x)
      BY <1>1, <2>2
    <3>2. m = n + (e - a) /\ Len(p.sent) = n + k /\ m + l = FileLen
      BY <1>1, <2>2, <3>1 DEF Passed, Unsent, Took
    <3>3. p.next = m + k /\ Left(p) = l - k /\ Passed(p) = (n + k) + (e - a)
      BY <2>2, <3>1, <3>2 DEF Passed, Unsent
    <3>4. QED BY <2>2, <3>2, <3>3
  <2>4. ASSUME NEW c \in 1 .. Passed(p) PROVE Has(p, c)
    <3>1. PICK n \in Nat, m \in Nat, d \in Nat : n = Len(x.sent) /\ m = x.next /\ d = Len(s)
      BY <1>1, <2>2
    <3>2. c \in 1 .. m + k /\ Len(p.sent) = n + k /\ k <= d
      BY <2>2, <2>3, <3>1 DEF Took
    <3>3. CASE c <= m
      <4>1. c \in 1 .. Passed(x)
        BY <1>1, <3>1, <3>2, <3>3
      <4>2. Has(x, c)
        BY <4>1 DEF Whole
      <4>3. CASE \E i \in 1 .. Len(x.sent) : x.sent[i] = c
        <5>1. PICK i \in 1 .. n : x.sent[i] = c
          BY <3>1, <4>3
        <5>2. p.sent[i] = c
          BY <2>2, <3>1, <5>1 DEF Took
        <5>3. i \in 1 .. Len(p.sent)
          BY <2>2, <3>1, <3>2, <5>1
        <5>4. QED BY <5>2, <5>3 DEF Has
      <4>4. CASE \E i \in x.start .. x.end - 1 : x.buf[i] = c
        BY <2>2, <4>4 DEF Has
      <4>5. QED BY <4>2, <4>3, <4>4 DEF Has
    <3>4. CASE c > m
      <4>1. PICK j \in Nat : j = c - m
        BY <3>1, <3>2, <3>4
      <4>2. j \in 1 .. k /\ j \in 1 .. d /\ m + j = c /\ n + j \in 1 .. n + k
        <5>1. k \in Nat /\ n \in Nat /\ m \in Nat /\ d \in Nat /\ c \in Nat
          BY <2>2, <3>1, <3>2
        <5>2. QED BY ONLY <3>2, <3>4, <4>1, <5>1
      <4>3. s[j] = c
        BY <2>2, <3>1, <4>2 DEF Numbers
      <4>4. p.sent[n + j] = c
        BY <2>2, <3>1, <4>2, <4>3 DEF Took
      <4>5. QED BY <3>2, <4>2, <4>4 DEF Has
    <3>5. QED BY <3>1, <3>2, <3>3, <3>4
  <2>5. CASE p.ranges[1] # 0
    <3>1. Settle(o) = p
      BY <2>2, <2>5 DEF Out, Settle
    <3>2. Whole(p)
      BY <1>1, <2>2, <2>3, <2>4 DEF Whole, FileStates
    <3>3. QED BY <3>1, <3>2 DEF o
  <2>6. CASE p.ranges[1] = 0
    <3> DEFINE y == [[p EXCEPT !.ranges = Tail(@)] EXCEPT !.status = "DONE"]
    <3>1. p \in Request
      BY <2>2 DEF FileRequest
    <3>2. o.ret = 0 /\ o.q = y /\ y.status = "DONE" /\ [y EXCEPT !.status = "DONE"] = y
      BY <1>1, <2>2, <2>6, <3>1 DEF complete_response, Out, Request
    <3>3. Settle(o) = y
      BY <3>2 DEF Settle
    <3>4. y.sent = p.sent /\ y.buf = p.buf /\ y.start = p.start /\ y.end = p.end
      BY <3>1 DEF Request
    <3> HIDE DEF y
    <3>5. Passed(y) = Passed(p) /\ \A c : Has(p, c) => Has(y, c)
      BY <3>4 DEF Passed, Unsent, Has
    <3>6. Left(p) = 0
      <4>1. /\ Len(p.ranges) \in Nat \ {0} /\ (Tail(p.ranges) = <<>> <=> Len(p.ranges) = 1)
            /\ (Tail(p.ranges) = <<>> => Total(p.ranges) = 0)
        BY <2>2, <2>6, NextRange
      <4>2. Len(p.ranges) <= 1
        BY <1>1, <2>2 DEF FileRequest
      <4>3. Total(p.ranges) = 0
        BY <4>1, <4>2
      <4>4. QED BY <1>1, <4>3 DEF Left, Boundaries
    <3>7. p.next = FileLen
      <4>1. p.next \in Nat
        BY <3>1, FieldTypes
      <4>2. QED BY <2>3, <3>6, <4>1
    <3>8. Whole(y)
      BY <2>3, <2>4, <3>2, <3>5, <3>7 DEF Whole, FileStates
    <3>9. QED BY <3>3, <3>8 DEF o
  <2>7. QED BY <2>5, <2>6
<1>4. QED BY <1>1, <1>2, <1>3, ProcessGetIs

(* Every handler of such a response loses nothing.                         *)
LEMMA HandledWhole ==
    ASSUME parts \in Seq(Nat), Single, NEW x, Sane(x), Whole(x), NEW o, o = Handled(x)
    PROVE  Whole(Settle(o))
<1>1. x \in Request /\ Bounded(x) /\ x.status \in Statuses /\ x.status # "DEAD"
  BY DEF Sane, Whole
<1>2. CASE x.status = "DONE"
  <2>1. o = req_flush(x)
    BY <1>2 DEF Handled, Closing
  <2>2. PICK k : Flushed(x, o.q, k)
    BY <1>1, <2>1, FlushIs
  <2>3. Settle(o) = o.q
    BY <1>2, <2>2 DEF Settle, Flushed, SameStore, Request
  <2>4. QED BY <1>1, <2>2, <2>3, FlushedWhole
<1>3. CASE x.status # "DONE"
  <2>1. x.status = "WRITE" \/ (x.status = "IOSHUFFLE" /\ kind = "sendfile")
    BY <1>1, <1>3 DEF Single, Statuses
  <2>2. o = process_get(x) /\ FileRequest(x)
    BY <2>1, FileSane DEF Handled, Closing, FileStates
  <2>3. QED BY <2>2, ProcessGetWhole
<1>4. QED BY <1>2, <1>3

(* A response starts. *)
Started(x) == CASE kind \in FileKinds -> init_get(x)
                [] kind \in CgiKinds -> init_cgi([x EXCEPT !.next = HeaderLen])
                [] kind \in {"listing", "gunzip"} -> get_dir(x)

(* Whatever is asked for, what is known of a request holds from its start. *)
LEMMA StartedKeeps ==
    ASSUME kind \in Kinds, kind \in FileKinds => parts \in Seq(Nat) /\ parts # <<>>,
           NEW x, Fresh(x), NEW o, o = Started(x)
    PROVE  /\ Returns(o) /\ Sane(Settle(o))
           /\ ~(kind = "gunzip" /\ get_dir(x).q.end # 0) => Stream(Settle(o), 0)
<1>1. CASE kind \in FileKinds
  <2>1. o = init_get(x)
    BY <1>1 DEF Started, FileKinds, CgiKinds
  <2>2. QED BY <1>1, <2>1, InitGetKeeps DEF Returns
<1>2. CASE kind \in CgiKinds
  <2> DEFINE y == [x EXCEPT !.next = HeaderLen]
  <2>1. o = init_cgi(y)
    BY <1>2 DEF Started, FileKinds, CgiKinds
  <2>2. kind \notin FileKinds /\ kind # "listing" /\ HeaderLen \in Nat /\ BufferSize \in Nat
    BY <1>2, Sizes DEF FileKinds, CgiKinds
  <2>3. /\ y \in Request /\ y.status = "WRITE" /\ y.start = 0 /\ y.end = 0 /\ y.line = 0 /\ y.hend = 0
        /\ y.next = HeaderLen /\ y.sent = <<>> /\ y.pipe = 0 /\ y.output = OutputLen
        /\ y.head \in CgiHeaders
    BY <1>2, <2>2 DEF Fresh, Request
  <2> HIDE DEF y
  <2>4. Bounded(y)
    BY <2>2, <2>3 DEF Bounded
  <2>5. o.ret = 1 /\ Sane(Settle(o)) /\ Stream(Settle(o), 0)
    BY <1>2, <2>1, <2>2, <2>3, <2>4, InitCgiKeeps
  <2>6. QED BY <2>5 DEF Returns
<1>3. CASE kind \in {"listing", "gunzip"}
  <2>1. o = get_dir(x)
    BY <1>3 DEF Started, FileKinds, CgiKinds
  <2>2. QED BY <1>3, <2>1, GetDirKeeps DEF Returns
<1>4. QED BY <1>1, <1>2, <1>3 DEF Kinds

(* The request that follows a handler or the start of a response.          *)
LEMMA Disposed ==
    ASSUME NEW o, Returns(o), Sane(Settle(o)), Dispose(o), closed = "no",
           wait \in {"none", "socket", "pipe"}
    PROVE  \E y : /\ q' = y /\ Sane(y) /\ \A b : Stream(Settle(o), b) => Stream(y, b)
                  /\ pc' \in {"blocked", "turn", "end"} /\ wait' \in {"none", "socket", "pipe"}
                  /\ closed' \in {"no", "complete", "dropped", "dead"}
                  /\ closed' # "no" => pc' = "end"
                  /\ closed' = "dead" => y.status = "DEAD"
                  /\ closed' = "complete" => y.status = "DONE" /\ y.start = 0 /\ y.end = 0
                  /\ Whole(Settle(o)) => Whole(y)
<1>1. CASE o.ret # 0
  <2>1. Settle(o) = o.q
    BY <1>1 DEF Settle
  <2>2. /\ q' = o.q /\ pc' \in {"blocked", "turn"} /\ closed' = "no"
        /\ wait' \in {"none", "socket", "pipe"}
    <3>1. CASE o.ret = -1
      BY <1>1, <3>1 DEF Dispose, block_request
    <3>2. CASE o.ret \in Nat
      BY <1>1, <3>2 DEF Dispose
    <3>3. QED BY <3>1, <3>2 DEF Returns
  <2>3. QED BY <2>1, <2>2
<1>2. CASE o.ret = 0
  <2>1. free_request(o.q) /\ wait' = wait
    BY <1>2 DEF Dispose
  <2>2. CASE o.q.status = "DEAD"
    <3>1. Settle(o) = o.q
      BY <2>2 DEF Settle
    <3>2. q' = o.q /\ pc' = "end" /\ closed' = "dead"
      BY <2>1, <2>2 DEF free_request, Closing
    <3>3. QED BY <2>1, <2>2, <3>1, <3>2
  <2>3. CASE o.q.status # "DEAD"
    <3> DEFINE x == Settle(o)
               f == req_flush(x)
    <3>1. x = [o.q EXCEPT !.status = "DONE"]
      BY <1>2, <2>3 DEF Settle
    <3>2. /\ q' = f.q /\ pc' = IF f.ret > 0 THEN "turn" ELSE "end"
          /\ closed' = IF f.ret > 0 THEN "no" ELSE IF f.ret = -1 THEN "dropped" ELSE "complete"
      BY <2>1, <2>3, <3>1 DEF free_request, Closing
    <3> HIDE DEF x
    <3>3. Sane(x) /\ x \in Request /\ Bounded(x)
      BY DEF Sane, x
    <3>4. x.status = "DONE"
      <4>1. "status" \in DOMAIN x
        BY <3>3 DEF Request
      <4>2. "status" \in DOMAIN o.q
        BY <3>1, <4>1
      <4>3. QED BY <3>1, <4>2
    <3>5. /\ \E k : Flushed(x, f.q, k)
          /\ \/ f.ret = -1
             \/ f.ret = 0 /\ f.q.start = 0 /\ f.q.end = 0
             \/ f.ret = x.end /\ x.end > 0
      BY <3>3, <3>4, FlushIs
    <3>6. PICK k : Flushed(x, f.q, k)
      BY <3>5
    <3> HIDE DEF f
    <3>7. Sane(f.q) /\ (\A b : Stream(x, b) => Stream(f.q, b)) /\ f.q.status = "DONE"
      BY <3>3, <3>4, <3>6, FlushedKeeps DEF Flushed, SameStore
    <3>8. closed' = "complete" => f.q.start = 0 /\ f.q.end = 0
      BY <3>2, <3>3, <3>5, FieldTypes
    <3>9. /\ pc' \in {"turn", "end"} /\ closed' \in {"no", "complete", "dropped"}
          /\ closed' # "no" => pc' = "end"
      BY <3>2
    <3>10. Whole(x) => Whole(f.q)
      BY <3>3, <3>6, FlushedWhole
    <3>11. QED BY <2>1, <3>2, <3>7, <3>8, <3>9, <3>10 DEF x
  <2>4. QED BY <2>2, <2>3
<1>3. QED BY <1>1, <1>2
-----------------------------------------------------------------------------
(* What a step that leaves the kind of the response and its ranges alone   *)
(* makes of a fact about the next request.                                 *)
LEMMA Primed ==
    ASSUME kind' = kind, parts' = parts, NEW y, q' = y
    PROVE  /\ Sane(y) => Sane(q)'
           /\ \A b : Stream(y, b) => Stream(q, b)'
           /\ AtTheEdge => AtTheEdge'
           /\ (Single => Whole(y)) => (Single => Whole(q))'
<1>1. Statuses' = Statuses
  BY DEF Statuses
<1>2. Bounded(y) => Bounded(q)'
  BY DEF Bounded
<1>3. /\ Held(q)' = Held(y) /\ Passed(q)' = Passed(y) /\ Bases(q)' = Bases(y) /\ Left(q)' = Left(y)
      /\ FileLen' = FileLen
  <2>1. Held(q)' = Held(y) /\ Passed(q)' = Passed(y)
    BY DEF Held, Passed, Unsent
  <2>2. Bases(q)' = Bases(y)
    BY DEF Bases
  <2>3. Left(q)' = Left(y)
    BY DEF Left, Boundaries
  <2>4. FileLen' = FileLen
    BY DEF FileLen, Boundaries
  <2>5. QED BY <2>1, <2>2, <2>3, <2>4
<1>4. AtTheEdge => AtTheEdge'
  BY DEF AtTheEdge
<1>5. Sane(y) => Sane(q)'
  BY <1>1, <1>2, <1>3 DEF Sane, FileKept
<1>6. ASSUME NEW b, Stream(y, b) PROVE Stream(q, b)'
  <2>1. IsError(y, b) => IsError(q, b)'
    BY <1>3 DEF IsError
  <2>2. Finished(y, b) => Finished(q, b)'
    BY <1>3, <2>1 DEF Finished
  <2>3. Piped(y, b) => Piped(q, b)'
    BY <1>3 DEF Piped, Run
  <2>4. Phase(q, b)'
    BY <1>3, <1>4, <1>6, <2>2, <2>3 DEF Stream, Phase, Run
  <2>5. QED BY <1>3, <1>6, <2>4 DEF Stream, Numbers, Run
<1>7. (Single => Whole(y)) => (Single => Whole(q))'
  <2>1. Single' => Single
    BY DEF Single
  <2>2. \A c : Has(y, c) => Has(q, c)'
    BY DEF Has
  <2>3. QED BY <1>3, <2>1, <2>2 DEF Whole
<1>8. QED BY <1>4, <1>5, <1>6, <1>7
-----------------------------------------------------------------------------
(* What the client and a child's output leave alone.                       *)
SameBuffer(x, y) ==
    /\ y.status = x.status /\ y.cgi = x.cgi /\ y.line = x.line /\ y.head = x.head
    /\ y.start = x.start /\ y.end = x.end /\ y.sent = x.sent
    /\ y.buf = x.buf /\ y.hend = x.hend /\ y.next = x.next /\ y.ranges = x.ranges
    /\ y.open = x.open /\ y.file = x.file

(* The client drains the socket, or a child's output moves to the pipe.    *)
LEMMA OutputMoves ==
    ASSUME NEW x, Sane(x), NEW y, y \in Request, SameBuffer(x, y),
           y.pipe + y.output = x.pipe + x.output,
           \/ y.pipe = x.pipe /\ y.output = x.output
           \/ kind # "gunzip" /\ x.output > 0
    PROVE  Sane(y) /\ \A b : Stream(x, b) => Stream(y, b)
<1>1. /\ y.status = x.status /\ y.cgi = x.cgi /\ y.line = x.line /\ y.head = x.head
      /\ y.start = x.start /\ y.end = x.end /\ y.sent = x.sent
      /\ y.buf = x.buf /\ y.hend = x.hend /\ y.next = x.next /\ y.ranges = x.ranges
      /\ y.open = x.open /\ y.file = x.file
  BY DEF SameBuffer
<1>2. Held(y) = Held(x) /\ Passed(y) = Passed(x) /\ Bases(y) = Bases(x) /\ Left(y) = Left(x)
      /\ (Bounded(x) => Bounded(y))
  BY <1>1 DEF Held, Passed, Unsent, Bases, Left, Bounded
<1>3. x \in Request
  BY DEF Sane
<1>4. y.next + y.pipe + y.output = x.next + x.pipe + x.output
  <2>1. PICK a \in Nat, p \in Nat, o \in Nat, r \in Nat, u \in Nat :
           a = x.next /\ p = x.pipe /\ o = x.output /\ r = y.pipe /\ u = y.output /\ r + u = p + o
    BY <1>3, FieldTypes
  <2>2. a + r + u = a + p + o
    BY ONLY <2>1
  <2>3. QED BY <1>1, <2>1, <2>2
<1>5. Sane(y)
  BY <1>1, <1>2, <1>4 DEF Sane, FileKept
<1>6. ASSUME NEW b, Stream(x, b) PROVE Stream(y, b)
  <2>1. IsError(x, b) => IsError(y, b)
    BY <1>1, <1>2 DEF IsError
  <2>2. x.output > 0 => x.output # 0
    BY <1>3, FieldTypes
  <2>3. Finished(x, b) => Finished(y, b)
    <3>1. CASE y.pipe = x.pipe /\ y.output = x.output
      BY <1>1, <1>2, <2>1, <3>1 DEF Finished
    <3>2. CASE kind # "gunzip" /\ x.output > 0
      BY <1>1, <1>2, <2>1, <2>2, <3>2 DEF Finished
    <3>3. QED BY <3>1, <3>2
  <2>4. Piped(x, b) => Piped(y, b)
    BY <1>1, <1>2, <2>2 DEF Piped
  <2>5. Phase(y, b)
    BY <1>1, <1>2, <1>6, <2>3, <2>4 DEF Stream, Phase
  <2>6. QED BY <1>1, <1>2, <1>6, <2>5 DEF Stream
<1>7. QED BY <1>5, <1>6

(* A child that shares the socket sends the next byte. *)
LEMMA ChildSends ==
    ASSUME NEW x, Sane(x), kind = "gunzip", x.room > 0, x.output > 0,
           NEW y, y = [Send(x, Bytes(x.next, 1)) EXCEPT !.next = @ + 1, !.output = @ - 1]
    PROVE  /\ Sane(y) /\ \A b : Stream(x, b) => Stream(y, b)
           /\ y.status = x.status /\ y.start = x.start /\ y.end = x.end
<1> DEFINE s == Bytes(x.next, 1)
           z == Send(x, s)
           k == Taken(x, s)
<1>1. /\ x \in Request /\ Bounded(x) /\ x.status = "DONE" /\ Statuses = {"DONE"}
      /\ kind \notin FileKinds /\ kind \notin CgiKinds
      /\ x.next + x.pipe + x.output = HeaderLen + OutputLen
  BY KindOf DEF Sane, FileKinds, CgiKinds
<1>2. /\ x.next \in Nat /\ x.output \in Nat /\ x.pipe \in Nat /\ x.room \in Nat
      /\ x.sent \in Seq(Nat) /\ Len(x.sent) \in Nat
  BY <1>1, FieldTypes
<1>3. s \in Seq(Nat) /\ Len(s) = 1 /\ Numbers(s, x.next)
  BY <1>2, BytesAre
<1>4. /\ k \in Nat /\ k <= Len(s) /\ (k = Len(s) \/ k = x.room)
      /\ z \in Request /\ Took(x, z, s, k) /\ SameStore(x, z) /\ z.start = x.start /\ z.end = x.end
  BY <1>1, <1>3, SendTakes
<1> HIDE DEF s, z, k
<1>5. k = 1
  <2>1. PICK r \in Nat : r = x.room /\ r > 0
    BY <1>2
  <2>2. k \in Nat /\ k <= 1 /\ (k = 1 \/ k = r)
    BY <1>3, <1>4, <2>1
  <2>3. QED BY ONLY <2>1, <2>2
<1>6. PICK a \in Nat, u \in Nat : a = x.next + 1 /\ u = x.output - 1
  BY <1>2
<1>7. y = [z EXCEPT !.next = a, !.output = u]
  BY <1>4, <1>6 DEF SameStore, Request, z, s
<1>8. /\ y \in Request /\ y.status = x.status /\ y.start = x.start /\ y.end = x.end /\ y.line = x.line
      /\ y.hend = x.hend /\ y.next = a /\ y.output = u /\ y.pipe = x.pipe /\ y.sent = z.sent
      /\ y.head = x.head
  BY <1>4, <1>7, ZenonT(60) DEF Request, SameStore
<1>9. Bounded(y)
  BY <1>1, <1>8 DEF Bounded
<1>10. y.next + y.pipe + y.output = HeaderLen + OutputLen
  <2>1. PICK d \in Nat, p \in Nat, o \in Nat : d = x.next /\ p = x.pipe /\ o = x.output
    BY <1>2
  <2>2. a + p + u = d + p + o
    BY <1>6, <2>1
  <2>3. QED BY <1>1, <1>8, <2>1, <2>2
<1>11. Sane(y)
  BY <1>1, <1>8, <1>9, <1>10 DEF Sane, FileStates, PipeStates
<1>12. ASSUME NEW b, Stream(x, b) PROVE Stream(y, b)
  <2>1. /\ b \in Bases(x) /\ Numbers(x.sent, b) /\ x.start = 0 /\ x.end = 0 /\ x.pipe = 0
        /\ Passed(x) = x.next
    BY <1>1, <1>12 DEF Stream, Phase, Finished
  <2>2. b = 0 /\ b \in Nat /\ b \in Bases(y)
    BY <2>1 DEF Bases
  <2>3. Len(x.sent) = x.next /\ b + Len(x.sent) = x.next
    BY <1>2, <2>1, <2>2 DEF Passed, Unsent
  <2>4. Numbers(z.sent, b)
    BY <1>2, <1>3, <1>4, <2>1, <2>2, <2>3, Continues
  <2>5. Len(y.sent) = a
    BY <1>4, <1>5, <1>6, <1>8, <2>3 DEF Took
  <2>6. Passed(y) = y.next
    BY <1>8, <2>1, <2>5 DEF Passed, Unsent
  <2>7. Finished(y, b)
    BY <1>1, <1>8, <2>1, <2>6 DEF Finished
  <2>8. Phase(y, b)
    BY <1>1, <1>8, <2>7 DEF Phase, FileStates, PipeStates
  <2>9. QED BY <1>8, <2>1, <2>2, <2>4, <2>8 DEF Stream, Run
<1>13. QED BY <1>8, <1>11, <1>12
-----------------------------------------------------------------------------
(* The inductive invariant.  Sane is what the bounds need and holds of     *)
(* every response; Stream is what the order needs, as long as no handler   *)
(* wrote past bytes in the buffer, and Whole is what is left of it then.   *)
TInv ==
    /\ TypeOK
    /\ parts \in IF kind \in FileKinds THEN Files ELSE {<<>>}
    /\ pc = "start" => Fresh(q) /\ closed = "no" /\ ~raced
    /\ pc # "start" => Sane(q)
    /\ pc # "start" /\ ~raced => \E b : Stream(q, b)
    /\ pc # "start" /\ Single => Whole(q)
    /\ raced => kind # "shuffle"
    /\ closed = "dead" => q.status = "DEAD" /\ (raced \/ AtTheEdge)
    /\ closed = "complete" => q.status = "DONE" /\ q.start = 0 /\ q.end = 0
    /\ closed # "no" => pc = "end"

(* Ranges that are not empty have lengths. *)
LEMMA PositiveSeq ==
    ASSUME NEW s \in Seq(Nat \ {0})
    PROVE  s \in Seq(Nat)
<1>1. Len(s) \in Nat /\ s = [i \in 1 .. Len(s) |-> s[i]] /\ \A i \in 1 .. Len(s) : s[i] \in Nat
  OBVIOUS
<1>2. QED BY <1>1

(* A response that has not begun. *)
LEMMA InitTInv == Init => TInv
<1> SUFFICES ASSUME Init PROVE TInv
  OBVIOUS
<1>1. PICK size, head, free :
         /\ free \in 0 .. Room
         /\ size \in IF kind \in {"shuffle", "sendfile"} THEN 0 .. Total(parts) ELSE {0}
         /\ head \in IF kind \in CgiKinds THEN CgiHeaders ELSE {0}
         /\ q = [status |-> "WRITE", start |-> 0, end |-> 0,
                 buf |-> [i \in Slots |-> IF i > BufferSize THEN Neighbour ELSE 0],
                 line |-> 0, hend |-> 0, cgi |-> "PARSE", head |-> head, ranges |-> parts,
                 file |-> size, open |-> TRUE, next |-> 0, sent |-> <<>>, room |-> free,
                 pipe |-> 0, output |-> IF kind \in FileKinds THEN 0 ELSE OutputLen]
  BY DEF Init
<1>2. /\ kind \in Kinds /\ parts \in IF kind \in FileKinds THEN Files ELSE {<<>>}
      /\ pc = "start" /\ wait = "none" /\ raced = FALSE /\ closed = "no"
  BY DEF Init
<1>3. parts \in Seq(Nat)
  <2>1. Files \subseteq Seq(Nat \ {0})
    BY TransferAssumption
  <2>2. CASE kind \in FileKinds
    BY <1>2, <2>1, <2>2, PositiveSeq
  <2>3. CASE kind \notin FileKinds
    BY <1>2, <2>3
  <2>4. QED BY <2>2, <2>3
<1>4. size \in Nat /\ head \in Nat /\ (kind \in CgiKinds => head \in CgiHeaders)
  <2>1. PICK r : r = parts
    OBVIOUS
  <2>2. Total(r) \in Nat
    BY <1>3, <2>1, Totals
  <2>3. size \in Nat
    BY <1>1, <2>1, <2>2
  <2>4. QED BY <1>1, <2>3, Sizes
<1>5. [i \in Slots |-> IF i > BufferSize THEN Neighbour ELSE 0] \in [Slots -> Nat]
  BY DEF Neighbour
<1>6. free \in 0 .. Room /\ OutputLen \in Nat
  BY <1>1, Sizes
<1>7. q \in Request
  BY <1>1, <1>3, <1>4, <1>5, <1>6 DEF Request, Closing
<1>8. TypeOK
  BY <1>2, <1>7 DEF TypeOK
<1>9. Fresh(q)
  BY <1>1, <1>4, <1>7 DEF Fresh
<1>10. QED BY <1>2, <1>8, <1>9 DEF TInv

(* The ranges of a file.                                                   *)
LEMMA PartsAre ==
    ASSUME TInv
    PROVE  /\ parts \in Seq(Nat)
           /\ kind \in FileKinds => parts # <<>>
<1>1. Files \subseteq Seq(Nat \ {0}) /\ <<>> \notin Files
  BY TransferAssumption
<1>2. CASE kind \in FileKinds
  BY <1>1, <1>2, PositiveSeq DEF TInv
<1>3. CASE kind \notin FileKinds
  BY <1>3 DEF TInv
<1>4. QED BY <1>2, <1>3

(* What is enough for the invariant to hold after a step. *)
LEMMA StepTInv ==
    ASSUME TInv, kind' = kind, parts' = parts, NEW y, q' = y, Sane(y),
           raced' \in BOOLEAN, ~raced' => \E b : Stream(y, b),
           pc' \in {"turn", "handler", "blocked", "end"}, wait' \in {"none", "socket", "pipe"},
           closed' \in {"no", "complete", "dropped", "dead", "error"},
           Single => Whole(y), raced' => kind # "shuffle",
           closed' = "dead" => y.status = "DEAD" /\ (raced' \/ AtTheEdge),
           closed' = "complete" => y.status = "DONE" /\ y.start = 0 /\ y.end = 0,
           closed' # "no" => pc' = "end"
    PROVE  TInv'
<1>1. /\ Sane(q)' /\ (\A b : Stream(y, b) => Stream(q, b)') /\ (AtTheEdge => AtTheEdge')
      /\ (Single => Whole(q))'
  BY Primed
<1>2. TypeOK'
  BY DEF TypeOK, TInv, Sane
<1>3. (~raced => \E b : Stream(q, b))'
  <2> SUFFICES ASSUME ~raced' PROVE \E b : Stream(q, b)'
    OBVIOUS
  <2>1. PICK b : Stream(y, b)
    OBVIOUS
  <2>2. QED BY <1>1, <2>1
<1>4. (parts \in IF kind \in FileKinds THEN Files ELSE {<<>>})'
  BY DEF TInv
<1>5. QED BY <1>1, <1>2, <1>3, <1>4 DEF TInv

(* Start: the response begins.                                             *)
LEMMA StartTInv ==
    ASSUME TInv, Start
    PROVE  TInv'
<1>1. PICK x : x = q
  OBVIOUS
<1>2. PICK o : o = Started(x)
  OBVIOUS
<1>3. /\ Fresh(x) /\ closed = "no" /\ ~raced /\ kind \in Kinds /\ wait \in {"none", "socket", "pipe"}
  BY <1>1 DEF Start, TInv, TypeOK
<1>4. /\ Dispose(o) /\ raced' = (kind = "gunzip" /\ get_dir(x).q.end # 0) /\ kind' = kind /\ parts' = parts
  BY <1>1, <1>2 DEF Start, Started
<1>5. /\ Returns(o) /\ Sane(Settle(o))
      /\ ~(kind = "gunzip" /\ get_dir(x).q.end # 0) => Stream(Settle(o), 0)
  BY <1>2, <1>3, PartsAre, StartedKeeps
<1>6. PICK y : /\ q' = y /\ Sane(y) /\ \A b : Stream(Settle(o), b) => Stream(y, b)
               /\ pc' \in {"blocked", "turn", "end"} /\ wait' \in {"none", "socket", "pipe"}
               /\ closed' \in {"no", "complete", "dropped", "dead"}
               /\ closed' # "no" => pc' = "end"
               /\ closed' = "dead" => y.status = "DEAD"
               /\ closed' = "complete" => y.status = "DONE" /\ y.start = 0 /\ y.end = 0
               /\ Whole(Settle(o)) => Whole(y)
  BY <1>3, <1>4, <1>5, Disposed
<1>7. ~raced' => Stream(y, 0)
  BY <1>4, <1>5, <1>6
<1>8. closed' = "dead" => raced' \/ AtTheEdge
  BY <1>6, <1>7 DEF Stream, Phase
<1>9. raced' \in BOOLEAN /\ (raced' => kind # "shuffle")
  BY <1>4
<1>10. Single => Whole(y)
  BY <1>4, <1>6, <1>7, StreamWhole DEF Single
<1>11. QED BY <1>4, <1>6, <1>7, <1>8, <1>9, <1>10, StepTInv

(* Handler: the handler of a turn.                                         *)
LEMMA HandlerTInv ==
    ASSUME TInv, Handler
    PROVE  TInv'
<1>1. PICK x : x = q
  OBVIOUS
<1>2. PICK o : o = Handled(x)
  OBVIOUS
<1>3. /\ pc = "handler" /\ Sane(x) /\ closed = "no" /\ raced \in BOOLEAN
      /\ wait \in {"none", "socket", "pipe"}
      /\ ~raced => \E b : Stream(x, b)
      /\ Single => Whole(x)
      /\ raced => kind # "shuffle"
  BY <1>1 DEF Handler, TInv, TypeOK
<1>4. /\ Dispose(o) /\ raced' = (raced \/ (x.end # 0 /\ Direct(x) /\ o # Out(-1, x)))
      /\ kind' = kind /\ parts' = parts
  BY <1>1, <1>2 DEF Handler
<1>5. /\ Returns(o) /\ Sane(Settle(o))
      /\ \A b : Stream(x, b) /\ (Direct(x) => x.end = 0) => \E c : Stream(Settle(o), c)
  BY <1>2, <1>3, PartsAre, HandledKeeps
<1>6. PICK y : /\ q' = y /\ Sane(y) /\ \A b : Stream(Settle(o), b) => Stream(y, b)
               /\ pc' \in {"blocked", "turn", "end"} /\ wait' \in {"none", "socket", "pipe"}
               /\ closed' \in {"no", "complete", "dropped", "dead"}
               /\ closed' # "no" => pc' = "end"
               /\ closed' = "dead" => y.status = "DEAD"
               /\ closed' = "complete" => y.status = "DONE" /\ y.start = 0 /\ y.end = 0
               /\ Whole(Settle(o)) => Whole(y)
  BY <1>3, <1>4, <1>5, Disposed
<1>7. ~raced' => \E b : Stream(y, b)
  <2> SUFFICES ASSUME ~raced' PROVE \E b : Stream(y, b)
    OBVIOUS
  <2>1. PICK b : Stream(x, b)
    BY <1>3, <1>4
  <2>2. CASE Direct(x) => x.end = 0
    BY <1>5, <1>6, <2>1, <2>2
  <2>3. CASE ~(Direct(x) => x.end = 0)
    <3>1. o = Out(-1, x)
      BY <1>4, <2>3
    <3>2. Settle(o) = x
      BY <3>1 DEF Settle, Out
    <3>3. QED BY <1>6, <2>1, <3>2
  <2>4. QED BY <2>2, <2>3
<1>8. closed' = "dead" => raced' \/ AtTheEdge
  BY <1>6, <1>7 DEF Stream, Phase
<1>9. raced' \in BOOLEAN /\ (raced' => kind # "shuffle")
  <2>1. kind = "shuffle" => ~Direct(x)
    BY <1>3 DEF Sane, Statuses, Direct
  <2>2. QED BY <1>3, <1>4, <2>1
<1>10. Single => Whole(y)
  BY <1>2, <1>3, <1>6, PartsAre, HandledWhole
<1>11. QED BY <1>4, <1>6, <1>7, <1>8, <1>9, <1>10, StepTInv

(* Flush: a turn begins.                                                   *)
LEMMA FlushTInv ==
    ASSUME TInv, Flush
    PROVE  TInv'
<1>1. PICK x : x = q
  OBVIOUS
<1> DEFINE f == req_flush(x)
<1>2. /\ pc = "turn" /\ Sane(x) /\ closed = "no" /\ raced \in BOOLEAN /\ x \in Request /\ Bounded(x)
      /\ wait \in {"none", "socket", "pipe"} /\ x.end \in Nat
      /\ ~raced => \E b : Stream(x, b)
      /\ (Single => Whole(x)) /\ (raced => kind # "shuffle")
  BY <1>1, FieldTypes DEF Flush, TInv, TypeOK, Sane
<1>3. kind' = kind /\ parts' = parts /\ raced' = raced
  BY DEF Flush
<1>4. PICK o : /\ o = IF x.end # 0 THEN f ELSE Out(0, x)
               /\ \/ o.ret = -1 /\ Dispose(o)
                  \/ /\ o.ret # -1 /\ q' = o.q /\ pc' = "handler"
                     /\ wait' = wait /\ closed' = closed
  BY <1>1 DEF Flush
<1>5. Sane(o.q) /\ (\A b : Stream(x, b) => Stream(o.q, b)) /\ (Whole(x) => Whole(o.q))
  <2>1. CASE x.end = 0
    BY <1>2, <1>4, <2>1 DEF Out
  <2>2. CASE x.end # 0 /\ x.status = "DEAD"
    <3>1. o = Out(-2, x)
      BY <1>4, <2>2 DEF req_flush, Closing
    <3>2. QED BY <1>2, <3>1 DEF Out
  <2>3. CASE x.end # 0 /\ x.status # "DEAD"
    <3>1. o = f
      BY <1>4, <2>3
    <3>2. PICK k : Flushed(x, o.q, k)
      BY <1>2, <2>3, <3>1, FlushIs
    <3>3. QED BY <1>2, <2>3, <3>2, FlushedKeeps, FlushedWhole
  <2>4. QED BY <2>1, <2>2, <2>3
<1>6. PICK y : y = o.q
  OBVIOUS
<1>7. (~raced => \E b : Stream(y, b)) /\ (Single => Whole(y)) /\ Sane(y)
  BY <1>2, <1>5, <1>6
<1>8. /\ q' = y /\ pc' \in {"blocked", "handler"} /\ wait' \in {"none", "socket", "pipe"}
      /\ closed' = "no"
  BY <1>2, <1>4, <1>6 DEF Dispose, block_request
<1>9. QED BY <1>2, <1>3, <1>7, <1>8, StepTInv

(* The event loop, a broken connection and a step that changes nothing     *)
(* leave the request alone.                                                *)
LEMMA SameTInv ==
    ASSUME TInv, q' = q, kind' = kind, parts' = parts, raced' = raced, wait' \in {"none", "socket", "pipe"},
           \/ pc # "start" /\ pc' = "turn" /\ pc # "end" /\ closed' = closed
           \/ pc # "start" /\ pc' = "end" /\ closed' = "error"
    PROVE  TInv'
<1>1. PICK y : y = q
  OBVIOUS
<1>2. /\ Sane(y) /\ (~raced => \E b : Stream(y, b)) /\ raced \in BOOLEAN
      /\ (Single => Whole(y)) /\ (raced => kind # "shuffle")
      /\ closed \in {"no", "complete", "dropped", "dead", "error"}
      /\ closed # "no" => pc = "end"
  BY <1>1 DEF TInv, TypeOK
<1>3. QED BY <1>1, <1>2, StepTInv

(* Drain and Child: only the socket, the pipe and the output change.       *)
LEMMA SourceTInv ==
    ASSUME TInv, NEW x, x = q, NEW y, q' = y, pc # "start", Sane(y), \A b : Stream(x, b) => Stream(y, b),
           y.status = x.status, y.start = x.start, y.end = x.end, Single => SameBuffer(x, y),
           kind' = kind, parts' = parts, pc' = pc, wait' = wait, raced' = raced, closed' = closed
    PROVE  TInv'
<1>1. /\ (~raced => \E b : Stream(x, b)) /\ raced \in BOOLEAN
      /\ pc \in {"start", "turn", "handler", "blocked", "end"} /\ wait \in {"none", "socket", "pipe"}
      /\ closed \in {"no", "complete", "dropped", "dead", "error"}
      /\ closed # "no" => pc = "end"
      /\ (Single => Whole(x)) /\ (raced => kind # "shuffle")
      /\ closed = "dead" => x.status = "DEAD" /\ (raced \/ AtTheEdge)
      /\ closed = "complete" => x.status = "DONE" /\ x.start = 0 /\ x.end = 0
  BY DEF TInv, TypeOK
<1>2. Single => Whole(y)
  <2> SUFFICES ASSUME Single PROVE Whole(y)
    OBVIOUS
  <2>1. /\ y.status = x.status /\ y.sent = x.sent /\ y.start = x.start /\ y.end = x.end
        /\ y.buf = x.buf /\ y.next = x.next /\ y.ranges = x.ranges
    BY DEF SameBuffer
  <2>2. Passed(y) = Passed(x) /\ Left(y) = Left(x) /\ \A c : Has(x, c) => Has(y, c)
    BY <2>1 DEF Passed, Unsent, Left, Has
  <2>3. QED BY <1>1, <2>1, <2>2 DEF Whole
<1>3. ~raced => \E b : Stream(y, b)
  BY <1>1
<1>4. QED BY <1>1, <1>2, <1>3, StepTInv

(* Drain: the client empties the socket.                                   *)
LEMMA DrainTInv ==
    ASSUME TInv, Drain
    PROVE  TInv'
<1>1. PICK x : x = q
  OBVIOUS
<1>2. PICK y : y = [x EXCEPT !.room = Room]
  OBVIOUS
<1>3. /\ q' = y /\ kind' = kind /\ parts' = parts /\ pc' = pc /\ wait' = wait /\ raced' = raced
      /\ closed' = closed /\ x \in Request
  BY <1>1, <1>2 DEF Drain, TInv, TypeOK
<1>4. Room \in 0 .. Room
  BY Sizes
<1>5. y \in Request /\ SameBuffer(x, y) /\ y.pipe = x.pipe /\ y.output = x.output
  BY <1>2, <1>3, <1>4 DEF Request, SameBuffer
<1>6. CASE pc = "start"
  <2>1. Fresh(x) /\ closed = "no" /\ ~raced
    BY <1>1, <1>6 DEF TInv
  <2>2. Fresh(q)'
    BY <1>2, <1>3, <1>5, <2>1 DEF Fresh, Request
  <2>3. TypeOK'
    BY <1>3, <1>5 DEF TInv, TypeOK
  <2>4. (parts \in IF kind \in FileKinds THEN Files ELSE {<<>>})'
    BY <1>3 DEF TInv
  <2>5. QED BY <1>3, <1>6, <2>1, <2>2, <2>3, <2>4 DEF TInv
<1>7. CASE pc # "start"
  <2>1. Sane(x)
    BY <1>1, <1>7 DEF TInv
  <2>2. Sane(y) /\ \A b : Stream(x, b) => Stream(y, b)
    BY <1>5, <2>1, OutputMoves
  <2>3. QED BY <1>1, <1>3, <1>5, <1>7, <2>2, SourceTInv DEF SameBuffer
<1>8. QED BY <1>6, <1>7

(* Child: the child process writes.                                        *)
LEMMA ChildTInv ==
    ASSUME TInv, Child
    PROVE  TInv'
<1>1. PICK x : x = q
  OBVIOUS
<1>2. /\ kind' = kind /\ parts' = parts /\ pc' = pc /\ wait' = wait /\ raced' = raced
      /\ closed' = closed /\ x \in Request /\ pc # "start" /\ Sane(x) /\ x.output > 0
  BY <1>1 DEF Child, TInv, TypeOK
<1>3. CASE kind = "gunzip"
  <2>1. PICK y : y = [Send(x, Bytes(x.next, 1)) EXCEPT !.next = @ + 1, !.output = @ - 1]
    OBVIOUS
  <2>2. q' = y /\ x.room > 0
    BY <1>1, <1>3, <2>1 DEF Child
  <2>3. /\ Sane(y) /\ (\A b : Stream(x, b) => Stream(y, b))
        /\ y.status = x.status /\ y.start = x.start /\ y.end = x.end
    BY <1>2, <1>3, <2>1, <2>2, ChildSends, ZenonT(60)
  <2>4. ~Single
    BY <1>3 DEF Single
  <2>5. QED BY <1>1, <1>2, <2>2, <2>3, <2>4, SourceTInv
<1>4. CASE kind # "gunzip"
  <2>1. PICK n \in 1 .. x.output : q' = [x EXCEPT !.pipe = @ + n, !.output = @ - n]
    BY <1>1, <1>4 DEF Child
  <2>2. PICK u \in Nat, w \in Nat : u = x.pipe + n /\ w = x.output - n /\ u + w = x.pipe + x.output
    <3>1. x.pipe \in Nat /\ x.output \in Nat
      BY <1>2, FieldTypes
    <3>2. QED BY <2>1, <3>1
  <2>3. PICK y : y = [x EXCEPT !.pipe = u, !.output = w]
    OBVIOUS
  <2>4. q' = y
    BY <1>2, <2>1, <2>2, <2>3 DEF Request
  <2>5. y \in Request /\ SameBuffer(x, y) /\ y.pipe = u /\ y.output = w
    BY <1>2, <2>2, <2>3 DEF Request, SameBuffer
  <2>6. Sane(y) /\ \A b : Stream(x, b) => Stream(y, b)
    BY <1>2, <1>4, <2>2, <2>5, OutputMoves
  <2>7. QED BY <1>1, <1>2, <2>4, <2>5, <2>6, SourceTInv DEF SameBuffer
<1>5. QED BY <1>3, <1>4

(* Every step keeps the invariant. *)
LEMMA NextTInv == TInv /\ [Next]_vars => TInv'
<1> SUFFICES ASSUME TInv, [Next]_vars PROVE TInv'
  OBVIOUS
<1>1. CASE Start
  BY <1>1, StartTInv
<1>2. CASE Flush
  BY <1>2, FlushTInv
<1>3. CASE Handler
  BY <1>3, HandlerTInv
<1>4. CASE ready_request
  <2>1. /\ q' = q /\ kind' = kind /\ parts' = parts /\ raced' = raced /\ wait' \in {"none", "socket", "pipe"}
        /\ pc # "start" /\ pc' = "turn" /\ pc # "end" /\ closed' = closed
    BY <1>4 DEF ready_request
  <2>2. QED BY <2>1, SameTInv
<1>5. CASE Drain
  BY <1>5, DrainTInv
<1>6. CASE Break
  <2>1. /\ q' = q /\ kind' = kind /\ parts' = parts /\ raced' = raced /\ wait' \in {"none", "socket", "pipe"}
        /\ pc # "start" /\ pc' = "end" /\ closed' = "error"
    BY <1>6 DEF Break, TInv, TypeOK
  <2>2. QED BY <2>1, SameTInv
<1>7. CASE Child
  BY <1>7, ChildTInv
<1>8. CASE Timeout
  <2>1. /\ q' = q /\ kind' = kind /\ parts' = parts /\ raced' = raced /\ wait' \in {"none", "socket", "pipe"}
        /\ pc # "start" /\ pc' = "end" /\ closed' = "error"
    BY <1>8 DEF Timeout, Stalled, TInv, TypeOK
  <2>2. QED BY <2>1, SameTInv
<1>9. CASE UNCHANGED vars
  BY <1>9 DEF vars, TInv, TypeOK, Fresh, Sane, Statuses, Bounded, Held, Stream, Bases, Numbers, Run, Phase,
     Passed, Unsent, Left, Boundaries, FileLen, Finished, IsError, Piped, AtTheEdge, FileKept, Single,
     Whole, Has
<1>10. QED BY <1>1, <1>2, <1>3, <1>4, <1>5, <1>6, <1>7, <1>8, <1>9 DEF Next, Server
-----------------------------------------------------------------------------
(* The bounds.                                                             *)
LEMMA TInvBounds == TInv => BufferBounds
<1> SUFFICES ASSUME TInv PROVE BufferBounds
  OBVIOUS
<1>1. PICK x : x = q
  OBVIOUS
<1>2. TypeOK /\ BufferSize \in Nat
  BY Sizes DEF TInv
<1>3. CASE pc = "start"
  <2>1. Fresh(x)
    BY <1>1, <1>3 DEF TInv
  <2>2. QED BY <1>1, <1>2, <2>1 DEF Fresh, BufferBounds
<1>4. CASE pc # "start"
  <2>1. Bounded(x)
    BY <1>1, <1>4 DEF TInv, Sane
  <2>2. QED BY <1>1, <1>2, <2>1 DEF Bounded, BufferBounds, Closing
<1>5. QED BY <1>3, <1>4

(* The order. *)
LEMMA TInvOrder == TInv => InOrder
<1> SUFFICES ASSUME TInv, ~raced
             PROVE  /\ \A i \in 1 .. Len(q.sent) - 1 : q.sent[i + 1] = q.sent[i] + 1
                    /\ q.sent # <<>> => q.sent[1] \in CASE kind = "status" -> {HeaderLen, 1}
                                                        [] kind = "http09" -> {HeaderLen + q.head, 1}
                                                        [] OTHER -> {1}
  BY DEF InOrder
<1>1. PICK x : x = q
  OBVIOUS
<1>2. x \in Request /\ x.sent \in Seq(Nat) /\ Len(x.sent) \in Nat /\ x.head \in Nat /\ HeaderLen \in Nat
  BY <1>1, FieldTypes, Sizes DEF TInv, TypeOK
<1>3. CASE pc = "start"
  <2>1. q.sent = <<>>
    BY <1>3 DEF TInv, Fresh
  <2>2. QED BY <2>1
<1>4. CASE pc # "start"
  <2>1. PICK b : Stream(x, b)
    BY <1>1, <1>4 DEF TInv
  <2>2. b \in Bases(x) /\ Numbers(x.sent, b) /\ b \in Nat
    BY <1>2, <2>1, BaseNat DEF Stream
  <2>3. ASSUME NEW i \in 1 .. Len(x.sent) - 1 PROVE x.sent[i + 1] = x.sent[i] + 1
    <3>1. i \in 1 .. Len(x.sent) /\ i + 1 \in 1 .. Len(x.sent) /\ i \in Nat
      BY <1>2, <2>3
    <3>2. x.sent[i] = b + i /\ x.sent[i + 1] = b + (i + 1)
      BY <2>2, <3>1 DEF Numbers
    <3>3. QED BY <2>2, <3>1, <3>2
  <2>4. ASSUME x.sent # <<>> PROVE x.sent[1] = b + 1
    <3>1. Len(x.sent) # 0
      BY <1>2, <2>4, EmptySeq
    <3>2. 1 \in 1 .. Len(x.sent)
      BY <1>2, <3>1
    <3>3. QED BY <2>2, <3>2 DEF Numbers
  <2>5. b + 1 \in CASE kind = "status" -> {HeaderLen, 1}
                    [] kind = "http09" -> {HeaderLen + x.head, 1}
                    [] OTHER -> {1}
    <3>1. HeaderLen - 1 + 1 = HeaderLen /\ HeaderLen + x.head - 1 + 1 = HeaderLen + x.head
      BY <1>2
    <3>2. CASE kind = "status"
      BY <2>2, <3>1, <3>2 DEF Bases
    <3>3. CASE kind = "http09"
      BY <2>2, <3>1, <3>3 DEF Bases
    <3>4. CASE kind # "status" /\ kind # "http09"
      BY <2>2, <3>4 DEF Bases
    <3>5. QED BY <3>2, <3>3, <3>4
  <2>6. QED BY <1>1, <2>3, <2>4, <2>5
<1>5. QED BY <1>3, <1>4

(* The last byte. *)
LEMMA TInvLastByte ==
    ASSUME TInv, closed = "complete", kind = "gunzip" => q.output = 0, ~raced
    PROVE  q.sent # <<>> /\ (q.sent[Len(q.sent)] = Expected \/ CutShort \/ Replaced)
<1>1. PICK x : x = q
  OBVIOUS
<1>2. /\ x \in Request /\ x.sent \in Seq(Nat) /\ x.head \in Nat /\ HeaderLen \in Nat \ {0}
      /\ OutputLen \in Nat \ {0} /\ PartLen \in Nat \ {0} /\ x.next \in Nat /\ kind \in Kinds
  BY <1>1, FieldTypes, Sizes DEF TInv, TypeOK
<1>3. pc # "start" /\ Sane(x) /\ x.status = "DONE" /\ x.start = 0 /\ x.end = 0
  BY <1>1 DEF TInv
<1>4. PICK b : Stream(x, b)
  BY <1>1, <1>3 DEF TInv
<1>5. b \in Bases(x) /\ Numbers(x.sent, b) /\ b \in Nat /\ Finished(x, b)
  BY <1>2, <1>3, <1>4, BaseNat DEF Stream, Phase
<1>6. PICK n \in Nat : n = Len(x.sent) /\ Passed(x) = n
  BY <1>2, <1>3 DEF Passed, Unsent
<1>7. ASSUME n > 0 PROVE q.sent # <<>> /\ q.sent[Len(q.sent)] = b + n
  <2>1. x.sent # <<>> /\ n \in 1 .. Len(x.sent)
    BY <1>6, <1>7
  <2>2. x.sent[n] = b + n
    BY <1>5, <2>1 DEF Numbers
  <2>3. QED BY <1>1, <1>6, <2>1, <2>2
<1>8. ASSUME IsError(x, b) \/ (kind = "redirect" /\ n = HeaderLen) PROVE n > 0 /\ Replaced
  <2>1. b = 0 /\ n = HeaderLen /\ (kind = "redirect" \/ (kind \in CgiKinds /\ x.head > Half))
    BY <1>5, <1>6, <1>8 DEF IsError, Bases
  <2>2. \A i \in 1 .. HeaderLen : x.sent[i] = 0 + i
    BY <1>5, <1>6, <2>1 DEF Numbers
  <2>3. x.sent = [i \in 1 .. HeaderLen |-> x.sent[i]]
    <3>1. \A s \in Seq(Nat) : s = [i \in 1 .. Len(s) |-> s[i]]
      OBVIOUS
    <3>2. x.sent = [i \in 1 .. Len(x.sent) |-> x.sent[i]] /\ Len(x.sent) = HeaderLen
      BY <1>2, <1>6, <2>1, <3>1
    <3>3. QED BY <3>2
  <2>4. x.sent = Bytes(0, HeaderLen)
    BY <2>2, <2>3 DEF Bytes
  <2>5. QED BY <1>1, <1>2, <2>1, <2>4 DEF Replaced
<1>9. CASE kind \in FileKinds /\ ~x.open
  <2>1. b = 0 /\ n = x.next /\ x.file = 0 /\ HeaderLen <= x.next
    BY <1>3, <1>5, <1>6, <1>9, FileBase DEF Finished, Sane, FileKept
  <2>2. n > 0 /\ b + n = x.next
    BY <1>2, <2>1
  <2>3. q.sent # <<>> /\ q.sent[Len(q.sent)] = q.next
    BY <1>1, <1>7, <2>2
  <2>4. QED BY <1>1, <1>9, <2>1, <2>3 DEF CutShort
<1>10. CASE kind \in FileKinds /\ x.open
  <2>1. b = 0
    BY <1>5, <1>10, FileBase
  <2>2. n = FileLen
    BY <1>5, <1>6, <1>10 DEF Finished
  <2>3. Expected = FileLen
    BY <1>10 DEF Expected, FileLen, Boundaries
  <2>4. FileLen > 0
    <3>1. PICK s : s = parts /\ s \in Seq(Nat)
      BY PartsAre
    <3>2. Total(s) \in Nat /\ Len(s) \in Nat /\ Len(s) * PartLen \in Nat
      BY <1>2, <3>1, Totals
    <3>3. Boundaries(Len(parts)) \in Nat /\ Total(parts) \in Nat
      BY <3>1, <3>2 DEF Boundaries
    <3>4. QED BY <1>2, <3>3 DEF FileLen
  <2>5. n > 0 /\ b + n = Expected
    BY <2>1, <2>2, <2>3, <2>4
  <2>6. QED BY <1>7, <2>5
<1>11. CASE kind = "gunzip"
  <2>1. kind \notin FileKinds /\ kind # "head" /\ Expected = HeaderLen + OutputLen
    BY <1>11 DEF FileKinds, Expected
  <2>2. b = 0 /\ x.pipe = 0 /\ n = x.next /\ x.next + x.pipe + x.output = HeaderLen + OutputLen
    BY <1>3, <1>5, <1>6, <1>11, <2>1 DEF Bases, Finished, Sane
  <2>3. x.output = 0 /\ x.next = HeaderLen + OutputLen
    BY <1>1, <1>2, <1>11, <2>2
  <2>4. n > 0 /\ b + n = Expected
    BY <1>2, <2>1, <2>2, <2>3
  <2>5. QED BY <1>7, <2>4
<1>12. CASE kind = "head"
  <2>1. b = 0 /\ Expected = HeaderLen + (x.head - 1) /\ x.head >= 1
    <3>1. b = 0 /\ kind \notin FileKinds /\ kind \in CgiKinds
      BY <1>5, <1>12 DEF Bases, FileKinds, CgiKinds
    <3>2. x.head >= 1
      BY <1>3, <3>1, Sizes DEF Sane
    <3>3. QED BY <1>1, <1>12, <3>1, <3>2 DEF Expected
  <2>2. IsError(x, b) \/ n = HeaderLen + x.head - 1
    BY <1>5, <1>6, <1>12 DEF Finished
  <2>3. n = HeaderLen + x.head - 1 => n > 0 /\ b + n = Expected
    BY <1>2, <2>1
  <2>4. QED BY <1>7, <1>8, <2>2, <2>3
<1>13. CASE kind = "redirect"
  <2>1. n = HeaderLen
    BY <1>5, <1>6, <1>13 DEF Finished
  <2>2. QED BY <1>7, <1>8, <1>13, <2>1
<1>14. CASE kind \in {"plain", "status", "http09", "listing"}
  <2>1. Expected = HeaderLen + OutputLen
    BY <1>14 DEF Expected, FileKinds
  <2>2. IsError(x, b) \/ b + n = HeaderLen + OutputLen
    BY <1>5, <1>6, <1>14 DEF Finished
  <2>3. b < HeaderLen + OutputLen
    <3>1. CASE kind = "http09"
      <4>1. x.head <= OutputLen
        BY <1>3, <3>1, Sizes DEF Sane, CgiKinds
      <4>2. QED BY <1>2, <1>5, <3>1, <4>1 DEF Bases
    <3>2. CASE kind # "http09"
      BY <1>2, <1>5, <3>2 DEF Bases
    <3>3. QED BY <3>1, <3>2
  <2>4. b + n = HeaderLen + OutputLen => n > 0 /\ b + n = Expected
    BY <1>2, <1>5, <2>1, <2>3
  <2>5. QED BY <1>7, <1>8, <2>2, <2>4
<1>15. QED BY <1>2, <1>9, <1>10, <1>11, <1>12, <1>13, <1>14 DEF Kinds, CgiKinds

(* The last byte, whether or not the order was kept. *)
LEMMA TInvAllSent == TInv => AllSent
<1> SUFFICES ASSUME TInv, closed = "complete", kind = "gunzip" => q.output = 0
             PROVE  IF ~raced
                    THEN q.sent # <<>> /\ (q.sent[Len(q.sent)] = Expected \/ CutShort \/ Replaced)
                    ELSE kind \in FileKinds /\ Len(parts) = 1 =>
                            /\ Len(q.sent) = Expected
                            /\ \A b \in 1 .. Expected : \E i \in 1 .. Expected : q.sent[i] = b
  BY DEF AllSent
<1>1. CASE ~raced
  BY <1>1, TInvLastByte
<1>2. ASSUME raced, kind \in FileKinds, Len(parts) = 1
      PROVE  /\ Len(q.sent) = Expected
             /\ \A b \in 1 .. Expected : \E i \in 1 .. Expected : q.sent[i] = b
  <2>1. PICK x : x = q
    OBVIOUS
  <2>2. /\ x \in Request /\ x.status = "DONE" /\ x.start = 0 /\ x.end = 0 /\ Single /\ Whole(x)
    BY <1>2, <2>1 DEF TInv, TypeOK, Single, FileKinds
  <2>3. Len(x.sent) \in Nat /\ Passed(x) = Len(x.sent)
    BY <2>2, FieldTypes DEF Passed, Unsent
  <2>4. Expected = FileLen
    BY <1>2 DEF Expected, FileLen, Boundaries
  <2>5. Len(x.sent) = Expected
    BY <2>2, <2>3, <2>4 DEF Whole
  <2>6. \A b \in 1 .. Expected : Has(x, b)
    BY <2>2, <2>3, <2>5 DEF Whole
  <2>7. x.start .. x.end - 1 = {}
    BY <2>2
  <2>8. QED BY <2>1, <2>5, <2>6, <2>7 DEF Has
<1>3. QED BY <1>1, <1>2

(* A response of one range is never given up, one of several only at the   *)
(* edge of the buffer or after a race.                                     *)
LEMMA TInvDies == TInv => DiesOnlyAtTheEdge
<1> SUFFICES ASSUME TInv, closed = "dead" PROVE DiesOnlyAtTheEdge
  BY DEF DiesOnlyAtTheEdge
<1>1. PICK x : x = q
  OBVIOUS
<1>2. pc # "start" /\ x.status = "DEAD" /\ Sane(x) /\ (raced \/ AtTheEdge)
  BY <1>1 DEF TInv
<1>3. kind \in {"mmap", "sendfile"}
  BY <1>2 DEF Sane, Statuses, PipeStates
<1>4. Len(parts) # 1
  BY <1>1, <1>2, <1>3 DEF TInv, Single, Whole
<1>5. Len(parts) \in Nat \ {0}
  <2>1. PICK s : s = parts /\ s \in Seq(Nat \ {0}) /\ s # <<>>
    BY <1>3, TransferAssumption DEF TInv, FileKinds
  <2>2. QED BY <2>1, EmptySeq
<1>6. Len(parts) > 1
  BY <1>4, <1>5
<1>7. QED BY <1>2, <1>3, <1>6, Zenon DEF DiesOnlyAtTheEdge, AtTheEdge

(* The inductive invariant holds of every response, for every size of the  *)
(* buffer, the header, the socket and the output and for all ranges.       *)
THEOREM TransferInvariant == Spec => []TInv
<1>1. QED BY InitTInv, NextTInv, PTL DEF Spec

(* buffer_start, buffer_end, header_line and header_end stay in their      *)
(* order and in the buffer (buffer.c, pipe.c), over any sequence of        *)
(* partial writes, reads of the pipe and races.                            *)
THEOREM TransferBounded == Spec => []BufferBounds
BY TransferInvariant, TInvBounds, PTL

(* What the client was sent is in order, each byte once, whatever the      *)
(* socket takes at a time, until a handler that writes past the buffer     *)
(* (process_get, the pipe's) finds bytes in it and room in the socket.     *)
THEOREM TransferOrdered == Spec => []InOrder
BY TransferInvariant, TInvOrder, PTL

(* A response that req_flush ended as complete was sent to its last byte,  *)
(* by complete_response with every boundary and by write_from_pipe with    *)
(* all the output, unless io_shuffle met the end of a file that was cut    *)
(* short or the header alone is the answer.  Where a race of process_get   *)
(* with the buffer lost the order, every byte of a single range is still   *)
(* sent, and once; of several ranges nothing is claimed then.              *)
THEOREM TransferAllSent == Spec => []AllSent
BY TransferInvariant, TInvAllSent, PTL

(* The server gives a response up only when several ranges are asked for   *)
(* and req_write has no room for the header of a part: in init_get at the  *)
(* edge of the buffer (which get.c:448 denies), or after a race.           *)
THEOREM TransferDies == Spec => []DiesOnlyAtTheEdge
BY TransferInvariant, TInvDies, PTL
=============================================================================
